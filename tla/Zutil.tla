-------------------------------- MODULE Zutil --------------------------------
(***************************************************************************)
(* src/proj1/zutil.c: mem_def and mem_inf, the loops that drive zlib with  *)
(* an output buffer of CHUNK bytes and copy what it gives to their caller. *)
(*                                                                         *)
(* Data are known by what becomes of them when they are inflated:          *)
(*   "sound"  all of the data come out,                                    *)
(*   "broken" inflate reports an error once  at  bytes came out (a bad     *)
(*            checksum at the very end is at = all of them),               *)
(*   "short"  the data end early, once  at  bytes came out.                *)
(* A definition named Bug... is a mistaken variant of the one after it.    *)
(***************************************************************************)
EXTENDS Integers

CONSTANT CHUNK      \* size of the output buffer

ASSUME ChunkAssumption == CHUNK \in Nat \ {0}

AtMost(j, k) == IF j < k THEN j ELSE k

(* zlib, when done of n bytes have been given: how many the next call      *)
(* gives, and whether it says that there is an error in the data.  It      *)
(* reads on when the buffer is full: an error right behind the byte that   *)
(* fills the buffer is reported by the call that filled it.                *)
Given(n, done) == AtMost(CHUNK, n - done)
DataError(p, done) == p.flaw = "broken" /\ p.at - done <= CHUNK

(* The loop goes on while the buffer comes back full; the bytes it copied  *)
(* and counted when deflate makes n.                                       *)
mem_def(n) ==
    LET loop[def_len \in 0 .. n] ==
            LET have == Given(n, def_len) IN
            IF have = CHUNK THEN loop[def_len + have] ELSE def_len + have
    IN loop[0]

(* What is copied to dest, and what *dest_len is if it was untouched       *)
(* before: after an error the bytes of that call are not copied and        *)
(* *dest_len is not set.                                                   *)
mem_inf(p, untouched) ==
    LET loop[inf_len \in 0 .. p.at] ==
            LET have == Given(p.at, inf_len) IN
            IF DataError(p, inf_len) THEN [copied |-> inf_len, dest_len |-> untouched]
            ELSE IF have = CHUNK THEN loop[inf_len + have]
            ELSE [copied |-> inf_len + have, dest_len |-> inf_len + have]
    IN loop[0]
=============================================================================
