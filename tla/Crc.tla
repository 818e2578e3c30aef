--------------------------------- MODULE Crc ---------------------------------
(***************************************************************************)
(* src/proj1/crc.c: the table-driven CRC that catpng and pnginfo use.      *)
(*                                                                         *)
(* A number is the set of the positions of its bits that are 1, so that    *)
(* exclusive or is the symmetric difference.  The code has Width 32, Byte  *)
(* 8 and the polynomial 0xedb88320, its lowest bit for the highest power.  *)
(*                                                                         *)
(* A definition named Bug... is a mistaken variant of the one after it.    *)
(***************************************************************************)
EXTENDS Integers, Sequences

CONSTANTS Width, Byte, Poly,
          MaxLen     \* bound: bytes of a buffer

Bits(n) == 0 .. n - 1
Bytes == SUBSET Bits(Byte)

(* A byte fits into the register, and the polynomial, whose term 1 is its  *)
(* highest bit.                                                            *)
IsCode ==
    /\ Width \in Nat /\ Byte \in 1 .. Width /\ MaxLen \in Nat
    /\ Poly \subseteq Bits(Width) /\ Width - 1 \in Poly

Xor(a, b) == (a \ b) \cup (b \ a)
Shift(c, n) == {b - n : b \in {x \in c : x >= n}}
Low(c) == c \cap Bits(Byte)

VARIABLES
    crc_table, crc_table_computed,
    buf, c, n,      \* the buffer, the running CRC, the bytes it has seen
    crcs            \* what crc returned for a buffer

vars == <<crc_table, crc_table_computed, buf, c, n, crcs>>

Start == Bits(Width)      \* 0xffffffffL
Idle == [busy |-> FALSE, at |-> <<>>]

Init ==
    /\ crc_table = [k \in Bytes |-> {}] /\ crc_table_computed = FALSE
    /\ buf = Idle /\ c = {} /\ n = 0
    /\ crcs = <<>>

(* crc(buf, len)                                                           *)
crc(b) ==
    /\ ~buf.busy /\ Len(crcs) < 2
    /\ buf' = [busy |-> TRUE, at |-> b] /\ c' = Start /\ n' = 0
    /\ UNCHANGED <<crc_table, crc_table_computed, crcs>>

(* A byte divided bit by bit.                                              *)
Entry(k) ==
    LET step[j \in 0 .. Byte] ==
            IF j = 0 THEN k
            ELSE IF 0 \in step[j - 1] THEN Xor(Poly, Shift(step[j - 1], 1))
                                      ELSE Shift(step[j - 1], 1)
    IN step[Byte]

make_crc_table ==
    /\ buf.busy /\ ~crc_table_computed
    /\ crc_table' = [k \in Bytes |-> Entry(k)] /\ crc_table_computed' = TRUE
    /\ UNCHANGED <<buf, c, n, crcs>>

\* planted bug: the bytes of the CRC are not moved down
BugUpdate ==
    /\ buf.busy /\ crc_table_computed /\ n < Len(buf.at)
    /\ c' = Xor(crc_table[Low(Xor(c, buf.at[n + 1]))], c)
    /\ n' = n + 1
    /\ UNCHANGED <<crc_table, crc_table_computed, buf, crcs>>

update_crc ==
    /\ buf.busy /\ crc_table_computed /\ n < Len(buf.at)
    /\ c' = Xor(crc_table[Low(Xor(c, buf.at[n + 1]))], Shift(c, Byte))
    /\ n' = n + 1
    /\ UNCHANGED <<crc_table, crc_table_computed, buf, crcs>>

Return ==
    /\ buf.busy /\ crc_table_computed /\ n = Len(buf.at)
    /\ crcs' = Append(crcs, [of |-> buf.at, crc |-> Xor(c, Start)])
    /\ buf' = Idle /\ c' = {} /\ n' = 0
    /\ UNCHANGED <<crc_table, crc_table_computed>>

Buffers == UNION {[1 .. k -> Bytes] : k \in 0 .. MaxLen}

Next == (\E b \in Buffers : crc(b)) \/ make_crc_table \/ update_crc \/ Return

Spec == Init /\ [][Next]_vars

-----------------------------------------------------------------------------
(* Properties *)

(* Every variable stays within the values the code can give it.            *)
TypeOK ==
    /\ crc_table \in [Bytes -> SUBSET Bits(Width)] /\ crc_table_computed \in BOOLEAN
    /\ buf.at \in Buffers /\ c \subseteq Bits(Width) /\ n \in 0 .. Len(buf.at)

(* The register that takes the bits of a buffer one by one.                *)
Bit(b, j) == IF (j - 1) % Byte \in b[((j - 1) \div Byte) + 1] THEN {0} ELSE {}
Remainder(b) ==
    LET reg[j \in 0 .. Byte * Len(b)] ==
            IF j = 0 THEN Start
            ELSE LET r == Xor(reg[j - 1], Bit(b, j))
                 IN IF 0 \in r THEN Xor(Poly, Shift(r, 1)) ELSE Shift(r, 1)
    IN Xor(reg[Byte * Len(b)], Start)

(* The CRC by the table is the CRC by bits, for the first buffer, which    *)
(* makes the table, and for the next.                                      *)
TableRight == \A k \in DOMAIN crcs : crcs[k].crc = Remainder(crcs[k].of)

(* Two buffers of one length that differ within Width bits have different  *)
(* CRCs: the models of catpng and pnginfo, which tell CRCs by the bytes    *)
(* they were made from, rest on it.                                        *)
Burst(a, b) ==
    LET D == {j \in 1 .. Byte * Len(a) : Bit(a, j) # Bit(b, j)}
    IN \A j, k \in D : j - k < Width
BurstsFound ==
    Len(crcs) = 2 =>
        LET one == crcs[1] two == crcs[2] IN
        (Len(one.of) = Len(two.of) /\ Burst(one.of, two.of) /\ one.crc = two.crc)
            => one.of = two.of

(* crc in one: the table-driven CRC is the CRC by bits, and it tells       *)
(* buffers that differ in a burst.                                         *)
ChecksumSound == TableRight /\ BurstsFound
=============================================================================
