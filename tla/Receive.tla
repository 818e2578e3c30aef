------------------------------- MODULE Receive -------------------------------
(***************************************************************************)
(* The receive buffer that every program of the repository hands to        *)
(* libcurl: the struct RECV_BUF, what the callbacks do to it while a       *)
(* transfer runs, and write_file.  The same functions are copied into      *)
(* lab_png.h of proj2, proj3, proj4 and proj5 and into the programs of the *)
(* starter directories; the copies differ in what the write callback does  *)
(* when the buffer is full.                                                *)
(*                                                                         *)
(* A definition named Bug... is not part of the model: it is a variant of  *)
(* the definition that follows it, with a mistake that some property has   *)
(* to notice when it is put in that definition's place.                    *)
(***************************************************************************)
EXTENDS Integers, Sequences

CONSTANT BUF_INC     \* by how much a buffer grows at least

(* data is the first size bytes at buf, room what is really allocated      *)
(* there; max_size is what the struct says.  The seq of a fresh buffer is  *)
(* no number of a fragment.                                                *)
recv_buf_init(max_size, room) ==
    [data |-> <<>>, max_size |-> max_size, room |-> room, seq |-> -1]

(* memset(&recv_buf, 0, sizeof(RECV_BUF))                                  *)
Zeroed == [data |-> <<>>, max_size |-> 0, room |-> 0, seq |-> 0]

header_cb_curl(p, n) == [p EXCEPT !.seq = n]

\* planted bug: no byte is left for the terminating 0
BugFits(p, piece) == Len(p.data) + Len(piece) <= p.max_size

Fits(p, piece) == Len(p.data) + Len(piece) + 1 <= p.max_size

(* realloc keeps what was there.                                           *)
Grown(p, piece) ==
    LET more == IF BUF_INC >= Len(piece) + 1 THEN BUF_INC ELSE Len(piece) + 1
    IN [p EXCEPT !.max_size = @ + more, !.room = p.max_size + more]

Stored(p, piece) == [p EXCEPT !.data = @ \o piece]

(* The callback that grows the buffer, when realloc finds the memory.      *)
write_cb_curl3(p, piece) == Stored(IF Fits(p, piece) THEN p ELSE Grown(p, piece), piece)

(* The bytes that were stored and the 0 behind them lie in the room.       *)
InRoom(p) == p.data # <<>> => Len(p.data) + 1 <= p.room
=============================================================================
