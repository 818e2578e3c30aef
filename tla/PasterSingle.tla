---------------------------- MODULE PasterSingle ----------------------------
(***************************************************************************)
(* src/proj2/pastersingle.c: paster without threads.  One loop asks the    *)
(* server for a strip of the image; a strip that is new is copied behind   *)
(* the others into image_buffer and counted; when all are there catpng     *)
(* puts the image together from what lies in image_buffer.                 *)
(*                                                                         *)
(* A byte is a pair of a strip and a position, so that it can be told      *)
(* where the bytes at an address come from.  The receive buffer is zeroed  *)
(* before a transfer, and its outcome is not looked at: what came of a     *)
(* transfer that failed is kept like a strip.  catpng does not look at it  *)
(* either: it reads heights, lengths and data from wherever a strip was    *)
(* put, be it a strip, the beginning of one and zeros behind it, or zeros  *)
(* only (image_buffer is 50 MB of fresh memory).                           *)
(***************************************************************************)
EXTENDS Receive, FiniteSets

CONSTANTS NumParts,     \* image_strip_count
          BUF_SIZE,     \* image_buffer has room for NumParts times as much
          StripSize,    \* the bytes of a strip
          \* Up to which byte of a strip there come its IHDR's height, its
          \* IDAT's length, the IDAT's type, and the data; IEND is last.
          HeightEnd, LengthEnd, TypeEnd, DataEnd,
          NumberSize,   \* the bytes of such a number: 4 in the code
          StripHeight,  \* the rows of a strip
          RowSize,      \* the bytes of a row: 4 * width + 1
          MaxFailures   \* bound: transfers that fail, or lack the header

ASSUME PartsAssumption == NumParts \in Nat \ {0}
(* A strip fits into what the first growth of a buffer makes: 512 KB in    *)
(* the code, where a strip has less than 10000 bytes.                      *)
ASSUME SizeAssumption == /\ StripSize \in Nat \ {0}
                         /\ BUF_INC \in Nat /\ StripSize < BUF_INC
                         /\ BUF_SIZE \in Nat /\ BUF_INC <= BUF_SIZE
ASSUME FieldAssumption ==
    /\ HeightEnd \in Nat /\ LengthEnd \in Nat /\ TypeEnd \in Nat /\ DataEnd \in Nat
    /\ NumberSize \in Nat \ {0} /\ NumberSize <= HeightEnd
    /\ HeightEnd <= LengthEnd - NumberSize /\ LengthEnd <= TypeEnd
    /\ TypeEnd < DataEnd /\ DataEnd < StripSize
ASSUME RowsAssumption == StripHeight \in Nat /\ RowSize \in Nat
ASSUME BoundAssumption == MaxFailures \in Nat

Parts == 0 .. NumParts - 1
Body(i) == [k \in 1 .. StripSize |-> <<i, k>>]
Blank == <<-1, 0>>    \* a byte of image_buffer that nothing was copied to

VARIABLES
    pc,          \* "reset", "perform", "keep", "test", "catpng", "done", "astray"
    recv_buf,
    part, sent,  \* the strip the server sends, and how much of it it has sent
    horizontal_strips, counter, offset, image_buffer,
    out,         \* what catpng has made so far of all.png
    failures

vars == <<pc, recv_buf, part, sent, horizontal_strips, counter, offset,
          image_buffer, out, failures>>

Addresses == 0 .. BUF_SIZE * NumParts - 1
Unset == [seq |-> -1, buf |-> -1, data |-> <<>>, max_size |-> -1]

(* strips: what lies where strip k - 1 was put, and where in the inflated  *)
(* data catpng began to write its rows; filled is catpng's offset, height  *)
(* its total_height, and frame the strip whose signature, IHDR, IDAT type  *)
(* and IEND all.png has.                                                   *)
Nothing == -1
Empty == [strips |-> <<>>, filled |-> 0, height |-> 0, frame |-> Nothing]

Init ==
    /\ pc = "reset" /\ recv_buf = recv_buf_init(BUF_SIZE, BUF_SIZE)
    /\ part = 0 /\ sent = 0
    /\ horizontal_strips = [i \in Parts |-> Unset]
    /\ counter = 0 /\ offset = 0
    /\ image_buffer = [x \in Addresses |-> Blank]
    /\ out = Empty /\ failures = 0

kept == <<horizontal_strips, counter, offset, image_buffer>>

-----------------------------------------------------------------------------
(* Lines 65-72: a transfer.                                                *)

(* memset, and the server chooses a strip.                                 *)
Reset(i) ==
    /\ pc = "reset" /\ pc' = "perform"
    /\ recv_buf' = Zeroed
    /\ part' = i /\ sent' = 0
    /\ UNCHANGED <<kept, out, failures>>

(* The header comes before the body.                                       *)
Header ==
    /\ pc = "perform" /\ sent = 0
    /\ recv_buf' = header_cb_curl(recv_buf, part)
    /\ UNCHANGED <<pc, part, sent, kept, out, failures>>

(* libcurl delivers the body in pieces as it likes.  It goes on to the     *)
(* body without a header when the answer has none.                         *)
Piece(n) ==
    /\ pc = "perform" /\ recv_buf.seq = part
    /\ n \in 1 .. StripSize - sent
    /\ recv_buf' = write_cb_curl3(recv_buf, SubSeq(Body(part), sent + 1, sent + n))
    /\ sent' = sent + n
    /\ UNCHANGED <<pc, part, kept, out, failures>>

Complete ==
    /\ pc = "perform" /\ sent = StripSize
    /\ pc' = "keep"
    /\ UNCHANGED <<recv_buf, part, sent, kept, out, failures>>

(* The connection breaks before the header, after it, or in the body.      *)
Breaks ==
    /\ pc = "perform" /\ sent < StripSize
    /\ failures < MaxFailures /\ failures' = failures + 1
    /\ pc' = "keep"
    /\ UNCHANGED <<recv_buf, part, sent, kept, out>>

(* An answer without the header line: the number stays 0.                  *)
Unnumbered ==
    /\ pc = "perform" /\ sent = 0 /\ recv_buf = Zeroed
    /\ failures < MaxFailures /\ failures' = failures + 1
    /\ recv_buf' = write_cb_curl3(Zeroed, Body(part))
    /\ pc' = "keep" /\ sent' = StripSize
    /\ UNCHANGED <<part, kept, out>>

-----------------------------------------------------------------------------
(* Lines 74-99 *)

\* planted bug: a strip is kept although it is there
BugIsNew(n) == n < NumParts

IsNew(n) == n < NumParts /\ horizontal_strips[n].seq = -1

(* memcpy(image_buffer + offset, data, size)                               *)
Copied(data) ==
    [x \in Addresses |-> IF x \in offset .. offset + Len(data) - 1
                         THEN data[x - offset + 1] ELSE image_buffer[x]]

\* planted bug: a strip is put where its turn is
BugStore ==
    /\ pc = "keep" /\ IsNew(recv_buf.seq)
    /\ horizontal_strips' = [horizontal_strips EXCEPT ![counter] =
          [seq |-> recv_buf.seq, buf |-> offset,
           data |-> recv_buf.data, max_size |-> recv_buf.max_size]]
    /\ image_buffer' = Copied(recv_buf.data)
    /\ offset' = offset + recv_buf.max_size
    /\ counter' = counter + 1 /\ pc' = "test"
    /\ UNCHANGED <<recv_buf, part, sent, out, failures>>

\* planted bug: the next strip begins at the last byte of this one
BugKeep ==
    /\ pc = "keep" /\ IsNew(recv_buf.seq)
    /\ horizontal_strips' = [horizontal_strips EXCEPT ![recv_buf.seq] =
          [seq |-> recv_buf.seq, buf |-> offset,
           data |-> recv_buf.data, max_size |-> recv_buf.max_size]]
    /\ image_buffer' = Copied(recv_buf.data)
    /\ offset' = offset + (IF recv_buf.data = <<>> THEN 0 ELSE Len(recv_buf.data) - 1)
    /\ counter' = counter + 1 /\ pc' = "test"
    /\ UNCHANGED <<recv_buf, part, sent, out, failures>>

Keep ==
    /\ pc = "keep" /\ IsNew(recv_buf.seq)
    /\ horizontal_strips' = [horizontal_strips EXCEPT ![recv_buf.seq] =
          [seq |-> recv_buf.seq, buf |-> offset,
           data |-> recv_buf.data, max_size |-> recv_buf.max_size]]
    /\ image_buffer' = Copied(recv_buf.data)
    /\ offset' = offset + recv_buf.max_size
    /\ counter' = counter + 1 /\ pc' = "test"
    /\ UNCHANGED <<recv_buf, part, sent, out, failures>>

Drop ==
    /\ pc = "keep" /\ ~IsNew(recv_buf.seq)
    /\ pc' = "test"
    /\ UNCHANGED <<recv_buf, part, sent, kept, out, failures>>

Test ==
    /\ pc = "test"
    /\ pc' = IF counter = NumParts THEN "catpng" ELSE "reset"
    /\ UNCHANGED <<recv_buf, part, sent, kept, out, failures>>

-----------------------------------------------------------------------------
(* catpng *)

(* The first m bytes of strip i lie at x, those of some strip do, and the  *)
(* strip that lies there whole, if any does.                               *)
Lies(i, x, m) ==
    \A k \in 1 .. m : x + k - 1 \in Addresses /\ image_buffer[x + k - 1] = <<i, k>>
From(x, m) == \E i \in Parts : Lies(i, x, m)
StripAt(x) == IF From(x, StripSize) THEN CHOOSE i \in Parts : Lies(i, x, StripSize) ELSE Nothing

(* What ntohl may make of a number n whose last byte is the last'th of a   *)
(* strip at x: bytes that did not come are 0.                              *)
Reads(x, last, n) ==
    IF From(x, last) THEN {n}
    ELSE IF From(x, last - NumberSize + 1) THEN 0 .. n ELSE {0}

(* How many bytes mem_inf may say that it has inflated of the data of the  *)
(* strip at x, promised being the length it is called with, which stays    *)
(* as it is when the data are in error.  Where the data begin and then     *)
(* turn to zeros, these may mean anything, more than is promised too.      *)
(* Zeros only are an error, if they are two bytes at least, and data of    *)
(* length 0 give nothing.                                                  *)
Inflates(x, promised) ==
    IF From(x, DataEnd) THEN {promised}
    ELSE IF From(x, TypeEnd + 1) THEN 0 .. promised + 1
    ELSE IF From(x, LengthEnd) THEN {promised}
    ELSE IF From(x, LengthEnd - NumberSize + 1) THEN {0, promised} ELSE {0}

(* One turn of the loops at lines 116 and 139, which read the same.        *)
(* mem_inf does not know how much room uncompressed_data has: when it runs *)
(* past it, what the program does is not said.                             *)
Inflate ==
    /\ pc = "catpng" /\ Len(out.strips) < NumParts
    /\ LET x == horizontal_strips[Len(out.strips)].buf IN
       \E height \in Reads(x, HeightEnd, StripHeight) :
       \E length \in Inflates(x, height * RowSize) :
          IF length > height * RowSize
          THEN pc' = "astray" /\ out' = out
          ELSE /\ pc' = pc
               /\ out' = [out EXCEPT
                     !.strips = Append(@, [strip |-> StripAt(x), at |-> out.filled]),
                     !.filled = @ + length, !.height = @ + height]
    /\ UNCHANGED <<recv_buf, part, sent, kept, failures>>

(* Lines 143, 157 and 177 take all but the data and the height from strip  *)
(* 0: it is right if that is a whole strip, as IEND is the end of one.     *)
Write ==
    /\ pc = "catpng" /\ Len(out.strips) = NumParts /\ pc' = "done"
    /\ out' = [out EXCEPT !.frame = StripAt(horizontal_strips[0].buf)]
    /\ UNCHANGED <<recv_buf, part, sent, kept, failures>>

catpng == Inflate \/ Write

Transfer == Header \/ (\E n \in 1 .. StripSize : Piece(n)) \/ Complete \/ Breaks \/ Unnumbered

Next == (\E i \in Parts : Reset(i)) \/ Transfer \/ Keep \/ Drop \/ Test \/ catpng

(* libcurl goes on with a transfer, the program with its loop, and the     *)
(* server, asked again and again, sends every strip again and again.       *)
Fairness == WF_vars(Next) /\ \A i \in Parts : SF_vars(Reset(i))

Spec == Init /\ [][Next]_vars
FairSpec == Spec /\ Fairness

-----------------------------------------------------------------------------
(* Properties *)

ImageByte == (Parts \X (1 .. StripSize)) \cup {Blank}
Strip(i) == [seq : {i}, buf : Nat, data : Seq(Parts \X (1 .. StripSize)), max_size : Nat]

(* The bytes of a strip's rows.                                            *)
Rows == StripHeight * RowSize
Images == [strips : Seq([strip : Parts \cup {Nothing}, at : Nat]), filled : Nat, height : Nat,
           frame : Parts \cup {Nothing}]

(* Every variable stays within the values the code can give it.            *)
TypeOK ==
    /\ pc \in {"reset", "perform", "keep", "test", "catpng", "done", "astray"}
    /\ recv_buf.data \in Seq(Parts \X (1 .. StripSize)) /\ recv_buf.max_size \in Nat
    /\ recv_buf.seq \in Parts \cup {-1}
    /\ part \in Parts /\ sent \in 0 .. StripSize
    /\ \A i \in Parts : horizontal_strips[i] = Unset \/ horizontal_strips[i] \in Strip(i)
    /\ counter \in Nat /\ offset \in Nat
    /\ image_buffer \in [Addresses -> ImageByte]
    /\ out \in Images /\ failures \in 0 .. MaxFailures

Kept == {i \in Parts : horizontal_strips[i] # Unset}
Whole == {i \in Kept : horizontal_strips[i].data = Body(i)}

(* image_buffer is never overrun: strips of the size of the image's leave  *)
(* offset within it, even if every buffer is counted with its max_size;    *)
(* catpng, which reads as much as a strip has wherever one was put, reads  *)
(* no further either; and the rows it copies have room in                  *)
(* final_buffer_uncompressed, as long as mem_inf kept to its own.          *)
InImageBuffer ==
    /\ offset <= BUF_SIZE * NumParts
    /\ \A i \in Kept : horizontal_strips[i].buf + StripSize <= BUF_SIZE * NumParts
    /\ out.filled <= out.height * RowSize

(* All strips before i, or up to it.                                       *)
WholeBefore(i) == \A j \in 0 .. i - 1 : j \in Whole
(* The rows of strip i, where they belong and behind the signature and     *)
(* the IHDR of a strip.                                                    *)
InPosition(i) == out.strips[i + 1] = [strip |-> i, at |-> i * Rows]
Framed == out.frame # Nothing

(* What failed transfers do to the image: no more strips are missing from  *)
(* the data than transfers failed; the strips below such a one may slide   *)
(* up, never down, and those above it are where they belong.  Only when    *)
(* strip 0 is among them can the image lose its signature, IHDR or IEND.   *)
DamageBounded ==
    pc = "done" =>
        /\ Cardinality({i \in Parts : out.strips[i + 1].strip # i}) <= failures
        /\ \A i \in Parts : WholeBefore(i + 1) => InPosition(i)
        /\ \A i \in Parts : out.strips[i + 1].at <= i * Rows
        /\ 0 \in Whole => Framed
        /\ Whole = Parts => out.height = NumParts * StripHeight

(* pastersingle assembles strips: a strip that is kept whole has its rows  *)
(* in the image, in order, one that is kept otherwise is lost for good,    *)
(* and the image is made once.  A strip is in the image of the abstraction *)
(* if its rows are, and are at their place in a PNG unless a strip above   *)
(* it was spoiled.                                                         *)
Abstract == INSTANCE StripAssembly WITH
                pasted <- Whole, lost <- Kept \ Whole,
                image <- {i \in Whole : /\ pc = "done" /\ out.strips[i + 1].strip = i
                                        /\ WholeBefore(i) => InPosition(i) /\ Framed},
                written <- pc = "done"
AssemblesSafely == Abstract!Safe

(* Whatever fails and in whatever order the server sends the strips, the   *)
(* loop ends, and so does catpng unless mem_inf overruns a buffer of its.  *)
Finishes == <>(pc \in {"done", "astray"})
=============================================================================
