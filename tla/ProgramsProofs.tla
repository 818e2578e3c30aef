--------------------------- MODULE ProgramsProofs ---------------------------
(***************************************************************************)
(* The programs that are run by themselves, standing side by side: what    *)
(* failed transfers do to pastersingle's image, for every number of strips *)
(* and every size; that findpng prints every PNG of any tree (from         *)
(* FindpngProofs); and that the table-driven CRC, for every width, size of *)
(* a byte, polynomial with the term 1 and buffers of every length, is the  *)
(* CRC by bits, and no two buffers of one length that differ within the    *)
(* width have the same.  And of the small programs, for every size of the  *)
(* buffers and of the stack, every length of an answer and any number of   *)
(* calls that fail: that they keep to their memory, hand over what they    *)
(* have made, and clean up behind them.                                    *)
(***************************************************************************)
EXTENDS Programs, Counting, FiniteSetTheorems, SequenceTheorems, TLAPS

Data == Parts \X (1 .. StripSize)
Buffers == [data : Seq(Data), max_size : Nat, room : Nat, seq : Parts \cup {-1}]
Records == [seq : Parts \cup {-1}, buf : Nat \cup {-1}, data : Seq(Data), max_size : Nat \cup {-1}]

(* The first m bytes of strip i.                                           *)
First(i, m) == [k \in 1 .. m |-> <<i, k>>]

Types ==
    /\ recv_buf \in Buffers
    /\ horizontal_strips \in [Parts -> Records]

(* What has come so far: the first bytes of the strip the server sends. A  *)
(* buffer grows once at most.                                              *)
Coming ==
    /\ pc = "perform" =>
          /\ recv_buf.data = First(part, sent)
          /\ recv_buf.seq = part \/ (recv_buf = Zeroed /\ sent = 0)
    /\ pc \in {"perform", "keep"} =>
          /\ recv_buf.seq \in Parts
          /\ Len(recv_buf.data) <= StripSize
          /\ recv_buf.max_size = BUF_INC
                \/ (recv_buf.max_size = 0 /\ recv_buf.data = <<>>)

(* Each strip that is kept has room of its own before offset, and the      *)
(* bytes of a whole one are there.                                         *)
InPlace ==
    \A i \in Kept :
        /\ horizontal_strips[i].buf + Len(horizontal_strips[i].data) <= offset
        /\ i \in Whole => Lies(i, horizontal_strips[i].buf, StripSize)

(* From where a strip was put, there are the bytes of a strip to read.     *)
Readable == \A i \in Kept : horizontal_strips[i].buf + StripSize <= BUF_SIZE * counter

Counted ==
    /\ counter = Cardinality(Kept)
    /\ offset <= BUF_SIZE * counter

(* A strip that is not whole was spoiled by a transfer of its own.         *)
Spoils == IF pc = "keep" /\ recv_buf.data # Body(recv_buf.seq) THEN 1 ELSE 0
Spoiled == Cardinality(Kept \ Whole) + Spoils <= failures

Late == {"catpng", "done", "astray"}
Ended ==
    /\ pc \in Late => Kept = Parts
    /\ pc \notin Late => out = Empty

(* Of the first w strips, catpng has found the whole ones; no strip is     *)
(* further down than it belongs, and one with only whole ones before it is *)
(* where it belongs, as is where the next one comes.                       *)
Stacked(w) ==
    /\ w <= NumParts
    /\ \A k \in 1 .. w :
          /\ k - 1 \in Whole => out.strips[k].strip = k - 1
          /\ out.strips[k].at <= (k - 1) * Rows
          /\ WholeBefore(k - 1) => out.strips[k].at = (k - 1) * Rows
    /\ out.filled <= w * Rows /\ out.filled <= out.height * RowSize
    /\ WholeBefore(w) => out.filled = w * Rows /\ out.height = w * StripHeight

Finished ==
    pc = "done" => Len(out.strips) = NumParts /\ (0 \in Whole => Framed)

Assembled == Stacked(Len(out.strips)) /\ Finished

IInv == TypeOK /\ Types /\ Coming /\ InPlace /\ Readable /\ Counted /\ Spoiled /\ Ended /\ Assembled

LEMMA PartsFinite ==
    /\ IsFiniteSet(Parts) /\ Cardinality(Parts) = NumParts
    /\ \A S : S \subseteq Parts => IsFiniteSet(S) /\ Cardinality(S) \in Nat /\ Cardinality(S) <= NumParts
<1>1. IsFiniteSet(Parts) /\ Cardinality(Parts) = NumParts
  <2>1. 0 \in Int /\ NumParts - 1 \in Int /\ 0 <= NumParts - 1 
    BY PartsAssumption
  <2> QED BY <2>1, PartsAssumption, FS_Interval DEF Parts
<1>2. ASSUME NEW S, S \subseteq Parts
      PROVE IsFiniteSet(S) /\ Cardinality(S) \in Nat /\ Cardinality(S) <= NumParts
  BY <1>1, <1>2, FS_Subset, FS_CardinalityType
<1> QED BY <1>1, <1>2

(* The body is what has come when all has come, and a piece continues what *)
(* has come.                                                               *)
LEMMA Pieces ==
    ASSUME NEW i \in Parts, NEW m \in 0 .. StripSize
    PROVE /\ First(i, m) \in Seq(Data) /\ Len(First(i, m)) = m
          /\ Body(i) = First(i, StripSize)
          /\ \A more \in 1 .. StripSize - m :
                /\ SubSeq(Body(i), m + 1, m + more) \in Seq(Data)
                /\ Len(SubSeq(Body(i), m + 1, m + more)) = more
                /\ First(i, m) \o SubSeq(Body(i), m + 1, m + more) = First(i, m + more)
<1>0. StripSize \in Nat \ {0}
  BY SizeAssumption
<1>1. First(i, m) \in Seq(Data) /\ Len(First(i, m)) = m
  BY <1>0 DEF First, Data
<1>2. Body(i) = First(i, StripSize) /\ Body(i) \in Seq(Data) /\ Len(Body(i)) = StripSize
  BY <1>0 DEF First, Data, Body
<1>3. ASSUME NEW more \in 1 .. StripSize - m
      PROVE /\ SubSeq(Body(i), m + 1, m + more) \in Seq(Data)
            /\ Len(SubSeq(Body(i), m + 1, m + more)) = more
            /\ First(i, m) \o SubSeq(Body(i), m + 1, m + more) = First(i, m + more)
  <2> DEFINE p == SubSeq(Body(i), m + 1, m + more)
  <2>1. p \in Seq(Data) /\ Len(p) = more
    BY <1>0, <1>2
  <2>2. \A k \in 1 .. more : p[k] = <<i, m + k>>
    BY <1>0, <1>2 DEF Body
  <2> HIDE DEF p
  <2>4. First(i, m) \o p \in Seq(Data) /\ Len(First(i, m) \o p) = m + more
    BY <1>1, <2>1
  <2>5. \A k \in 1 .. m + more : (First(i, m) \o p)[k] = <<i, k>>
    BY <1>1, <2>1, <2>2 DEF First
  <2>3. First(i, m + more) \in Seq(Data) /\ Len(First(i, m + more)) = m + more
    BY <1>0 DEF First, Data
  <2>6. \A k \in 1 .. m + more : First(i, m + more)[k] = <<i, k>>
    BY DEF First
  <2>7. First(i, m) \o p = First(i, m + more)
    BY <2>3, <2>4, <2>5, <2>6, SeqEqual
  <2> QED BY <2>1, <2>7 DEF p
<1> QED BY <1>1, <1>2, <1>3

(* Before catpng begins there is nothing of the image.                     *)
LEMMA NothingMade == ASSUME out' = Empty, pc' # "done" PROVE Assembled'
<1>1. Rows \in Nat /\ NumParts \in Nat /\ StripHeight \in Nat /\ RowSize \in Nat
  BY RowsAssumption, PartsAssumption DEF Rows
<1>2. Len(<<>>) = 0 /\ 0 * Rows = 0 /\ 0 * RowSize = 0 /\ 0 * StripHeight = 0
  BY <1>1
<1>3. out'.strips = <<>> /\ out'.filled = 0 /\ out'.height = 0
  BY DEF Empty
<1>4. Stacked(0)'
  BY <1>1, <1>2, <1>3 DEF Stacked
<1> QED BY <1>2, <1>3, <1>4 DEF Assembled, Finished

LEMMA InitInv == Init => IInv
<1> SUFFICES ASSUME Init PROVE IInv
  OBVIOUS
<1> USE DEF Init
<1>1. Blank \in ImageByte /\ Unset \in Records /\ 0 \in Parts
  BY PartsAssumption DEF ImageByte, Unset, Records, Parts
<1>2. Kept = {} /\ Whole = {}
  BY DEF Kept, Whole
<1>3. recv_buf \in Buffers
  BY SizeAssumption DEF Buffers, recv_buf_init
<1>9. Empty \in Images
  <2>1. <<>> \in Seq([strip : Parts \cup {Nothing}, at : Nat])
    OBVIOUS
  <2> QED BY <2>1 DEF Empty, Images
<1>4. TypeOK
  BY <1>1, <1>3, <1>9, SizeAssumption, BoundAssumption DEF TypeOK, Buffers, Data
<1>5. Types
  BY <1>1, <1>3 DEF Types
<1>6. Cardinality(Kept) = 0 /\ Cardinality(Kept \ Whole) = 0
  BY <1>2, FS_EmptySet
<1>7. Counted /\ Spoiled
  BY <1>6, SizeAssumption DEF Counted, Spoiled, Spoils
<1>8. Assembled
  <2>1. Rows \in Nat /\ NumParts \in Nat /\ StripHeight \in Nat /\ RowSize \in Nat
    BY RowsAssumption, PartsAssumption DEF Rows
  <2>2. Len(<<>>) = 0 /\ 0 * Rows = 0 /\ 0 * RowSize = 0 /\ 0 * StripHeight = 0
    BY <2>1
  <2>3. out.strips = <<>> /\ out.filled = 0 /\ out.height = 0
    BY DEF Empty
  <2>4. Stacked(0)
    BY <2>1, <2>2, <2>3 DEF Stacked
  <2> QED BY <2>2, <2>3, <2>4 DEF Assembled, Finished
<1> QED
  BY <1>2, <1>4, <1>5, <1>7, <1>8 DEF IInv, Coming, InPlace, Readable, Ended, Late

(* A transfer leaves alone what is kept.                                   *)
LEMMA KeptStays ==
    ASSUME UNCHANGED <<horizontal_strips, image_buffer>>
    PROVE /\ Kept' = Kept /\ Whole' = Whole
          /\ \A i, x, m : Lies(i, x, m)' <=> Lies(i, x, m)
          /\ \A x : StripAt(x)' = StripAt(x)
          /\ \A w : WholeBefore(w)' <=> WholeBefore(w)
BY DEF Kept, Whole, Lies, From, StripAt, WholeBefore

LEMMA OtherStep ==
    ASSUME IInv, UNCHANGED kept, Types', Coming', TypeOK', Spoils' - Spoils <= failures' - failures,
           Ended', Assembled'
    PROVE IInv'
<1>1. /\ Kept' = Kept /\ Whole' = Whole
      /\ \A i, x, m : Lies(i, x, m)' <=> Lies(i, x, m)
  BY KeptStays DEF kept
<1>2. InPlace' /\ Readable'
  BY <1>1 DEF IInv, InPlace, Readable, kept
<1>3. Counted'
  BY <1>1 DEF IInv, Counted, kept
<1>4. Spoiled'
  <2>1. Cardinality(Kept \ Whole) \in Nat
    BY PartsFinite DEF Kept, Whole
  <2>2. Spoils \in {0, 1} /\ Spoils' \in {0, 1}
    BY DEF Spoils
  <2>3. failures \in Nat /\ failures' \in Nat
    BY BoundAssumption DEF IInv, TypeOK
  <2>4. Cardinality(Kept \ Whole)' = Cardinality(Kept \ Whole)
    BY <1>1
  <2>5. Cardinality(Kept \ Whole) + Spoils <= failures
    BY DEF IInv, Spoiled
  <2>6. Spoils' - Spoils <= failures' - failures
    OBVIOUS
  <2> DEFINE a == Cardinality(Kept \ Whole)
             s == Spoils
             t == Spoils'
             f == failures
             g == failures'
  <2>7. a \in Nat /\ s \in Int /\ t \in Int /\ f \in Nat /\ g \in Nat
        /\ t - s <= g - f /\ a + s <= f
    <3>1. a \in Nat
      BY <2>1
    <3>2. s \in Int /\ t \in Int
      BY <2>2
    <3>3. f \in Nat /\ g \in Nat
      BY <2>3
    <3>4. t - s <= g - f
      BY <2>6
    <3>5. a + s <= f
      BY <2>5
    <3> QED BY <3>1, <3>2, <3>3, <3>4, <3>5
  <2> HIDE DEF a, s, t, f, g
  <2>8. a + t <= g
    BY <2>7
  <2>9. Cardinality(Kept \ Whole)' + Spoils' <= failures'
    BY <2>4, <2>8 DEF a, t, g
  <2> QED BY <2>9 DEF Spoiled
<1> QED BY <1>2, <1>3, <1>4 DEF IInv

LEMMA EarlyStep ==
    ASSUME IInv, pc \notin Late, out' = out, pc' \in {"reset", "perform", "keep", "test"}
    PROVE Ended' /\ Assembled'
<1>1. out' = Empty
  BY DEF IInv, Ended
<1>2. Ended' /\ pc' # "done"
  BY <1>1 DEF Ended, Late
<1> QED BY <1>1, <1>2, NothingMade

(* A buffer that has nothing or has grown takes the next piece of a strip, *)
(* and grows if it had nothing.                                            *)
LEMMA Written ==
    ASSUME NEW p \in Buffers, NEW piece \in Seq(Data), Len(piece) >= 1,
           Len(p.data) + Len(piece) <= StripSize,
           p.max_size = BUF_INC \/ (p.max_size = 0 /\ p.data = <<>>)
    PROVE /\ write_cb_curl3(p, piece) \in Buffers
          /\ write_cb_curl3(p, piece).data = p.data \o piece
          /\ write_cb_curl3(p, piece).max_size = BUF_INC
          /\ write_cb_curl3(p, piece).seq = p.seq
          /\ Len(p.data \o piece) = Len(p.data) + Len(piece)
<1>0. BUF_INC \in Nat /\ StripSize \in Nat /\ StripSize < BUF_INC
  BY SizeAssumption
<1>1. p.data \in Seq(Data) /\ Len(p.data) \in Nat /\ Len(piece) \in Nat
  BY DEF Buffers
<1>2. p.data \o piece \in Seq(Data) /\ Len(p.data \o piece) = Len(p.data) + Len(piece)
  BY <1>1, ConcatProperties
<1>3. CASE Fits(p, piece)
  <2>1. p.max_size = BUF_INC
    BY <1>0, <1>1, <1>3, EmptySeq DEF Fits
  <2>2. write_cb_curl3(p, piece) = [p EXCEPT !.data = @ \o piece]
    BY <1>3 DEF write_cb_curl3, Stored
  <2> QED BY <1>2, <2>1, <2>2 DEF Buffers
<1>4. CASE ~Fits(p, piece)
  <2>1. p.max_size = 0
    BY <1>0, <1>1, <1>4 DEF Fits
  <2>2. Grown(p, piece) = [p EXCEPT !.max_size = BUF_INC, !.room = BUF_INC]
    <3>1. BUF_INC >= Len(piece) + 1
      BY <1>0, <1>1
    <3>2. Grown(p, piece) = [p EXCEPT !.max_size = @ + BUF_INC, !.room = p.max_size + BUF_INC]
      BY <3>1 DEF Grown
    <3>3. p.max_size + BUF_INC = BUF_INC
      BY <1>0, <2>1
    <3> QED BY <3>2, <3>3 DEF Buffers
  <2>3. write_cb_curl3(p, piece) = [[p EXCEPT !.max_size = BUF_INC, !.room = BUF_INC] EXCEPT !.data = @ \o piece]
    BY <1>4, <2>2 DEF write_cb_curl3, Stored
  <2> QED BY <1>0, <1>2, <2>3 DEF Buffers
<1> QED BY <1>2, <1>3, <1>4

LEMMA Kinds ==
    IInv => /\ out \in Images
            /\ part \in Parts /\ sent \in 0 .. StripSize /\ recv_buf \in Buffers
            /\ failures \in 0 .. MaxFailures /\ MaxFailures \in Nat /\ StripSize \in Nat \ {0}
            /\ horizontal_strips \in [Parts -> Records] /\ counter \in Nat /\ offset \in Nat
            /\ image_buffer \in [Addresses -> ImageByte]
BY SizeAssumption, BoundAssumption DEF IInv, TypeOK, Types

(* The steps of a transfer, and those that only look.                      *)
LEMMA ResetStep == ASSUME IInv, NEW i \in Parts, Reset(i) PROVE IInv'
<1>1. pc = "reset" /\ pc' = "perform" /\ recv_buf' = Zeroed /\ part' = i /\ sent' = 0
      /\ UNCHANGED <<kept, out, failures>>
  BY DEF Reset
<1>2. Zeroed \in Buffers /\ Zeroed.data = <<>> /\ Zeroed.seq \in Parts /\ Zeroed.max_size = 0
  BY PartsAssumption DEF Zeroed, Buffers, Parts
<1>3. TypeOK' /\ Types'
  BY <1>1, <1>2, SizeAssumption DEF IInv, TypeOK, Types, kept, Buffers, Data
<1>4. First(i, 0) = <<>>
  BY Pieces, EmptySeq, Kinds
<1>5. Coming'
  BY <1>1, <1>2, <1>4, SizeAssumption DEF Coming
<1>6. Spoils = 0 /\ Spoils' = 0
  BY <1>1 DEF Spoils
<1>7. failures' - failures = 0
  BY <1>1, Kinds
<1>8. Ended' /\ Assembled'
  BY <1>1, EarlyStep DEF Late
<1> QED BY <1>1, <1>3, <1>5, <1>6, <1>7, <1>8, OtherStep

LEMMA HeaderStep == ASSUME IInv, Header PROVE IInv'
<1>1. pc = "perform" /\ pc' = pc /\ recv_buf' = [recv_buf EXCEPT !.seq = part]
      /\ UNCHANGED <<part, sent, kept, out, failures>>
  BY DEF Header, header_cb_curl
<1>2. recv_buf' \in Buffers /\ recv_buf'.seq = part
      /\ recv_buf'.data = recv_buf.data /\ recv_buf'.max_size = recv_buf.max_size
  BY <1>1, Kinds DEF Buffers
<1>3. TypeOK' /\ Types'
  BY <1>1, <1>2, Kinds DEF IInv, TypeOK, Types, kept, Buffers, Data
<1>5. Coming'
  BY <1>1, <1>2, Kinds DEF IInv, Coming
<1>6. Spoils = 0 /\ Spoils' = 0
  BY <1>1 DEF Spoils
<1>7. failures' - failures = 0
  BY <1>1, Kinds
<1>8. Ended' /\ Assembled'
  BY <1>1, EarlyStep DEF Late
<1> QED BY <1>1, <1>3, <1>5, <1>6, <1>7, <1>8, OtherStep

LEMMA PieceStep == ASSUME IInv, NEW more \in 1 .. StripSize, Piece(more) PROVE IInv'
<1> DEFINE piece == SubSeq(Body(part), sent + 1, sent + more)
<1>1. pc = "perform" /\ pc' = pc /\ recv_buf.seq = part /\ more \in 1 .. StripSize - sent
      /\ recv_buf' = write_cb_curl3(recv_buf, piece) /\ sent' = sent + more
      /\ UNCHANGED <<part, kept, out, failures>>
  BY DEF Piece
<1>2. /\ piece \in Seq(Data) /\ Len(piece) = more
      /\ First(part, sent) \o piece = First(part, sent + more) /\ Len(First(part, sent)) = sent
  <2>1. part \in Parts /\ sent \in 0 .. StripSize
    BY Kinds
  <2>2. /\ Len(First(part, sent)) = sent
        /\ \A l \in 1 .. StripSize - sent :
              /\ SubSeq(Body(part), sent + 1, sent + l) \in Seq(Data)
              /\ Len(SubSeq(Body(part), sent + 1, sent + l)) = l
              /\ First(part, sent) \o SubSeq(Body(part), sent + 1, sent + l) = First(part, sent + l)
    BY <2>1, Pieces
  <2> QED BY <1>1, <2>2, Zenon
<1>3. /\ recv_buf.data = First(part, sent)
      /\ recv_buf.max_size = BUF_INC \/ (recv_buf.max_size = 0 /\ recv_buf.data = <<>>)
  BY <1>1 DEF IInv, Coming
<1>4. more >= 1 /\ sent + more <= StripSize /\ sent + more \in 0 .. StripSize
  BY <1>1, Kinds
<1> HIDE DEF piece
<1>5. /\ recv_buf' \in Buffers /\ recv_buf'.data = First(part, sent + more)
      /\ recv_buf'.max_size = BUF_INC /\ recv_buf'.seq = part
      /\ Len(recv_buf'.data) = sent + more
  <2>1. Len(recv_buf.data) + Len(piece) <= StripSize /\ Len(piece) >= 1 /\ recv_buf \in Buffers
    BY <1>2, <1>3, <1>4, Kinds
  <2>2. /\ write_cb_curl3(recv_buf, piece) \in Buffers
        /\ write_cb_curl3(recv_buf, piece).data = recv_buf.data \o piece
        /\ write_cb_curl3(recv_buf, piece).max_size = BUF_INC
        /\ write_cb_curl3(recv_buf, piece).seq = recv_buf.seq
        /\ Len(recv_buf.data \o piece) = Len(recv_buf.data) + Len(piece)
    BY <1>2, <1>3, <2>1, Written
  <2> QED BY <1>1, <1>2, <1>3, <2>2
<1>6. TypeOK' /\ Types'
  BY <1>1, <1>4, <1>5, Kinds DEF IInv, TypeOK, Types, kept, Buffers, Data
<1>7. Coming'
  BY <1>1, <1>4, <1>5, Kinds DEF Coming
<1>8. Spoils = 0 /\ Spoils' = 0
  BY <1>1 DEF Spoils
<1>9. failures' - failures = 0
  BY <1>1, Kinds
<1>10. Ended' /\ Assembled'
  BY <1>1, EarlyStep DEF Late
<1> QED BY <1>1, <1>6, <1>7, <1>8, <1>9, <1>10, OtherStep

LEMMA CompleteStep == ASSUME IInv, Complete PROVE IInv'
<1>1. pc = "perform" /\ pc' = "keep" /\ sent = StripSize
      /\ UNCHANGED <<recv_buf, part, sent, kept, out, failures>>
  BY DEF Complete
<1>2. TypeOK' /\ Types'
  BY <1>1 DEF IInv, TypeOK, Types, kept
<1>3. recv_buf.data = Body(part) /\ recv_buf.seq = part
  <2>1. part \in Parts /\ StripSize \in 0 .. StripSize /\ sent # 0
    BY <1>1, Kinds
  <2>2. Body(part) = First(part, StripSize)
    BY <2>1, Pieces
  <2> QED BY <1>1, <2>1, <2>2 DEF IInv, Coming
<1>4. Coming'
  BY <1>1 DEF IInv, Coming
<1>5. Spoils = 0 /\ Spoils' = 0
  BY <1>1, <1>3 DEF Spoils
<1>6. failures' - failures = 0
  BY <1>1, Kinds
<1>7. Ended' /\ Assembled'
  BY <1>1, EarlyStep DEF Late
<1> QED BY <1>1, <1>2, <1>4, <1>5, <1>6, <1>7, OtherStep

LEMMA BreaksStep == ASSUME IInv, Breaks PROVE IInv'
<1>1. pc = "perform" /\ pc' = "keep" /\ failures < MaxFailures /\ failures' = failures + 1
      /\ UNCHANGED <<recv_buf, part, sent, kept, out>>
  BY DEF Breaks
<1>2. failures' \in 0 .. MaxFailures /\ failures' - failures = 1
  BY <1>1, Kinds
<1>3. TypeOK' /\ Types'
  BY <1>1, <1>2 DEF IInv, TypeOK, Types, kept
<1>4. Coming'
  BY <1>1 DEF IInv, Coming
<1>5. Spoils = 0 /\ Spoils' \in {0, 1}
  BY <1>1 DEF Spoils
<1>6. Spoils' - Spoils <= failures' - failures
  BY <1>2, <1>5
<1>7. Ended' /\ Assembled'
  BY <1>1, EarlyStep DEF Late
<1> QED BY <1>1, <1>3, <1>4, <1>6, <1>7, OtherStep

LEMMA UnnumberedStep == ASSUME IInv, Unnumbered PROVE IInv'
<1>1. pc = "perform" /\ pc' = "keep" /\ failures < MaxFailures /\ failures' = failures + 1
      /\ recv_buf' = write_cb_curl3(Zeroed, Body(part)) /\ sent' = StripSize
      /\ UNCHANGED <<part, kept, out>>
  BY DEF Unnumbered
<1>2. failures' \in 0 .. MaxFailures /\ failures' - failures = 1
  BY <1>1, Kinds
<1>3. /\ Zeroed \in Buffers /\ Zeroed.data = <<>> /\ Zeroed.seq = 0 /\ 0 \in Parts
      /\ Zeroed.max_size = 0 /\ Len(Zeroed.data) = 0
  BY PartsAssumption DEF Zeroed, Buffers, Parts
<1>4. Body(part) \in Seq(Data) /\ Len(Body(part)) = StripSize
  <2>1. part \in Parts /\ StripSize \in 0 .. StripSize
    BY Kinds
  <2> QED BY <2>1, Pieces
<1>5. /\ recv_buf' \in Buffers /\ recv_buf'.seq = 0 /\ recv_buf'.max_size = BUF_INC
      /\ Len(recv_buf'.data) = StripSize
  <2>1. Len(Zeroed.data) + Len(Body(part)) <= StripSize /\ Len(Body(part)) >= 1
    BY <1>3, <1>4, Kinds
  <2>2. /\ write_cb_curl3(Zeroed, Body(part)) \in Buffers
        /\ write_cb_curl3(Zeroed, Body(part)).data = Zeroed.data \o Body(part)
        /\ write_cb_curl3(Zeroed, Body(part)).max_size = BUF_INC
        /\ write_cb_curl3(Zeroed, Body(part)).seq = Zeroed.seq
        /\ Len(Zeroed.data \o Body(part)) = Len(Zeroed.data) + Len(Body(part))
    BY <1>3, <1>4, <2>1, Written
  <2> QED BY <1>1, <1>3, <1>4, <2>2, Kinds
<1>6. TypeOK' /\ Types'
  BY <1>1, <1>2, <1>5, Kinds DEF IInv, TypeOK, Types, kept, Buffers, Data
<1>7. Coming'
  BY <1>1, <1>3, <1>5, Kinds DEF Coming
<1>8. Spoils = 0 /\ Spoils' \in {0, 1}
  BY <1>1 DEF Spoils
<1>9. Spoils' - Spoils <= failures' - failures
  BY <1>2, <1>8
<1>10. Ended' /\ Assembled'
  BY <1>1, EarlyStep DEF Late
<1> QED BY <1>1, <1>6, <1>7, <1>9, <1>10, OtherStep

LEMMA DropStep == ASSUME IInv, Drop PROVE IInv'
<1>1. pc = "keep" /\ pc' = "test" /\ UNCHANGED <<recv_buf, part, sent, kept, out, failures>>
  BY DEF Drop
<1>2. TypeOK' /\ Types'
  BY <1>1 DEF IInv, TypeOK, Types, kept
<1>3. Spoils \in {0, 1} /\ Spoils' = 0 /\ failures' - failures = 0
  BY <1>1, Kinds DEF Spoils
<1>4. Spoils' - Spoils <= failures' - failures
  BY <1>3
<1>5. Coming' /\ Ended' /\ Assembled'
  BY <1>1, EarlyStep DEF Coming, Late
<1> QED BY <1>1, <1>2, <1>4, <1>5, OtherStep

LEMMA TestStep == ASSUME IInv, Test PROVE IInv'
<1>1. pc = "test" /\ pc' = (IF counter = NumParts THEN "catpng" ELSE "reset")
      /\ UNCHANGED <<recv_buf, part, sent, kept, out, failures>>
  BY DEF Test
<1>2. TypeOK' /\ Types'
  BY <1>1 DEF IInv, TypeOK, Types, kept
<1>3. Spoils = 0 /\ Spoils' = 0 /\ failures' - failures = 0
  BY <1>1, Kinds DEF Spoils
<1>4. Kept' = Kept
  BY <1>1, KeptStays DEF kept
<1>5. counter = NumParts => Kept = Parts
  <2>1. Kept \subseteq Parts /\ counter = Cardinality(Kept)
    BY DEF Kept, IInv, Counted
  <2> QED BY <2>1, PartsFinite, FS_Subset
<1>6. Coming' /\ Ended' /\ Assembled'
  <2>1. out' = Empty /\ pc' # "done"
    BY <1>1 DEF IInv, Ended, Late
  <2> QED BY <1>1, <1>4, <1>5, <2>1, NothingMade DEF Coming, Ended, Late
<1> QED BY <1>1, <1>2, <1>3, <1>6, OtherStep

LEMMA StripType == \A x : StripAt(x) \in Parts \cup {Nothing}
BY DEF StripAt, From

(* catpng finds a whole strip that lies at x, and no other one there.      *)
LEMMA LiesThere ==
    ASSUME NEW i \in Parts, NEW x, Lies(i, x, StripSize)
    PROVE StripAt(x) = i /\ \A m \in 1 .. StripSize : From(x, m)
<1>1. StripSize \in Nat /\ 1 \in 1 .. StripSize
  BY SizeAssumption
<1>2. ASSUME NEW m \in 1 .. StripSize PROVE From(x, m)
  <2>1. \A k \in 1 .. m : k \in 1 .. StripSize
    BY <1>1
  <2>2. Lies(i, x, m)
    BY <2>1 DEF Lies
  <2> QED BY <2>2 DEF From
<1>3. ASSUME NEW j \in Parts, Lies(j, x, StripSize) PROVE j = i
  BY <1>1, <1>3 DEF Lies
<1>4. From(x, StripSize)
  BY <1>1, <1>2
<1> QED BY <1>2, <1>3, <1>4 DEF StripAt

(* What a strip gives to the image is what it should when it is whole, and *)
(* never more, unless mem_inf runs past its buffer.                        *)
LEMMA GivesAlong ==
    ASSUME NEW x, NEW height \in Reads(x, HeightEnd, StripHeight),
           NEW length \in Inflates(x, height * RowSize), ~(length > height * RowSize)
    PROVE /\ height \in Nat /\ length \in Nat /\ height * RowSize \in Nat
          /\ length <= height * RowSize /\ length <= Rows
          /\ \A i \in Parts : Lies(i, x, StripSize) => height = StripHeight /\ length = Rows
<1>1. /\ StripHeight \in Nat /\ RowSize \in Nat /\ Rows \in Nat /\ StripSize \in Nat
      /\ HeightEnd \in 1 .. StripSize /\ DataEnd \in 1 .. StripSize
  BY RowsAssumption, SizeAssumption, FieldAssumption DEF Rows
<1>2. height \in 0 .. StripHeight
  BY <1>1 DEF Reads
<1>3. height * RowSize \in Nat /\ height * RowSize <= Rows
  BY <1>1, <1>2 DEF Rows
<1> DEFINE promised == height * RowSize
<1>4. promised \in Nat /\ promised <= Rows /\ length \in Inflates(x, promised) /\ ~(length > promised)
  BY <1>3
<1>5. ASSUME NEW i \in Parts, Lies(i, x, StripSize) PROVE height = StripHeight /\ length = Rows
  <2>1. From(x, HeightEnd) /\ From(x, DataEnd)
    BY <1>1, <1>5, LiesThere
  <2>2. height = StripHeight
    BY <2>1 DEF Reads
  <2> QED BY <2>1, <2>2 DEF Inflates, Rows
<1> HIDE DEF promised
<1>6. length \in Nat /\ length <= promised
  BY <1>4 DEF Inflates
<1>7. length <= Rows
  BY <1>1, <1>4, <1>6
<1> QED BY <1>2, <1>3, <1>5, <1>6, <1>7 DEF promised

LEMMA Multiples ==
    ASSUME NEW k \in Nat, NEW d \in Nat
    PROVE k * d \in Nat /\ (k + 1) * d \in Nat /\ (k + 1) * d = k * d + d
OBVIOUS

(* One more strip.                                                         *)
LEMMA InflateStep == ASSUME IInv, Inflate, NEW w, w = Len(out.strips) PROVE IInv'
<1> DEFINE x == horizontal_strips[w].buf
<1>1. /\ pc = "catpng" /\ w < NumParts /\ UNCHANGED <<recv_buf, part, sent, kept, failures>>
      /\ \E height \in Reads(x, HeightEnd, StripHeight) :
         \E length \in Inflates(x, height * RowSize) :
           IF length > height * RowSize
           THEN pc' = "astray" /\ out' = out
           ELSE /\ pc' = pc
                /\ out' = [out EXCEPT
                      !.strips = Append(@, [strip |-> StripAt(x), at |-> out.filled]),
                      !.filled = @ + length, !.height = @ + height]
  BY DEF Inflate
<1>2. /\ out \in Images /\ out.strips \in Seq([strip : Parts \cup {Nothing}, at : Nat])
      /\ out.filled \in Nat /\ out.height \in Nat /\ w \in Nat
  BY Kinds DEF Images
<1>3. NumParts \in Nat /\ Rows \in Nat /\ StripHeight \in Nat /\ RowSize \in Nat
  BY RowsAssumption, PartsAssumption DEF Rows
<1>4. /\ Kept' = Kept /\ Kept = Parts /\ Whole' = Whole
      /\ \A m : WholeBefore(m)' <=> WholeBefore(m)
  BY <1>1, KeptStays DEF kept, IInv, Ended, Late
<1>5. Spoils = 0 /\ (pc' # "keep" => Spoils' = 0) /\ failures' - failures = 0
  BY <1>1, Kinds DEF Spoils
<1>6. Stacked(w)
  BY DEF IInv, Assembled
<1>7. CASE pc' = "astray" /\ out' = out
  <2>1. TypeOK' /\ Types'
    BY <1>1, <1>7 DEF IInv, TypeOK, Types, kept
  <2>2. Coming' /\ Ended'
    BY <1>4, <1>7 DEF Coming, Ended, Late
  <2>3. Assembled'
    BY <1>4, <1>6, <1>7 DEF Assembled, Stacked, Finished
  <2> QED BY <1>1, <1>5, <1>7, <2>1, <2>2, <2>3, OtherStep
<1>8. ASSUME NEW height \in Reads(x, HeightEnd, StripHeight),
             NEW length \in Inflates(x, height * RowSize), ~(length > height * RowSize),
             pc' = pc,
             out' = [out EXCEPT
                       !.strips = Append(@, [strip |-> StripAt(x), at |-> out.filled]),
                       !.filled = @ + length, !.height = @ + height]
      PROVE IInv'
  <2> DEFINE new == [strip |-> StripAt(x), at |-> out.filled]
  <2>1. /\ height \in Nat /\ length \in Nat /\ height * RowSize \in Nat
        /\ length <= height * RowSize /\ length <= Rows
        /\ \A i \in Parts : Lies(i, x, StripSize) => height = StripHeight /\ length = Rows
    BY <1>8, GivesAlong
  <2>2. w \in Parts /\ (w \in Whole => Lies(w, x, StripSize))
    BY <1>1, <1>2, <1>3, <1>4 DEF IInv, InPlace, Parts
  <2>3. new \in [strip : Parts \cup {Nothing}, at : Nat]
    BY <1>2, StripType
  <2>4. /\ out'.strips = Append(out.strips, new) /\ out'.filled = out.filled + length
        /\ out'.height = out.height + height /\ out'.frame = out.frame
    BY <1>2, <1>8 DEF Images
  <2>5. w \in Whole => new.strip = w /\ height = StripHeight /\ length = Rows
    BY <2>1, <2>2, LiesThere
  <2>6. new.at = out.filled
    OBVIOUS
  <2> HIDE DEF new
  <2>7. /\ Len(out'.strips) = w + 1 /\ out'.strips[w + 1] = new
        /\ \A k \in 1 .. w : out'.strips[k] = out.strips[k]
    BY <1>2, <2>3, <2>4
  <2>8. out' \in Images
    <3> DEFINE Strips == Seq([strip : Parts \cup {Nothing}, at : Nat])
    <3>1. Append(out.strips, new) \in Strips
      BY <1>2, <2>3
    <3>2. out.filled + length \in Nat /\ out.height + height \in Nat
      BY <1>2, <2>1
    <3>3. out' = [out EXCEPT !.strips = Append(@, new), !.filled = @ + length, !.height = @ + height]
      BY <1>8 DEF new
    <3>4. out \in [strips : Strips, filled : Nat, height : Nat, frame : Parts \cup {Nothing}]
      BY <1>2 DEF Images
    <3> HIDE DEF Strips, new
    <3>5. out' \in [strips : Strips, filled : Nat, height : Nat, frame : Parts \cup {Nothing}]
      BY <3>1, <3>2, <3>3, <3>4
    <3> QED BY <3>5 DEF Images, Strips
  <2>9. TypeOK' /\ Types'
    BY <1>1, <1>8, <2>8 DEF IInv, TypeOK, Types, kept
  <2>10. Coming' /\ Ended'
    BY <1>1, <1>4, <1>8 DEF Coming, Ended, Late
  <2>11. /\ w * Rows \in Nat /\ (w + 1) * Rows = w * Rows + Rows
         /\ w * StripHeight \in Nat /\ (w + 1) * StripHeight = w * StripHeight + StripHeight
    BY <1>2, <1>3, Multiples
  <2>12. (out.height + height) * RowSize = out.height * RowSize + height * RowSize
         /\ out.height * RowSize \in Nat
    BY <1>2, <1>3, <2>1
  <2>13. WholeBefore(w + 1) => WholeBefore(w) /\ w \in Whole
    BY <1>2 DEF WholeBefore
  <2>14. /\ out.filled <= w * Rows /\ out.filled <= out.height * RowSize
         /\ WholeBefore(w) => out.filled = w * Rows /\ out.height = w * StripHeight
    BY <1>6 DEF Stacked
  <2>15. out'.filled <= (w + 1) * Rows
    <3> DEFINE a == w * Rows
               b == (w + 1) * Rows
    <3>1. a \in Nat /\ b = a + Rows /\ out.filled <= a
      BY <2>11, <2>14
    <3> HIDE DEF a, b
    <3>2. out'.filled <= b
      BY <1>2, <1>3, <2>1, <2>4, <3>1
    <3> QED BY <3>2 DEF b
  <2>16. out'.filled <= out'.height * RowSize
    <3> DEFINE a == out.height * RowSize
               b == height * RowSize
               z == (out.height + height) * RowSize
    <3>1. a \in Nat /\ b \in Nat /\ z = a + b /\ out.filled <= a /\ length <= b
      BY <2>1, <2>12, <2>14
    <3> HIDE DEF a, b, z
    <3>2. out.filled + length <= z
      BY <1>2, <2>1, <3>1
    <3> QED BY <2>4, <3>2 DEF z
  <2>17. WholeBefore(w + 1) => out'.filled = (w + 1) * Rows /\ out'.height = (w + 1) * StripHeight
    BY <2>4, <2>5, <2>11, <2>13, <2>14
  <2>18. ASSUME NEW k \in 1 .. w + 1
         PROVE /\ k - 1 \in Whole => out'.strips[k].strip = k - 1
               /\ out'.strips[k].at <= (k - 1) * Rows
               /\ WholeBefore(k - 1) => out'.strips[k].at = (k - 1) * Rows
    <3>1. CASE k \in 1 .. w
      BY <1>6, <2>7, <3>1 DEF Stacked
    <3>2. CASE k = w + 1
      <4>1. k - 1 = w /\ out'.strips[k] = new
        BY <1>2, <2>7, <3>2
      <4> QED BY <2>5, <2>6, <2>14, <4>1
    <3> QED BY <1>2, <3>1, <3>2
  <2>19. Stacked(w + 1)'
    <3>1. w + 1 <= NumParts
      BY <1>1, <1>2, <1>3
    <3> QED BY <1>4, <2>15, <2>16, <2>17, <2>18, <3>1 DEF Stacked
  <2>20. Assembled'
    BY <1>1, <1>8, <2>7, <2>19 DEF Assembled, Finished
  <2> QED BY <1>1, <1>5, <1>8, <2>9, <2>10, <2>20, OtherStep
<1> QED BY <1>1, <1>7, <1>8

LEMMA WriteStep == ASSUME IInv, Write PROVE IInv'
<1>1. /\ pc = "catpng" /\ pc' = "done" /\ Len(out.strips) = NumParts
      /\ UNCHANGED <<recv_buf, part, sent, kept, failures>>
      /\ out' = [out EXCEPT !.frame = StripAt(horizontal_strips[0].buf)]
  BY DEF Write
<1>2. out \in Images
  BY Kinds
<1>3. /\ out' \in Images /\ out'.frame = StripAt(horizontal_strips[0].buf)
      /\ out'.strips = out.strips /\ out'.filled = out.filled /\ out'.height = out.height
  BY <1>1, <1>2, StripType DEF Images
<1>4. TypeOK' /\ Types'
  BY <1>1, <1>3 DEF IInv, TypeOK, Types, kept
<1>5. Spoils = 0 /\ Spoils' = 0 /\ failures' - failures = 0
  BY <1>1, Kinds DEF Spoils
<1>6. /\ Kept' = Kept /\ Kept = Parts /\ Whole' = Whole
      /\ \A m : WholeBefore(m)' <=> WholeBefore(m)
  BY <1>1, KeptStays DEF kept, IInv, Ended, Late
<1>7. Coming' /\ Ended'
  BY <1>1, <1>6 DEF Coming, Ended, Late
<1>8. Stacked(Len(out.strips))'
  BY <1>3, <1>6 DEF IInv, Assembled, Stacked
<1>9. 0 \in Whole => out'.frame # Nothing
  <2>1. SUFFICES ASSUME 0 \in Whole PROVE out'.frame = 0
    BY DEF Nothing
  <2>2. 0 \in Parts /\ Lies(0, horizontal_strips[0].buf, StripSize)
    BY <1>6, <2>1, PartsAssumption DEF IInv, InPlace, Parts
  <2> QED BY <1>3, <2>2, LiesThere
<1>10. Assembled'
  BY <1>1, <1>3, <1>6, <1>8, <1>9 DEF Assembled, Finished, Framed
<1> QED BY <1>1, <1>4, <1>5, <1>7, <1>10, OtherStep

(* A strip is copied behind the others, and counted.                       *)
LEMMA KeepStep == ASSUME IInv, Keep, NEW i, i = recv_buf.seq PROVE IInv'
<1> DEFINE data == recv_buf.data
           new == [seq |-> i, buf |-> offset, data |-> data, max_size |-> recv_buf.max_size]
<1>1. /\ pc = "keep" /\ pc' = "test" /\ IsNew(i)
      /\ horizontal_strips' = [horizontal_strips EXCEPT ![i] = new]
      /\ image_buffer' = Copied(data) /\ offset' = offset + recv_buf.max_size
      /\ counter' = counter + 1 /\ UNCHANGED <<recv_buf, part, sent, out, failures>>
  BY DEF Keep
<1>2. /\ i \in Parts /\ data \in Seq(Data) /\ Len(data) \in 0 .. StripSize
      /\ recv_buf.max_size \in Nat /\ Len(data) <= recv_buf.max_size /\ recv_buf.max_size <= BUF_SIZE
  <2>1. recv_buf \in Buffers
    BY Kinds
  <2>2. data \in Seq(Data) /\ Len(data) \in Nat /\ recv_buf.max_size \in Nat
    BY <2>1 DEF Buffers
  <2>3. /\ i \in Parts /\ Len(data) <= StripSize
        /\ recv_buf.max_size = BUF_INC \/ (recv_buf.max_size = 0 /\ data = <<>>)
    BY <1>1 DEF IInv, Coming
  <2> QED BY <2>2, <2>3, SizeAssumption
<1>3. i \notin Kept
  <2>1. horizontal_strips[i].seq = -1 /\ (horizontal_strips[i] = Unset \/ horizontal_strips[i] \in Strip(i))
    BY <1>1, <1>2 DEF IInv, TypeOK, IsNew
  <2>2. i # -1
    BY <1>2, PartsAssumption DEF Parts
  <2> QED BY <2>1, <2>2 DEF Strip, Kept
<1>4. new # Unset /\ new \in Strip(i) /\ new \in Records
  <2>1. i # -1 /\ offset \in Nat
    BY <1>2, Kinds, PartsAssumption DEF Parts
  <2> QED BY <1>2, <2>1 DEF Unset, Strip, Records, Data
<1> HIDE DEF new
<1>5. horizontal_strips'[i] = new /\ \A j \in Parts \ {i} : horizontal_strips'[j] = horizontal_strips[j]
  BY <1>1, <1>2, Kinds
<1>6. Kept' = Kept \cup {i}
  BY <1>2, <1>4, <1>5 DEF Kept
<1>7. new.data = data /\ new.buf = offset
  BY DEF new
<1>8. Whole' = Whole \cup (IF data = Body(i) THEN {i} ELSE {})
  BY <1>2, <1>3, <1>5, <1>6, <1>7 DEF Whole, Kept
<1>9. Cardinality(Kept') = counter + 1 /\ counter + 1 <= NumParts /\ counter \in Nat
  <2>1. Kept \subseteq Parts /\ IsFiniteSet(Kept) /\ Cardinality(Kept) = counter
    BY PartsFinite DEF Kept, IInv, Counted
  <2>2. Cardinality(Kept \cup {i}) = Cardinality(Kept) + 1
    BY <1>3, <2>1, FS_AddElement
  <2>3. Cardinality(Kept \cup {i}) <= NumParts
    BY <1>2, <2>1, PartsFinite
  <2> QED BY <1>6, <2>1, <2>2, <2>3, Kinds
<1>10. /\ offset \in Nat /\ offset' \in Nat /\ offset + Len(data) <= offset'
       /\ offset' <= BUF_SIZE * counter' /\ offset' <= BUF_SIZE * NumParts
  <2>1. offset \in Nat /\ offset <= BUF_SIZE * counter /\ BUF_SIZE \in Nat /\ NumParts \in Nat
    BY Kinds, SizeAssumption, PartsAssumption DEF IInv, Counted
  <2>2. BUF_SIZE * (counter + 1) = BUF_SIZE * counter + BUF_SIZE
    BY <1>9, <2>1
  <2>3. BUF_SIZE * (counter + 1) <= BUF_SIZE * NumParts
    BY <1>9, <2>1
  <2>4. BUF_SIZE * counter \in Nat /\ BUF_SIZE * NumParts \in Nat
    BY <1>9, <2>1
  <2>5. offset' = offset + recv_buf.max_size /\ counter' = counter + 1
    BY <1>1
  <2> DEFINE a == BUF_SIZE * counter
             b == BUF_SIZE * (counter + 1)
             z == BUF_SIZE * NumParts
  <2>6. a \in Nat /\ z \in Nat /\ b = a + BUF_SIZE /\ b <= z /\ offset <= a /\ BUF_SIZE * counter' = b
    BY <2>1, <2>2, <2>3, <2>4, <2>5
  <2> HIDE DEF a, b, z
  <2>7. offset' \in Nat /\ offset + Len(data) <= offset'
    BY <1>2, <2>1, <2>5
  <2>8. offset' <= b /\ b \in Nat
    BY <1>2, <2>1, <2>5, <2>6
  <2>9. offset' <= z
    BY <2>6, <2>7, <2>8
  <2> QED BY <2>1, <2>6, <2>7, <2>8, <2>9 DEF z
<1>11. \A x \in Addresses : image_buffer'[x] =
          IF x \in offset .. offset + Len(data) - 1 THEN data[x - offset + 1] ELSE image_buffer[x]
  BY <1>1 DEF Copied
<1>12. image_buffer' \in [Addresses -> ImageByte]
  <2>1. ASSUME NEW x \in Addresses PROVE image_buffer'[x] \in ImageByte
    <3>1. CASE x \in offset .. offset + Len(data) - 1
      <4>1. x - offset + 1 \in 1 .. Len(data)
        BY <1>2, <1>10, <3>1
      <4>2. data[x - offset + 1] \in Data
        BY <1>2, <4>1, ElementOfSeq
      <4> QED BY <1>11, <3>1, <4>2 DEF ImageByte, Data
    <3>2. CASE x \notin offset .. offset + Len(data) - 1
      BY <1>11, <3>2, Kinds
    <3> QED BY <3>1, <3>2
  <2>2. image_buffer' = [x \in Addresses |-> image_buffer'[x]]
    BY <1>1 DEF Copied
  <2> QED BY <2>1, <2>2
<1>13. TypeOK' /\ Types'
  <2>1. \A j \in Parts : horizontal_strips'[j] = Unset \/ horizontal_strips'[j] \in Strip(j)
    BY <1>2, <1>4, <1>5 DEF IInv, TypeOK
  <2>2. horizontal_strips' \in [Parts -> Records]
    BY <1>1, <1>4, Kinds
  <2>3. counter' \in Nat /\ offset' \in Nat
    BY <1>1, <1>9, <1>10
  <2> QED BY <1>1, <1>12, <2>1, <2>2, <2>3 DEF IInv, TypeOK, Types
<1>14. InPlace'
  <2>1. ASSUME NEW j \in Kept
        PROVE /\ horizontal_strips'[j].buf + Len(horizontal_strips'[j].data) <= offset'
              /\ j \in Whole => Lies(j, horizontal_strips[j].buf, StripSize)'
    <3> DEFINE at == horizontal_strips[j].buf
    <3>1. /\ horizontal_strips'[j] = horizontal_strips[j] /\ j \in Parts
          /\ horizontal_strips[j] \in Strip(j)
      BY <1>3, <1>5 DEF Kept, IInv, TypeOK
    <3>2. /\ at \in Nat /\ Len(horizontal_strips[j].data) \in Nat
      BY <3>1 DEF Strip
    <3>3. at + Len(horizontal_strips[j].data) <= offset
      BY DEF IInv, InPlace
    <3>4. ASSUME j \in Whole PROVE Lies(j, horizontal_strips[j].buf, StripSize)'
      <4>1. Lies(j, at, StripSize) /\ Len(horizontal_strips[j].data) = StripSize
        <5>1. horizontal_strips[j].data = Body(j) /\ Len(Body(j)) = StripSize
          BY <3>1, <3>4, Pieces, Kinds DEF Whole
        <5> QED BY <3>4, <5>1 DEF IInv, InPlace
      <4> HIDE DEF at
      <4>2. ASSUME NEW k \in 1 .. StripSize
            PROVE at + k - 1 \in Addresses /\ image_buffer'[at + k - 1] = <<j, k>>
        <5>1. at + k - 1 \in Addresses /\ image_buffer[at + k - 1] = <<j, k>>
          BY <4>1 DEF Lies
        <5>2. at + StripSize <= offset /\ at \in Nat
          BY <3>2, <3>3, <4>1 DEF at
        <5>3. at + k - 1 < offset
          BY <1>10, <5>2, Kinds
        <5>4. at + k - 1 \notin offset .. offset + Len(data) - 1
          BY <1>10, <5>2, <5>3
        <5> QED BY <1>11, <5>1, <5>4
      <4> QED BY <3>1, <4>2 DEF Lies, at
    <3> QED BY <1>10, <1>2, <3>1, <3>2, <3>3, <3>4
  <2>2. /\ horizontal_strips'[i].buf + Len(horizontal_strips'[i].data) <= offset'
        /\ i \in Whole' => Lies(i, horizontal_strips[i].buf, StripSize)'
    <3>1. horizontal_strips'[i].buf = offset /\ horizontal_strips'[i].data = data
      BY <1>5, <1>7
    <3>2. ASSUME i \in Whole', NEW k \in 1 .. StripSize
          PROVE offset + k - 1 \in Addresses /\ image_buffer'[offset + k - 1] = <<i, k>>
      <4>1. data = Body(i)
        BY <1>3, <1>8, <3>2 DEF Whole
      <4>2. Len(data) = StripSize /\ data[k] = <<i, k>>
        <5>1. Len(Body(i)) = StripSize
          BY SizeAssumption DEF Body
        <5> QED BY <4>1, <5>1 DEF Body
      <4>3. /\ offset + k - 1 \in Addresses /\ offset + k - 1 \in offset .. offset + Len(data) - 1
            /\ (offset + k - 1) - offset + 1 = k
        BY <1>10, <4>2, Kinds, SizeAssumption, PartsAssumption DEF Addresses
      <4> QED BY <1>11, <4>2, <4>3
    <3> QED BY <1>10, <3>1, <3>2 DEF Lies
  <2>3. \A j \in Kept' : j \in Kept \/ j = i
    BY <1>6
  <2>4. \A j \in Kept : j \in Whole' => j \in Whole
    BY <1>3, <1>8
  <2>5. ASSUME NEW j \in Kept'
        PROVE /\ horizontal_strips'[j].buf + Len(horizontal_strips'[j].data) <= offset'
              /\ j \in Whole' => Lies(j, horizontal_strips[j].buf, StripSize)'
    <3>1. CASE j = i
      BY <2>2, <3>1
    <3>2. CASE j # i
      BY <2>1, <2>3, <2>4, <3>2
    <3> QED BY <3>1, <3>2
  <2> QED BY <2>5 DEF InPlace
<1>15. Counted'
  BY <1>1, <1>9, <1>10 DEF Counted
<1>16. Spoiled'
  <2>1. /\ Kept \ Whole \subseteq Parts /\ IsFiniteSet(Kept \ Whole)
        /\ Cardinality(Kept \ Whole) \in Nat /\ failures \in Nat
    BY PartsFinite, Kinds DEF Kept
  <2>2. Spoils' = 0 /\ failures' = failures
    BY <1>1 DEF Spoils
  <2>3. CASE data = Body(i)
    <3>1. (Kept \ Whole)' = Kept \ Whole
      BY <1>3, <1>6, <1>8, <2>3 DEF Whole
    <3>2. Cardinality(Kept \ Whole) <= failures
      BY <1>1, <2>1, <2>3 DEF IInv, Spoiled, Spoils
    <3> QED BY <2>1, <2>2, <3>1, <3>2 DEF Spoiled
  <2>4. CASE data # Body(i)
    <3>1. (Kept \ Whole)' = (Kept \ Whole) \cup {i} /\ i \notin Kept \ Whole
      BY <1>3, <1>6, <1>8, <2>4 DEF Whole
    <3>2. Cardinality((Kept \ Whole) \cup {i}) = Cardinality(Kept \ Whole) + 1
      BY <2>1, <3>1, FS_AddElement
    <3>3. Spoils = 1
      BY <1>1, <2>4 DEF Spoils
    <3>4. Cardinality(Kept \ Whole) + 1 <= failures
      BY <3>3 DEF IInv, Spoiled
    <3>5. Cardinality((Kept \ Whole)') <= failures'
      BY <2>2, <3>1, <3>2, <3>4
    <3>6. Cardinality((Kept \ Whole)') = Cardinality(Kept \ Whole) + 1
      BY <3>1, <3>2
    <3> QED BY <2>1, <2>2, <3>5, <3>6 DEF Spoiled
  <2> QED BY <2>3, <2>4
<1>17. Coming' /\ Ended' /\ Assembled'
  BY <1>1, EarlyStep DEF Coming, Late
<1>18. Readable'
  <2> DEFINE end(j) == horizontal_strips[j].buf + StripSize
  <2>1. BUF_SIZE \in Nat /\ StripSize \in Nat /\ StripSize < BUF_SIZE
    BY SizeAssumption
  <2>2. BUF_SIZE * counter \in Nat /\ BUF_SIZE * counter' = BUF_SIZE * counter + BUF_SIZE
    BY <1>1, <1>9, <2>1
  <2>3. offset <= BUF_SIZE * counter
    BY DEF IInv, Counted
  <2> DEFINE a == BUF_SIZE * counter
             b == BUF_SIZE * counter'
  <2>4. a \in Nat /\ b = a + BUF_SIZE /\ offset <= a
    BY <2>2, <2>3
  <2> HIDE DEF a, b
  <2>5. ASSUME NEW j \in Kept' PROVE horizontal_strips'[j].buf + StripSize <= b
    <3>1. CASE j = i
      <4>1. horizontal_strips'[j].buf = offset
        BY <1>5, <1>7, <3>1
      <4> QED BY <1>10, <2>1, <2>4, <4>1
    <3>2. CASE j # i
      <4>1. j \in Kept /\ horizontal_strips'[j] = horizontal_strips[j]
        BY <1>5, <1>6, <3>2 DEF Kept
      <4>2. horizontal_strips[j].buf + StripSize <= a /\ horizontal_strips[j].buf \in Nat
        BY <4>1 DEF IInv, TypeOK, Readable, Kept, Strip, a
      <4> QED BY <2>1, <2>4, <4>1, <4>2
    <3> QED BY <3>1, <3>2
  <2> QED BY <2>5 DEF Readable, b
<1> QED BY <1>13, <1>14, <1>15, <1>16, <1>17, <1>18 DEF IInv

LEMMA NextInv == ASSUME IInv, [Next]_vars PROVE IInv'
<1>1. CASE UNCHANGED vars
  <2>1. TypeOK' /\ Types'
    BY <1>1 DEF vars, kept, IInv, TypeOK, Types
  <2>2. UNCHANGED kept /\ Spoils' = Spoils /\ failures' = failures
    BY <1>1 DEF vars, kept, Spoils
  <2>3. Spoils' - Spoils <= failures' - failures
    <3>1. Spoils \in {0, 1} /\ failures \in Int
      BY Kinds DEF Spoils
    <3> QED BY <2>2, <3>1
  <2>4. Kept' = Kept /\ Whole' = Whole /\ \A w : WholeBefore(w)' <=> WholeBefore(w)
    BY <2>2, KeptStays DEF kept
  <2>5. Coming'
    BY <1>1 DEF vars, kept, IInv, Coming
  <2>6. Ended' /\ Assembled'
    BY <1>1, <2>4 DEF vars, kept, IInv, Ended, Assembled, Stacked, Finished, Framed
  <2> QED BY <2>1, <2>2, <2>3, <2>5, <2>6, OtherStep
<1>2. CASE Next
  <2>1. ASSUME Keep PROVE IInv'
    BY <2>1, KeepStep
  <2>2. ASSUME Inflate PROVE IInv'
    BY <2>2, InflateStep
  <2> QED
    BY <1>2, <2>1, <2>2, ResetStep, HeaderStep, PieceStep, CompleteStep, BreaksStep, UnnumberedStep,
       DropStep, TestStep, WriteStep DEF Next, Transfer, catpng
<1> QED BY <1>1, <1>2

LEMMA IInvHolds == Spec => []IInv
<1> QED BY InitInv, NextInv, PTL DEF Spec

(* The variables of pastersingle keep their types.                         *)
THEOREM TypeCorrect == Spec => []TypeOK
<1>1. IInv => TypeOK
  BY DEF IInv
<1> QED BY <1>1, IInvHolds, PTL

(* image_buffer is big enough: memcpy at line 76 stays within it, and so   *)
(* does what catpng reads there; and the rows it copies at line 170 stay   *)
(* within final_buffer_uncompressed.                                       *)
THEOREM BufferSuffices == Spec => []InImageBuffer
<1>1. IInv => InImageBuffer
  <2> SUFFICES ASSUME IInv PROVE InImageBuffer
    OBVIOUS
  <2>1. counter \in Nat /\ counter <= NumParts /\ offset <= BUF_SIZE * counter /\ offset \in Nat
    BY PartsFinite, Kinds DEF IInv, Counted, Kept
  <2>2. BUF_SIZE * counter <= BUF_SIZE * NumParts
        /\ BUF_SIZE * counter \in Nat /\ BUF_SIZE * NumParts \in Nat
    BY <2>1, SizeAssumption, PartsAssumption
  <2> DEFINE a == BUF_SIZE * counter
             z == BUF_SIZE * NumParts
  <2>3. offset <= a /\ a <= z /\ a \in Nat /\ z \in Nat
    BY <2>1, <2>2
  <2>4. ASSUME NEW i \in Kept
        PROVE horizontal_strips[i].buf \in Nat /\ horizontal_strips[i].buf + StripSize <= a
    BY DEF IInv, TypeOK, Readable, Kept, Strip
  <2> HIDE DEF a, z
  <2>5. offset <= z
    BY <2>1, <2>3
  <2>6. \A i \in Kept : horizontal_strips[i].buf + StripSize <= z
    BY <2>3, <2>4, SizeAssumption
  <2>7. out.filled <= out.height * RowSize
    BY DEF IInv, Assembled, Stacked
  <2> QED BY <2>5, <2>6, <2>7 DEF InImageBuffer, z
<1> QED BY <1>1, IInvHolds, PTL

(* Where the strips are in the image when catpng has gone through them.    *)
LEMMA StripsInImage ==
    ASSUME IInv, Len(out.strips) = NumParts, NEW i \in Parts
    PROVE /\ i \in Whole => out.strips[i + 1].strip = i
          /\ out.strips[i + 1].at <= i * Rows
          /\ WholeBefore(i) /\ i \in Whole => InPosition(i)
<1>1. i + 1 \in 1 .. NumParts /\ (i + 1) - 1 = i
  BY PartsAssumption DEF Parts
<1>2. /\ i \in Whole => out.strips[i + 1].strip = i
      /\ out.strips[i + 1].at <= i * Rows
      /\ WholeBefore(i) => out.strips[i + 1].at = i * Rows
  BY <1>1 DEF IInv, Assembled, Stacked
<1>3. out.strips[i + 1] \in [strip : Parts \cup {Nothing}, at : Nat]
  <2>1. out.strips \in Seq([strip : Parts \cup {Nothing}, at : Nat])
    BY Kinds DEF Images
  <2> QED BY <1>1, <2>1, ElementOfSeq
<1>4. out.strips[i + 1] = [strip |-> out.strips[i + 1].strip, at |-> out.strips[i + 1].at]
  BY <1>3
<1> QED BY <1>2, <1>4 DEF InPosition

(* A failed transfer takes at most one strip out of the image.  What lies  *)
(* above its place stays there, what lies below moves up if at all, and    *)
(* only strip 0 takes the signature, IHDR and IEND with it: what becomes   *)
(* of the buffer that is zeroed and kept all the same at lines 68 and 76.  *)
THEOREM DamageIsBounded == Spec => []DamageBounded
<1>1. IInv => DamageBounded
  <2> SUFFICES ASSUME IInv, pc = "done"
               PROVE /\ Cardinality({i \in Parts : out.strips[i + 1].strip # i}) <= failures
                     /\ \A i \in Parts : WholeBefore(i + 1) => InPosition(i)
                     /\ \A i \in Parts : out.strips[i + 1].at <= i * Rows
                     /\ 0 \in Whole => Framed
                     /\ Whole = Parts => out.height = NumParts * StripHeight
    BY DEF DamageBounded
  <2> DEFINE Wrong == {i \in Parts : out.strips[i + 1].strip # i}
             Lost == Kept \ Whole
  <2>1. Kept = Parts /\ Len(out.strips) = NumParts /\ (0 \in Whole => Framed)
    BY DEF IInv, Ended, Late, Assembled, Finished
  <2>2. ASSUME NEW i \in Parts
        PROVE /\ WholeBefore(i + 1) => InPosition(i)
              /\ out.strips[i + 1].at <= i * Rows
              /\ i \notin Lost => i \notin Wrong
    <3>1. WholeBefore(i + 1) => WholeBefore(i) /\ i \in Whole
      BY PartsAssumption DEF WholeBefore, Parts
    <3>2. /\ i \in Whole => out.strips[i + 1].strip = i
          /\ out.strips[i + 1].at <= i * Rows
          /\ WholeBefore(i) /\ i \in Whole => InPosition(i)
      BY <2>1, StripsInImage
    <3> QED BY <2>1, <3>1, <3>2
  <2>3. Wrong \subseteq Lost
    BY <2>2
  <2>4. IsFiniteSet(Lost) /\ Cardinality(Lost) \in Nat
    BY PartsFinite DEF Kept
  <2>5. Cardinality(Wrong) <= Cardinality(Lost) /\ Cardinality(Wrong) \in Nat
    <3> HIDE DEF Wrong, Lost
    <3> QED BY <2>3, <2>4, FS_Subset, FS_CardinalityType
  <2>6. Cardinality(Lost) <= failures
    <3>1. Spoils = 0
      BY DEF Spoils
    <3> QED BY <2>4, <3>1 DEF IInv, Spoiled
  <2>7. Whole = Parts => out.height = NumParts * StripHeight
    <3>1. Whole = Parts => WholeBefore(NumParts)
      BY PartsAssumption DEF WholeBefore, Parts
    <3> QED BY <2>1, <3>1 DEF IInv, Assembled, Stacked
  <2>8. Cardinality(Wrong) <= failures
    <3> HIDE DEF Wrong, Lost
    <3> QED BY <2>4, <2>5, <2>6, Kinds
  <2> QED BY <2>1, <2>2, <2>7, <2>8
<1> QED BY <1>1, IInvHolds, PTL

(* What a step keeps, and how.                                             *)
LEMMA KeepMoves ==
    ASSUME IInv, Keep, NEW i, i = recv_buf.seq
    PROVE /\ i \in Parts \ Kept /\ Kept' = Kept \cup {i}
          /\ Whole' = Whole \/ Whole' = Whole \cup {i}
<1> DEFINE new == [seq |-> i, buf |-> offset, data |-> recv_buf.data, max_size |-> recv_buf.max_size]
<1>1. pc = "keep" /\ IsNew(i) /\ horizontal_strips' = [horizontal_strips EXCEPT ![i] = new]
  BY DEF Keep
<1>2. i \in Parts /\ i # -1
  BY <1>1, PartsAssumption DEF IInv, Coming, Parts
<1>3. i \notin Kept
  BY <1>1, <1>2 DEF IInv, TypeOK, IsNew, Strip, Kept
<1>4. new # Unset
  BY <1>2 DEF Unset
<1> HIDE DEF new
<1>5. horizontal_strips'[i] = new /\ \A j \in Parts \ {i} : horizontal_strips'[j] = horizontal_strips[j]
  BY <1>1, <1>2, Kinds
<1>6. Kept' = Kept \cup {i}
  BY <1>2, <1>4, <1>5 DEF Kept
<1>7. \A j : j # i => (j \in Whole' <=> j \in Whole)
  BY <1>5, <1>6 DEF Whole, Kept
<1> QED BY <1>2, <1>3, <1>6, <1>7 DEF Whole

LEMMA AbstractInit == Init => Abstract!Init
<1> SUFFICES ASSUME Init PROVE Abstract!Init
  OBVIOUS
<1>1. Kept = {} /\ Whole = {} /\ pc # "done"
  BY DEF Init, Kept, Whole
<1> QED BY <1>1 DEF Abstract!Init

LEMMA AbstractStep ==
    ASSUME IInv, IInv', [Next]_vars PROVE [Abstract!Next]_(Abstract!vars)
<1> DEFINE Image == {i \in Whole : /\ pc = "done" /\ out.strips[i + 1].strip = i
                                   /\ WholeBefore(i) => InPosition(i) /\ Framed}
<1>1. ASSUME Kept' = Kept, Whole' = Whole, pc # "done", pc' # "done" PROVE UNCHANGED Abstract!vars
  <2>1. Image = {} /\ Image' = {}
    BY <1>1
  <2> QED BY <1>1, <2>1 DEF Abstract!vars
<1>2. CASE UNCHANGED vars
  <2>1. Kept' = Kept /\ Whole' = Whole /\ pc' = pc /\ out' = out
        /\ \A w : WholeBefore(w)' <=> WholeBefore(w)
    BY <1>2, KeptStays DEF vars, kept
  <2>2. Image' = Image
    BY <2>1 DEF InPosition, Framed
  <2> QED BY <2>1, <2>2 DEF Abstract!vars
<1>3. ASSUME Transfer \/ Drop \/ Test \/ \E i \in Parts : Reset(i) PROVE UNCHANGED Abstract!vars
  <2>1. UNCHANGED kept /\ pc # "done" /\ pc' # "done"
    BY <1>3 DEF Transfer, Header, Piece, Complete, Breaks, Unnumbered, Drop, Test, Reset
  <2> QED BY <1>1, <2>1, KeptStays DEF kept
<1>4. ASSUME Keep, NEW i, i = recv_buf.seq PROVE Abstract!Next
  <2>1. /\ i \in Parts \ Kept /\ Kept' = Kept \cup {i}
        /\ Whole' = Whole \/ Whole' = Whole \cup {i}
    BY <1>4, KeepMoves
  <2>2. pc # "done" /\ pc' # "done"
    BY <1>4 DEF Keep
  <2>3. Image = {} /\ Image' = {}
    BY <2>2
  <2>4. Whole \subseteq Kept /\ i \notin Whole /\ i \notin Kept \ Whole
    BY <2>1 DEF Whole
  <2>5. CASE Whole' = Whole \cup {i}
    <3>1. (Kept \ Whole)' = Kept \ Whole
      BY <2>1, <2>4, <2>5
    <3>2. Abstract!Paste(i)
      BY <2>2, <2>3, <2>4, <2>5, <3>1 DEF Abstract!Paste
    <3> QED BY <2>1, <3>2 DEF Abstract!Next, Abstract!Parts, Parts
  <2>6. CASE Whole' = Whole
    <3>1. (Kept \ Whole)' = (Kept \ Whole) \cup {i}
      BY <2>1, <2>4, <2>6
    <3>2. Abstract!Lose(i)
      BY <2>2, <2>3, <2>4, <2>6, <3>1 DEF Abstract!Lose
    <3> QED BY <2>1, <3>2 DEF Abstract!Next, Abstract!Parts, Parts
  <2> QED BY <2>1, <2>5, <2>6
<1>5. ASSUME Inflate PROVE UNCHANGED Abstract!vars
  <2>1. UNCHANGED kept /\ pc # "done" /\ pc' # "done"
    BY <1>5 DEF Inflate
  <2> QED BY <1>1, <2>1, KeptStays DEF kept
<1>6. ASSUME Write PROVE Abstract!Next
  <2>1. /\ pc = "catpng" /\ pc' = "done" /\ UNCHANGED kept /\ Len(out.strips) = NumParts
        /\ out' = [out EXCEPT !.frame = StripAt(horizontal_strips[0].buf)]
    BY <1>6 DEF Write
  <2>2. /\ Kept' = Kept /\ Whole' = Whole /\ Kept = Parts
        /\ \A w : WholeBefore(w)' <=> WholeBefore(w)
    BY <2>1, KeptStays DEF kept, IInv, Ended, Late
  <2>3. out'.strips = out.strips
    BY <2>1, Kinds DEF Images
  <2>4. ASSUME NEW i \in Whole
        PROVE out'.strips[i + 1].strip = i /\ (WholeBefore(i) => InPosition(i)' /\ Framed')
    <3>1. i \in Parts
      BY DEF Whole, Kept
    <3>2. out.strips[i + 1].strip = i /\ (WholeBefore(i) => InPosition(i))
      BY <2>1, <3>1, StripsInImage
    <3>3. WholeBefore(i) => 0 \in Whole
      BY <3>1, PartsAssumption DEF WholeBefore, Parts
    <3>4. 0 \in Whole => Framed'
      BY <2>1, <2>2 DEF IInv, Assembled, Finished
    <3> QED BY <2>3, <3>2, <3>3, <3>4 DEF InPosition
  <2>5. Image' = Whole
    BY <2>1, <2>2, <2>4
  <2>6. Whole \cup (Kept \ Whole) = Parts
    BY <2>2 DEF Whole
  <2>7. Image = {}
    BY <2>1
  <2>8. Abstract!Finish
    BY <2>1, <2>2, <2>5, <2>6, <2>7 DEF Abstract!Finish, Abstract!Parts, Parts
  <2> QED BY <2>8 DEF Abstract!Next
<1>7. CASE Next
  <2>1. ASSUME Keep PROVE Abstract!Next
    BY <2>1, <1>4
  <2> QED BY <1>3, <1>5, <1>6, <1>7, <2>1 DEF Next, catpng
<1> QED BY <1>2, <1>7

(* Every step of pastersingle, whatever fails in a transfer, pastes one    *)
(* strip, gives one up, writes an image with the rows of those that were   *)
(* pasted, at their place and behind a signature and an IHDR where no      *)
(* strip above was given up, or is nothing to the assembly of strips.      *)
THEOREM Implements == Spec => AssemblesSafely
<1>1. IInv /\ IInv' /\ [Next]_vars => [Abstract!Next]_(Abstract!vars)
  BY AbstractStep
<1> QED BY <1>1, AbstractInit, IInvHolds, PTL DEF Spec, AssemblesSafely, Abstract!Safe

-----------------------------------------------------------------------------
(* findpng and the CRC among the other programs: what is proved about them *)
(* alone is true of Programs.                                              *)
FP == INSTANCE FindpngProofs

LEMMA OneFiniteSets ==
    ASSUME NEW S
    PROVE /\ F!IsFiniteSet(S) <=> FP!IsFiniteSet(S)
          /\ F!Cardinality(S) = FP!Cardinality(S)
BY DEF F!IsFiniteSet, FP!IsFiniteSet, F!Cardinality, FP!Cardinality

LEMMA OneTree == FP!IsTree
BY TreeAssumption, OneFiniteSets DEF F!IsTree, FP!IsTree, F!Kinds, FP!Kinds

LEMMA FindpngInit == F!Init => FP!Init
BY OneFiniteSets DEF F!Init, FP!Init, F!Call, FP!Call

LEMMA FindpngNext == F!Next => FP!Next
<1>1. ASSUME NEW d \in Dirs
      PROVE (F!search_dir(d) => FP!search_dir(d)) /\ (F!opendirFails(d) => FP!opendirFails(d))
  BY OneFiniteSets
     DEF F!search_dir, FP!search_dir, F!opendirFails, FP!opendirFails, F!Searching, FP!Searching,
         F!CanOpen, FP!CanOpen, F!InUse, FP!InUse, F!This, FP!This, F!Taken, FP!Taken,
         F!Call, FP!Call, F!world, FP!world, F!GivesUp, FP!GivesUp
<1>2. ASSUME NEW f \in Files
      PROVE /\ F!Skip(f) => FP!Skip(f)
            /\ F!Look(f) => FP!Look(f)
            /\ F!fopenFails(f) => FP!fopenFails(f)
  BY OneFiniteSets
     DEF F!Skip, FP!Skip, F!Look, FP!Look, F!fopenFails, FP!fopenFails, F!is_png, FP!is_png,
         F!Searching, FP!Searching, F!CanOpen, FP!CanOpen, F!InUse, FP!InUse, F!This, FP!This,
         F!Taken, FP!Taken, F!world, FP!world, F!GivesUp, FP!GivesUp
<1>3. (F!Return => FP!Return) /\ (F!Done => FP!Done)
  BY DEF F!Return, FP!Return, F!Done, FP!Done, F!Searching, FP!Searching, F!This, FP!This,
         F!world, FP!world
<1> QED BY Zenon, <1>1, <1>2, <1>3 DEF F!Next, FP!Next

LEMMA FindpngRuns == ProgramsSpec => FP!Spec
<1>1. ProgramsInit => FP!Init
  BY FindpngInit DEF ProgramsInit
<1>2. [ProgramsNext]_<<runs, vars, example, checksum, search>> => [FP!Next]_(FP!vars)
  BY FindpngNext DEF ProgramsNext, search, FP!vars, FP!world
<1> QED BY <1>1, <1>2, PTL DEF ProgramsSpec, FP!Spec

(* findpng, run on any finite tree: the counts of its calls are what was   *)
(* printed, a search that ends has printed every PNG once, and one that is *)
(* given up had a cause.                                                   *)
THEOREM SearchIsComplete == ProgramsSpec => []SearchComplete
<1>1. FP!Spec => []FP!SearchComplete
  BY OneTree, FP!SearchIsComplete
<1>2. FP!SearchComplete => SearchComplete
  <2>1. FP!CountsAgree => F!CountsAgree
    BY DEF FP!CountsAgree, F!CountsAgree, FP!Counts, F!Counts
  <2>2. FP!AllFound => F!AllFound
    BY OneFiniteSets DEF FP!AllFound, F!AllFound, FP!Of, F!Of, FP!Printed, F!Printed
  <2>3. FP!GivenUpForCause => F!GivenUpForCause
    BY OneFiniteSets DEF FP!GivenUpForCause, F!GivenUpForCause, FP!Of, F!Of
  <2> QED BY <2>1, <2>2, <2>3 DEF FP!SearchComplete, SearchComplete, F!SearchComplete
<1> QED BY <1>1, <1>2, FindpngRuns, PTL


(* What the register does for each bit, once the bit is added.             *)
D(r) == IF 0 \in r THEN K!Xor(Poly, K!Shift(r, 1)) ELSE K!Shift(r, 1)

-----------------------------------------------------------------------------
(* Sets of bits.                                                           *)

LEMMA XorFacts ==
    ASSUME NEW a, NEW b
    PROVE /\ \A x : x \in K!Xor(a, b) <=> ~(x \in a <=> x \in b)
          /\ K!Xor(a, {}) = a /\ K!Xor({}, b) = b /\ K!Xor(a, a) = {}
BY DEF K!Xor

LEMMA XorIn ==
    ASSUME NEW S, NEW a \in SUBSET S, NEW b \in SUBSET S
    PROVE K!Xor(a, b) \subseteq S
BY DEF K!Xor

LEMMA XorCancels ==
    ASSUME NEW a, NEW b, NEW e, K!Xor(a, e) = K!Xor(b, e)
    PROVE a = b
<1>1. ASSUME NEW x PROVE x \in a <=> x \in b
  <2>1. x \in K!Xor(a, e) <=> x \in K!Xor(b, e)
    OBVIOUS
  <2> QED BY <2>1, XorFacts
<1> QED BY <1>1

LEMMA ShiftFacts ==
    ASSUME NEW a \in SUBSET Nat, NEW k \in Nat
    PROVE /\ K!Shift(a, k) \subseteq Nat
          /\ \A x \in Nat : x \in K!Shift(a, k) <=> x + k \in a
<1>1. ASSUME NEW x \in K!Shift(a, k) PROVE x \in Nat
  BY DEF K!Shift
<1>2. ASSUME NEW x \in Nat PROVE x \in K!Shift(a, k) <=> x + k \in a
  <2>1. ASSUME x \in K!Shift(a, k) PROVE x + k \in a
    <3>1. PICK b \in a : b >= k /\ x = b - k
      BY <2>1 DEF K!Shift
    <3>2. x + k = b
      BY <3>1
    <3> QED BY <3>2
  <2>2. ASSUME x + k \in a PROVE x \in K!Shift(a, k)
    <3>1. x + k >= k /\ x = (x + k) - k
      OBVIOUS
    <3> QED BY <2>2, <3>1 DEF K!Shift
  <2> QED BY <2>1, <2>2
<1> QED BY <1>1, <1>2

(* D moves each bit down by one, and adds Poly if there is one to lose.    *)
LEMMA DFacts ==
    ASSUME NEW r \in SUBSET Nat, Poly \subseteq Nat
    PROVE /\ D(r) \subseteq Nat
          /\ \A x \in Nat : x \in D(r) <=> ~(x + 1 \in r <=> (0 \in r /\ x \in Poly))
<1>1. K!Shift(r, 1) \subseteq Nat /\ \A x \in Nat : x \in K!Shift(r, 1) <=> x + 1 \in r
  BY ShiftFacts
<1>2. CASE 0 \in r
  <2>1. D(r) = K!Xor(Poly, K!Shift(r, 1))
    BY <1>2 DEF D
  <2>2. ASSUME NEW s, s \subseteq Nat
        PROVE (\A x : x \in K!Xor(Poly, s) <=> ~(x \in Poly <=> x \in s)) /\ K!Xor(Poly, s) \subseteq Nat
    <3>1. \A x : x \in K!Xor(Poly, s) <=> ~(x \in Poly <=> x \in s)
      BY XorFacts
    <3>2. Poly \in SUBSET Nat /\ s \in SUBSET Nat
      BY <2>2
    <3>3. K!Xor(Poly, s) \subseteq Nat
      BY <3>2, XorIn
    <3> QED BY <3>1, <3>3
  <2>3. /\ \A x : x \in K!Xor(Poly, K!Shift(r, 1)) <=> ~(x \in Poly <=> x \in K!Shift(r, 1))
        /\ K!Xor(Poly, K!Shift(r, 1)) \subseteq Nat
    BY <1>1, <2>2
  <2> QED BY <1>1, <1>2, <2>1, <2>3
<1>3. CASE 0 \notin r
  BY <1>1, <1>3 DEF D
<1> QED BY <1>2, <1>3

(* Bits that are still to come wait outside: those that are in the lowest  *)
(* place are added now, the others move down.                              *)
LEMMA DelayedBits ==
    ASSUME NEW e \in SUBSET Nat, NEW w \in SUBSET Nat, NEW bit, bit = IF 0 \in w THEN {0} ELSE {},
           Poly \subseteq Nat
    PROVE D(K!Xor(K!Xor(e, w), bit)) = K!Xor(D(e), K!Shift(w, 1))
<1> DEFINE u == K!Xor(K!Xor(e, w), bit)
<1>1. u \subseteq Nat /\ (0 \in u <=> 0 \in e) /\ \A x \in Nat : x + 1 \in u <=> ~(x + 1 \in e <=> x + 1 \in w)
  <2>1. /\ \A x : x \in K!Xor(e, w) <=> ~(x \in e <=> x \in w)
        /\ K!Xor(e, w) \subseteq Nat
    <3>1. \A x : x \in K!Xor(e, w) <=> ~(x \in e <=> x \in w)
      BY XorFacts
    <3>2. K!Xor(e, w) \subseteq Nat
      BY XorIn
    <3> QED BY <3>1, <3>2
  <2>2. /\ \A x : x \in u <=> ~(x \in K!Xor(e, w) <=> x \in bit)
        /\ u \subseteq Nat
    <3>1. \A x : x \in u <=> ~(x \in K!Xor(e, w) <=> x \in bit)
      BY XorFacts
    <3>2. K!Xor(e, w) \in SUBSET Nat /\ bit \in SUBSET Nat
      BY <2>1
    <3>3. u \subseteq Nat
      BY <3>2, XorIn
    <3> QED BY <3>1, <3>3
  <2>3. \A x : x \in u <=> ~((x \in e <=> ~(x \in w)) <=> x \in bit)
    BY <2>1, <2>2
  <2> HIDE DEF u
  <2>4. \A x \in Nat : x + 1 \in bit <=> FALSE
    OBVIOUS
  <2>5. 0 \in bit <=> 0 \in w
    OBVIOUS
  <2>6. \A x \in Nat : x + 1 \in u <=> ~(x + 1 \in e <=> x + 1 \in w)
    BY <2>3, <2>4
  <2> QED BY <2>2, <2>3, <2>5, <2>6
<1>2. D(u) \subseteq Nat /\ \A x \in Nat : x \in D(u) <=> ~(x + 1 \in u <=> (0 \in u /\ x \in Poly))
  <2> HIDE DEF u
  <2> QED BY <1>1, DFacts
<1>3. D(e) \subseteq Nat /\ \A x \in Nat : x \in D(e) <=> ~(x + 1 \in e <=> (0 \in e /\ x \in Poly))
  BY DFacts
<1>4. K!Shift(w, 1) \subseteq Nat /\ \A x \in Nat : x \in K!Shift(w, 1) <=> x + 1 \in w
  BY ShiftFacts
<1> HIDE DEF u
<1>5. ASSUME NEW x \in Nat PROVE x \in D(u) <=> x \in K!Xor(D(e), K!Shift(w, 1))
  BY <1>1, <1>2, <1>3, <1>4, XorFacts
<1>6. K!Xor(D(e), K!Shift(w, 1)) \subseteq Nat
  BY <1>3, <1>4, XorIn
<1>7. D(u) = K!Xor(D(e), K!Shift(w, 1))
  BY <1>2, <1>5, <1>6
<1> QED BY <1>7 DEF u

LEMMA ShiftTwice ==
    ASSUME NEW a \in SUBSET Nat, NEW k \in Nat
    PROVE K!Shift(K!Shift(a, k), 1) = K!Shift(a, k + 1) /\ K!Shift(a, 0) = a
<1>1. ASSUME NEW i \in Nat
      PROVE K!Shift(a, i) \subseteq Nat /\ \A x \in Nat : x \in K!Shift(a, i) <=> x + i \in a
  BY ShiftFacts
<1>2. K!Shift(K!Shift(a, k), 1) \subseteq Nat
      /\ \A x \in Nat : x \in K!Shift(K!Shift(a, k), 1) <=> x + 1 \in K!Shift(a, k)
  BY <1>1, ShiftFacts
<1>3. ASSUME NEW x \in Nat PROVE x \in K!Shift(K!Shift(a, k), 1) <=> x \in K!Shift(a, k + 1)
  <2>1. x + 1 \in Nat /\ (x + 1) + k = x + (k + 1) /\ k + 1 \in Nat
    OBVIOUS
  <2>2. x + 1 \in K!Shift(a, k) <=> (x + 1) + k \in a
    BY <1>1, <2>1
  <2>3. x \in K!Shift(a, k + 1) <=> x + (k + 1) \in a
    BY <1>1, <2>1
  <2> QED BY <1>2, <2>1, <2>2, <2>3
<1>4. ASSUME NEW x \in Nat PROVE x \in K!Shift(a, 0) <=> x \in a
  BY <1>1
<1> QED BY <1>1, <1>2, <1>3, <1>4

(* Sums of sets, bit by bit.                                               *)
LEMMA DLinear ==
    ASSUME NEW a \in SUBSET Nat, NEW b \in SUBSET Nat, Poly \subseteq Nat
    PROVE D(K!Xor(a, b)) = K!Xor(D(a), D(b))
<1> DEFINE u == K!Xor(a, b)
<1>1. u \subseteq Nat /\ \A x : x \in u <=> ~(x \in a <=> x \in b)
  BY XorFacts, XorIn
<1> HIDE DEF u
<1>2. /\ D(u) \subseteq Nat /\ \A x \in Nat : x \in D(u) <=> ~(x + 1 \in u <=> (0 \in u /\ x \in Poly))
  BY <1>1, DFacts
<1>3. D(a) \subseteq Nat /\ \A x \in Nat : x \in D(a) <=> ~(x + 1 \in a <=> (0 \in a /\ x \in Poly))
  BY DFacts
<1>4. D(b) \subseteq Nat /\ \A x \in Nat : x \in D(b) <=> ~(x + 1 \in b <=> (0 \in b /\ x \in Poly))
  BY DFacts
<1>5. K!Xor(D(a), D(b)) \subseteq Nat /\ \A x : x \in K!Xor(D(a), D(b)) <=> ~(x \in D(a) <=> x \in D(b))
  BY <1>3, <1>4, XorFacts, XorIn
<1>6. ASSUME NEW x \in Nat PROVE x \in D(u) <=> x \in K!Xor(D(a), D(b))
  BY <1>1, <1>2, <1>3, <1>4, <1>5
<1>7. D(u) = K!Xor(D(a), D(b))
  BY <1>2, <1>5, <1>6
<1> QED BY <1>7 DEF u

(* The register keeps its width, and is never emptied: what Shift loses,   *)
(* the highest bit of Poly makes up for.                                   *)
LEMMA DKeeps ==
    ASSUME K!IsCode, NEW r \in SUBSET K!Bits(Width)
    PROVE D(r) \in SUBSET K!Bits(Width) /\ (r # {} => D(r) # {})
<1>1. /\ Width \in Nat /\ Width >= 1 /\ Poly \subseteq 0 .. Width - 1 /\ Poly \subseteq Nat
      /\ Width - 1 \in Poly /\ r \subseteq 0 .. Width - 1 /\ r \subseteq Nat /\ Width \notin r
  BY DEF K!IsCode, K!Bits
<1>2. D(r) \subseteq Nat /\ \A x \in Nat : x \in D(r) <=> ~(x + 1 \in r <=> (0 \in r /\ x \in Poly))
  BY <1>1, DFacts
<1>3. ASSUME NEW x \in D(r) PROVE x \in 0 .. Width - 1
  <2>1. x \in Nat /\ (x + 1 \in r \/ x \in Poly)
    BY <1>2
  <2> QED BY <1>1, <2>1
<1>4. ASSUME r # {} PROVE D(r) # {}
  <2>1. CASE 0 \in r
    <3>1. Width - 1 \in Nat /\ (Width - 1) + 1 = Width
      BY <1>1
    <3>2. Width - 1 \in D(r)
      BY <1>1, <1>2, <2>1, <3>1
    <3> QED BY <3>2
  <2>2. CASE 0 \notin r
    <3>1. PICK y \in r : TRUE
      BY <1>4
    <3>2. y \in Nat /\ y # 0
      BY <1>1, <2>2, <3>1
    <3>3. y - 1 \in Nat /\ (y - 1) + 1 = y
      BY <3>2
    <3>4. y - 1 \in D(r)
      BY <1>2, <2>2, <3>1, <3>3
    <3> QED BY <3>4
  <2> QED BY <2>1, <2>2
<1> QED BY <1>3, <1>4 DEF K!Bits

-----------------------------------------------------------------------------
(* What the register holds while it takes a sequence of bits: those whose  *)
(* positions are in w are 1.                                               *)
One(w, j) == IF j \in w THEN {0} ELSE {}
IsRun(f, s, w, m) ==
    /\ f \in [0 .. m -> SUBSET K!Bits(Width)] /\ f[0] = s
    /\ \A j \in 1 .. m : f[j] = D(K!Xor(f[j - 1], One(w, j - 1)))

LEMMA NextOfRun ==
    ASSUME K!IsCode, NEW w, NEW j, NEW r \in SUBSET K!Bits(Width)
    PROVE /\ K!Xor(r, One(w, j)) \in SUBSET K!Bits(Width)
          /\ D(K!Xor(r, One(w, j))) \in SUBSET K!Bits(Width)
<1>1. One(w, j) \in SUBSET K!Bits(Width)
  BY DEF K!IsCode, K!Bits, One
<1>2. K!Xor(r, One(w, j)) \in SUBSET K!Bits(Width)
  BY <1>1, XorIn
<1> QED BY <1>2, DKeeps

LEMMA RunExists ==
    ASSUME K!IsCode, NEW s \in SUBSET K!Bits(Width), NEW w, NEW m \in Nat
    PROVE \E f : IsRun(f, s, w, m)
<1> DEFINE Have == {k \in Nat : \E f : IsRun(f, s, w, k)}
<1>1. 0 \in Have
  <2> DEFINE f == [j \in 0 .. 0 |-> s]
  <2>1. f \in [0 .. 0 -> SUBSET K!Bits(Width)] /\ f[0] = s
    OBVIOUS
  <2> HIDE DEF f
  <2>2. IsRun(f, s, w, 0)
    BY <2>1 DEF IsRun
  <2> QED BY <2>2
<1>2. ASSUME NEW k \in Nat, k \in Have PROVE k + 1 \in Have
  <2>1. PICK f : IsRun(f, s, w, k)
    BY <1>2
  <2>2. /\ f \in [0 .. k -> SUBSET K!Bits(Width)] /\ f[0] = s
        /\ \A j \in 1 .. k : f[j] = D(K!Xor(f[j - 1], One(w, j - 1)))
    BY <2>1 DEF IsRun
  <2> DEFINE last == D(K!Xor(f[k], One(w, k)))
             g == [j \in 0 .. k + 1 |-> IF j = k + 1 THEN last ELSE f[j]]
  <2>3. last \in SUBSET K!Bits(Width)
    BY <2>2, NextOfRun
  <2>last. last = D(K!Xor(f[k], One(w, k)))
    OBVIOUS
  <2> HIDE DEF last
  <2>4. ASSUME NEW j \in 0 .. k + 1 PROVE (j # k + 1 => j \in 0 .. k) /\ g[j] \in SUBSET K!Bits(Width)
    BY <2>2, <2>3
  <2>5. g \in [0 .. k + 1 -> SUBSET K!Bits(Width)] /\ g[0] = s
    BY <2>2, <2>4
  <2>6. ASSUME NEW j \in 0 .. k PROVE g[j] = f[j]
    OBVIOUS
  <2>7. g[k + 1] = last
    OBVIOUS
  <2> HIDE DEF g
  <2>8. ASSUME NEW j \in 1 .. k + 1 PROVE g[j] = D(K!Xor(g[j - 1], One(w, j - 1)))
    <3>1. CASE j = k + 1
      <4>1. j - 1 = k /\ k \in 0 .. k /\ g[k] = f[k]
        BY <2>6, <3>1
      <4> QED BY <2>7, <2>last, <3>1, <4>1
    <3>2. CASE j # k + 1
      <4>1. j \in 1 .. k /\ j \in 0 .. k /\ j - 1 \in 0 .. k
        BY <3>2
      <4> QED BY <2>2, <2>6, <4>1
    <3> QED BY <3>1, <3>2
  <2>9. IsRun(g, s, w, k + 1)
    BY <2>5, <2>8 DEF IsRun
  <2> QED BY <2>9
<1>3. Nat \subseteq Have
  <2> HIDE DEF Have
  <2> QED BY <1>1, <1>2, Induction
<1> QED BY <1>3

(* Two runs agree as long as their bits do.                                *)
LEMMA RunsAgree ==
    ASSUME NEW f, NEW g, NEW s, NEW v, NEW w, NEW m \in Nat, IsRun(f, s, v, m), IsRun(g, s, w, m),
           NEW p \in 0 .. m, \A i \in 0 .. p - 1 : i \in v <=> i \in w
    PROVE \A j \in 0 .. p : f[j] = g[j]
<1> DEFINE Same == {k \in Nat : k <= p => f[k] = g[k]}
<1>1. /\ f[0] = s /\ \A j \in 1 .. m : f[j] = D(K!Xor(f[j - 1], One(v, j - 1)))
      /\ g[0] = s /\ \A j \in 1 .. m : g[j] = D(K!Xor(g[j - 1], One(w, j - 1)))
  BY DEF IsRun
<1>2. 0 \in Same
  BY <1>1
<1>3. ASSUME NEW k \in Nat, k \in Same PROVE k + 1 \in Same
  <2> SUFFICES ASSUME k + 1 <= p PROVE f[k + 1] = g[k + 1]
    OBVIOUS
  <2>1. k <= p /\ k + 1 \in 1 .. m /\ (k + 1) - 1 = k /\ k \in 0 .. p - 1
    OBVIOUS
  <2>2. f[k] = g[k] /\ One(v, k) = One(w, k)
    BY <1>3, <2>1 DEF One
  <2> QED BY <1>1, <2>1, <2>2
<1>4. Nat \subseteq Same
  <2> HIDE DEF Same
  <2> QED BY <1>2, <1>3, Induction
<1> QED BY <1>4

-----------------------------------------------------------------------------
(* One byte: what the table holds for the low bits does the work of Byte   *)
(* steps; the high bits of the register, and those of the byte that were   *)
(* not taken yet, only move down.                                          *)
LEMMA ByteAtOnce ==
    ASSUME K!IsCode, NEW m \in Nat, NEW w, NEW s, NEW f, IsRun(f, s, w, m),
           NEW i \in Nat, i + Byte <= m,
           NEW x \in K!Bytes, \A q \in 0 .. Byte - 1 : q \in x <=> i + q \in w,
           NEW g, IsRun(g, K!Low(K!Xor(f[i], x)), {}, Byte)
    PROVE f[i + Byte] = K!Xor(g[Byte], K!Shift(f[i], Byte))
<1>1. /\ Width \in Nat /\ Byte \in Nat /\ 1 <= Byte /\ Byte <= Width /\ Poly \subseteq Nat
      /\ K!Bits(Width) \subseteq Nat /\ K!Bits(Byte) = 0 .. Byte - 1 /\ x \subseteq 0 .. Byte - 1 /\ x \subseteq Nat
  BY DEF K!IsCode, K!Bits, K!Bytes
<1>2. /\ f \in [0 .. m -> SUBSET K!Bits(Width)]
      /\ \A j \in 1 .. m : f[j] = D(K!Xor(f[j - 1], One(w, j - 1)))
  BY DEF IsRun
<1>3. /\ g \in [0 .. Byte -> SUBSET K!Bits(Width)] /\ g[0] = K!Low(K!Xor(f[i], x))
      /\ \A j \in 1 .. Byte : g[j] = D(K!Xor(g[j - 1], One({}, j - 1)))
  BY DEF IsRun
<1> DEFINE r == f[i]
           Y == {b \in r : b >= Byte} \cup x
<1>4. r \in SUBSET Nat
  BY <1>1, <1>2
<1>5. Y \in SUBSET Nat
  BY <1>1, <1>4
<1>6. f[i] = K!Xor(g[0], Y)
  <2>1. \A b : b \in K!Xor(r, x) <=> ~(b \in r <=> b \in x)
    BY XorFacts
  <2>2. \A b : b \in g[0] <=> b \in K!Xor(r, x) /\ b \in 0 .. Byte - 1
    BY <1>1, <1>3 DEF K!Low
  <2>3. \A b : b \in K!Xor(g[0], Y) <=> ~(b \in g[0] <=> b \in Y)
    BY XorFacts
  <2>4. \A b : b \in Y <=> (b \in r /\ b >= Byte) \/ b \in x
    OBVIOUS
  <2> HIDE DEF r, Y
  <2>5. g[0] \subseteq Nat /\ K!Xor(g[0], Y) \subseteq Nat
    <3>1. g[0] \in SUBSET Nat
      BY <1>1, <1>3
    <3> QED BY <1>5, <3>1, XorIn
  <2>6. ASSUME NEW b \in Nat PROVE b \in r <=> b \in K!Xor(g[0], Y)
    <3>1. b >= Byte <=> ~(b \in 0 .. Byte - 1)
      BY <1>1
    <3>2. b \in x => b \in 0 .. Byte - 1
      BY <1>1
    <3>3. b \in g[0] <=> ~(b \in r <=> b \in x) /\ b \in 0 .. Byte - 1
      BY <2>1, <2>2
    <3>4. b \in Y <=> (b \in r /\ ~(b \in 0 .. Byte - 1)) \/ b \in x
      BY <2>4, <3>1
    <3>5. b \in K!Xor(g[0], Y) <=> ~(b \in g[0] <=> b \in Y)
      BY <2>3
    <3> QED BY <3>2, <3>3, <3>4, <3>5
  <2>7. r = K!Xor(g[0], Y)
    BY <1>4, <2>5, <2>6
  <2> QED BY <2>7 DEF r
<1>7. K!Shift(Y, Byte) = K!Shift(r, Byte)
  <2>1. /\ K!Shift(Y, Byte) \subseteq Nat /\ \A b \in Nat : b \in K!Shift(Y, Byte) <=> b + Byte \in Y
        /\ K!Shift(r, Byte) \subseteq Nat /\ \A b \in Nat : b \in K!Shift(r, Byte) <=> b + Byte \in r
    <3> HIDE DEF Y, r
    <3> QED BY <1>1, <1>4, <1>5, ShiftFacts
  <2>2. ASSUME NEW b \in Nat PROVE b + Byte \in Y <=> b + Byte \in r
    <3>1. b + Byte >= Byte /\ ~(b + Byte \in 0 .. Byte - 1)
      BY <1>1
    <3> HIDE DEF r
    <3> QED BY <1>1, <3>1
  <2> HIDE DEF Y, r
  <2> QED BY <2>1, <2>2
<1>8. \A j \in 0 .. Byte - 1 : j \in Y <=> j \in x
  BY <1>1
<1> HIDE DEF Y
<1> DEFINE Done == {k \in Nat : k <= Byte => f[i + k] = K!Xor(g[k], K!Shift(Y, k))}
<1>9. 0 \in Done
  <2>1. K!Shift(Y, 0) = Y /\ i + 0 = i
    BY <1>5, ShiftTwice
  <2> QED BY <1>6, <2>1
<1>10. ASSUME NEW k \in Nat, k \in Done PROVE k + 1 \in Done
  <2> SUFFICES ASSUME k + 1 <= Byte PROVE f[i + (k + 1)] = K!Xor(g[k + 1], K!Shift(Y, k + 1))
    OBVIOUS
  <2>1. /\ k <= Byte /\ k \in 0 .. Byte - 1 /\ k + 1 \in 1 .. Byte /\ k \in 0 .. Byte /\ (k + 1) - 1 = k
        /\ i + (k + 1) \in 1 .. m /\ (i + (k + 1)) - 1 = i + k
    BY <1>1
  <2>2. f[i + (k + 1)] = D(K!Xor(f[i + k], One(w, i + k)))
    BY <1>2, <2>1
  <2>3. f[i + k] = K!Xor(g[k], K!Shift(Y, k))
    BY <1>10, <2>1
  <2>4. g[k + 1] = D(g[k])
    <3>1. One({}, k) = {}
      BY DEF One
    <3>2. g[k + 1] = D(K!Xor(g[k], One({}, k)))
      BY <1>3, <2>1
    <3> QED BY <3>1, <3>2, XorFacts
  <2>5. K!Shift(Y, k) \in SUBSET Nat /\ g[k] \in SUBSET Nat
    BY <1>1, <1>3, <1>5, <2>1, ShiftFacts
  <2>6. 0 \in K!Shift(Y, k) <=> i + k \in w
    <3>1. 0 \in K!Shift(Y, k) <=> 0 + k \in Y
      BY <1>5, ShiftFacts
    <3>2. 0 + k = k
      OBVIOUS
    <3> QED BY <1>8, <2>1, <3>1, <3>2
  <2>7. One(w, i + k) = IF 0 \in K!Shift(Y, k) THEN {0} ELSE {}
    BY <2>6 DEF One
  <2>8. D(K!Xor(K!Xor(g[k], K!Shift(Y, k)), One(w, i + k))) = K!Xor(D(g[k]), K!Shift(K!Shift(Y, k), 1))
    BY <1>1, <2>5, <2>7, DelayedBits
  <2>9. K!Shift(K!Shift(Y, k), 1) = K!Shift(Y, k + 1)
    BY <1>5, ShiftTwice
  <2> QED BY <2>2, <2>3, <2>4, <2>8, <2>9
<1>11. Nat \subseteq Done
  <2> HIDE DEF Done
  <2> QED BY <1>9, <1>10, Induction
<1>12. f[i + Byte] = K!Xor(g[Byte], K!Shift(Y, Byte))
  BY <1>1, <1>11
<1> QED BY <1>7, <1>12

-----------------------------------------------------------------------------
(* Two runs that start alike and whose bits differ only within Width       *)
(* positions, and differ, end with different registers: from the first     *)
(* difference on, what the registers differ in beyond the bits that are    *)
(* still to come is never empty.                                           *)
LEMMA BurstRemains ==
    ASSUME K!IsCode, NEW m \in Nat, NEW s, NEW f, NEW g,
           NEW v \in SUBSET (0 .. m - 1), NEW w \in SUBSET (0 .. m - 1),
           IsRun(f, s, v, m), IsRun(g, s, w, m), v # w,
           \A i, j \in K!Xor(v, w) : i - j < Width
    PROVE f[m] # g[m]
<1> DEFINE Z == K!Xor(v, w)
<1>z. \A x : x \in Z <=> ~(x \in v <=> x \in w)
  BY XorFacts
<1>1. Z \subseteq 0 .. m - 1 /\ Z # {} /\ \A i, j \in Z : i - j < Width
  <2>1. Z \subseteq 0 .. m - 1
    BY XorIn
  <2> HIDE DEF Z
  <2>2. Z # {}
    BY <1>z
  <2> QED BY <2>1, <2>2 DEF Z
<1> HIDE DEF Z
<1>2. Z \subseteq Nat
  BY <1>1
<1>3. PICK p \in Z : \A k \in Z : p <= k
  BY <1>1, <1>2, LeastElement
<1>4. p \in 0 .. m /\ p \in Nat /\ p <= m
  BY <1>1, <1>3
<1>5. f[p] = g[p]
  <2>1. ASSUME NEW i \in 0 .. p - 1 PROVE i \in v <=> i \in w
    <3>1. i \notin Z
      BY <1>3, <1>4
    <3> QED BY <1>z, <3>1
  <2>2. \A j \in 0 .. p : f[j] = g[j]
    BY <1>4, <2>1, RunsAgree
  <2> QED BY <1>4, <2>2
<1>6. /\ Width \in Nat /\ Width >= 1 /\ Poly \subseteq Nat /\ K!Bits(Width) = 0 .. Width - 1
      /\ K!Bits(Width) \subseteq Nat
  BY DEF K!IsCode, K!Bits
<1>7. /\ f \in [0 .. m -> SUBSET K!Bits(Width)]
      /\ \A j \in 1 .. m : f[j] = D(K!Xor(f[j - 1], One(v, j - 1)))
      /\ g \in [0 .. m -> SUBSET K!Bits(Width)]
      /\ \A j \in 1 .. m : g[j] = D(K!Xor(g[j - 1], One(w, j - 1)))
  BY DEF IsRun
<1> DEFINE Differ(j, u) == u # {} /\ f[j] = K!Xor(K!Xor(g[j], u), K!Shift(Z, j))
           Open == {k \in Nat : p + k <= m => \E u \in SUBSET K!Bits(Width) : Differ(p + k, u)}
<1>8. 0 \in Open
  <2> DEFINE u == K!Shift(Z, p)
  <2>1. u \subseteq Nat /\ \A x \in Nat : x \in u <=> x + p \in Z
    BY <1>2, <1>4, ShiftFacts
  <2> HIDE DEF u
  <2>2. 0 \in u
    BY <1>3, <1>4, <2>1
  <2>3. ASSUME NEW x \in u PROVE x \in 0 .. Width - 1
    <3>1. x \in Nat /\ x + p \in Z
      BY <2>1
    <3>2. (x + p) - p < Width
      BY <1>1, <1>3, <3>1
    <3> QED BY <1>4, <1>6, <3>1, <3>2
  <2>4. K!Xor(K!Xor(g[p], u), u) = g[p]
    <3>1. ASSUME NEW x PROVE x \in K!Xor(K!Xor(g[p], u), u) <=> x \in g[p]
      BY XorFacts
    <3> QED BY <3>1
  <2>5. Differ(p, u)
    BY <1>5, <2>2, <2>4 DEF u
  <2>6. p + 0 = p /\ u \in SUBSET K!Bits(Width)
    BY <1>4, <1>6, <2>3
  <2> QED BY <2>5, <2>6
<1>9. ASSUME NEW k \in Nat, k \in Open PROVE k + 1 \in Open
  <2> SUFFICES ASSUME p + (k + 1) <= m
               PROVE \E u \in SUBSET K!Bits(Width) : Differ(p + (k + 1), u)
    OBVIOUS
  <2> DEFINE j == p + k
  <2>1. /\ j \in Nat /\ j <= m /\ j \in 0 .. m /\ j + 1 \in 1 .. m /\ (j + 1) - 1 = j /\ p + (k + 1) = j + 1
    BY <1>4
  <2>2. PICK u \in SUBSET K!Bits(Width) : u # {} /\ f[j] = K!Xor(K!Xor(g[j], u), K!Shift(Z, j))
    BY <1>9, <2>1
  <2> HIDE DEF j
  <2>3. /\ f[j + 1] = D(K!Xor(f[j], One(v, j)))
        /\ g[j + 1] = D(K!Xor(g[j], One(w, j)))
        /\ g[j] \in SUBSET K!Bits(Width)
    BY <1>7, <2>1
  <2> DEFINE h == K!Xor(g[j], One(w, j))
             late == K!Shift(Z, j)
  <2>4. h \in SUBSET K!Bits(Width) /\ D(h) = g[j + 1] /\ D(h) \in SUBSET K!Bits(Width)
    BY <2>3, NextOfRun
  <2>5. late \in SUBSET Nat /\ (0 \in late <=> j \in Z) /\ K!Shift(late, 1) = K!Shift(Z, j + 1)
    <3>1. 0 \in late <=> 0 + j \in Z
      BY <1>2, <2>1, ShiftFacts
    <3>2. 0 + j = j
      BY <2>1
    <3> QED BY <1>2, <2>1, <3>1, <3>2, ShiftFacts, ShiftTwice
  <2>6. D(u) \in SUBSET K!Bits(Width) /\ D(u) # {}
    BY <2>2, DKeeps
  <2>7. K!Xor(f[j], One(v, j)) = K!Xor(K!Xor(K!Xor(h, u), late), One(Z, j))
    <3>1. One(Z, j) = K!Xor(One(v, j), One(w, j))
      BY <1>z DEF One, K!Xor
    <3>2. ASSUME NEW x
          PROVE x \in K!Xor(f[j], One(v, j)) <=> x \in K!Xor(K!Xor(K!Xor(h, u), late), K!Xor(One(v, j), One(w, j)))
      <4>1. x \in K!Xor(f[j], One(v, j)) <=> ~(x \in K!Xor(K!Xor(g[j], u), late) <=> x \in One(v, j))
        BY <2>2, XorFacts
      <4>2. x \in K!Xor(K!Xor(g[j], u), late) <=> ~(~(x \in g[j] <=> x \in u) <=> x \in late)
        BY XorFacts
      <4>3. x \in h <=> ~(x \in g[j] <=> x \in One(w, j))
        BY XorFacts
      <4>4. x \in K!Xor(K!Xor(h, u), late) <=> ~(~(x \in h <=> x \in u) <=> x \in late)
        BY XorFacts
      <4>5. x \in K!Xor(One(v, j), One(w, j)) <=> ~(x \in One(v, j) <=> x \in One(w, j))
        BY XorFacts
      <4>6. x \in K!Xor(K!Xor(K!Xor(h, u), late), K!Xor(One(v, j), One(w, j)))
            <=> ~(x \in K!Xor(K!Xor(h, u), late) <=> x \in K!Xor(One(v, j), One(w, j)))
        BY XorFacts
      <4> QED BY <4>1, <4>2, <4>3, <4>4, <4>5, <4>6
    <3> QED BY <3>1, <3>2
  <2> HIDE DEF h, late
  <2>8. K!Xor(h, u) \in SUBSET Nat /\ h \in SUBSET Nat /\ u \in SUBSET Nat
    BY <1>6, <2>2, <2>4, XorIn
  <2>9. One(Z, j) = IF 0 \in late THEN {0} ELSE {}
    BY <2>5 DEF One
  <2>10. D(K!Xor(K!Xor(K!Xor(h, u), late), One(Z, j))) = K!Xor(D(K!Xor(h, u)), K!Shift(late, 1))
    BY <1>6, <2>5, <2>8, <2>9, DelayedBits
  <2>11. D(K!Xor(h, u)) = K!Xor(D(h), D(u))
    BY <1>6, <2>8, DLinear
  <2>12. f[j + 1] = K!Xor(K!Xor(g[j + 1], D(u)), K!Shift(Z, j + 1))
    BY <2>3, <2>4, <2>5, <2>7, <2>10, <2>11
  <2> QED BY <2>1, <2>6, <2>12
<1>10. Nat \subseteq Open
  <2> HIDE DEF Open
  <2> QED BY <1>8, <1>9, Induction
<1>11. PICK u \in SUBSET K!Bits(Width) : u # {} /\ f[m] = K!Xor(K!Xor(g[m], u), K!Shift(Z, m))
  <2>1. m - p \in Nat /\ p + (m - p) = m
    BY <1>4
  <2>2. m - p \in Open
    BY <1>10, <2>1
  <2>3. \E u \in SUBSET K!Bits(Width) : Differ(p + (m - p), u)
    BY <1>4, <2>1, <2>2
  <2> QED BY <2>1, <2>3
<1>12. K!Shift(Z, m) = {}
  <2>1. K!Shift(Z, m) \subseteq Nat /\ \A x \in Nat : x \in K!Shift(Z, m) <=> x + m \in Z
    BY <1>2, ShiftFacts
  <2>2. ASSUME NEW x \in Nat PROVE ~(x + m \in Z)
    BY <1>1
  <2> QED BY <2>1, <2>2
<1>13. f[m] = K!Xor(g[m], u)
  BY <1>11, <1>12, XorFacts
<1>14. PICK y \in u : TRUE
  BY <1>11
<1>15. y \in f[m] <=> ~(y \in g[m])
  BY <1>13, <1>14, XorFacts
<1> QED BY <1>15

-----------------------------------------------------------------------------
(* Buffers: the positions of the bits that are 1.                          *)
Ones(b) == {i \in 0 .. Byte * Len(b) - 1 : i % Byte \in b[(i \div Byte) + 1]}

LEMMA Position ==
    ASSUME K!IsCode, NEW k \in Nat, NEW q \in 0 .. Byte - 1
    PROVE /\ Byte * k \in Nat /\ Byte * (k + 1) = Byte * k + Byte
          /\ (Byte * k + q) \div Byte = k /\ ((Byte * k + q) % Byte) = q
<1>1. Byte \in Nat /\ Byte >= 1
  BY DEF K!IsCode
<1>2. Byte * k \in Nat /\ Byte * (k + 1) = Byte * k + Byte
  BY <1>1
<1> DEFINE i == Byte * k + q
           e == i \div Byte
<1>3. i \in Nat /\ e \in Nat /\ i % Byte \in 0 .. Byte - 1 /\ i = Byte * e + (i % Byte)
  BY <1>1, <1>2
<1> HIDE DEF e
<1>4. e = k
  <2>1. CASE e <= k - 1
    <3>1. Byte * e <= Byte * (k - 1) /\ Byte * (k - 1) = Byte * k - Byte
      BY <1>1, <1>3, <2>1
    <3> QED BY <1>1, <1>2, <1>3, <3>1
  <2>2. CASE e >= k + 1
    <3>1. Byte * e >= Byte * (k + 1)
      BY <1>1, <1>3, <2>2
    <3> QED BY <1>1, <1>2, <1>3, <3>1
  <2> QED BY <1>3, <2>1, <2>2
<1>5. i % Byte = q
  BY <1>1, <1>2, <1>3, <1>4
<1> QED BY <1>2, <1>4, <1>5 DEF e

(* What Remainder and Entry are.                                           *)
LEMMA RemainderRun ==
    ASSUME K!IsCode, NEW b, Len(b) \in Nat
    PROVE \E f : /\ IsRun(f, K!Start, Ones(b), Byte * Len(b))
                 /\ K!Remainder(b) = K!Xor(f[Byte * Len(b)], K!Start)
<1> DEFINE m == Byte * Len(b)
           Step(h, j) == LET r == K!Xor(h[j - 1], K!Bit(b, j))
                         IN IF 0 \in r THEN K!Xor(Poly, K!Shift(r, 1)) ELSE K!Shift(r, 1)
           reg == CHOOSE h : h = [j \in 0 .. m |-> IF j = 0 THEN K!Start ELSE Step(h, j)]
<1>1. m \in Nat /\ K!Start \in SUBSET K!Bits(Width)
  BY DEF K!IsCode, K!Start
<1>2. K!Remainder(b) = K!Xor(reg[m], K!Start)
  BY DEF K!Remainder
<1>m. m = Byte * Len(b)
  OBVIOUS
<1> HIDE DEF m
<1>3. PICK f : IsRun(f, K!Start, Ones(b), m)
  BY <1>1, RunExists
<1>4. /\ f \in [0 .. m -> SUBSET K!Bits(Width)] /\ f[0] = K!Start
      /\ \A j \in 1 .. m : f[j] = D(K!Xor(f[j - 1], One(Ones(b), j - 1)))
  BY <1>3 DEF IsRun
<1>5. ASSUME NEW j \in 1 .. m PROVE K!Bit(b, j) = One(Ones(b), j - 1)
  <2>1. j - 1 \in 0 .. Byte * Len(b) - 1
    BY <1>1, <1>m
  <2> QED BY <2>1 DEF K!Bit, One, Ones
<1>6. ASSUME NEW h, NEW j \in 1 .. m PROVE Step(h, j) = D(K!Xor(h[j - 1], One(Ones(b), j - 1)))
  BY <1>5 DEF D
<1> HIDE DEF Step
<1>7. f = [j \in 0 .. m |-> IF j = 0 THEN K!Start ELSE Step(f, j)]
  <2>1. ASSUME NEW j \in 0 .. m PROVE f[j] = IF j = 0 THEN K!Start ELSE Step(f, j)
    <3>1. CASE j = 0
      BY <1>4, <3>1
    <3>2. CASE j # 0
      <4>1. j \in 1 .. m
        BY <1>1, <3>2
      <4> QED BY <1>4, <1>6, <3>2, <4>1
    <3> QED BY <3>1, <3>2
  <2> QED BY <1>4, <2>1
<1>8. reg = [j \in 0 .. m |-> IF j = 0 THEN K!Start ELSE Step(reg, j)]
  BY <1>7
<1> HIDE DEF reg
<1> DEFINE Same == {k \in Nat : k <= m => reg[k] = f[k]}
<1>9. 0 \in Same
  BY <1>1, <1>4, <1>8
<1>10. ASSUME NEW k \in Nat, k \in Same PROVE k + 1 \in Same
  <2> SUFFICES ASSUME k + 1 <= m PROVE reg[k + 1] = f[k + 1]
    OBVIOUS
  <2>1. k <= m /\ k + 1 \in 1 .. m /\ k + 1 \in 0 .. m /\ k + 1 # 0 /\ (k + 1) - 1 = k
    BY <1>1
  <2>2. reg[k + 1] = D(K!Xor(reg[k], One(Ones(b), k)))
    BY <1>6, <1>8, <2>1
  <2>3. f[k + 1] = D(K!Xor(f[k], One(Ones(b), k)))
    BY <1>4, <2>1
  <2> QED BY <1>10, <2>1, <2>2, <2>3
<1>11. Nat \subseteq Same
  <2> HIDE DEF Same
  <2> QED BY <1>9, <1>10, Induction
<1>12. reg[m] = f[m]
  BY <1>1, <1>11
<1> QED BY <1>2, <1>3, <1>12, <1>m

LEMMA EntryRun ==
    ASSUME K!IsCode, NEW k \in K!Bytes
    PROVE \E f : IsRun(f, k, {}, Byte) /\ K!Entry(k) = f[Byte]
<1> DEFINE Step(h, j) == IF 0 \in h[j - 1] THEN K!Xor(Poly, K!Shift(h[j - 1], 1)) ELSE K!Shift(h[j - 1], 1)
           step == CHOOSE h : h = [j \in 0 .. Byte |-> IF j = 0 THEN k ELSE Step(h, j)]
<1>1. Byte \in Nat /\ k \in SUBSET K!Bits(Width)
  BY DEF K!IsCode, K!Bytes, K!Bits
<1>2. K!Entry(k) = step[Byte]
  BY DEF K!Entry
<1>3. PICK f : IsRun(f, k, {}, Byte)
  BY <1>1, RunExists
<1>4. /\ f \in [0 .. Byte -> SUBSET K!Bits(Width)] /\ f[0] = k
      /\ \A j \in 1 .. Byte : f[j] = D(f[j - 1])
  <2>1. \A j : One({}, j) = {}
    BY DEF One
  <2>2. \A j \in 1 .. Byte : f[j] = D(K!Xor(f[j - 1], {}))
    BY <1>3, <2>1 DEF IsRun
  <2> QED BY <1>3, <2>2, XorFacts DEF IsRun
<1>6. ASSUME NEW h, NEW j PROVE Step(h, j) = D(h[j - 1])
  BY DEF D
<1> HIDE DEF Step
<1>7. f = [j \in 0 .. Byte |-> IF j = 0 THEN k ELSE Step(f, j)]
  <2>1. ASSUME NEW j \in 0 .. Byte PROVE f[j] = IF j = 0 THEN k ELSE Step(f, j)
    <3>1. CASE j = 0
      BY <1>4, <3>1
    <3>2. CASE j # 0
      <4>1. j \in 1 .. Byte
        BY <1>1, <3>2
      <4> QED BY <1>4, <1>6, <3>2, <4>1
    <3> QED BY <3>1, <3>2
  <2> QED BY <1>4, <2>1
<1>8. step = [j \in 0 .. Byte |-> IF j = 0 THEN k ELSE Step(step, j)]
  BY <1>7
<1> HIDE DEF step
<1> DEFINE Same == {i \in Nat : i <= Byte => step[i] = f[i]}
<1>9. 0 \in Same
  BY <1>1, <1>4, <1>8
<1>10. ASSUME NEW i \in Nat, i \in Same PROVE i + 1 \in Same
  <2> SUFFICES ASSUME i + 1 <= Byte PROVE step[i + 1] = f[i + 1]
    OBVIOUS
  <2>1. i <= Byte /\ i + 1 \in 1 .. Byte /\ i + 1 \in 0 .. Byte /\ i + 1 # 0 /\ (i + 1) - 1 = i
    BY <1>1
  <2>2. step[i + 1] = D(step[i])
    BY <1>6, <1>8, <2>1
  <2>3. f[i + 1] = D(f[i])
    BY <1>4, <2>1
  <2> QED BY <1>10, <2>1, <2>2, <2>3
<1>11. Nat \subseteq Same
  <2> HIDE DEF Same
  <2> QED BY <1>9, <1>10, Induction
<1>12. step[Byte] = f[Byte]
  BY <1>1, <1>11
<1> QED BY <1>2, <1>3, <1>12

LEMMA BufferFacts ==
    ASSUME K!IsCode, NEW b \in K!Buffers
    PROVE /\ Len(b) \in 0 .. MaxLen /\ b \in [1 .. Len(b) -> K!Bytes]
          /\ \A i \in 1 .. Len(b) : b[i] \in K!Bytes
          /\ Byte * Len(b) \in Nat
<1>1. PICK k \in 0 .. MaxLen : b \in [1 .. k -> K!Bytes]
  BY DEF K!Buffers
<1>2. k \in Nat /\ Byte \in Nat
  BY DEF K!IsCode
<1>3. b \in Seq(K!Bytes) /\ Len(b) = k
  BY <1>1, <1>2, SeqDef, LenProperties
<1>4. \A i \in 1 .. k : b[i] \in K!Bytes
  BY <1>1
<1> QED BY <1>1, <1>2, <1>3, <1>4

(* Buffers of one length whose bits agree are the same.                    *)
LEMMA SameOnes ==
    ASSUME K!IsCode, NEW a \in K!Buffers, NEW b \in K!Buffers, Len(a) = Len(b), Ones(a) = Ones(b)
    PROVE a = b
<1>1. /\ Len(a) \in Nat /\ a \in [1 .. Len(a) -> K!Bytes] /\ \A i \in 1 .. Len(a) : a[i] \in K!Bytes
      /\ b \in [1 .. Len(a) -> K!Bytes] /\ \A i \in 1 .. Len(a) : b[i] \in K!Bytes
  BY BufferFacts
<1>2. ASSUME NEW i \in 1 .. Len(a), NEW q \in 0 .. Byte - 1 PROVE q \in a[i] <=> q \in b[i]
  <2> DEFINE k == i - 1
             x == Byte * k + q
  <2>1. Byte \in Nat /\ Byte >= 1 /\ k \in Nat /\ k + 1 = i /\ k + 1 <= Len(a)
    BY <1>1 DEF K!IsCode
  <2>2. /\ Byte * k \in Nat /\ Byte * (k + 1) = Byte * k + Byte
        /\ x \div Byte = k /\ (x % Byte) = q
    BY <2>1, Position
  <2>3. Byte * (k + 1) <= Byte * Len(a)
    BY <1>1, <2>1
  <2>4. x \in 0 .. Byte * Len(a) - 1
    BY <1>1, <2>1, <2>2, <2>3
  <2>5. x \in Ones(a) <=> q \in a[i]
    BY <2>1, <2>2, <2>4 DEF Ones
  <2>6. x \in Ones(b) <=> q \in b[i]
    BY <2>1, <2>2, <2>4 DEF Ones
  <2> QED BY <2>5, <2>6
<1>3. ASSUME NEW i \in 1 .. Len(a) PROVE a[i] = b[i]
  <2>1. a[i] \subseteq 0 .. Byte - 1 /\ b[i] \subseteq 0 .. Byte - 1
    BY <1>1 DEF K!Bytes, K!Bits
  <2> QED BY <1>2, <2>1
<1> QED BY <1>1, <1>3

-----------------------------------------------------------------------------
(* The invariant: what is kept, what the table holds, and what c is while  *)
(* a buffer is taken.                                                      *)
Results == [of : K!Buffers, crc : SUBSET K!Bits(Width)]
CrcTypes == /\ crc_table \in [K!Bytes -> SUBSET K!Bits(Width)] /\ crc_table_computed \in BOOLEAN
        /\ buf \in [busy : BOOLEAN, at : K!Buffers] /\ c \in SUBSET K!Bits(Width)
        /\ n \in 0 .. Len(buf.at)
        /\ crcs \in Seq(Results)
TableMade == crc_table_computed => \A k \in K!Bytes : crc_table[k] = K!Entry(k)
Running == buf.busy => \E f : /\ IsRun(f, K!Start, Ones(buf.at), Byte * Len(buf.at))
                              /\ c = f[Byte * n]
CrcInv == CrcTypes /\ TableMade /\ Running /\ K!TableRight

LEMMA CrcInitInv == ASSUME K!IsCode, K!Init PROVE CrcInv
<1>1. MaxLen \in Nat
  BY DEF K!IsCode
<1>2. /\ crc_table = [k \in K!Bytes |-> {}] /\ crc_table_computed = FALSE
      /\ buf = [busy |-> FALSE, at |-> <<>>] /\ c = {} /\ n = 0 /\ crcs = <<>>
  BY DEF K!Init, K!Idle
<1>3. <<>> \in K!Buffers
  <2>1. <<>> \in [1 .. 0 -> K!Bytes] /\ 0 \in 0 .. MaxLen
    BY <1>1
  <2> QED BY <2>1 DEF K!Buffers
<1>4. crcs \in Seq(Results) /\ DOMAIN crcs = {}
  BY <1>2, EmptySeq
<1>5. crc_table \in [K!Bytes -> SUBSET K!Bits(Width)] /\ crc_table_computed \in BOOLEAN
  BY <1>2
<1>6. buf \in [busy : BOOLEAN, at : K!Buffers] /\ n \in 0 .. Len(buf.at) /\ c \in SUBSET K!Bits(Width)
  BY <1>2, <1>3
<1>7. CrcTypes
  BY <1>4, <1>5, <1>6 DEF CrcTypes
<1> QED BY <1>2, <1>4, <1>7 DEF CrcInv, TableMade, Running, K!TableRight

(* A buffer is taken: nothing was read of it, and c is where the run       *)
(* begins.                                                                 *)
LEMMA StartKeeps ==
    ASSUME K!IsCode, CrcInv, NEW b \in K!Buffers, K!crc(b)
    PROVE CrcInv'
<1>1. /\ buf' = [busy |-> TRUE, at |-> b] /\ c' = K!Start /\ n' = 0
      /\ crc_table' = crc_table /\ crc_table_computed' = crc_table_computed /\ crcs' = crcs
  BY DEF K!crc
<1>2. Len(b) \in Nat /\ Byte * Len(b) \in Nat /\ Byte * 0 = 0 /\ K!Start \in SUBSET K!Bits(Width)
  BY BufferFacts DEF K!IsCode, K!Start
<1>3. CrcTypes'
  BY <1>1, <1>2 DEF CrcInv, CrcTypes
<1>4. Running'
  <2>1. PICK f : IsRun(f, K!Start, Ones(b), Byte * Len(b))
    BY <1>2, RunExists
  <2>2. f[0] = K!Start
    BY <2>1 DEF IsRun
  <2>3. buf'.at = b /\ c' = f[Byte * n']
    BY <1>1, <1>2, <2>2
  <2> QED BY <2>1, <2>3 DEF Running
<1> QED BY <1>1, <1>3, <1>4 DEF CrcInv, TableMade, K!TableRight

LEMMA TableKeeps ==
    ASSUME K!IsCode, CrcInv, K!make_crc_table
    PROVE CrcInv'
<1>1. /\ crc_table' = [k \in K!Bytes |-> K!Entry(k)] /\ crc_table_computed' = TRUE
      /\ buf' = buf /\ c' = c /\ n' = n /\ crcs' = crcs
  BY DEF K!make_crc_table
<1>2. ASSUME NEW k \in K!Bytes PROVE K!Entry(k) \in SUBSET K!Bits(Width)
  <2>1. PICK f : IsRun(f, k, {}, Byte) /\ K!Entry(k) = f[Byte]
    BY EntryRun
  <2>2. Byte \in 0 .. Byte
    BY DEF K!IsCode
  <2> QED BY <2>1, <2>2 DEF IsRun
<1>3. CrcTypes'
  BY <1>1, <1>2 DEF CrcInv, CrcTypes
<1> QED BY <1>1, <1>3 DEF CrcInv, TableMade, Running, K!TableRight

(* The next byte.                                                          *)
LEMMA UpdateKeeps ==
    ASSUME K!IsCode, CrcInv, K!update_crc
    PROVE CrcInv'
<1>1. /\ buf.busy /\ crc_table_computed /\ n < Len(buf.at)
      /\ c' = K!Xor(crc_table[K!Low(K!Xor(c, buf.at[n + 1]))], K!Shift(c, Byte)) /\ n' = n + 1
      /\ crc_table' = crc_table /\ crc_table_computed' = crc_table_computed
      /\ buf' = buf /\ crcs' = crcs
  BY DEF K!update_crc
<1> DEFINE b == buf.at
           m == Byte * Len(b)
           x == b[n + 1]
           i == Byte * n
<1>2. /\ b \in K!Buffers /\ Len(b) \in Nat /\ m \in Nat /\ n \in Nat /\ n + 1 \in 1 .. Len(b)
      /\ x \in K!Bytes
  BY <1>1, BufferFacts DEF CrcInv, CrcTypes
<1>3. PICK f : IsRun(f, K!Start, Ones(b), m) /\ c = f[i]
  BY <1>1 DEF CrcInv, Running
<1>4. Byte \in Nat /\ Byte >= 1
  BY DEF K!IsCode
<1>5. i \in Nat /\ Byte * (n + 1) = i + Byte
  BY <1>2, <1>4
<1>6. i + Byte <= m
  <2>1. Byte * (n + 1) <= Byte * Len(b)
    BY <1>2, <1>4
  <2> QED BY <1>5, <2>1
<1>7. ASSUME NEW q \in 0 .. Byte - 1 PROVE q \in x <=> i + q \in Ones(b)
  <2>1. (i + q) \div Byte = n /\ ((i + q) % Byte) = q
    BY <1>2, Position
  <2>2. i + q \in 0 .. m - 1
    BY <1>2, <1>4, <1>5, <1>6
  <2> QED BY <2>1, <2>2 DEF Ones
<1> DEFINE k == K!Low(K!Xor(c, x))
<1>8. k \in K!Bytes
  BY DEF K!Low, K!Bytes
<1>9. PICK g : IsRun(g, k, {}, Byte) /\ K!Entry(k) = g[Byte]
  BY <1>8, EntryRun
<1>10. f[i + Byte] = K!Xor(g[Byte], K!Shift(f[i], Byte))
  <2>1. IsRun(g, K!Low(K!Xor(f[i], x)), {}, Byte)
    BY <1>3, <1>9
  <2> HIDE DEF b, m, x, i, k
  <2> QED BY <1>2, <1>3, <1>5, <1>6, <1>7, <2>1, ByteAtOnce
<1>11. c' = f[i + Byte]
  <2>1. crc_table[k] = K!Entry(k)
    BY <1>1, <1>8 DEF CrcInv, TableMade
  <2> QED BY <1>1, <1>3, <1>9, <1>10, <2>1
<1>12. c' \in SUBSET K!Bits(Width)
  <2>1. f \in [0 .. m -> SUBSET K!Bits(Width)] /\ i + Byte \in 0 .. m
    BY <1>2, <1>3, <1>4, <1>5, <1>6 DEF IsRun
  <2> QED BY <1>11, <2>1
<1>13. CrcTypes'
  BY <1>1, <1>2, <1>12 DEF CrcInv, CrcTypes
<1>14. Running'
  <2>1. buf'.at = b /\ c' = f[Byte * n']
    BY <1>1, <1>5, <1>11
  <2> QED BY <1>3, <2>1 DEF Running
<1> QED BY <1>1, <1>13, <1>14 DEF CrcInv, TableMade, K!TableRight

LEMMA ReturnKeeps ==
    ASSUME K!IsCode, CrcInv, K!Return
    PROVE CrcInv'
<1>1. /\ buf.busy /\ n = Len(buf.at)
      /\ crcs' = Append(crcs, [of |-> buf.at, crc |-> K!Xor(c, K!Start)])
      /\ buf' = [busy |-> FALSE, at |-> <<>>] /\ c' = {} /\ n' = 0
      /\ crc_table' = crc_table /\ crc_table_computed' = crc_table_computed
  BY DEF K!Return, K!Idle
<1> DEFINE b == buf.at
           m == Byte * Len(b)
           new == [of |-> b, crc |-> K!Xor(c, K!Start)]
<1>2. b \in K!Buffers /\ Len(b) \in Nat /\ m \in Nat /\ crcs \in Seq(Results)
  BY BufferFacts DEF CrcInv, CrcTypes
<1>3. PICK f : IsRun(f, K!Start, Ones(b), m) /\ c = f[m]
  BY <1>1 DEF CrcInv, Running
<1>4. PICK g : IsRun(g, K!Start, Ones(b), m) /\ K!Remainder(b) = K!Xor(g[m], K!Start)
  BY <1>2, RemainderRun
<1>5. f[m] = g[m]
  <2> HIDE DEF b, m
  <2>1. \A j \in 0 .. m : f[j] = g[j]
    BY <1>2, <1>3, <1>4, RunsAgree
  <2> QED BY <1>2, <2>1
<1>6. new \in Results /\ new.crc = K!Remainder(new.of)
  <2>1. c \in SUBSET K!Bits(Width) /\ K!Start \in SUBSET K!Bits(Width)
    BY DEF CrcInv, CrcTypes, K!Start
  <2>2. K!Xor(c, K!Start) \in SUBSET K!Bits(Width)
    BY <2>1, XorIn
  <2> QED BY <1>2, <1>3, <1>4, <1>5, <2>2 DEF Results
<1> HIDE DEF new
<1>7. /\ crcs' \in Seq(Results) /\ Len(crcs') = Len(crcs) + 1
      /\ \A k \in 1 .. Len(crcs) + 1 : crcs'[k] = IF k <= Len(crcs) THEN crcs[k] ELSE new
  BY <1>1, <1>2, <1>6 DEF new
<1>8. K!TableRight'
  <2>1. DOMAIN crcs' = 1 .. Len(crcs) + 1 /\ DOMAIN crcs = 1 .. Len(crcs)
    BY <1>2, <1>7, LenProperties
  <2>2. ASSUME NEW k \in 1 .. Len(crcs) + 1 PROVE crcs'[k].crc = K!Remainder(crcs'[k].of)
    <3>1. CASE k <= Len(crcs)
      <4>1. k \in DOMAIN crcs /\ crcs'[k] = crcs[k]
        BY <1>2, <1>7, <2>1, <3>1, LenProperties
      <4> QED BY <4>1 DEF CrcInv, K!TableRight
    <3>2. CASE ~(k <= Len(crcs))
      BY <1>6, <1>7, <3>2
    <3> QED BY <3>1, <3>2
  <2> QED BY <2>1, <2>2 DEF K!TableRight
<1>9. <<>> \in K!Buffers
  <2>1. <<>> \in [1 .. 0 -> K!Bytes] /\ 0 \in 0 .. MaxLen
    BY DEF K!IsCode
  <2> QED BY <2>1 DEF K!Buffers
<1>10. CrcTypes'
  BY <1>1, <1>7, <1>9, EmptySeq DEF CrcInv, CrcTypes
<1> QED BY <1>1, <1>8, <1>10 DEF CrcInv, TableMade, Running

LEMMA CrcStep == ASSUME K!IsCode, CrcInv, [K!Next]_(K!vars) PROVE CrcInv'
<1>1. ASSUME NEW b \in K!Buffers, K!crc(b) PROVE CrcInv'
  BY <1>1, StartKeeps
<1>2. CASE K!make_crc_table
  BY <1>2, TableKeeps
<1>3. CASE K!update_crc
  BY <1>3, UpdateKeeps
<1>4. CASE K!Return
  BY <1>4, ReturnKeeps
<1>5. CASE UNCHANGED K!vars
  BY <1>5 DEF K!vars, CrcInv, CrcTypes, TableMade, Running, K!TableRight
<1> QED BY <1>1, <1>2, <1>3, <1>4, <1>5 DEF K!Next

LEMMA BurstsAreFound == ASSUME K!IsCode, CrcInv PROVE K!BurstsFound
<1> SUFFICES ASSUME Len(crcs) = 2, Len(crcs[1].of) = Len(crcs[2].of),
                    K!Burst(crcs[1].of, crcs[2].of), crcs[1].crc = crcs[2].crc
             PROVE crcs[1].of = crcs[2].of
  BY DEF K!BurstsFound
<1> DEFINE a == crcs[1].of
           b == crcs[2].of
           m == Byte * Len(a)
<1>1. /\ a \in K!Buffers /\ b \in K!Buffers /\ Len(a) = Len(b) /\ Len(a) \in Nat /\ m \in Nat
      /\ m = Byte * Len(b)
  <2>1. crcs \in Seq(Results)
    BY DEF CrcInv, CrcTypes
  <2>2. \A i \in 1 .. Len(crcs) : crcs[i] \in Results
    BY <2>1, ElementOfSeq
  <2>3. a \in K!Buffers /\ b \in K!Buffers
    <3>1. 1 \in 1 .. Len(crcs) /\ 2 \in 1 .. Len(crcs)
      OBVIOUS
    <3>2. crcs[1] \in Results /\ crcs[2] \in Results
      BY <2>2, <3>1
    <3> QED BY <3>2 DEF Results
  <2> QED BY <2>3, BufferFacts
<1>2. K!Remainder(a) = K!Remainder(b)
  <2>1. DOMAIN crcs = 1 .. 2
    BY LenProperties DEF CrcInv, CrcTypes
  <2> QED BY <2>1 DEF CrcInv, K!TableRight
<1>3. \A i, j \in K!Xor(Ones(a), Ones(b)) : i - j < Width
  <2>1. ASSUME NEW i \in K!Xor(Ones(a), Ones(b))
        PROVE i \in Int /\ i + 1 \in 1 .. m /\ K!Bit(a, i + 1) # K!Bit(b, i + 1)
    <3>1. i \in 0 .. m - 1 /\ ~(i \in Ones(a) <=> i \in Ones(b))
      BY <1>1 DEF K!Xor, Ones
    <3>2. (i + 1) - 1 = i /\ i + 1 \in 1 .. m /\ i \in Int
      BY <1>1, <3>1
    <3>3. i % Byte \in a[(i \div Byte) + 1] <=> ~(i % Byte \in b[(i \div Byte) + 1])
      BY <1>1, <3>1 DEF Ones
    <3> QED BY <3>2, <3>3 DEF K!Bit
  <2>2. ASSUME NEW i \in K!Xor(Ones(a), Ones(b)), NEW j \in K!Xor(Ones(a), Ones(b)) PROVE i - j < Width
    <3>1. (i + 1) - (j + 1) < Width
      BY <2>1 DEF K!Burst
    <3>2. i \in Int /\ j \in Int /\ Width \in Int
      BY <2>1 DEF K!IsCode
    <3> QED BY <3>1, <3>2
  <2> QED BY <2>2
<1>4. PICK f : IsRun(f, K!Start, Ones(a), m) /\ K!Remainder(a) = K!Xor(f[m], K!Start)
  BY <1>1, RemainderRun
<1>5. PICK g : IsRun(g, K!Start, Ones(b), m) /\ K!Remainder(b) = K!Xor(g[m], K!Start)
  BY <1>1, RemainderRun
<1>6. f[m] = g[m]
  <2>1. K!Xor(f[m], K!Start) = K!Xor(g[m], K!Start)
    BY <1>2, <1>4, <1>5
  <2> QED BY <2>1, XorCancels
<1>7. Ones(a) \in SUBSET (0 .. m - 1) /\ Ones(b) \in SUBSET (0 .. m - 1)
  BY <1>1 DEF Ones
<1>8. Ones(a) = Ones(b)
  <2> SUFFICES ASSUME Ones(a) # Ones(b) PROVE FALSE
    OBVIOUS
  <2> HIDE DEF a, b, m
  <2>1. f[m] # g[m]
    BY <1>1, <1>3, <1>4, <1>5, <1>7, BurstRemains
  <2> QED BY <1>6, <2>1
<1> QED BY <1>1, <1>8, SameOnes

-----------------------------------------------------------------------------
(* The CRC among the other programs.                                       *)
LEMMA CrcInvHolds == ProgramsSpec => []CrcInv
<1>1. ProgramsInit => CrcInv
  BY CodeAssumption, CrcInitInv DEF ProgramsInit
<1>2. CrcInv /\ [ProgramsNext]_<<runs, vars, example, checksum, search>> => CrcInv'
  <2>1. [ProgramsNext]_<<runs, vars, example, checksum, search>> => [K!Next]_(K!vars)
    BY DEF ProgramsNext, checksum, K!vars
  <2> QED BY <2>1, CodeAssumption, CrcStep
<1> QED BY <1>1, <1>2, PTL DEF ProgramsSpec

(* Every variable of crc.c keeps its type: the register and the table its  *)
(* width, and n stays within the buffer.                                   *)
THEOREM RegisterKeepsWidth == ProgramsSpec => []K!TypeOK
<1>1. CrcInv => K!TypeOK
  BY DEF CrcInv, CrcTypes, K!TypeOK
<1> QED BY <1>1, CrcInvHolds, PTL

(* What crc returns is the CRC by bits, for the call that makes the table  *)
(* and for the next, and two buffers of one length that differ within      *)
(* Width bits never have the same.                                         *)
THEOREM ChecksumIsSound == ProgramsSpec => []ChecksumSound
<1>1. CrcInv => ChecksumSound
  BY CodeAssumption, BurstsAreFound DEF CrcInv, ChecksumSound, K!ChecksumSound
<1> QED BY <1>1, CrcInvHolds, PTL

-----------------------------------------------------------------------------
(* The small programs.  What a step of one of them does, by the call that  *)
(* is made: a process ends, takes no notice of a failure, stays at its     *)
(* call, leaves out a transfer, or makes the call.                         *)

Ways == {"unborn", "runs", "exited", "failed", "astray"}
Children == {"child1", "child2"}
Inits == {"recv_buf_init", "easy_handle_init"}
Makes == {"write_file", "hand_on", "process_data"}
OnSems == {"sem_init", "sem_wait", "sem_post"}
OnText == {"clear", "write", "read"}
OnStack == {"create_stack", "init_shm_stack", "push_all", "pop_all"}
Names == {"shmget", "shmat", "shmdt", "rmid", "check", "fork", "waitpid", "work", "sem_destroy",
          "destroy_stack", "curl_easy_init", "perform", "cleanup"}
         \cup Inits \cup Makes \cup OnSems \cup OnText \cup OnStack \cup Children \cup X!Segments
Words == Seq(Names \cup Int)    \* a call: its name and its arguments

Fresh == X!recv_buf_init(BUF_SIZE, X!Room)
OwnedBy(p) == [attached EXCEPT ![p] = IF X!Space = "heap" THEN @ \cup {"heap"} ELSE @]
Shared == <<program, body, kind>>
Said == <<sem, text, stack, got>>
Fetched == <<came, its_buf, made>>

Dies(p) ==
    \E how \in {"exited", "failed", "astray"} :
        /\ life[p] = "runs" /\ X!Over(p, how)
        /\ how = "exited" => todo[p] = <<>>
        /\ how = "astray" => todo[p] # <<>> /\ X!Wild(p)
        /\ UNCHANGED <<Shared, reaped, seg, failed, Said, Fetched>>
Passes(p) ==
    /\ life[p] = "runs" /\ todo[p] # <<>> /\ X!Advance(p)
    /\ X!Op(p) \in X!Fallible \cup {"process_data"} /\ X!Ignored(X!Op(p))
    /\ failed' = [failed EXCEPT ![p] = @ \cup {X!Op(p)}]
    /\ \/ UNCHANGED <<its_buf, attached>>
       \/ X!Op(p) = "easy_handle_init" /\ its_buf' = Fresh /\ attached' = OwnedBy(p)
    /\ UNCHANGED <<Shared, life, reaped, seg, Said, came, made>>
LeavesOut(p) ==
    /\ life[p] = "runs" /\ todo[p] # <<>>
    /\ X!Op(p) = "perform" /\ "easy_handle_init" \in failed[p]
    /\ todo' = [todo EXCEPT ![p] = Tail(Tail(@))]
    /\ UNCHANGED <<Shared, life, attached, reaped, seg, failed, Said, Fetched>>
Stays(p) ==
    /\ life[p] = "runs" /\ todo[p] # <<>> /\ ~X!Wild(p)
    /\ UNCHANGED <<Shared, todo, life, attached, reaped, seg, failed, sem, text, made>>
    /\ \/ X!Op(p) = "perform" /\ (X!Header(p) \/ \E m \in 1 .. Len(body) : X!Piece(p, m))
       \/ /\ X!Op(p) = "push_all" /\ ~X!is_full(X!Arg(p))
          /\ stack' = [stack EXCEPT ![X!Arg(p)].items = Append(@, -Len(@))]
          /\ UNCHANGED <<got, came, its_buf>>
       \/ /\ X!Op(p) = "pop_all" /\ ~X!is_empty(X!Arg(p))
          /\ got' = Append(got, X!Last(stack[X!Arg(p)].items))
          /\ stack' = [stack EXCEPT ![X!Arg(p)].items = X!Front(@)]
          /\ UNCHANGED <<came, its_buf>>

(* The call is made, with what it does to the processes and segments ...   *)
DoesToOthers(p, op, a) ==
    /\ todo' = IF op = "fork" THEN [todo EXCEPT ![p] = Tail(@), ![a] = X!Programs[program].child]
               ELSE [todo EXCEPT ![p] = Tail(@)]
    /\ life' = IF op = "fork" THEN [life EXCEPT ![a] = "runs"] ELSE life
    /\ reaped' = IF op = "waitpid" THEN reaped \cup {a} ELSE reaped
    /\ op = "waitpid" => life[a] \notin {"unborn", "runs"}
    /\ op = "check" => failed[p] = {}
    /\ seg' = IF op = "shmget" THEN [seg EXCEPT ![a] = "there"]
              ELSE IF op = "rmid" THEN [seg EXCEPT ![a] = "removed"] ELSE seg
    /\ attached' = IF op = "fork" THEN [attached EXCEPT ![a] = attached[p]]
                   ELSE IF op = "shmat" THEN [attached EXCEPT ![p] = @ \cup {a}]
                   ELSE IF op = "shmdt" THEN [attached EXCEPT ![p] = @ \ {a}]
                   ELSE IF op = "create_stack" THEN [attached EXCEPT ![p] = @ \cup {"heap"}]
                   ELSE IF op \in {"destroy_stack", "cleanup"} THEN [attached EXCEPT ![p] = @ \ {"heap"}]
                   ELSE IF op \in Inits THEN OwnedBy(p) ELSE attached

(* ... to what the processes say to each other ...                         *)
DoesToMemory(p, op, a) ==
    /\ sem' = IF op = "sem_init" THEN [sem EXCEPT ![a] = Head(todo[p])[3]]
              ELSE IF op = "sem_wait" THEN [sem EXCEPT ![a] = @ - 1]
              ELSE IF op = "sem_post" THEN [sem EXCEPT ![a] = @ + 1] ELSE sem
    /\ op = "sem_wait" => sem[a] > 0
    /\ text' = IF op = "clear" THEN 0 ELSE IF op = "write" THEN text + 1 ELSE text
    /\ got' = IF op = "read" THEN <<text>> ELSE got
    /\ stack' = IF op = "create_stack" THEN [stack EXCEPT !["heap"] = X!Empty]
                ELSE IF op = "init_shm_stack" THEN [stack EXCEPT ![a] = X!Empty] ELSE stack
    /\ op = "push_all" => X!is_full(a)
    /\ op = "pop_all" => X!is_empty(a)

(* ... and to what is downloaded.                                          *)
DoesToDownload(p, op) ==
    /\ came' = came
    /\ op = "perform" => came = Len(body) /\ "easy_handle_init" \notin failed[p]
    /\ its_buf' = IF op \in Inits THEN Fresh
                  ELSE IF op = "cleanup"
                       THEN [its_buf EXCEPT !.data = <<>>, !.max_size = 0, !.room = 0] ELSE its_buf
    /\ made' = IF op \in {"write_file", "hand_on"}
                     \/ (op = "process_data" /\ kind \in X!Processed(program))
               THEN [there |-> TRUE, data |-> its_buf.data] ELSE made
Does(p) ==
    /\ life[p] = "runs" /\ todo[p] # <<>> /\ ~X!Wild(p)
    /\ UNCHANGED <<Shared, failed>>
    /\ DoesToOthers(p, X!Op(p), X!Arg(p))
    /\ DoesToMemory(p, X!Op(p), X!Arg(p))
    /\ DoesToDownload(p, X!Op(p))

LEMMA StepIs ==
    ASSUME NEW p \in X!Procs, X!Step(p)
    PROVE Dies(p) \/ LeavesOut(p) \/ Stays(p) \/ Does(p)
<1> USE DEF X!process, X!memory, X!answer, X!download, Shared, Said, Fetched, X!Calls
<1>1. CASE X!Exit(p)
  BY <1>1 DEF X!Exit, Dies
<1>2. CASE X!GoesAstray(p)
  BY <1>2 DEF X!GoesAstray, Dies
<1>3. CASE X!Check(p)
  <2>1. CASE failed[p] = {}
    BY <1>3, <2>1 DEF X!Check, X!Advance, Does, DoesToOthers, DoesToMemory, DoesToDownload, Inits
  <2>2. CASE failed[p] # {}
    BY <1>3, <2>2 DEF X!Check, Dies
  <2> QED BY <2>1, <2>2
<1>4. CASE X!PieceAborts(p, 1) \/ X!ShmatFails(p) \/ \E m \in 1 .. Len(body) : X!PieceAborts(p, m)
  BY <1>4 DEF X!PieceAborts, X!ShmatFails, X!Transfers, Dies
<1>5. CASE X!NoTransfer(p)
  BY <1>5 DEF X!NoTransfer, LeavesOut
<1>6. CASE X!Header(p) \/ \E m \in 1 .. Len(body) : X!Piece(p, m)
  BY <1>6 DEF X!Header, X!Piece, X!Transfers, Stays
<1>7. CASE X!push_all(p)
  BY <1>7 DEF X!push_all, X!Advance, Stays, Does, DoesToOthers, DoesToMemory, DoesToDownload, Inits
<1>8. CASE X!pop_all(p)
  BY <1>8 DEF X!pop_all, X!Advance, Stays, Does, DoesToOthers, DoesToMemory, DoesToDownload, Inits
<1> USE DEF X!Advance, Does, DoesToOthers, DoesToMemory, DoesToDownload, Inits
<1>9. CASE X!Fork(p)
  BY <1>9 DEF X!Fork
<1>10. CASE X!Waitpid(p) \/ X!Work(p)
  BY <1>10 DEF X!Waitpid, X!Work
<1>11. CASE X!Shmget(p) \/ X!Shmat(p) \/ X!Shmdt(p) \/ X!Shmctl(p)
  BY <1>11 DEF X!Shmget, X!Shmat, X!Shmdt, X!Shmctl
<1>12. CASE X!SemInit(p) \/ X!SemWait(p) \/ X!SemPost(p)
  BY <1>12 DEF X!SemInit, X!SemWait, X!SemPost
<1>13. CASE X!Message(p)
  BY <1>13 DEF X!Message
<1>14. CASE X!create_stack(p) \/ X!destroy_stack(p) \/ X!init_shm_stack(p)
  BY <1>14 DEF X!create_stack, X!destroy_stack, X!init_shm_stack
<1>15. CASE X!RecvBufInit(p) \/ X!CurlEasyInit(p) \/ X!easy_handle_init(p)
  BY <1>15 DEF X!RecvBufInit, X!CurlEasyInit, X!easy_handle_init, X!Owned, OwnedBy, Fresh
<1>16. CASE X!TransferDone(p)
  BY <1>16 DEF X!TransferDone, X!Transfers
<1>17. CASE X!Make(p) \/ X!process_data(p) \/ X!cleanup(p)
  BY <1>17 DEF X!Make, X!process_data, X!cleanup
<1> QED BY <1>1, <1>2, <1>3, <1>4, <1>5, <1>6, <1>7, <1>8, <1>9, <1>10, <1>11, <1>12, <1>13, <1>14,
           <1>15, <1>16, <1>17 DEF X!Step

LEMMA FaultIs ==
    ASSUME NEW p \in X!Procs, X!Fault(p) \/ X!NoHandle(p)
    PROVE Dies(p) \/ Passes(p)
<1> USE DEF X!memory, X!answer, X!download, Shared, Said, Fetched, X!Calls, X!Advance
<1>1. CASE X!Fault(p)
  <2>1. PICK op \in X!Fallible \cup {"process_data"} :
           /\ X!Calls(p, op) /\ X!Fails(p, op)
           /\ UNCHANGED <<program, reaped, seg, X!memory, X!answer, X!download>>
    BY <1>1 DEF X!Fault
  <2> QED BY <2>1 DEF X!Fails, Dies, Passes
<1>2. CASE X!NoHandle(p)
  BY <1>2 DEF X!NoHandle, X!Owned, OwnedBy, Fresh, Passes, X!Fallible
<1> QED BY <1>1, <1>2

-----------------------------------------------------------------------------
(* Where the processes stand.  A process that runs or has come to its end  *)
(* has the calls before at[p] behind it.                                   *)

Script(q, p) == IF p = "main" THEN X!Programs[q].main ELSE X!Programs[q].child
Call(p, k) == Script(program, p)[k]
at == [p \in X!Procs |-> Len(Script(program, p)) - Len(todo[p]) + 1]
Behind == [p \in X!Procs |-> IF life[p] \in {"runs", "exited"} THEN 1 .. at[p] - 1 ELSE {}]

(* What holds of every script.                                             *)
Listed(q) == \A p \in X!Procs : Script(q, p) \in Seq(Words)
Typed(q) ==
    \A p \in X!Procs : \A k \in DOMAIN Script(q, p) :
        LET e == Script(q, p)[k]
        IN  /\ e[1] \in {"shmget", "shmat", "shmdt", "rmid"} \cup OnText \cup OnStack => e[2] \in X!Segments
            /\ e[1] = "fork" => e[2] \in Children /\ p = "main"
            /\ e[1] = "waitpid" => e[2] \in Children /\ p = "main"

Standing ==
    /\ program \in DOMAIN X!Programs
    /\ life \in [X!Procs -> Ways] /\ life["main"] # "unborn"
    /\ todo \in [X!Procs -> Seq(Words)]
    /\ \A p \in X!Procs :
          /\ at[p] \in 1 .. Len(Script(program, p)) + 1
          /\ todo[p] = SubSeq(Script(program, p), at[p], Len(Script(program, p)))
          /\ life[p] # "runs" => todo[p] = <<>>

LEMMA Here ==
    ASSUME Standing, Listed(program), NEW p \in X!Procs
    PROVE /\ at[p] \in Nat /\ Len(Script(program, p)) \in Nat
          /\ DOMAIN Script(program, p) = 1 .. Len(Script(program, p))
          /\ todo[p] = <<>> <=> at[p] = Len(Script(program, p)) + 1
          /\ todo[p] # <<>> =>
                /\ at[p] \in DOMAIN Script(program, p)
                /\ Head(todo[p]) = Call(p, at[p])
                /\ X!Op(p) = Call(p, at[p])[1] /\ X!Arg(p) = Call(p, at[p])[2]
                /\ Tail(todo[p]) \in Seq(Words)
                /\ Tail(todo[p]) = SubSeq(Script(program, p), at[p] + 1, Len(Script(program, p)))
                /\ Len(Tail(todo[p])) = Len(todo[p]) - 1
<1> DEFINE s == Script(program, p)
           t == todo[p]
           k == at[p]
<1>1. s \in Seq(Words) /\ t \in Seq(Words) /\ k \in 1 .. Len(s) + 1 /\ t = SubSeq(s, k, Len(s))
  BY DEF Standing, Listed
<1> HIDE DEF s, t, k
<1>2. Len(s) \in Nat /\ DOMAIN s = 1 .. Len(s) /\ Len(t) \in Nat
  BY <1>1, LenProperties
<1>3. k \in Nat /\ \A i \in k .. Len(s) : i \in 1 .. Len(s)
  BY <1>1, <1>2
<1>4. Len(t) = Len(s) - k + 1
  BY <1>1, <1>2, <1>3, SubSeqProperties
<1>5. t = <<>> <=> k = Len(s) + 1
  <2>1. t = <<>> <=> Len(t) = 0
    BY <1>1, <1>2, EmptySeq
  <2> QED BY <1>2, <1>3, <1>4, <2>1
<1>6. ASSUME t # <<>>
      PROVE /\ k \in 1 .. Len(s) /\ Head(t) = s[k]
            /\ Tail(t) \in Seq(Words) /\ Tail(t) = SubSeq(s, k + 1, Len(s)) /\ Len(Tail(t)) = Len(t) - 1
  <2>1. k \in 1 .. Len(s)
    BY <1>1, <1>2, <1>5, <1>6
  <2>2. Head(t) = s[k] /\ Tail(t) = SubSeq(s, k + 1, Len(s))
    BY <1>1, <1>2, <2>1, HeadTailOfSubSeq
  <2>3. Tail(t) \in Seq(Words) /\ Len(Tail(t)) = Len(t) - 1
    BY <1>1, <1>6, HeadTailProperties
  <2> QED BY <2>1, <2>2, <2>3
<1> QED BY <1>2, <1>3, <1>5, <1>6 DEF s, t, k, Call, X!Op, X!Arg

(* How each position changes, and that the list stays the end of a script. *)
LEMMA Moves ==
    ASSUME Standing, \A q \in DOMAIN X!Programs : Listed(q) /\ Typed(q), NEW p \in X!Procs,
           Dies(p) \/ Passes(p) \/ LeavesOut(p) \/ Stays(p) \/ Does(p),
           LeavesOut(p) => at[p] < Len(Script(program, p))
    PROVE /\ Standing'
          /\ \A r \in X!Procs : Script(program, r)' = Script(program, r)
          /\ Dies(p) => /\ todo' = [todo EXCEPT ![p] = <<>>]
                        /\ at'[p] = Len(Script(program, p)) + 1
                        /\ \A r \in X!Procs \ {p} : at'[r] = at[r] /\ life'[r] = life[r]
          /\ Stays(p) => life' = life /\ \A r \in X!Procs : at'[r] = at[r]
          /\ Passes(p) => life' = life /\ \A r \in X!Procs : at'[r] = IF r = p THEN at[r] + 1 ELSE at[r]
          /\ LeavesOut(p) => life' = life /\ \A r \in X!Procs : at'[r] = IF r = p THEN at[r] + 2 ELSE at[r]
          /\ Does(p) /\ X!Op(p) # "fork" =>
                life' = life /\ \A r \in X!Procs : at'[r] = IF r = p THEN at[r] + 1 ELSE at[r]
          /\ Does(p) /\ X!Op(p) = "fork" =>
                /\ X!Arg(p) \in Children /\ p = "main"
                /\ at'[p] = at[p] + 1 /\ life'[p] = life[p]
                /\ at'[X!Arg(p)] = 1 /\ life'[X!Arg(p)] = "runs"
                /\ \A r \in X!Procs \ {p, X!Arg(p)} : at'[r] = at[r] /\ life'[r] = life[r]
<1>0. program \in DOMAIN X!Programs /\ Listed(program) /\ Typed(program)
  BY DEF Standing
<1>1. program' = program
  BY DEF Dies, Passes, LeavesOut, Stays, Does, Shared
<1>2. \A r \in X!Procs : Script(program, r)' = Script(program, r)
  BY <1>1 DEF Script
<1>3. \A r \in X!Procs :
         /\ Script(program, r) \in Seq(Words)
         /\ Len(Script(program, r)) \in Nat /\ Len(todo[r]) \in Nat
         /\ at[r] = Len(Script(program, r)) - Len(todo[r]) + 1
  BY <1>0, LenProperties DEF Standing, Listed, at
<1>4. \A r \in X!Procs : at'[r] = Len(Script(program, r)) - Len(todo'[r]) + 1
  BY <1>2 DEF at
<1>5. ASSUME NEW r \in X!Procs, todo'[r] = todo[r] PROVE at'[r] = at[r]
  BY <1>3, <1>4, <1>5
<1>6. <<>> \in Seq(Words) /\ Len(<<>>) = 0
  BY EmptySeq
<1>7. ASSUME NEW r \in X!Procs, todo'[r] = <<>>
      PROVE /\ at'[r] = Len(Script(program, r)) + 1
            /\ todo'[r] = SubSeq(Script(program, r), at'[r], Len(Script(program, r)))
  <2>0. Len(Script(program, r)) \in Nat /\ at'[r] = Len(Script(program, r)) - 0 + 1
    BY <1>3, <1>4, <1>6, <1>7
  <2>1. at'[r] = Len(Script(program, r)) + 1
    BY <2>0
  <2>2. SubSeq(Script(program, r), Len(Script(program, r)) + 1, Len(Script(program, r))) = <<>>
    BY <1>3, SubSeqEmpty
  <2> QED BY <1>7, <2>1, <2>2
<1>8. ASSUME NEW r \in X!Procs, todo[r] # <<>>, todo'[r] = Tail(todo[r])
      PROVE /\ at'[r] = at[r] + 1 /\ at[r] \in 1 .. Len(Script(program, r))
            /\ todo'[r] = SubSeq(Script(program, r), at'[r], Len(Script(program, r)))
            /\ todo'[r] \in Seq(Words)
  <2>1. /\ Tail(todo[r]) = SubSeq(Script(program, r), at[r] + 1, Len(Script(program, r)))
        /\ Len(Tail(todo[r])) = Len(todo[r]) - 1
        /\ Tail(todo[r]) \in Seq(Words) /\ at[r] \in DOMAIN Script(program, r)
        /\ DOMAIN Script(program, r) = 1 .. Len(Script(program, r))
    BY <1>0, <1>8, Here
  <2>2. at'[r] = at[r] + 1
    <3>1. at'[r] = Len(Script(program, r)) - (Len(todo[r]) - 1) + 1
      BY <1>4, <1>8, <2>1
    <3>2. Len(Script(program, r)) \in Nat /\ Len(todo[r]) \in Nat
          /\ at[r] = Len(Script(program, r)) - Len(todo[r]) + 1
      BY <1>3
    <3> QED BY <3>1, <3>2
  <2> QED BY <1>8, <2>1, <2>2
<1>9. ASSUME NEW r \in X!Procs, Script(program, r) = todo'[r]
      PROVE at'[r] = 1 /\ todo'[r] = SubSeq(Script(program, r), 1, Len(Script(program, r)))
  <2>1. at'[r] = Len(Script(program, r)) - Len(Script(program, r)) + 1
    BY <1>4, <1>9
  <2>2. at'[r] = 1
    BY <1>3, <2>1
  <2> QED BY <1>3, <1>9, <2>2, SubSeqFull
<1>10. ASSUME NEW r \in X!Procs, todo[r] # <<>>, todo'[r] = Tail(Tail(todo[r])),
              at[r] < Len(Script(program, r))
       PROVE /\ at'[r] = at[r] + 2
             /\ todo'[r] = SubSeq(Script(program, r), at'[r], Len(Script(program, r)))
             /\ todo'[r] \in Seq(Words)
  <2> DEFINE s == Script(program, r)
             u == todo[r]
             t == Tail(u)
             k == at[r]
  <2>1. /\ t = SubSeq(s, k + 1, Len(s)) /\ t \in Seq(Words) /\ Len(t) = Len(u) - 1
        /\ k \in DOMAIN s /\ DOMAIN s = 1 .. Len(s) /\ Len(s) \in Nat /\ s \in Seq(Words)
    BY <1>0, <1>3, <1>10, Here
  <2>2. Len(u) \in Nat /\ k = Len(s) - Len(u) + 1 /\ at'[r] = Len(s) - Len(todo'[r]) + 1 /\ k < Len(s)
    BY <1>3, <1>4, <1>10
  <2> HIDE DEF s, u, t, k
  <2>3. k + 1 \in 1 .. Len(s) /\ Len(t) # 0
    <3>1. /\ k \in 1 .. Len(s) /\ Len(s) \in Nat /\ k < Len(s) /\ Len(u) \in Nat
          /\ k = Len(s) - Len(u) + 1 /\ Len(t) = Len(u) - 1
      BY <2>1, <2>2
    <3> QED BY ONLY <3>1
  <2>4. Tail(t) = SubSeq(s, k + 1 + 1, Len(s))
    <3>1. /\ k + 1 \in 1 .. Len(s) /\ Len(s) \in k + 1 .. Len(s)
          /\ t = SubSeq(s, k + 1, Len(s))
      BY <2>1, <2>3
    <3>2. \A m \in 1 .. Len(s) : \A j \in m .. Len(s) :
              Tail(SubSeq(s, m, j)) = SubSeq(s, m + 1, j)
      BY <2>1, HeadTailOfSubSeq
    <3> QED BY ONLY <3>1, <3>2
  <2>5. Tail(t) \in Seq(Words) /\ Len(Tail(t)) = Len(t) - 1
    <3>1. t # <<>>
      BY <2>3, EmptySeq
    <3> QED BY <2>1, <3>1, HeadTailProperties
  <2>6. todo'[r] = Tail(t)
    BY <1>10 DEF t, u
  <2>7. at'[r] = k + 2
    <3>1. at'[r] = Len(s) - ((Len(u) - 1) - 1) + 1
      BY <2>1, <2>2, <2>5, <2>6
    <3>2. /\ Len(s) \in Nat /\ Len(u) \in Nat /\ k = Len(s) - Len(u) + 1
      BY <2>1, <2>2
    <3> QED BY ONLY <3>1, <3>2
  <2>8. k + 1 + 1 = at'[r]
    BY <2>1, <2>3, <2>7
  <2> QED BY <2>4, <2>5, <2>6, <2>7, <2>8 DEF s, k
<1>11. ASSUME \A r \in X!Procs : todo'[r] = SubSeq(Script(program, r), at'[r], Len(Script(program, r))),
              \A r \in X!Procs : life'[r] # "runs" => todo'[r] = <<>>,
              \A r \in X!Procs : at'[r] \in 1 .. Len(Script(program, r)) + 1,
              life' \in [X!Procs -> Ways], life'["main"] # "unborn",
              todo' \in [X!Procs -> Seq(Words)]
       PROVE Standing'
  <2>2. ASSUME NEW r \in X!Procs
        PROVE /\ at'[r] \in 1 .. Len(Script(program, r)') + 1
              /\ todo'[r] = SubSeq(Script(program, r)', at'[r], Len(Script(program, r)'))
              /\ life'[r] # "runs" => todo'[r] = <<>>
    <3>1. Script(program, r)' = Script(program, r)
      BY <1>2
    <3>2. /\ at'[r] \in 1 .. Len(Script(program, r)) + 1
          /\ todo'[r] = SubSeq(Script(program, r), at'[r], Len(Script(program, r)))
          /\ life'[r] # "runs" => todo'[r] = <<>>
      BY ONLY <1>11
    <3> QED BY ONLY <3>1, <3>2
  <2> QED BY ONLY <1>0, <1>1, <1>11, <2>2 DEF Standing
<1>12. /\ life \in [X!Procs -> Ways] /\ life["main"] # "unborn" /\ todo \in [X!Procs -> Seq(Words)]
       /\ \A r \in X!Procs : /\ at[r] \in 1 .. Len(Script(program, r)) + 1
                             /\ todo[r] = SubSeq(Script(program, r), at[r], Len(Script(program, r)))
                             /\ life[r] # "runs" => todo[r] = <<>>
  BY DEF Standing
<1>13. ASSUME Dies(p)
       PROVE /\ Standing' /\ todo' = [todo EXCEPT ![p] = <<>>]
             /\ at'[p] = Len(Script(program, p)) + 1
             /\ \A r \in X!Procs \ {p} : at'[r] = at[r] /\ life'[r] = life[r]
  <2>1. PICK how \in {"exited", "failed", "astray"} :
           life' = [life EXCEPT ![p] = how] /\ todo' = [todo EXCEPT ![p] = <<>>]
    BY <1>13 DEF Dies, X!Over
  <2>2. at'[p] = Len(Script(program, p)) + 1 /\ todo'[p] = SubSeq(Script(program, p), at'[p], Len(Script(program, p)))
        /\ todo'[p] = <<>>
    <3>1. todo'[p] = <<>>
      BY <1>12, <2>1
    <3> QED BY <1>7, <3>1
  <2>3. \A r \in X!Procs \ {p} : todo'[r] = todo[r] /\ at'[r] = at[r] /\ life'[r] = life[r]
    <3>1. ASSUME NEW r \in X!Procs \ {p} PROVE todo'[r] = todo[r] /\ life'[r] = life[r]
      BY <1>12, <2>1
    <3> QED BY <1>5, <3>1
  <2>4. Standing'
    <3>1. at'[p] \in 1 .. Len(Script(program, p)) + 1
      <4>1. Len(Script(program, p)) \in Nat
        BY <1>3
      <4> QED BY <2>2, <4>1
    <3>2. life' \in [X!Procs -> Ways] /\ life'["main"] # "unborn"
      BY <1>12, <2>1 DEF Ways
    <3>3. todo' \in [X!Procs -> Seq(Words)]
      BY <1>6, <1>12, <2>1
    <3>4. ASSUME NEW r \in X!Procs
          PROVE /\ todo'[r] = SubSeq(Script(program, r), at'[r], Len(Script(program, r)))
                /\ life'[r] # "runs" => todo'[r] = <<>>
                /\ at'[r] \in 1 .. Len(Script(program, r)) + 1
      BY <1>12, <2>2, <2>3, <3>1
    <3> QED BY <1>11, <3>2, <3>3, <3>4
  <2> QED BY <2>1, <2>2, <2>3, <2>4
<1>14. ASSUME todo[p] # <<>>
       PROVE Call(p, at[p])[1] = X!Op(p) /\ Call(p, at[p])[2] = X!Arg(p) /\ at[p] \in DOMAIN Script(program, p)
  BY <1>0, <1>14, Here
<1>15. ASSUME todo' = [todo EXCEPT ![p] = Tail(@)], life' = life, todo[p] # <<>>, life[p] = "runs"
       PROVE Standing' /\ \A r \in X!Procs : at'[r] = IF r = p THEN at[r] + 1 ELSE at[r]
  <2>1. todo'[p] = Tail(todo[p]) /\ \A r \in X!Procs \ {p} : todo'[r] = todo[r]
    BY <1>12, <1>15
  <2>2. /\ at'[p] = at[p] + 1 /\ at[p] \in 1 .. Len(Script(program, p)) /\ todo'[p] \in Seq(Words)
        /\ todo'[p] = SubSeq(Script(program, p), at'[p], Len(Script(program, p)))
    BY <1>8, <1>15, <2>1
  <2>3. \A r \in X!Procs \ {p} : at'[r] = at[r]
    BY <1>5, <2>1
  <2>4. at'[p] \in 1 .. Len(Script(program, p)) + 1
    <3>1. Len(Script(program, p)) \in Nat
      BY <1>3
    <3> QED BY ONLY <3>1, <2>2
  <2>5. todo' \in [X!Procs -> Seq(Words)]
    <3>1. Tail(todo[p]) \in Seq(Words)
      BY <2>1, <2>2
    <3> QED BY <1>12, <1>15, <3>1
  <2>6. ASSUME NEW r \in X!Procs
        PROVE /\ todo'[r] = SubSeq(Script(program, r), at'[r], Len(Script(program, r)))
              /\ life'[r] # "runs" => todo'[r] = <<>>
              /\ at'[r] \in 1 .. Len(Script(program, r)) + 1
    BY <1>12, <1>15, <2>1, <2>2, <2>3, <2>4
  <2>7. Standing'
    BY <1>11, <1>12, <1>15, <2>5, <2>6
  <2> QED BY <2>2, <2>3, <2>7
<1>16. ASSUME Passes(p)
       PROVE Standing' /\ life' = life /\ \A r \in X!Procs : at'[r] = IF r = p THEN at[r] + 1 ELSE at[r]
  <2>1. todo' = [todo EXCEPT ![p] = Tail(@)] /\ life' = life /\ todo[p] # <<>> /\ life[p] = "runs"
    BY <1>16 DEF Passes, X!Advance
  <2> QED BY <1>15, <2>1
<1>17. ASSUME LeavesOut(p)
       PROVE Standing' /\ life' = life /\ \A r \in X!Procs : at'[r] = IF r = p THEN at[r] + 2 ELSE at[r]
  <2>0. /\ todo' = [todo EXCEPT ![p] = Tail(Tail(@))] /\ life' = life /\ todo[p] # <<>> /\ life[p] = "runs"
        /\ at[p] < Len(Script(program, p))
    BY <1>17 DEF LeavesOut
  <2>1. todo'[p] = Tail(Tail(todo[p])) /\ \A r \in X!Procs \ {p} : todo'[r] = todo[r]
    BY <1>12, <2>0
  <2>2. /\ at'[p] = at[p] + 2 /\ todo'[p] \in Seq(Words)
        /\ todo'[p] = SubSeq(Script(program, p), at'[p], Len(Script(program, p)))
    BY <1>10, <2>0, <2>1
  <2>3. \A r \in X!Procs \ {p} : at'[r] = at[r]
    BY <1>5, <2>1
  <2>4. at'[p] \in 1 .. Len(Script(program, p)) + 1
    <3>1. Len(Script(program, p)) \in Nat /\ at[p] \in 1 .. Len(Script(program, p)) + 1
      BY <1>3, <1>12
    <3> QED BY ONLY <3>1, <2>0, <2>2
  <2>5. todo' \in [X!Procs -> Seq(Words)]
    <3>1. Tail(Tail(todo[p])) \in Seq(Words)
      BY <2>1, <2>2
    <3> QED BY <1>12, <2>0, <3>1
  <2>6. ASSUME NEW r \in X!Procs
        PROVE /\ todo'[r] = SubSeq(Script(program, r), at'[r], Len(Script(program, r)))
              /\ life'[r] # "runs" => todo'[r] = <<>>
              /\ at'[r] \in 1 .. Len(Script(program, r)) + 1
    BY <1>12, <2>0, <2>1, <2>2, <2>3, <2>4
  <2>7. Standing'
    BY <1>11, <1>12, <2>0, <2>5, <2>6
  <2> QED BY <2>0, <2>2, <2>3, <2>7
<1>18. ASSUME Stays(p)
       PROVE Standing' /\ life' = life /\ \A r \in X!Procs : at'[r] = at[r]
  <2>1. todo' = todo /\ life' = life
    BY <1>18 DEF Stays
  <2>2. \A r \in X!Procs : at'[r] = at[r]
    BY <1>5, <2>1
  <2>3. Standing'
    BY <1>11, <1>12, <2>1, <2>2
  <2> QED BY <2>1, <2>2, <2>3
<1>19. ASSUME Does(p), X!Op(p) # "fork"
       PROVE Standing' /\ life' = life /\ \A r \in X!Procs : at'[r] = IF r = p THEN at[r] + 1 ELSE at[r]
  <2>1. todo' = [todo EXCEPT ![p] = Tail(@)] /\ life' = life /\ todo[p] # <<>> /\ life[p] = "runs"
    BY <1>19 DEF Does, DoesToOthers
  <2> QED BY <1>15, <2>1
<1>20. ASSUME Does(p), X!Op(p) = "fork"
       PROVE /\ Standing' /\ X!Arg(p) \in Children /\ p = "main"
             /\ at'[p] = at[p] + 1 /\ life'[p] = life[p]
             /\ at'[X!Arg(p)] = 1 /\ life'[X!Arg(p)] = "runs"
             /\ \A r \in X!Procs \ {p, X!Arg(p)} : at'[r] = at[r] /\ life'[r] = life[r]
  <2> DEFINE a == X!Arg(p)
  <2>1. /\ todo' = [todo EXCEPT ![p] = Tail(@), ![a] = X!Programs[program].child]
        /\ life' = [life EXCEPT ![a] = "runs"] /\ todo[p] # <<>> /\ life[p] = "runs"
    BY <1>20 DEF Does, DoesToOthers
  <2>2. a \in Children /\ p = "main"
    BY <1>0, <1>14, <1>20, <2>1 DEF Typed, Call
  <2>3. a \in X!Procs /\ a # p /\ a # "main"
    BY <2>2 DEF Children, X!Procs
  <2> HIDE DEF a
  <2>4. /\ todo'[p] = Tail(todo[p]) /\ todo'[a] = Script(program, a)
        /\ \A r \in X!Procs \ {p, a} : todo'[r] = todo[r] /\ life'[r] = life[r]
        /\ life'[p] = life[p] /\ life'[a] = "runs"
    BY <1>12, <2>1, <2>3 DEF Script
  <2>5. /\ at'[p] = at[p] + 1 /\ at[p] \in 1 .. Len(Script(program, p)) /\ todo'[p] \in Seq(Words)
        /\ todo'[p] = SubSeq(Script(program, p), at'[p], Len(Script(program, p)))
    BY <1>8, <2>1, <2>4
  <2>6. /\ at'[a] = 1 /\ todo'[a] = SubSeq(Script(program, a), at'[a], Len(Script(program, a)))
        /\ todo'[a] \in Seq(Words)
    BY <1>3, <1>9, <2>3, <2>4
  <2>7. \A r \in X!Procs \ {p, a} : at'[r] = at[r]
    BY <1>5, <2>4
  <2>8. at'[p] \in 1 .. Len(Script(program, p)) + 1 /\ at'[a] \in 1 .. Len(Script(program, a)) + 1
    <3>1. Len(Script(program, p)) \in Nat /\ Len(Script(program, a)) \in Nat
      BY <1>3, <2>3
    <3> QED BY ONLY <3>1, <2>5, <2>6
  <2>9. todo' \in [X!Procs -> Seq(Words)]
    <3>1. Tail(todo[p]) \in Seq(Words) /\ X!Programs[program].child \in Seq(Words)
      BY <2>4, <2>5, <2>6, <2>3 DEF Script
    <3> QED BY <1>12, <2>1, <3>1
  <2>10. life' \in [X!Procs -> Ways] /\ life'["main"] # "unborn"
    BY <1>12, <2>1, <2>3 DEF Ways
  <2>11. ASSUME NEW r \in X!Procs
         PROVE /\ todo'[r] = SubSeq(Script(program, r), at'[r], Len(Script(program, r)))
               /\ life'[r] # "runs" => todo'[r] = <<>>
               /\ at'[r] \in 1 .. Len(Script(program, r)) + 1
    BY <1>12, <2>1, <2>4, <2>5, <2>6, <2>7, <2>8
  <2>12. Standing'
    BY <1>11, <2>9, <2>10, <2>11
  <2> QED BY <2>2, <2>4, <2>5, <2>6, <2>7, <2>12 DEF a
<1> QED BY <1>2, <1>13, <1>16, <1>17, <1>18, <1>19, <1>20

-----------------------------------------------------------------------------
(* What holds of every script: how it names what it acts on, and in what   *)
(* order it does what belongs together.                                    *)

SpaceOf(q) == X!Programs[q].cb.space
Sure == {"curl_xml", "findpng2", "findpng3", "paster"}

(* A body lies in malloc's memory or in a segment; in paster2 it cannot    *)
(* grow.                                                                   *)
Placed(q) == SpaceOf(q) \in {"heap", "buf"} /\ (q = "paster2" => X!Programs[q].cb.full = "abort")

(* The segments that a child finds attached when it is born, and uses.     *)
Inherits(q, p) ==
    IF p = "main" THEN {}
    ELSE IF q = "sem_simple" THEN {"buf", "sems"}
    ELSE IF q = "main_2proc" THEN {"buf"} ELSE {}

(* What the call e of q uses (a fork hands on), attaches, and detaches.    *)
Uses(q, e) ==
    IF e[1] \in OnSems THEN {"sems"}
    ELSE IF e[1] \in OnText \cup (OnStack \ {"create_stack"}) THEN {e[2]}
    ELSE IF e[1] \in Makes \cup {"cleanup", "perform"} THEN {SpaceOf(q)}
    ELSE IF e[1] = "recv_buf_init" THEN {SpaceOf(q)} \ {"heap"}
    ELSE IF e[1] = "fork" THEN Inherits(q, e[2]) ELSE {}
Gives(q, e) ==
    IF e[1] = "shmat" THEN {e[2]}
    ELSE IF e[1] = "create_stack" THEN {"heap"}
    ELSE IF e[1] \in Inits THEN {SpaceOf(q)} \cap {"heap"} ELSE {}
Takes(e) ==
    IF e[1] = "shmdt" THEN {e[2]}
    ELSE IF e[1] \in {"destroy_stack", "cleanup"} THEN {"heap"} ELSE {}

(* No segment is used before it is attached, or after it was detached.     *)
Provided(q) ==
    \A p \in X!Procs : \A k \in DOMAIN Script(q, p) : \A s \in Uses(q, Script(q, p)[k]) :
        /\ s \in Inherits(q, p) \/ \E j \in 1 .. k - 1 : s \in Gives(q, Script(q, p)[j])
        /\ \A j \in 1 .. k - 1 : s \notin Takes(Script(q, p)[j])

(* A stack is popped when main made it, or waited for the child that did.  *)
Readied(q) ==
    \A p \in X!Procs : \A k \in DOMAIN Script(q, p) : Script(q, p)[k][1] = "pop_all" =>
        /\ p = "main"
        /\ \E j \in 1 .. k - 1 :
              \/ Script(q, p)[j][1] = "create_stack" /\ Script(q, p)[k][2] = "heap"
              \/ /\ Script(q, p)[j][1] = "waitpid"
                 /\ \E i \in DOMAIN Script(q, "child1") :
                       Script(q, "child1")[i] = <<"init_shm_stack", Script(q, p)[k][2]>>

(* Only main forks, waits, gets and removes segments, and makes something  *)
(* of a download; a child is forked once, and waited for after that.       *)
Led(q) ==
    /\ \A k \in DOMAIN Script(q, "child1") :
          Script(q, "child1")[k][1] \notin Inits \cup Makes \cup
              {"fork", "waitpid", "shmget", "rmid", "cleanup", "read", "create_stack", "pop_all"}
    /\ \A i, j \in DOMAIN Script(q, "main") : Script(q, "main")[i][1] = "fork" =>
          /\ Script(q, "main")[j][1] = "fork" =>
                (Script(q, "main")[j][2] = Script(q, "main")[i][2] => i = j)
          /\ Script(q, "main")[j][1] = "waitpid" =>
                (Script(q, "main")[j][2] = Script(q, "main")[i][2] => i < j)
    /\ "fork" \notin X!Programs[q].ignores

(* Each child is waited for, but for that of zombie.                       *)
Awaits(q) ==
    q # "zombie" => \A i \in DOMAIN Script(q, "main") : Script(q, "main")[i][1] = "fork" =>
        \E j \in DOMAIN Script(q, "main") :
            Script(q, "main")[j] = <<"waitpid", Script(q, "main")[i][2]>>

(* Each segment is removed after it was made, but for that of paster2.     *)
Removes(q) ==
    \A i \in DOMAIN Script(q, "main") : Script(q, "main")[i][1] = "shmget" =>
        /\ q # "paster2" => \E j \in DOMAIN Script(q, "main") :
              Script(q, "main")[j] = <<"rmid", Script(q, "main")[i][2]>>
        /\ \A j \in DOMAIN Script(q, "main") : Script(q, "main")[j][1] = "rmid" =>
              (Script(q, "main")[j][2] = Script(q, "main")[i][2] => i < j)

(* A buffer is made before the transfer and before any fork, ...           *)
Begins(q) ==
    \A k \in DOMAIN Script(q, "main") : Script(q, "main")[k][1] \in Inits =>
        \A j \in DOMAIN Script(q, "main") : Script(q, "main")[j][1] \in {"perform", "fork"} => k < j

(* ... given back at the end, ...                                          *)
Closes(q) ==
    \A k \in DOMAIN Script(q, "main") : Script(q, "main")[k][1] = "cleanup" =>
        /\ k = Len(Script(q, "main"))
        /\ \A j \in DOMAIN Script(q, "main") : Script(q, "main")[j][1] # "fork"

(* ... and something made of it after the transfer, or the child that      *)
(* transfers was waited for; ...                                           *)
Relies(q) ==
    \A k \in DOMAIN Script(q, "main") : Script(q, "main")[k][1] \in Makes => \E j \in 1 .. k - 1 :
        \/ Script(q, "main")[j][1] = "perform"
        \/ /\ q \notin Sure /\ Script(q, "main")[j][1] = "waitpid"
           /\ \E i \in DOMAIN Script(q, "child1") : Script(q, "child1")[i][1] = "perform"

(* ... the sure ones do not go on when the transfer fails, ...             *)
Insists(q) ==
    /\ q \in Sure => "perform" \notin X!Programs[q].ignores
    /\ \A k \in DOMAIN Script(q, "main") :
          /\ q \in Sure /\ Script(q, "main")[k][1] \in {"write_file", "hand_on"} => q = "paster"
          /\ q = "paster" => Script(q, "main")[k][1] # "process_data"

(* ... and who takes no notice that there is no handle leaves out the only *)
(* call that would make something of the answer.                           *)
Skips(q) ==
    "easy_handle_init" \in X!Programs[q].ignores =>
        \A p \in X!Procs : \A k \in DOMAIN Script(q, p) : Script(q, p)[k][1] = "perform" =>
            /\ k < Len(Script(q, p)) /\ Script(q, p)[k + 1][1] \in Makes
            /\ \A j \in DOMAIN Script(q, p) : j >= k + 2 => Script(q, p)[j][1] \notin Makes

(* Who has semaphores, messages and stacks.                                *)
Keeps(q) ==
    \A p \in X!Procs : \A k \in DOMAIN Script(q, p) :
        /\ Script(q, p)[k][1] \in OnSems => q = "sem_simple"
        /\ Script(q, p)[k][1] \in OnText => q \in {"sem_simple", "shm_simple"}
        /\ Script(q, p)[k][1] \in OnStack => q = "shm_struct"

WellMade(q) ==
    /\ Listed(q) /\ Typed(q) /\ Placed(q) /\ Provided(q) /\ Readied(q) /\ Led(q) /\ Awaits(q)
    /\ Removes(q) /\ Begins(q) /\ Closes(q) /\ Relies(q) /\ Insists(q) /\ Skips(q) /\ Keeps(q)

-----------------------------------------------------------------------------
(* The invariant of the small programs.                                    *)

NoFault == \A p \in X!Procs : failed[p] = {} /\ life[p] # "failed"
Named(p, k, op, a) == Call(p, k)[1] = op /\ Call(p, k)[2] = a

(* A child is there from its fork on, and gone when it was waited for.     *)
Family ==
    /\ \A p \in X!Procs : failed[p] \subseteq X!Programs[program].ignores
    /\ \A r \in Children : life[r] # "unborn" =>
          \E j \in DOMAIN Script(program, "main") :
              Named("main", j, "fork", r) /\ (life["main"] = "runs" => j < at["main"])
    /\ \A j \in Behind["main"] : Call("main", j)[1] = "fork" => life[Call("main", j)[2]] # "unborn"
    /\ \A j \in Behind["main"] : Call("main", j)[1] = "waitpid" =>
          Call("main", j)[2] \in reaped /\ life[Call("main", j)[2]] \notin {"unborn", "runs"}

(* Each segment was made by main, and is gone when main has removed it.    *)
Segs ==
    /\ \A s \in X!Segments : seg[s] = "there" =>
          \E j \in DOMAIN Script(program, "main") : Named("main", j, "shmget", s)
    /\ \A j \in Behind["main"] : Call("main", j)[1] = "rmid" => seg[Call("main", j)[2]] # "there"

(* While no call fails, nobody is astray: what was attached and not        *)
(* detached is there, and the stacks are ready.                            *)
Held ==
    NoFault =>
        /\ \A p \in X!Procs : life[p] # "astray"
        /\ \A p \in X!Procs : life[p] = "runs" => \A s \in X!Segments :
              /\ s \in Inherits(program, p) \/ \E j \in Behind[p] : s \in Gives(program, Call(p, j))
              /\ \A j \in Behind[p] : s \notin Takes(Call(p, j))
              => s \in attached[p]
        /\ \A p \in X!Procs : \A j \in Behind[p] :
              /\ Call(p, j)[1] = "create_stack" => stack["heap"].ready
              /\ Call(p, j)[1] = "init_shm_stack" => stack[Call(p, j)[2]].ready

(* What lies in the buffer is what has come, as long as there is a call to *)
(* make of it; and it fits.                                                *)
Buffered ==
    /\ its_buf \in [data : Seq(Nat), max_size : Nat, room : Nat, seq : Int]
    /\ came \in 0 .. Len(body)
    /\ its_buf.data = SubSeq(body, 1, came)
          \/ (its_buf.data = <<>> /\ \A p \in X!Procs : todo[p] = <<>>)
    /\ its_buf.data # <<>> => Len(its_buf.data) + 1 <= its_buf.max_size
    /\ IF program = "paster2" THEN its_buf.max_size = 0 \/ its_buf.room = Slot
       ELSE its_buf.max_size <= its_buf.room
    /\ life["main"] = "runs" =>
          \A k \in DOMAIN Script(program, "main") : k >= at["main"] /\ Call("main", k)[1] \in Inits =>
              came = 0 /\ \A r \in Children : life[r] = "unborn"

(* A transfer that is behind a process has brought the whole answer.       *)
Brought ==
    NoFault \/ program \in Sure =>
        \A p \in X!Procs : \A j \in Behind[p] : Call(p, j)[1] = "perform" =>
            \/ came = Len(body)
            \/ /\ "easy_handle_init" \in failed[p]
               /\ \A k \in DOMAIN Script(program, p) : k >= at[p] => Call(p, k)[1] \notin Makes

(* The halves of the message follow the writer; sem[0] and sem[1] are held *)
(* by turns.                                                               *)
FirstWrite == IF program = "sem_simple" THEN 2 ELSE 3
Texts ==
    /\ text \in 0 .. 2
    /\ program \in {"sem_simple", "shm_simple"} =>
          /\ life["child1"] = "unborn" => text = 0
          /\ life["child1"] \in {"runs", "exited"} =>
                text = IF at["child1"] <= FirstWrite THEN 0
                       ELSE IF at["child1"] = FirstWrite + 1 THEN 1 ELSE 2
          /\ X!NobodyFailed => got \in {<<>>, <<2>>}
ChildMayPost == life["child1"] = "runs" /\ at["child1"] <= 4
Turns ==
    /\ sem \in [{0, 1} -> {0, 1}]
    /\ program = "sem_simple" =>
          /\ ChildMayPost => sem[1] = 0
          /\ life["main"] = "runs" =>
                /\ at["main"] <= 10 => sem[1] = 0
                /\ at["main"] >= 11 /\ sem[1] = 1 => sem[0] = 0 /\ ~ChildMayPost
                /\ at["main"] >= 12 => sem[1] = 0 /\ ~ChildMayPost
                /\ at["main"] \in {12, 13} => sem[0] = 0
                /\ at["main"] <= 13 /\ ChildMayPost /\ at["child1"] >= 2 => sem[0] = 0

(* What is on the stacks of shm_struct, and what was popped.               *)
Up(j) == [k \in 1 .. j |-> 1 - k]
PoppedOnce(j) == [k \in 1 .. STACK_SIZE - j |-> k - STACK_SIZE]
PoppedTwice(j) ==
    [k \in 1 .. 2 * STACK_SIZE - j |-> IF k <= STACK_SIZE THEN k - STACK_SIZE ELSE k - 2 * STACK_SIZE]
Height(s) == Len(stack[s].items)
MainStacks ==
    /\ life["main"] = "runs" =>
          /\ at["main"] = 1 => got = <<>>
          /\ at["main"] = 2 => got = <<>> /\ stack["heap"].items = Up(Height("heap"))
          /\ at["main"] = 3 => /\ stack["heap"].items = Up(Height("heap"))
                               /\ got = PoppedOnce(Height("heap"))
          /\ at["main"] \in 4 .. 8 => got = PoppedOnce(0)
          /\ at["main"] = 9 => /\ stack["buf"].items = Up(Height("buf"))
                               /\ got = PoppedTwice(Height("buf"))
    /\ at["main"] >= 10 => got = PoppedTwice(0)
ChildStacks ==
    /\ life["child1"] = "runs" /\ at["child1"] = 3 => stack["buf"].items = Up(Height("buf"))
    /\ life["child1"] \in {"runs", "exited"} /\ at["child1"] >= 4 /\ at["main"] <= 8 =>
          stack["buf"].items = Up(STACK_SIZE)
Stacks ==
    /\ stack \in [X!Segments -> [ready : BOOLEAN, items : Seq(Int)]]
    /\ \A s \in X!Segments : Height(s) <= STACK_SIZE
    /\ program = "shm_struct" /\ X!NobodyFailed => MainStacks /\ ChildStacks

Rest ==
    /\ reaped \subseteq X!Procs
    /\ failed \in [X!Procs -> SUBSET Names]
    /\ attached \in [X!Procs -> SUBSET X!Segments]
    /\ seg \in [X!Segments -> {"none", "there", "removed"}]
    /\ body \in Seq(Nat)
    /\ made \in [there : BOOLEAN, data : Seq(Nat)]
    /\ program = "paster" => kind = "png"

XInv == /\ Standing /\ Rest /\ Family /\ Segs /\ Held /\ Buffered /\ Brought /\ Texts /\ Turns /\ Stacks
        /\ X!FileWhole /\ faults \in 0 .. MaxFaults

LEMMA SemSimpleMade == WellMade("sem_simple")
<1> DEFINE m == Script("sem_simple", "main")
           d == Script("sem_simple", "child1")
<1>1. m = <<<<"shmget", "buf">>, <<"shmget", "sems">>, <<"check">>, <<"shmat", "buf">>,
            <<"shmat", "sems">>, <<"check">>, <<"clear", "buf">>, <<"sem_init", 0, 1>>,
            <<"sem_init", 1, 0>>, <<"fork", "child1">>, <<"sem_wait", 1>>, <<"read", "buf">>,
            <<"sem_post", 0>>, <<"shmdt", "buf">>, <<"rmid", "buf">>, <<"shmdt", "sems">>,
            <<"waitpid", "child1">>, <<"rmid", "sems">>, <<"sem_destroy">>>>
  BY DEF X!Programs, X!sem_simple, X!SemSimple, X!Program, Script
<1>2. d = <<<<"sem_wait", 0>>, <<"write", "buf">>, <<"write", "buf">>, <<"sem_post", 1>>,
            <<"shmdt", "buf">>, <<"shmdt", "sems">>>>
  BY DEF X!Programs, X!sem_simple, X!SemSimple, X!Program, Script
<1>3. /\ \A p \in X!Procs : Script("sem_simple", p) = IF p = "main" THEN m ELSE d
      /\ X!Programs["sem_simple"].ignores = {"shmget", "shmat"} /\ SpaceOf("sem_simple") = "buf"
  BY DEF X!Programs, X!sem_simple, X!SemSimple, X!Program, Script, SpaceOf, X!NoCallbacks,
     X!Callbacks
<1>4. m = Script("sem_simple", "main") /\ d = Script("sem_simple", "child1")
  OBVIOUS
<1> HIDE DEF m, d
<1>5. Listed("sem_simple")
  <2>1. m \in Seq(Words)
    BY <1>1 DEF Words, Names, Inits, Makes, OnSems, OnText, OnStack, Children, X!Segments
  <2>2. d \in Seq(Words)
    BY <1>2 DEF Words, Names, Inits, Makes, OnSems, OnText, OnStack, Children, X!Segments
  <2> QED BY <1>3, <2>1, <2>2 DEF Listed
<1>6. Typed("sem_simple")
  BY <1>1, <1>2, <1>3, SMTT(120) DEF Typed, Children, OnText, OnStack, X!Segments
<1>7. Provided("sem_simple")
  BY <1>1, <1>2, <1>3, SMTT(120) DEF Provided, Uses, Inherits, Gives, Takes, Inits, Makes, OnSems,
     OnText, OnStack
<1>8. Readied("sem_simple")
  BY <1>1, <1>2, <1>3, <1>4, SMTT(120) DEF Readied, X!Procs
<1>9. Led("sem_simple")
  BY <1>1, <1>2, <1>3, <1>4, SMTT(120) DEF Led, Inits, Makes
<1>10. Awaits("sem_simple")
  BY <1>1, <1>4, SMTT(120) DEF Awaits
<1>11. Removes("sem_simple")
  BY <1>1, <1>4, SMTT(120) DEF Removes
<1>12. Begins("sem_simple")
  BY <1>1, <1>4, SMTT(120) DEF Begins, Inits
<1>13. Closes("sem_simple")
  BY <1>1, <1>4, SMTT(120) DEF Closes
<1>14. Relies("sem_simple")
  BY <1>1, <1>2, <1>4, SMTT(120) DEF Relies, Makes, Sure
<1>15. Insists("sem_simple")
  BY <1>1, <1>3, <1>4, SMTT(120) DEF Insists, Sure
<1>16. Skips("sem_simple")
  BY <1>1, <1>2, <1>3, SMTT(120) DEF Skips, Makes
<1>17. Placed("sem_simple")
  BY <1>3, SMTT(120) DEF Placed
<1>18. Keeps("sem_simple")
  BY <1>1, <1>2, <1>3, SMTT(120) DEF Keeps, OnSems, OnText, OnStack
<1> QED BY <1>5, <1>6, <1>7, <1>8, <1>9, <1>10, <1>11, <1>12, <1>13, <1>14, <1>15, <1>16, <1>17, <1>18 DEF WellMade

LEMMA ShmSimpleMade == WellMade("shm_simple")
<1> DEFINE m == Script("shm_simple", "main")
           d == Script("shm_simple", "child1")
<1>1. m = <<<<"shmget", "buf">>, <<"fork", "child1">>, <<"shmat", "buf">>,
            <<"waitpid", "child1">>, <<"read", "buf">>, <<"shmdt", "buf">>, <<"rmid", "buf">>>>
  BY DEF X!Programs, X!shm_simple, X!Program, Script
<1>2. d = <<<<"shmat", "buf">>, <<"clear", "buf">>, <<"write", "buf">>, <<"write", "buf">>,
            <<"shmdt", "buf">>>>
  BY DEF X!Programs, X!shm_simple, X!Program, Script
<1>3. /\ \A p \in X!Procs : Script("shm_simple", p) = IF p = "main" THEN m ELSE d
      /\ X!Programs["shm_simple"].ignores = {"shmget"} /\ SpaceOf("shm_simple") = "buf"
  BY DEF X!Programs, X!shm_simple, X!Program, Script, SpaceOf, X!NoCallbacks, X!Callbacks
<1>4. m = Script("shm_simple", "main") /\ d = Script("shm_simple", "child1")
  OBVIOUS
<1> HIDE DEF m, d
<1>5. Listed("shm_simple")
  <2>1. m \in Seq(Words)
    BY <1>1 DEF Words, Names, Inits, Makes, OnSems, OnText, OnStack, Children, X!Segments
  <2>2. d \in Seq(Words)
    BY <1>2 DEF Words, Names, Inits, Makes, OnSems, OnText, OnStack, Children, X!Segments
  <2> QED BY <1>3, <2>1, <2>2 DEF Listed
<1>6. Typed("shm_simple")
  BY <1>1, <1>2, <1>3, SMTT(120) DEF Typed, Children, OnText, OnStack, X!Segments
<1>7. Provided("shm_simple")
  BY <1>1, <1>2, <1>3, SMTT(120) DEF Provided, Uses, Inherits, Gives, Takes, Inits, Makes, OnSems,
     OnText, OnStack
<1>8. Readied("shm_simple")
  BY <1>1, <1>2, <1>3, <1>4, SMTT(120) DEF Readied, X!Procs
<1>9. Led("shm_simple")
  BY <1>1, <1>2, <1>3, <1>4, SMTT(120) DEF Led, Inits, Makes
<1>10. Awaits("shm_simple")
  BY <1>1, <1>4, SMTT(120) DEF Awaits
<1>11. Removes("shm_simple")
  BY <1>1, <1>4, SMTT(120) DEF Removes
<1>12. Begins("shm_simple")
  BY <1>1, <1>4, SMTT(120) DEF Begins, Inits
<1>13. Closes("shm_simple")
  BY <1>1, <1>4, SMTT(120) DEF Closes
<1>14. Relies("shm_simple")
  BY <1>1, <1>2, <1>4, SMTT(120) DEF Relies, Makes, Sure
<1>15. Insists("shm_simple")
  BY <1>1, <1>3, <1>4, SMTT(120) DEF Insists, Sure
<1>16. Skips("shm_simple")
  BY <1>1, <1>2, <1>3, SMTT(120) DEF Skips, Makes
<1>17. Placed("shm_simple")
  BY <1>3, SMTT(120) DEF Placed
<1>18. Keeps("shm_simple")
  BY <1>1, <1>2, <1>3, SMTT(120) DEF Keeps, OnSems, OnText, OnStack
<1> QED BY <1>5, <1>6, <1>7, <1>8, <1>9, <1>10, <1>11, <1>12, <1>13, <1>14, <1>15, <1>16, <1>17, <1>18 DEF WellMade

LEMMA ShmStructMade == WellMade("shm_struct")
<1> DEFINE m == Script("shm_struct", "main")
           d == Script("shm_struct", "child1")
<1>1. m = <<<<"create_stack", "heap">>, <<"push_all", "heap">>, <<"pop_all", "heap">>,
            <<"destroy_stack", "heap">>, <<"shmget", "buf">>, <<"fork", "child1">>,
            <<"shmat", "buf">>, <<"waitpid", "child1">>, <<"pop_all", "buf">>,
            <<"shmdt", "buf">>, <<"rmid", "buf">>>>
  BY DEF X!Programs, X!shm_struct, X!Program, X!test_local, X!test_shm, X!PushingChild, Script
<1>2. d = <<<<"shmat", "buf">>, <<"init_shm_stack", "buf">>, <<"push_all", "buf">>,
            <<"shmdt", "buf">>>>
  BY DEF X!Programs, X!shm_struct, X!Program, X!test_local, X!test_shm, X!PushingChild, Script
<1>3. /\ \A p \in X!Procs : Script("shm_struct", p) = IF p = "main" THEN m ELSE d
      /\ X!Programs["shm_struct"].ignores = {} /\ SpaceOf("shm_struct") = "buf"
  BY DEF X!Programs, X!shm_struct, X!Program, X!test_local, X!test_shm, X!PushingChild, Script,
     SpaceOf, X!NoCallbacks, X!Callbacks
<1>4. m = Script("shm_struct", "main") /\ d = Script("shm_struct", "child1")
  OBVIOUS
<1> HIDE DEF m, d
<1>5. Listed("shm_struct")
  <2>1. m \in Seq(Words)
    BY <1>1 DEF Words, Names, Inits, Makes, OnSems, OnText, OnStack, Children, X!Segments
  <2>2. d \in Seq(Words)
    BY <1>2 DEF Words, Names, Inits, Makes, OnSems, OnText, OnStack, Children, X!Segments
  <2> QED BY <1>3, <2>1, <2>2 DEF Listed
<1>6. Typed("shm_struct")
  BY <1>1, <1>2, <1>3, SMTT(120) DEF Typed, Children, OnText, OnStack, X!Segments
<1>7. Provided("shm_struct")
  BY <1>1, <1>2, <1>3, SMTT(120) DEF Provided, Uses, Inherits, Gives, Takes, Inits, Makes, OnSems,
     OnText, OnStack
<1>8. Readied("shm_struct")
  BY <1>1, <1>2, <1>3, <1>4, SMTT(120) DEF Readied, X!Procs
<1>9. Led("shm_struct")
  BY <1>1, <1>2, <1>3, <1>4, SMTT(120) DEF Led, Inits, Makes
<1>10. Awaits("shm_struct")
  BY <1>1, <1>4, SMTT(120) DEF Awaits
<1>11. Removes("shm_struct")
  BY <1>1, <1>4, SMTT(120) DEF Removes
<1>12. Begins("shm_struct")
  BY <1>1, <1>4, SMTT(120) DEF Begins, Inits
<1>13. Closes("shm_struct")
  BY <1>1, <1>4, SMTT(120) DEF Closes
<1>14. Relies("shm_struct")
  BY <1>1, <1>2, <1>4, SMTT(120) DEF Relies, Makes, Sure
<1>15. Insists("shm_struct")
  BY <1>1, <1>3, <1>4, SMTT(120) DEF Insists, Sure
<1>16. Skips("shm_struct")
  BY <1>1, <1>2, <1>3, SMTT(120) DEF Skips, Makes
<1>17. Placed("shm_struct")
  BY <1>3, SMTT(120) DEF Placed
<1>18. Keeps("shm_struct")
  BY <1>1, <1>2, <1>3, SMTT(120) DEF Keeps, OnSems, OnText, OnStack
<1> QED BY <1>5, <1>6, <1>7, <1>8, <1>9, <1>10, <1>11, <1>12, <1>13, <1>14, <1>15, <1>16, <1>17, <1>18 DEF WellMade

LEMMA ForkNMade == WellMade("forkN")
<1> DEFINE m == Script("forkN", "main")
           d == Script("forkN", "child1")
<1>1. m = <<<<"fork", "child1">>, <<"fork", "child2">>, <<"waitpid", "child1">>,
            <<"waitpid", "child2">>>>
  BY DEF X!Programs, X!forkN, X!Program, Script
<1>2. d = <<<<"work">>>>
  BY DEF X!Programs, X!forkN, X!Program, Script
<1>3. /\ \A p \in X!Procs : Script("forkN", p) = IF p = "main" THEN m ELSE d
      /\ X!Programs["forkN"].ignores = {"waitpid"} /\ SpaceOf("forkN") = "buf"
  BY DEF X!Programs, X!forkN, X!Program, Script, SpaceOf, X!NoCallbacks, X!Callbacks
<1>4. m = Script("forkN", "main") /\ d = Script("forkN", "child1")
  OBVIOUS
<1> HIDE DEF m, d
<1>5. Listed("forkN")
  <2>1. m \in Seq(Words)
    BY <1>1 DEF Words, Names, Inits, Makes, OnSems, OnText, OnStack, Children, X!Segments
  <2>2. d \in Seq(Words)
    BY <1>2 DEF Words, Names, Inits, Makes, OnSems, OnText, OnStack, Children, X!Segments
  <2> QED BY <1>3, <2>1, <2>2 DEF Listed
<1>6. Typed("forkN")
  BY <1>1, <1>2, <1>3, SMTT(60) DEF Typed, Children, OnText, OnStack, X!Segments
<1>7. Provided("forkN")
  BY <1>1, <1>2, <1>3, SMTT(60) DEF Provided, Uses, Inherits, Gives, Takes, Inits, Makes, OnSems,
     OnText, OnStack
<1>8. Readied("forkN")
  BY <1>1, <1>2, <1>3, <1>4, SMTT(60) DEF Readied, X!Procs
<1>9. Led("forkN")
  BY <1>1, <1>2, <1>3, <1>4, SMTT(60) DEF Led, Inits, Makes
<1>10. Awaits("forkN")
  BY <1>1, <1>4, SMTT(60) DEF Awaits
<1>11. Removes("forkN")
  BY <1>1, <1>4, SMTT(60) DEF Removes
<1>12. Begins("forkN")
  BY <1>1, <1>4, SMTT(60) DEF Begins, Inits
<1>13. Closes("forkN")
  BY <1>1, <1>4, SMTT(60) DEF Closes
<1>14. Relies("forkN")
  BY <1>1, <1>2, <1>4, SMTT(60) DEF Relies, Makes, Sure
<1>15. Insists("forkN")
  BY <1>1, <1>3, <1>4, SMTT(60) DEF Insists, Sure
<1>16. Skips("forkN")
  BY <1>1, <1>2, <1>3, SMTT(60) DEF Skips, Makes
<1>17. Placed("forkN")
  BY <1>3, SMTT(60) DEF Placed
<1>18. Keeps("forkN")
  BY <1>1, <1>2, <1>3, SMTT(60) DEF Keeps, OnSems, OnText, OnStack
<1> QED BY <1>5, <1>6, <1>7, <1>8, <1>9, <1>10, <1>11, <1>12, <1>13, <1>14, <1>15, <1>16, <1>17, <1>18 DEF WellMade

LEMMA ZombieMade == WellMade("zombie")
<1> DEFINE m == Script("zombie", "main")
           d == Script("zombie", "child1")
<1>1. m = <<<<"fork", "child1">>, <<"work">>>>
  BY DEF X!Programs, X!zombie, X!Program, Script
<1>2. d = <<<<"work">>>>
  BY DEF X!Programs, X!zombie, X!Program, Script
<1>3. /\ \A p \in X!Procs : Script("zombie", p) = IF p = "main" THEN m ELSE d
      /\ X!Programs["zombie"].ignores = {} /\ SpaceOf("zombie") = "buf"
  BY DEF X!Programs, X!zombie, X!Program, Script, SpaceOf, X!NoCallbacks, X!Callbacks
<1>4. m = Script("zombie", "main") /\ d = Script("zombie", "child1")
  OBVIOUS
<1> HIDE DEF m, d
<1>5. Listed("zombie")
  <2>1. m \in Seq(Words)
    BY <1>1 DEF Words, Names, Inits, Makes, OnSems, OnText, OnStack, Children, X!Segments
  <2>2. d \in Seq(Words)
    BY <1>2 DEF Words, Names, Inits, Makes, OnSems, OnText, OnStack, Children, X!Segments
  <2> QED BY <1>3, <2>1, <2>2 DEF Listed
<1>6. Typed("zombie")
  BY <1>1, <1>2, <1>3, SMTT(60) DEF Typed, Children, OnText, OnStack, X!Segments
<1>7. Provided("zombie")
  BY <1>1, <1>2, <1>3, SMTT(60) DEF Provided, Uses, Inherits, Gives, Takes, Inits, Makes, OnSems,
     OnText, OnStack
<1>8. Readied("zombie")
  BY <1>1, <1>2, <1>3, <1>4, SMTT(60) DEF Readied, X!Procs
<1>9. Led("zombie")
  BY <1>1, <1>2, <1>3, <1>4, SMTT(60) DEF Led, Inits, Makes
<1>10. Awaits("zombie")
  BY <1>1, <1>4, SMTT(60) DEF Awaits
<1>11. Removes("zombie")
  BY <1>1, <1>4, SMTT(60) DEF Removes
<1>12. Begins("zombie")
  BY <1>1, <1>4, SMTT(60) DEF Begins, Inits
<1>13. Closes("zombie")
  BY <1>1, <1>4, SMTT(60) DEF Closes
<1>14. Relies("zombie")
  BY <1>1, <1>2, <1>4, SMTT(60) DEF Relies, Makes, Sure
<1>15. Insists("zombie")
  BY <1>1, <1>3, <1>4, SMTT(60) DEF Insists, Sure
<1>16. Skips("zombie")
  BY <1>1, <1>2, <1>3, SMTT(60) DEF Skips, Makes
<1>17. Placed("zombie")
  BY <1>3, SMTT(60) DEF Placed
<1>18. Keeps("zombie")
  BY <1>1, <1>2, <1>3, SMTT(60) DEF Keeps, OnSems, OnText, OnStack
<1> QED BY <1>5, <1>6, <1>7, <1>8, <1>9, <1>10, <1>11, <1>12, <1>13, <1>14, <1>15, <1>16, <1>17, <1>18 DEF WellMade

LEMMA WriteCallbackMade == WellMade("main_write_callback")
<1> DEFINE m == Script("main_write_callback", "main")
           d == Script("main_write_callback", "child1")
<1>1. m = <<<<"recv_buf_init">>, <<"curl_easy_init">>, <<"perform">>, <<"write_file">>,
            <<"cleanup">>>>
  BY DEF X!Programs, X!main_write_callback, X!Download, X!Fetch, Script
<1>2. d = <<>>
  BY DEF X!Programs, X!main_write_callback, X!Download, X!Fetch, Script
<1>3. /\ \A p \in X!Procs : Script("main_write_callback", p) = IF p = "main" THEN m ELSE d
      /\ X!Programs["main_write_callback"].ignores = {"recv_buf_init", "perform", "write_file"}
      /\ SpaceOf("main_write_callback") = "heap"
  BY DEF X!Programs, X!main_write_callback, X!Download, X!Fetch, Script, SpaceOf, X!Callbacks,
     X!WriteCbCallbacks
<1>4. m = Script("main_write_callback", "main") /\ d = Script("main_write_callback", "child1")
  OBVIOUS
<1> HIDE DEF m, d
<1>5. Listed("main_write_callback")
  <2>1. m \in Seq(Words)
    BY <1>1 DEF Words, Names, Inits, Makes, OnSems, OnText, OnStack, Children, X!Segments
  <2>2. d \in Seq(Words)
    BY <1>2 DEF Words, Names, Inits, Makes, OnSems, OnText, OnStack, Children, X!Segments
  <2> QED BY <1>3, <2>1, <2>2 DEF Listed
<1>6. Typed("main_write_callback")
  BY <1>1, <1>2, <1>3, SMTT(60) DEF Typed, Children, OnText, OnStack, X!Segments
<1>7. Provided("main_write_callback")
  <2>1. \A k \in 1 .. 5 : \A s \in Uses("main_write_callback", m[k]) : s = "heap" /\ k \in 3 .. 5
    BY <1>1, <1>3 DEF Uses, Inits, Makes, OnSems, OnText, OnStack
  <2>2. "heap" \in Gives("main_write_callback", m[1])
    BY <1>1, <1>3 DEF Gives, Inits
  <2>3. \A k \in 1 .. 4 : Takes(m[k]) = {}
    BY <1>1 DEF Takes
  <2>4. DOMAIN m = 1 .. 5 /\ DOMAIN d = {}
    BY <1>1, <1>2
  <2> QED BY <1>3, <2>1, <2>2, <2>3, <2>4 DEF Provided
<1>8. Readied("main_write_callback")
  BY <1>1, <1>2, <1>3, <1>4, SMTT(60) DEF Readied, X!Procs
<1>9. Led("main_write_callback")
  BY <1>1, <1>2, <1>3, <1>4, SMTT(60) DEF Led, Inits, Makes
<1>10. Awaits("main_write_callback")
  BY <1>1, <1>4, SMTT(60) DEF Awaits
<1>11. Removes("main_write_callback")
  BY <1>1, <1>4, SMTT(60) DEF Removes
<1>12. Begins("main_write_callback")
  BY <1>1, <1>4, SMTT(60) DEF Begins, Inits
<1>13. Closes("main_write_callback")
  <2>1. DOMAIN m = 1 .. 5 /\ Len(m) = 5
    BY <1>1
  <2>2. \A k \in 1 .. 5 : (m[k][1] = "cleanup" => k = 5) /\ m[k][1] # "fork"
    BY <1>1
  <2> QED BY <1>4, <2>1, <2>2 DEF Closes
<1>14. Relies("main_write_callback")
  BY <1>1, <1>2, <1>4, SMTT(60) DEF Relies, Makes, Sure
<1>15. Insists("main_write_callback")
  BY <1>1, <1>3, <1>4, SMTT(60) DEF Insists, Sure
<1>16. Skips("main_write_callback")
  BY <1>1, <1>2, <1>3, SMTT(60) DEF Skips, Makes
<1>17. Placed("main_write_callback")
  BY <1>3, SMTT(60) DEF Placed
<1>18. Keeps("main_write_callback")
  BY <1>1, <1>2, <1>3, SMTT(60) DEF Keeps, OnSems, OnText, OnStack
<1> QED BY <1>5, <1>6, <1>7, <1>8, <1>9, <1>10, <1>11, <1>12, <1>13, <1>14, <1>15, <1>16, <1>17, <1>18 DEF WellMade

LEMMA WriteHeaderCbMade == WellMade("main_write_header_cb")
<1> DEFINE m == Script("main_write_header_cb", "main")
           d == Script("main_write_header_cb", "child1")
<1>1. m = <<<<"recv_buf_init">>, <<"curl_easy_init">>, <<"perform">>, <<"write_file">>,
            <<"cleanup">>>>
  BY DEF X!Programs, X!main_write_header_cb, X!Download, X!Fetch, Script
<1>2. d = <<>>
  BY DEF X!Programs, X!main_write_header_cb, X!Download, X!Fetch, Script
<1>3. /\ \A p \in X!Procs : Script("main_write_header_cb", p) = IF p = "main" THEN m ELSE d
      /\ X!Programs["main_write_header_cb"].ignores = {"recv_buf_init", "perform", "write_file"}
      /\ SpaceOf("main_write_header_cb") = "heap"
  BY DEF X!Programs, X!main_write_header_cb, X!Download, X!Fetch, Script, SpaceOf, X!Callbacks,
     X!HeaderCbCallbacks
<1>4. m = Script("main_write_header_cb", "main") /\ d = Script("main_write_header_cb", "child1")
  OBVIOUS
<1> HIDE DEF m, d
<1>5. Listed("main_write_header_cb")
  <2>1. m \in Seq(Words)
    BY <1>1 DEF Words, Names, Inits, Makes, OnSems, OnText, OnStack, Children, X!Segments
  <2>2. d \in Seq(Words)
    BY <1>2 DEF Words, Names, Inits, Makes, OnSems, OnText, OnStack, Children, X!Segments
  <2> QED BY <1>3, <2>1, <2>2 DEF Listed
<1>6. Typed("main_write_header_cb")
  BY <1>1, <1>2, <1>3, SMTT(60) DEF Typed, Children, OnText, OnStack, X!Segments
<1>7. Provided("main_write_header_cb")
  <2>1. \A k \in 1 .. 5 : \A s \in Uses("main_write_header_cb", m[k]) : s = "heap" /\ k \in 3 .. 5
    BY <1>1, <1>3 DEF Uses, Inits, Makes, OnSems, OnText, OnStack
  <2>2. "heap" \in Gives("main_write_header_cb", m[1])
    BY <1>1, <1>3 DEF Gives, Inits
  <2>3. \A k \in 1 .. 4 : Takes(m[k]) = {}
    BY <1>1 DEF Takes
  <2>4. DOMAIN m = 1 .. 5 /\ DOMAIN d = {}
    BY <1>1, <1>2
  <2> QED BY <1>3, <2>1, <2>2, <2>3, <2>4 DEF Provided
<1>8. Readied("main_write_header_cb")
  BY <1>1, <1>2, <1>3, <1>4, SMTT(60) DEF Readied, X!Procs
<1>9. Led("main_write_header_cb")
  BY <1>1, <1>2, <1>3, <1>4, SMTT(60) DEF Led, Inits, Makes
<1>10. Awaits("main_write_header_cb")
  BY <1>1, <1>4, SMTT(60) DEF Awaits
<1>11. Removes("main_write_header_cb")
  BY <1>1, <1>4, SMTT(60) DEF Removes
<1>12. Begins("main_write_header_cb")
  BY <1>1, <1>4, SMTT(60) DEF Begins, Inits
<1>13. Closes("main_write_header_cb")
  <2>1. DOMAIN m = 1 .. 5 /\ Len(m) = 5
    BY <1>1
  <2>2. \A k \in 1 .. 5 : (m[k][1] = "cleanup" => k = 5) /\ m[k][1] # "fork"
    BY <1>1
  <2> QED BY <1>4, <2>1, <2>2 DEF Closes
<1>14. Relies("main_write_header_cb")
  BY <1>1, <1>2, <1>4, SMTT(60) DEF Relies, Makes, Sure
<1>15. Insists("main_write_header_cb")
  BY <1>1, <1>3, <1>4, SMTT(60) DEF Insists, Sure
<1>16. Skips("main_write_header_cb")
  BY <1>1, <1>2, <1>3, SMTT(60) DEF Skips, Makes
<1>17. Placed("main_write_header_cb")
  BY <1>3, SMTT(60) DEF Placed
<1>18. Keeps("main_write_header_cb")
  BY <1>1, <1>2, <1>3, SMTT(60) DEF Keeps, OnSems, OnText, OnStack
<1> QED BY <1>5, <1>6, <1>7, <1>8, <1>9, <1>10, <1>11, <1>12, <1>13, <1>14, <1>15, <1>16, <1>17, <1>18 DEF WellMade

LEMMA CurlIPCMade == WellMade("cURL_IPC")
<1> DEFINE m == Script("cURL_IPC", "main")
           d == Script("cURL_IPC", "child1")
<1>1. m = <<<<"shmget", "buf">>, <<"shmat", "buf">>, <<"recv_buf_init">>, <<"curl_easy_init">>,
            <<"perform">>, <<"write_file">>, <<"shmdt", "buf">>, <<"rmid", "buf">>>>
  BY DEF X!Programs, X!cURL_IPC, X!Download, X!Fetch, Script
<1>2. d = <<>>
  BY DEF X!Programs, X!cURL_IPC, X!Download, X!Fetch, Script
<1>3. /\ \A p \in X!Procs : Script("cURL_IPC", p) = IF p = "main" THEN m ELSE d
      /\ X!Programs["cURL_IPC"].ignores = {"shmat", "perform", "write_file"} /\ SpaceOf("cURL_IPC") = "buf"
  BY DEF X!Programs, X!cURL_IPC, X!Download, X!Fetch, Script, SpaceOf, X!Callbacks, X!IPCCallbacks
<1>4. m = Script("cURL_IPC", "main") /\ d = Script("cURL_IPC", "child1")
  OBVIOUS
<1> HIDE DEF m, d
<1>5. Listed("cURL_IPC")
  <2>1. m \in Seq(Words)
    BY <1>1 DEF Words, Names, Inits, Makes, OnSems, OnText, OnStack, Children, X!Segments
  <2>2. d \in Seq(Words)
    BY <1>2 DEF Words, Names, Inits, Makes, OnSems, OnText, OnStack, Children, X!Segments
  <2> QED BY <1>3, <2>1, <2>2 DEF Listed
<1>6. Typed("cURL_IPC")
  BY <1>1, <1>2, <1>3, SMTT(60) DEF Typed, Children, OnText, OnStack, X!Segments
<1>7. Provided("cURL_IPC")
  <2>1. \A k \in 1 .. 8 : \A s \in Uses("cURL_IPC", m[k]) : s = "buf" /\ k \in 3 .. 6
    BY <1>1, <1>3 DEF Uses, Inits, Makes, OnSems, OnText, OnStack
  <2>2. "buf" \in Gives("cURL_IPC", m[2])
    BY <1>1, <1>3 DEF Gives, Inits
  <2>3. \A k \in 1 .. 5 : Takes(m[k]) = {}
    BY <1>1 DEF Takes
  <2>4. DOMAIN m = 1 .. 8 /\ DOMAIN d = {}
    BY <1>1, <1>2
  <2> QED BY <1>3, <2>1, <2>2, <2>3, <2>4 DEF Provided
<1>8. Readied("cURL_IPC")
  BY <1>1, <1>2, <1>3, <1>4, SMTT(60) DEF Readied, X!Procs
<1>9. Led("cURL_IPC")
  BY <1>1, <1>2, <1>3, <1>4, SMTT(60) DEF Led, Inits, Makes
<1>10. Awaits("cURL_IPC")
  BY <1>1, <1>4, SMTT(60) DEF Awaits
<1>11. Removes("cURL_IPC")
  BY <1>1, <1>4, SMTT(60) DEF Removes
<1>12. Begins("cURL_IPC")
  BY <1>1, <1>4, SMTT(60) DEF Begins, Inits
<1>13. Closes("cURL_IPC")
  BY <1>1, <1>4, SMTT(60) DEF Closes
<1>14. Relies("cURL_IPC")
  BY <1>1, <1>2, <1>4, SMTT(60) DEF Relies, Makes, Sure
<1>15. Insists("cURL_IPC")
  BY <1>1, <1>3, <1>4, SMTT(60) DEF Insists, Sure
<1>16. Skips("cURL_IPC")
  BY <1>1, <1>2, <1>3, SMTT(60) DEF Skips, Makes
<1>17. Placed("cURL_IPC")
  BY <1>3, SMTT(60) DEF Placed
<1>18. Keeps("cURL_IPC")
  BY <1>1, <1>2, <1>3, SMTT(60) DEF Keeps, OnSems, OnText, OnStack
<1> QED BY <1>5, <1>6, <1>7, <1>8, <1>9, <1>10, <1>11, <1>12, <1>13, <1>14, <1>15, <1>16, <1>17, <1>18 DEF WellMade

LEMMA TwoProcsMade == WellMade("main_2proc")
<1> DEFINE m == Script("main_2proc", "main")
           d == Script("main_2proc", "child1")
<1>1. m = <<<<"shmget", "buf">>, <<"shmat", "buf">>, <<"recv_buf_init">>, <<"fork", "child1">>,
            <<"waitpid", "child1">>, <<"write_file">>, <<"shmdt", "buf">>, <<"rmid", "buf">>>>
  BY DEF X!Programs, X!main_2proc, X!TwoProc, X!Download, Script
<1>2. d = <<<<"curl_easy_init">>, <<"perform">>, <<"shmdt", "buf">>>>
  BY DEF X!Programs, X!main_2proc, X!TwoProc, X!Download, Script
<1>3. /\ \A p \in X!Procs : Script("main_2proc", p) = IF p = "main" THEN m ELSE d
      /\ X!Programs["main_2proc"].ignores = {"shmat", "perform", "write_file"} /\ SpaceOf("main_2proc") = "buf"
  BY DEF X!Programs, X!main_2proc, X!TwoProc, X!Download, Script, SpaceOf, X!Callbacks,
     X!TwoProcCallbacks
<1>4. m = Script("main_2proc", "main") /\ d = Script("main_2proc", "child1")
  OBVIOUS
<1> HIDE DEF m, d
<1>5. Listed("main_2proc")
  <2>1. m \in Seq(Words)
    BY <1>1 DEF Words, Names, Inits, Makes, OnSems, OnText, OnStack, Children, X!Segments
  <2>2. d \in Seq(Words)
    BY <1>2 DEF Words, Names, Inits, Makes, OnSems, OnText, OnStack, Children, X!Segments
  <2> QED BY <1>3, <2>1, <2>2 DEF Listed
<1>6. Typed("main_2proc")
  BY <1>1, <1>2, <1>3, SMTT(60) DEF Typed, Children, OnText, OnStack, X!Segments
<1>7. Provided("main_2proc")
  BY <1>1, <1>2, <1>3, SMTT(60) DEF Provided, Uses, Inherits, Gives, Takes, Inits, Makes, OnSems,
     OnText, OnStack
<1>8. Readied("main_2proc")
  BY <1>1, <1>2, <1>3, <1>4, SMTT(60) DEF Readied, X!Procs
<1>9. Led("main_2proc")
  BY <1>1, <1>2, <1>3, <1>4, SMTT(60) DEF Led, Inits, Makes
<1>10. Awaits("main_2proc")
  BY <1>1, <1>4, SMTT(60) DEF Awaits
<1>11. Removes("main_2proc")
  BY <1>1, <1>4, SMTT(60) DEF Removes
<1>12. Begins("main_2proc")
  BY <1>1, <1>4, SMTT(60) DEF Begins, Inits
<1>13. Closes("main_2proc")
  BY <1>1, <1>4, SMTT(60) DEF Closes
<1>14. Relies("main_2proc")
  BY <1>1, <1>2, <1>4, SMTT(60) DEF Relies, Makes, Sure
<1>15. Insists("main_2proc")
  BY <1>1, <1>3, <1>4, SMTT(60) DEF Insists, Sure
<1>16. Skips("main_2proc")
  BY <1>1, <1>2, <1>3, SMTT(60) DEF Skips, Makes
<1>17. Placed("main_2proc")
  BY <1>3, SMTT(60) DEF Placed
<1>18. Keeps("main_2proc")
  BY <1>1, <1>2, <1>3, SMTT(60) DEF Keeps, OnSems, OnText, OnStack
<1> QED BY <1>5, <1>6, <1>7, <1>8, <1>9, <1>10, <1>11, <1>12, <1>13, <1>14, <1>15, <1>16, <1>17, <1>18 DEF WellMade

LEMMA CurlXmlMade == WellMade("curl_xml")
<1> DEFINE m == Script("curl_xml", "main")
           d == Script("curl_xml", "child1")
<1>1. m = <<<<"easy_handle_init">>, <<"perform">>, <<"process_data">>, <<"cleanup">>>>
  BY DEF X!Programs, X!curl_xml, X!Download, X!Visit, Script
<1>2. d = <<>>
  BY DEF X!Programs, X!curl_xml, X!Download, X!Visit, Script
<1>3. /\ \A p \in X!Procs : Script("curl_xml", p) = IF p = "main" THEN m ELSE d
      /\ X!Programs["curl_xml"].ignores = {"process_data"} /\ SpaceOf("curl_xml") = "heap"
  BY DEF X!Programs, X!curl_xml, X!Download, X!Visit, Script, SpaceOf, X!Callbacks, X!XmlCallbacks
<1>4. m = Script("curl_xml", "main") /\ d = Script("curl_xml", "child1")
  OBVIOUS
<1> HIDE DEF m, d
<1>5. Listed("curl_xml")
  <2>1. m \in Seq(Words)
    BY <1>1 DEF Words, Names, Inits, Makes, OnSems, OnText, OnStack, Children, X!Segments
  <2>2. d \in Seq(Words)
    BY <1>2 DEF Words, Names, Inits, Makes, OnSems, OnText, OnStack, Children, X!Segments
  <2> QED BY <1>3, <2>1, <2>2 DEF Listed
<1>6. Typed("curl_xml")
  BY <1>1, <1>2, <1>3, SMTT(60) DEF Typed, Children, OnText, OnStack, X!Segments
<1>7. Provided("curl_xml")
  <2>1. \A k \in 1 .. 4 : \A s \in Uses("curl_xml", m[k]) : s = "heap" /\ k \in 2 .. 4
    BY <1>1, <1>3 DEF Uses, Inits, Makes, OnSems, OnText, OnStack
  <2>2. "heap" \in Gives("curl_xml", m[1])
    BY <1>1, <1>3 DEF Gives, Inits
  <2>3. \A k \in 1 .. 3 : Takes(m[k]) = {}
    BY <1>1 DEF Takes
  <2>4. DOMAIN m = 1 .. 4 /\ DOMAIN d = {}
    BY <1>1, <1>2
  <2> QED BY <1>3, <2>1, <2>2, <2>3, <2>4 DEF Provided
<1>8. Readied("curl_xml")
  BY <1>1, <1>2, <1>3, <1>4, SMTT(60) DEF Readied, X!Procs
<1>9. Led("curl_xml")
  BY <1>1, <1>2, <1>3, <1>4, SMTT(60) DEF Led, Inits, Makes
<1>10. Awaits("curl_xml")
  BY <1>1, <1>4, SMTT(60) DEF Awaits
<1>11. Removes("curl_xml")
  BY <1>1, <1>4, SMTT(60) DEF Removes
<1>12. Begins("curl_xml")
  BY <1>1, <1>4, SMTT(60) DEF Begins, Inits
<1>13. Closes("curl_xml")
  <2>1. DOMAIN m = 1 .. 4 /\ Len(m) = 4
    BY <1>1
  <2>2. \A k \in 1 .. 4 : (m[k][1] = "cleanup" => k = 4) /\ m[k][1] # "fork"
    BY <1>1
  <2> QED BY <1>4, <2>1, <2>2 DEF Closes
<1>14. Relies("curl_xml")
  BY <1>1, <1>2, <1>4, SMTT(60) DEF Relies, Makes, Sure
<1>15. Insists("curl_xml")
  BY <1>1, <1>3, <1>4, SMTT(60) DEF Insists, Sure
<1>16. Skips("curl_xml")
  BY <1>1, <1>2, <1>3, SMTT(60) DEF Skips, Makes
<1>17. Placed("curl_xml")
  BY <1>3, SMTT(60) DEF Placed
<1>18. Keeps("curl_xml")
  BY <1>1, <1>2, <1>3, SMTT(60) DEF Keeps, OnSems, OnText, OnStack
<1> QED BY <1>5, <1>6, <1>7, <1>8, <1>9, <1>10, <1>11, <1>12, <1>13, <1>14, <1>15, <1>16, <1>17, <1>18 DEF WellMade

LEMMA Findpng2Made == WellMade("findpng2")
<1> DEFINE m == Script("findpng2", "main")
           d == Script("findpng2", "child1")
<1>1. m = <<<<"easy_handle_init">>, <<"perform">>, <<"process_data">>, <<"cleanup">>>>
  BY DEF X!Programs, X!findpng2, X!Download, X!Visit, Script
<1>2. d = <<>>
  BY DEF X!Programs, X!findpng2, X!Download, X!Visit, Script
<1>3. /\ \A p \in X!Procs : Script("findpng2", p) = IF p = "main" THEN m ELSE d
      /\ X!Programs["findpng2"].ignores = {} /\ SpaceOf("findpng2") = "heap"
  BY DEF X!Programs, X!findpng2, X!Download, X!Visit, Script, SpaceOf, X!Callbacks, X!Proj4Callbacks
<1>4. m = Script("findpng2", "main") /\ d = Script("findpng2", "child1")
  OBVIOUS
<1> HIDE DEF m, d
<1>5. Listed("findpng2")
  <2>1. m \in Seq(Words)
    BY <1>1 DEF Words, Names, Inits, Makes, OnSems, OnText, OnStack, Children, X!Segments
  <2>2. d \in Seq(Words)
    BY <1>2 DEF Words, Names, Inits, Makes, OnSems, OnText, OnStack, Children, X!Segments
  <2> QED BY <1>3, <2>1, <2>2 DEF Listed
<1>6. Typed("findpng2")
  BY <1>1, <1>2, <1>3, SMTT(60) DEF Typed, Children, OnText, OnStack, X!Segments
<1>7. Provided("findpng2")
  <2>1. \A k \in 1 .. 4 : \A s \in Uses("findpng2", m[k]) : s = "heap" /\ k \in 2 .. 4
    BY <1>1, <1>3 DEF Uses, Inits, Makes, OnSems, OnText, OnStack
  <2>2. "heap" \in Gives("findpng2", m[1])
    BY <1>1, <1>3 DEF Gives, Inits
  <2>3. \A k \in 1 .. 3 : Takes(m[k]) = {}
    BY <1>1 DEF Takes
  <2>4. DOMAIN m = 1 .. 4 /\ DOMAIN d = {}
    BY <1>1, <1>2
  <2> QED BY <1>3, <2>1, <2>2, <2>3, <2>4 DEF Provided
<1>8. Readied("findpng2")
  BY <1>1, <1>2, <1>3, <1>4, SMTT(60) DEF Readied, X!Procs
<1>9. Led("findpng2")
  BY <1>1, <1>2, <1>3, <1>4, SMTT(60) DEF Led, Inits, Makes
<1>10. Awaits("findpng2")
  BY <1>1, <1>4, SMTT(60) DEF Awaits
<1>11. Removes("findpng2")
  BY <1>1, <1>4, SMTT(60) DEF Removes
<1>12. Begins("findpng2")
  BY <1>1, <1>4, SMTT(60) DEF Begins, Inits
<1>13. Closes("findpng2")
  <2>1. DOMAIN m = 1 .. 4 /\ Len(m) = 4
    BY <1>1
  <2>2. \A k \in 1 .. 4 : (m[k][1] = "cleanup" => k = 4) /\ m[k][1] # "fork"
    BY <1>1
  <2> QED BY <1>4, <2>1, <2>2 DEF Closes
<1>14. Relies("findpng2")
  BY <1>1, <1>2, <1>4, SMTT(60) DEF Relies, Makes, Sure
<1>15. Insists("findpng2")
  BY <1>1, <1>3, <1>4, SMTT(60) DEF Insists, Sure
<1>16. Skips("findpng2")
  BY <1>1, <1>2, <1>3, SMTT(60) DEF Skips, Makes
<1>17. Placed("findpng2")
  BY <1>3, SMTT(60) DEF Placed
<1>18. Keeps("findpng2")
  BY <1>1, <1>2, <1>3, SMTT(60) DEF Keeps, OnSems, OnText, OnStack
<1> QED BY <1>5, <1>6, <1>7, <1>8, <1>9, <1>10, <1>11, <1>12, <1>13, <1>14, <1>15, <1>16, <1>17, <1>18 DEF WellMade

LEMMA Findpng3Made == WellMade("findpng3")
<1> DEFINE m == Script("findpng3", "main")
           d == Script("findpng3", "child1")
<1>1. m = <<<<"easy_handle_init">>, <<"perform">>, <<"process_data">>, <<"cleanup">>>>
  BY DEF X!Programs, X!findpng3, X!Download, X!Visit, Script
<1>2. d = <<>>
  BY DEF X!Programs, X!findpng3, X!Download, X!Visit, Script
<1>3. /\ \A p \in X!Procs : Script("findpng3", p) = IF p = "main" THEN m ELSE d
      /\ X!Programs["findpng3"].ignores = {"easy_handle_init"} /\ SpaceOf("findpng3") = "heap"
  BY DEF X!Programs, X!findpng3, X!Download, X!Visit, Script, SpaceOf, X!Callbacks, X!Proj5Callbacks
<1>4. m = Script("findpng3", "main") /\ d = Script("findpng3", "child1")
  OBVIOUS
<1> HIDE DEF m, d
<1>5. Listed("findpng3")
  <2>1. m \in Seq(Words)
    BY <1>1 DEF Words, Names, Inits, Makes, OnSems, OnText, OnStack, Children, X!Segments
  <2>2. d \in Seq(Words)
    BY <1>2 DEF Words, Names, Inits, Makes, OnSems, OnText, OnStack, Children, X!Segments
  <2> QED BY <1>3, <2>1, <2>2 DEF Listed
<1>6. Typed("findpng3")
  BY <1>1, <1>2, <1>3, SMTT(60) DEF Typed, Children, OnText, OnStack, X!Segments
<1>7. Provided("findpng3")
  <2>1. \A k \in 1 .. 4 : \A s \in Uses("findpng3", m[k]) : s = "heap" /\ k \in 2 .. 4
    BY <1>1, <1>3 DEF Uses, Inits, Makes, OnSems, OnText, OnStack
  <2>2. "heap" \in Gives("findpng3", m[1])
    BY <1>1, <1>3 DEF Gives, Inits
  <2>3. \A k \in 1 .. 3 : Takes(m[k]) = {}
    BY <1>1 DEF Takes
  <2>4. DOMAIN m = 1 .. 4 /\ DOMAIN d = {}
    BY <1>1, <1>2
  <2> QED BY <1>3, <2>1, <2>2, <2>3, <2>4 DEF Provided
<1>8. Readied("findpng3")
  BY <1>1, <1>2, <1>3, <1>4, SMTT(60) DEF Readied, X!Procs
<1>9. Led("findpng3")
  BY <1>1, <1>2, <1>3, <1>4, SMTT(60) DEF Led, Inits, Makes
<1>10. Awaits("findpng3")
  BY <1>1, <1>4, SMTT(60) DEF Awaits
<1>11. Removes("findpng3")
  BY <1>1, <1>4, SMTT(60) DEF Removes
<1>12. Begins("findpng3")
  BY <1>1, <1>4, SMTT(60) DEF Begins, Inits
<1>13. Closes("findpng3")
  <2>1. DOMAIN m = 1 .. 4 /\ Len(m) = 4
    BY <1>1
  <2>2. \A k \in 1 .. 4 : (m[k][1] = "cleanup" => k = 4) /\ m[k][1] # "fork"
    BY <1>1
  <2> QED BY <1>4, <2>1, <2>2 DEF Closes
<1>14. Relies("findpng3")
  BY <1>1, <1>2, <1>4, SMTT(60) DEF Relies, Makes, Sure
<1>15. Insists("findpng3")
  BY <1>1, <1>3, <1>4, SMTT(60) DEF Insists, Sure
<1>16. Skips("findpng3")
  <2>1. DOMAIN m = 1 .. 4 /\ Len(m) = 4 /\ DOMAIN d = {}
    BY <1>1, <1>2
  <2>2. \A k \in 1 .. 4 : (m[k][1] = "perform" => k = 2) /\ (m[k][1] \in Makes <=> k = 3)
    BY <1>1 DEF Makes
  <2> QED BY <1>3, <2>1, <2>2 DEF Skips
<1>17. Placed("findpng3")
  BY <1>3, SMTT(60) DEF Placed
<1>18. Keeps("findpng3")
  BY <1>1, <1>2, <1>3, SMTT(60) DEF Keeps, OnSems, OnText, OnStack
<1> QED BY <1>5, <1>6, <1>7, <1>8, <1>9, <1>10, <1>11, <1>12, <1>13, <1>14, <1>15, <1>16, <1>17, <1>18 DEF WellMade

LEMMA PasterMade == WellMade("paster")
<1> DEFINE m == Script("paster", "main")
           d == Script("paster", "child1")
<1>1. m = <<<<"recv_buf_init">>, <<"curl_easy_init">>, <<"perform">>, <<"hand_on">>>>
  BY DEF X!Programs, X!paster, X!Download, X!Fetch, Script
<1>2. d = <<>>
  BY DEF X!Programs, X!paster, X!Download, X!Fetch, Script
<1>3. /\ \A p \in X!Procs : Script("paster", p) = IF p = "main" THEN m ELSE d
      /\ X!Programs["paster"].ignores = {} /\ SpaceOf("paster") = "heap"
  BY DEF X!Programs, X!paster, X!Download, X!Fetch, Script, SpaceOf, X!Callbacks, X!Proj2Callbacks
<1>4. m = Script("paster", "main") /\ d = Script("paster", "child1")
  OBVIOUS
<1> HIDE DEF m, d
<1>5. Listed("paster")
  <2>1. m \in Seq(Words)
    BY <1>1 DEF Words, Names, Inits, Makes, OnSems, OnText, OnStack, Children, X!Segments
  <2>2. d \in Seq(Words)
    BY <1>2 DEF Words, Names, Inits, Makes, OnSems, OnText, OnStack, Children, X!Segments
  <2> QED BY <1>3, <2>1, <2>2 DEF Listed
<1>6. Typed("paster")
  BY <1>1, <1>2, <1>3, SMTT(60) DEF Typed, Children, OnText, OnStack, X!Segments
<1>7. Provided("paster")
  <2>1. \A k \in 1 .. 4 : \A s \in Uses("paster", m[k]) : s = "heap" /\ k \in 3 .. 4
    BY <1>1, <1>3 DEF Uses, Inits, Makes, OnSems, OnText, OnStack
  <2>2. "heap" \in Gives("paster", m[1])
    BY <1>1, <1>3 DEF Gives, Inits
  <2>3. \A k \in 1 .. 3 : Takes(m[k]) = {}
    BY <1>1 DEF Takes
  <2>4. DOMAIN m = 1 .. 4 /\ DOMAIN d = {}
    BY <1>1, <1>2
  <2> QED BY <1>3, <2>1, <2>2, <2>3, <2>4 DEF Provided
<1>8. Readied("paster")
  BY <1>1, <1>2, <1>3, <1>4, SMTT(60) DEF Readied, X!Procs
<1>9. Led("paster")
  BY <1>1, <1>2, <1>3, <1>4, SMTT(60) DEF Led, Inits, Makes
<1>10. Awaits("paster")
  BY <1>1, <1>4, SMTT(60) DEF Awaits
<1>11. Removes("paster")
  BY <1>1, <1>4, SMTT(60) DEF Removes
<1>12. Begins("paster")
  BY <1>1, <1>4, SMTT(60) DEF Begins, Inits
<1>13. Closes("paster")
  BY <1>1, <1>4, SMTT(60) DEF Closes
<1>14. Relies("paster")
  BY <1>1, <1>2, <1>4, SMTT(60) DEF Relies, Makes, Sure
<1>15. Insists("paster")
  BY <1>1, <1>3, <1>4, SMTT(60) DEF Insists, Sure
<1>16. Skips("paster")
  BY <1>1, <1>2, <1>3, SMTT(60) DEF Skips, Makes
<1>17. Placed("paster")
  BY <1>3, SMTT(60) DEF Placed
<1>18. Keeps("paster")
  BY <1>1, <1>2, <1>3, SMTT(60) DEF Keeps, OnSems, OnText, OnStack
<1> QED BY <1>5, <1>6, <1>7, <1>8, <1>9, <1>10, <1>11, <1>12, <1>13, <1>14, <1>15, <1>16, <1>17, <1>18 DEF WellMade

LEMMA Paster2Made == WellMade("paster2")
<1> DEFINE m == Script("paster2", "main")
           d == Script("paster2", "child1")
<1>1. m = <<<<"shmget", "buf">>, <<"shmat", "buf">>, <<"recv_buf_init">>, <<"curl_easy_init">>,
            <<"perform">>, <<"hand_on">>>>
  BY DEF X!Programs, X!paster2, X!Download, X!Fetch, Script
<1>2. d = <<>>
  BY DEF X!Programs, X!paster2, X!Download, X!Fetch, Script
<1>3. /\ \A p \in X!Procs : Script("paster2", p) = IF p = "main" THEN m ELSE d
      /\ X!Programs["paster2"].ignores = {"perform"} /\ SpaceOf("paster2") = "buf"
      /\ X!Programs["paster2"].cb.full = "abort"
  BY DEF X!Programs, X!paster2, X!Download, X!Fetch, Script, SpaceOf, X!Callbacks, X!Proj3Callbacks
<1>4. m = Script("paster2", "main") /\ d = Script("paster2", "child1")
  OBVIOUS
<1> HIDE DEF m, d
<1>5. Listed("paster2")
  <2>1. m \in Seq(Words)
    BY <1>1 DEF Words, Names, Inits, Makes, OnSems, OnText, OnStack, Children, X!Segments
  <2>2. d \in Seq(Words)
    BY <1>2 DEF Words, Names, Inits, Makes, OnSems, OnText, OnStack, Children, X!Segments
  <2> QED BY <1>3, <2>1, <2>2 DEF Listed
<1>6. Typed("paster2")
  BY <1>1, <1>2, <1>3, SMTT(60) DEF Typed, Children, OnText, OnStack, X!Segments
<1>7. Provided("paster2")
  BY <1>1, <1>2, <1>3, SMTT(60) DEF Provided, Uses, Inherits, Gives, Takes, Inits, Makes, OnSems,
     OnText, OnStack
<1>8. Readied("paster2")
  BY <1>1, <1>2, <1>3, <1>4, SMTT(60) DEF Readied, X!Procs
<1>9. Led("paster2")
  BY <1>1, <1>2, <1>3, <1>4, SMTT(60) DEF Led, Inits, Makes
<1>10. Awaits("paster2")
  BY <1>1, <1>4, SMTT(60) DEF Awaits
<1>11. Removes("paster2")
  BY <1>1, <1>4, SMTT(60) DEF Removes
<1>12. Begins("paster2")
  BY <1>1, <1>4, SMTT(60) DEF Begins, Inits
<1>13. Closes("paster2")
  BY <1>1, <1>4, SMTT(60) DEF Closes
<1>14. Relies("paster2")
  BY <1>1, <1>2, <1>4, SMTT(60) DEF Relies, Makes, Sure
<1>15. Insists("paster2")
  BY <1>1, <1>3, <1>4, SMTT(60) DEF Insists, Sure
<1>16. Skips("paster2")
  BY <1>1, <1>2, <1>3, SMTT(60) DEF Skips, Makes
<1>17. Placed("paster2")
  BY <1>3, SMTT(60) DEF Placed
<1>18. Keeps("paster2")
  BY <1>1, <1>2, <1>3, SMTT(60) DEF Keeps, OnSems, OnText, OnStack
<1> QED BY <1>5, <1>6, <1>7, <1>8, <1>9, <1>10, <1>11, <1>12, <1>13, <1>14, <1>15, <1>16, <1>17, <1>18 DEF WellMade


LEMMA AllMade ==
    ASSUME NEW q \in DOMAIN X!Programs
    PROVE WellMade(q)
BY SemSimpleMade, ShmSimpleMade, ShmStructMade, ForkNMade, ZombieMade, WriteCallbackMade,
   WriteHeaderCbMade, CurlIPCMade, TwoProcsMade, CurlXmlMade, Findpng2Made, Findpng3Made,
   PasterMade, Paster2Made DEF X!Programs

-----------------------------------------------------------------------------
(* Every part of the invariant is kept by a step of a process, whichever   *)
(* of the shapes it has.                                                   *)

Moved(p) == Dies(p) \/ Passes(p) \/ LeavesOut(p) \/ Stays(p) \/ Does(p)
Reached(p) == /\ life[p] = "runs" /\ todo[p] # <<>> /\ at[p] \in DOMAIN Script(program, p)
              /\ Call(p, at[p])[1] = X!Op(p) /\ Call(p, at[p])[2] = X!Arg(p)
Forks(p, r) == Does(p) /\ X!Op(p) = "fork" /\ r = X!Arg(p)

(* What a step puts behind each process.                                   *)
LEMMA Grows ==
    ASSUME Standing, Family, NEW p \in X!Procs, Moved(p)
    PROVE /\ Standing' /\ program' = program
          /\ \A r \in X!Procs : Script(program, r)' = Script(program, r)
          /\ \A r \in X!Procs \ {p} : ~Forks(p, r) => at'[r] = at[r] /\ life'[r] = life[r] /\ Behind'[r] = Behind[r]
          /\ \A r \in X!Procs \ {p} : Forks(p, r) =>
                at'[r] = 1 /\ life'[r] = "runs" /\ Behind'[r] = {} /\ p = "main" /\ r \in Children
          /\ Dies(p) => /\ life[p] = "runs" /\ life'[p] \in {"exited", "failed", "astray"}
                        /\ Behind'[p] = IF life'[p] = "exited" THEN Behind[p] ELSE {}
                        /\ at'[p] = Len(Script(program, p)) + 1 /\ at[p] <= at'[p]
                        /\ life'[p] = "exited" => at'[p] = at[p]
          /\ Stays(p) => Reached(p) /\ life'[p] = "runs" /\ at'[p] = at[p] /\ Behind'[p] = Behind[p]
          /\ Passes(p) \/ Does(p) => /\ Reached(p) /\ life'[p] = "runs" /\ at'[p] = at[p] + 1
                                     /\ Behind'[p] = Behind[p] \cup {at[p]}
          /\ LeavesOut(p) => /\ Reached(p) /\ life'[p] = "runs" /\ at'[p] = at[p] + 2
                             /\ at[p] < Len(Script(program, p))
                             /\ Behind'[p] = Behind[p] \cup {at[p], at[p] + 1}
                             /\ "easy_handle_init" \in X!Programs[program].ignores
<1>0. program \in DOMAIN X!Programs /\ \A q \in DOMAIN X!Programs : WellMade(q)
  BY AllMade DEF Standing
<1>a. /\ \A q \in DOMAIN X!Programs : Listed(q) /\ Typed(q)
      /\ Listed(program) /\ Skips(program)
  BY <1>0 DEF WellMade
<1>b. Standing
  OBVIOUS
<1>1. ASSUME todo[p] # <<>>, life[p] = "runs" PROVE Reached(p)
  BY <1>a, <1>1, Here DEF Reached
<1>2. ASSUME LeavesOut(p)
      PROVE at[p] < Len(Script(program, p)) /\ "easy_handle_init" \in X!Programs[program].ignores
  <2>1. /\ Reached(p) /\ X!Op(p) = "perform" /\ "easy_handle_init" \in failed[p]
    BY <1>1, <1>2 DEF LeavesOut
  <2>2. "easy_handle_init" \in X!Programs[program].ignores
    BY <2>1 DEF Family
  <2> QED BY <1>a, <2>1, <2>2 DEF Skips, Reached, Call
<1>3. /\ Standing'
      /\ \A r \in X!Procs : Script(program, r)' = Script(program, r)
      /\ Dies(p) => /\ at'[p] = Len(Script(program, p)) + 1
                    /\ \A r \in X!Procs \ {p} : at'[r] = at[r] /\ life'[r] = life[r]
      /\ Stays(p) => life' = life /\ \A r \in X!Procs : at'[r] = at[r]
      /\ Passes(p) => life' = life /\ \A r \in X!Procs : at'[r] = IF r = p THEN at[r] + 1 ELSE at[r]
      /\ LeavesOut(p) => life' = life /\ \A r \in X!Procs : at'[r] = IF r = p THEN at[r] + 2 ELSE at[r]
      /\ Does(p) /\ X!Op(p) # "fork" =>
            life' = life /\ \A r \in X!Procs : at'[r] = IF r = p THEN at[r] + 1 ELSE at[r]
      /\ Does(p) /\ X!Op(p) = "fork" =>
            /\ X!Arg(p) \in Children /\ p = "main"
            /\ at'[p] = at[p] + 1 /\ life'[p] = life[p]
            /\ at'[X!Arg(p)] = 1 /\ life'[X!Arg(p)] = "runs"
            /\ \A r \in X!Procs \ {p, X!Arg(p)} : at'[r] = at[r] /\ life'[r] = life[r]
  BY <1>a, <1>2, Moves DEF Moved
<1>4. program' = program
  BY DEF Moved, Dies, Passes, LeavesOut, Stays, Does, Shared
<1>5. /\ \A r \in X!Procs : Behind[r] = IF life[r] \in {"runs", "exited"} THEN 1 .. at[r] - 1 ELSE {}
      /\ \A r \in X!Procs : Behind'[r] = IF life'[r] \in {"runs", "exited"} THEN 1 .. at'[r] - 1 ELSE {}
  BY DEF Behind
<1>6. \A r \in X!Procs : at[r] \in Nat \ {0} /\ Len(Script(program, r)) \in Nat /\ at[r] <= Len(Script(program, r)) + 1
  <2>1. ASSUME NEW r \in X!Procs PROVE Len(Script(program, r)) \in Nat
    BY <1>a, Here
  <2>2. \A r \in X!Procs : at[r] \in 1 .. Len(Script(program, r)) + 1
    BY <1>b DEF Standing
  <2> QED BY ONLY <2>1, <2>2
<1>7. ASSUME NEW r \in X!Procs \ {p}, ~Forks(p, r)
      PROVE at'[r] = at[r] /\ life'[r] = life[r] /\ Behind'[r] = Behind[r]
  <2>1. at'[r] = at[r] /\ life'[r] = life[r]
    BY <1>3, <1>7 DEF Moved, Forks
  <2> QED BY <1>5, <2>1
<1>8. ASSUME NEW r \in X!Procs \ {p}, Forks(p, r)
      PROVE at'[r] = 1 /\ life'[r] = "runs" /\ Behind'[r] = {} /\ p = "main" /\ r \in Children
  BY <1>3, <1>5, <1>8 DEF Forks
<1>9. ASSUME Dies(p)
      PROVE /\ life[p] = "runs" /\ life'[p] \in {"exited", "failed", "astray"}
            /\ Behind'[p] = IF life'[p] = "exited" THEN Behind[p] ELSE {}
            /\ at'[p] = Len(Script(program, p)) + 1 /\ at[p] <= at'[p]
            /\ life'[p] = "exited" => at'[p] = at[p]
  <2>1. /\ life[p] = "runs" /\ life'[p] \in {"exited", "failed", "astray"}
        /\ life'[p] = "exited" => todo[p] = <<>>
    BY <1>9, <1>b DEF Dies, X!Over, Standing
  <2>2. life'[p] = "exited" => at'[p] = at[p]
    BY <1>a, <1>3, <1>9, <2>1, Here
  <2>3. at'[p] = Len(Script(program, p)) + 1 /\ at[p] <= at'[p]
    BY <1>3, <1>6, <1>9
  <2> QED BY <1>5, <2>1, <2>2, <2>3
<1>10. ASSUME Stays(p)
       PROVE Reached(p) /\ life'[p] = "runs" /\ at'[p] = at[p] /\ Behind'[p] = Behind[p]
  BY <1>1, <1>3, <1>5, <1>10 DEF Stays
<1>11. ASSUME Passes(p) \/ Does(p)
       PROVE Reached(p) /\ life'[p] = "runs" /\ at'[p] = at[p] + 1 /\ Behind'[p] = Behind[p] \cup {at[p]}
  <2>1. Reached(p) /\ life[p] = "runs" /\ life'[p] = "runs" /\ at'[p] = at[p] + 1
    BY <1>1, <1>3, <1>11 DEF Passes, Does
  <2> QED BY <1>5, <1>6, <2>1
<1>12. ASSUME LeavesOut(p)
       PROVE /\ Reached(p) /\ life'[p] = "runs" /\ at'[p] = at[p] + 2
             /\ Behind'[p] = Behind[p] \cup {at[p], at[p] + 1}
  <2>1. Reached(p) /\ life[p] = "runs" /\ life'[p] = "runs" /\ at'[p] = at[p] + 2
    BY <1>1, <1>3, <1>12 DEF LeavesOut
  <2> QED BY <1>5, <1>6, <2>1
<1> QED BY <1>2, <1>3, <1>4, <1>7, <1>8, <1>9, <1>10, <1>11, <1>12

(* What the proofs below keep needing of scripts and positions.            *)
LEMMA Grounds ==
    ASSUME Standing
    PROVE /\ program \in DOMAIN X!Programs /\ WellMade(program)
          /\ "main" \in X!Procs /\ Children \subseteq X!Procs \ {"main"} /\ X!Procs = Children \cup {"main"}
          /\ \A r \in X!Procs \ {"main"} : Script(program, r) = Script(program, "child1")
          /\ \A r \in X!Procs :
                /\ at[r] \in Nat \ {0} /\ Len(Script(program, r)) \in Nat
                /\ at[r] <= Len(Script(program, r)) + 1
                /\ DOMAIN Script(program, r) = 1 .. Len(Script(program, r))
                /\ Behind[r] \subseteq DOMAIN Script(program, r)
                /\ Behind[r] = IF life[r] \in {"runs", "exited"} THEN 1 .. at[r] - 1 ELSE {}
                /\ life[r] = "exited" => at[r] = Len(Script(program, r)) + 1
<1>1. program \in DOMAIN X!Programs /\ WellMade(program) /\ Listed(program)
  BY AllMade DEF Standing, WellMade
<1>2. \A r \in X!Procs :
         /\ DOMAIN Script(program, r) = 1 .. Len(Script(program, r))
         /\ at[r] \in 1 .. Len(Script(program, r)) + 1 /\ Len(Script(program, r)) \in Nat
         /\ todo[r] = <<>> => at[r] = Len(Script(program, r)) + 1
         /\ life[r] # "runs" => todo[r] = <<>>
  BY <1>1, Here DEF Standing
<1>3. \A r \in X!Procs : Behind[r] = IF life[r] \in {"runs", "exited"} THEN 1 .. at[r] - 1 ELSE {}
  BY DEF Behind
<1>4. "main" \in X!Procs /\ Children \subseteq X!Procs \ {"main"} /\ X!Procs = Children \cup {"main"}
  BY DEF X!Procs, Children
<1>5. \A r \in X!Procs \ {"main"} : Script(program, r) = Script(program, "child1")
  BY DEF Script
<1> QED BY <1>1, <1>2, <1>3, <1>4, <1>5

(* A call that a step puts behind a process is the one it stood at, or the *)
(* one that it leaves out.                                                 *)
LEMMA Newly ==
    ASSUME Standing, Family, NEW p \in X!Procs, Moved(p),
           NEW r \in X!Procs, NEW j \in Behind'[r], j \notin Behind[r]
    PROVE /\ r = p /\ Reached(p)
          /\ \/ j = at[p] /\ (Passes(p) \/ Does(p) \/ LeavesOut(p))
             \/ LeavesOut(p) /\ j = at[p] + 1 /\ Script(program, r)[j][1] \in Makes
          /\ LeavesOut(p) => X!Op(p) = "perform" /\ "easy_handle_init" \in failed[p]
<1>0. Skips(program)
  BY Grounds DEF WellMade
<1>1. r = p
  BY Grows
<1>2. Reached(p)
  BY <1>1, Grows DEF Moved
<1>3. LeavesOut(p) => X!Op(p) = "perform" /\ "easy_handle_init" \in failed[p]
  BY DEF LeavesOut
<1>4. LeavesOut(p) => Script(program, r)[at[p] + 1][1] \in Makes
  <2>1. LeavesOut(p) => "easy_handle_init" \in X!Programs[program].ignores
    BY Grows
  <2> QED BY <1>0, <1>1, <1>2, <1>3, <2>1 DEF Reached, Skips, Call
<1> QED BY <1>1, <1>2, <1>3, <1>4, Grows DEF Moved

LEMMA KeepsRest ==
    ASSUME Standing, Family, Rest, Buffered, NEW p \in X!Procs, Moved(p)
    PROVE Rest'
<1>0. WellMade(program)
  BY AllMade DEF Standing
<1>1. /\ reaped \subseteq X!Procs
      /\ failed \in [X!Procs -> SUBSET Names]
      /\ attached \in [X!Procs -> SUBSET X!Segments]
      /\ seg \in [X!Segments -> {"none", "there", "removed"}]
      /\ body \in Seq(Nat)
      /\ made \in [there : BOOLEAN, data : Seq(Nat)]
      /\ program = "paster" => kind = "png"
  BY DEF Rest
<1>2. its_buf.data \in Seq(Nat)
  BY DEF Buffered
<1>3. \A r \in X!Procs : attached[r] \cup {"heap"} \in SUBSET X!Segments
  BY <1>1 DEF X!Segments
<1>4. OwnedBy(p) \in [X!Procs -> SUBSET X!Segments]
  BY <1>1, <1>3 DEF OwnedBy
<1>5. X!Fallible \cup {"process_data"} \subseteq Names
  BY DEF X!Fallible, Names, Inits, Makes, OnSems, OnText, OnStack
<1>6. CASE Dies(p)
  BY <1>1, <1>6 DEF Dies, Rest, X!Over, Shared, Said, Fetched
<1>7. CASE Passes(p)
  <2>1. /\ reaped' = reaped /\ seg' = seg /\ body' = body /\ kind' = kind /\ program' = program
        /\ made' = made
    BY <1>7 DEF Passes, Shared
  <2>2. failed' \in [X!Procs -> SUBSET Names]
    BY <1>1, <1>5, <1>7 DEF Passes
  <2>3. attached' \in [X!Procs -> SUBSET X!Segments]
    BY <1>1, <1>4, <1>7 DEF Passes
  <2> QED BY <1>1, <2>1, <2>2, <2>3 DEF Rest
<1>8. CASE LeavesOut(p) \/ Stays(p)
  BY <1>1, <1>8 DEF LeavesOut, Stays, Rest, Shared, Said, Fetched
<1>9. CASE Does(p)
  <2> DEFINE a == X!Arg(p)
             o == X!Op(p)
  <2>0. Reached(p)
    BY <1>9, Grows
  <2>1. /\ o \in {"shmget", "shmat", "shmdt", "rmid"} => a \in X!Segments
        /\ o \in {"fork", "waitpid"} => a \in X!Procs
    BY <1>0, <2>0 DEF WellMade, Typed, Reached, Call, Children, X!Procs
  <2>2. DoesToOthers(p, o, a) /\ DoesToDownload(p, o) /\ failed' = failed
        /\ body' = body /\ kind' = kind /\ program' = program
    BY <1>9 DEF Does, Shared
  <2> HIDE DEF a, o
  <2>3. reaped' \subseteq X!Procs
    BY <1>1, <2>1, <2>2 DEF DoesToOthers
  <2>4. seg' \in [X!Segments -> {"none", "there", "removed"}]
    BY <1>1, <2>1, <2>2 DEF DoesToOthers
  <2>5. attached' \in [X!Procs -> SUBSET X!Segments]
    BY <1>1, <1>3, <1>4, <2>1, <2>2 DEF DoesToOthers
  <2>6. made' \in [there : BOOLEAN, data : Seq(Nat)]
    BY <1>1, <1>2, <2>2 DEF DoesToDownload
  <2> QED BY <1>1, <2>2, <2>3, <2>4, <2>5, <2>6 DEF Rest
<1> QED BY <1>6, <1>7, <1>8, <1>9 DEF Moved

LEMMA KeepsFamily ==
    ASSUME Standing, Family, NEW p \in X!Procs, Moved(p)
    PROVE Family'
<1> DEFINE m == Script(program, "main")
<1>0. /\ Led(program) /\ Typed(program) /\ Skips(program)
      /\ "main" \in X!Procs /\ Children \subseteq X!Procs \ {"main"}
      /\ Behind["main"] \subseteq DOMAIN m /\ at["main"] \in Nat
      /\ \A j \in Behind["main"] : j < at["main"] /\ j \in Nat
  BY Grounds DEF WellMade
<1>1. program' = program /\ Script(program, "main")' = m
  BY <1>0, Grows
<1>2. ASSUME NEW r \in X!Procs PROVE failed'[r] \subseteq X!Programs[program].ignores
  <2>1. failed[r] \subseteq X!Programs[program].ignores
    BY DEF Family
  <2>2. CASE Passes(p)
    BY <2>1, <2>2 DEF Passes, X!Ignored
  <2>3. CASE ~Passes(p)
    BY <2>1, <2>3 DEF Moved, Dies, LeavesOut, Stays, Does
  <2> QED BY <2>2, <2>3
<1>3. ASSUME NEW r \in X!Procs PROVE life[r] # "unborn" => life'[r] # "unborn"
  BY Grows DEF Moved
<1>4. ASSUME NEW r \in Children, life'[r] # "unborn"
      PROVE \E j \in DOMAIN m : m[j][1] = "fork" /\ m[j][2] = r /\ (life'["main"] = "runs" => j < at'["main"])
  <2>1. CASE life[r] # "unborn"
    <3>1. PICK j \in DOMAIN m : m[j][1] = "fork" /\ m[j][2] = r /\ (life["main"] = "runs" => j < at["main"])
      BY <2>1 DEF Family, Named, Call
    <3>2. life'["main"] = "runs" => life["main"] = "runs" /\ at'["main"] >= at["main"]
      <4>1. CASE p = "main"
        BY <1>0, <4>1, Grows DEF Moved, Reached
      <4>2. CASE p # "main"
        BY <1>0, <4>2, Grows DEF Moved
      <4> QED BY <4>1, <4>2
    <3>3. j \in Nat /\ (life'["main"] = "runs" => at'["main"] \in Nat)
      <4>1. j \in Nat
        BY <1>0, <3>1, Grounds
      <4>2. Standing'
        BY Grows
      <4>3. at'["main"] \in 1 .. Len(Script(program, "main")') + 1
        BY <1>0, <4>2 DEF Standing
      <4> QED BY <4>1, <4>3
    <3> QED BY <1>0, <3>1, <3>2, <3>3
  <2>2. CASE life[r] = "unborn"
    <3>1. Does(p) /\ X!Op(p) = "fork" /\ r = X!Arg(p) /\ p = "main"
      <4>1. r # p
        BY <2>2, Grows DEF Moved, Reached
      <4>2. Forks(p, r)
        BY <1>0, <1>4, <2>2, <4>1, Grows
      <4> QED BY <1>0, <4>1, <4>2, Grows DEF Forks
    <3>2. Reached(p) /\ at'[p] = at[p] + 1
      BY <3>1, Grows
    <3> QED BY <1>0, <3>1, <3>2 DEF Reached, Call
  <2> QED BY <2>1, <2>2
<1>5. ASSUME NEW j \in Behind'["main"], j \notin Behind["main"]
      PROVE /\ p = "main" /\ Reached(p)
            /\ \/ j = at[p] /\ (Passes(p) \/ Does(p) \/ LeavesOut(p))
               \/ LeavesOut(p) /\ m[j][1] \in Makes
  BY <1>0, <1>5, Newly
<1>6. ASSUME NEW j \in Behind'["main"], m[j][1] = "fork" PROVE life'[m[j][2]] # "unborn"
  <2>1. CASE j \in Behind["main"]
    <3>1. life[m[j][2]] # "unborn" /\ m[j][2] \in Children
      BY <1>0, <1>6, <2>1 DEF Family, Call, Typed
    <3> QED BY <1>0, <1>3, <3>1
  <2>2. CASE j \notin Behind["main"]
    <3>1. /\ p = "main" /\ Reached(p) /\ j = at[p] /\ X!Op(p) = "fork"
      BY <1>5, <1>6, <2>2 DEF Makes, Reached, Call
    <3>2. ~Passes(p) /\ ~LeavesOut(p)
      BY <1>0, <3>1 DEF Passes, LeavesOut, Led, X!Ignored
    <3>3. Does(p) /\ X!Arg(p) = m[j][2]
      BY <1>5, <2>2, <3>1, <3>2 DEF Makes, Reached, Call
    <3>4. Forks(p, X!Arg(p)) /\ X!Arg(p) \in Children
      BY <1>0, <1>6, <3>1, <3>3 DEF Forks, Typed, Reached
    <3>5. ASSUME NEW r \in Children, Forks(p, r) PROVE life'[r] = "runs"
      BY <1>0, <3>1, <3>5, Grows
    <3>6. life'[X!Arg(p)] = "runs"
      BY <3>4, <3>5
    <3> QED BY <3>3, <3>6
  <2> QED BY <2>1, <2>2
<1>7. ASSUME NEW j \in Behind'["main"], m[j][1] = "waitpid"
      PROVE m[j][2] \in reaped' /\ life'[m[j][2]] \notin {"unborn", "runs"}
  <2>1. reaped \subseteq reaped'
    BY DEF Moved, Dies, Passes, LeavesOut, Stays, Does, DoesToOthers
  <2>2. CASE j \in Behind["main"]
    <3>1. life[m[j][2]] \notin {"unborn", "runs"} /\ m[j][2] \in Children /\ m[j][2] \in reaped
      BY <1>0, <1>7, <2>2 DEF Family, Call, Typed
    <3>2. m[j][2] # p
      BY <3>1, Grows DEF Moved, Reached
    <3>3. ~Forks(p, m[j][2])
      <4>1. SUFFICES ASSUME Forks(p, m[j][2]) PROVE FALSE
        OBVIOUS
      <4>2. p = "main" /\ Reached(p) /\ X!Op(p) = "fork" /\ X!Arg(p) = m[j][2]
        BY <1>0, <3>1, <3>2, <4>1, Grows DEF Forks
      <4>3. at["main"] < j
        BY <1>0, <1>7, <2>2, <4>2 DEF Led, Reached, Call
      <4> QED BY <1>0, <2>2, <4>3
    <3> QED BY <1>0, <2>1, <3>1, <3>2, <3>3, Grows
  <2>3. CASE j \notin Behind["main"]
    <3>1. /\ p = "main" /\ Reached(p) /\ j = at[p] /\ X!Op(p) = "waitpid" /\ X!Arg(p) = m[j][2]
      BY <1>5, <1>7, <2>3 DEF Makes, Reached, Call
    <3>2. Does(p)
      BY <1>5, <2>3, <3>1 DEF Passes, LeavesOut, X!Fallible, Makes
    <3>3. X!Arg(p) \in reaped' /\ life[X!Arg(p)] \notin {"unborn", "runs"} /\ life' = life
      BY <3>1, <3>2 DEF Does, DoesToOthers
    <3> QED BY <3>1, <3>3
  <2> QED BY <2>2, <2>3
<1>8. /\ \A r \in X!Procs : failed'[r] \subseteq X!Programs[program]'.ignores
  BY <1>1, <1>2
<1> HIDE DEF m
<1> QED BY <1>1, <1>4, <1>6, <1>7, <1>8 DEF Family, Named, Call

LEMMA KeepsSegs ==
    ASSUME Standing, Family, Rest, Segs, NEW p \in X!Procs, Moved(p)
    PROVE Segs'
<1> DEFINE m == Script(program, "main")
<1>0. /\ Led(program) /\ Typed(program) /\ Removes(program)
      /\ "main" \in X!Procs /\ \A r \in X!Procs \ {"main"} : Script(program, r) = Script(program, "child1")
      /\ Behind["main"] \subseteq DOMAIN m /\ at["main"] \in Nat
      /\ \A j \in Behind["main"] : j < at["main"] /\ j \in Nat
      /\ seg \in [X!Segments -> {"none", "there", "removed"}]
  <2>1. seg \in [X!Segments -> {"none", "there", "removed"}]
    BY DEF Rest
  <2> QED BY <2>1, Grounds DEF WellMade
<1>1. program' = program /\ Script(program, "main")' = m
  BY <1>0, Grows
<1>2. ASSUME NEW s \in X!Segments, seg'[s] = "there"
      PROVE seg[s] = "there" \/ (p = "main" /\ Reached(p) /\ X!Op(p) = "shmget" /\ X!Arg(p) = s)
  <2>1. CASE Does(p)
    <3>1. Reached(p)
      BY <2>1, Grows
    <3>2. X!Op(p) = "shmget" => p = "main"
      BY <1>0, <3>1 DEF Led, Reached, Call
    <3>3. /\ seg' = IF X!Op(p) = "shmget" THEN [seg EXCEPT ![X!Arg(p)] = "there"]
                    ELSE IF X!Op(p) = "rmid" THEN [seg EXCEPT ![X!Arg(p)] = "removed"] ELSE seg
      BY <2>1 DEF Does, DoesToOthers
    <3> QED BY <1>0, <1>2, <3>1, <3>2, <3>3
  <2>2. CASE ~Does(p)
    BY <1>2, <2>2 DEF Moved, Dies, Passes, LeavesOut, Stays
  <2> QED BY <2>1, <2>2
<1>3. ASSUME NEW s \in X!Segments, seg'[s] = "there"
      PROVE \E j \in DOMAIN m : m[j][1] = "shmget" /\ m[j][2] = s
  <2>1. CASE seg[s] = "there"
    BY <2>1 DEF Segs, Named, Call
  <2>2. CASE seg[s] # "there"
    BY <1>2, <1>3, <2>2 DEF Reached, Call
  <2> QED BY <2>1, <2>2
<1>4. ASSUME NEW j \in Behind'["main"], m[j][1] = "rmid" PROVE seg'[m[j][2]] # "there"
  <2>1. CASE j \in Behind["main"]
    <3>1. seg[m[j][2]] # "there" /\ m[j][2] \in X!Segments
      BY <1>0, <1>4, <2>1 DEF Segs, Call, Typed
    <3>2. SUFFICES ASSUME p = "main", Reached(p), X!Op(p) = "shmget", X!Arg(p) = m[j][2] PROVE FALSE
      BY <1>2, <3>1
    <3>3. at["main"] < j
      BY <1>0, <1>4, <2>1, <3>2 DEF Removes, Reached, Call
    <3> QED BY <1>0, <2>1, <3>3
  <2>2. CASE j \notin Behind["main"]
    <3>1. p = "main" /\ Reached(p) /\ j = at[p] /\ X!Op(p) = "rmid" /\ X!Arg(p) = m[j][2]
      BY <1>0, <1>4, <2>2, Newly DEF Makes, Reached, Call
    <3>2. Does(p)
      BY <1>0, <2>2, <3>1, Newly DEF Passes, LeavesOut, X!Fallible
    <3>3. seg' = [seg EXCEPT ![X!Arg(p)] = "removed"] /\ X!Arg(p) \in X!Segments
      BY <1>0, <1>4, <3>1, <3>2 DEF Does, DoesToOthers, Typed, Reached
    <3> QED BY <1>0, <3>1, <3>3
  <2> QED BY <2>1, <2>2
<1> HIDE DEF m
<1> QED BY <1>1, <1>3, <1>4 DEF Segs, Named, Call

(* While no call fails, a process has attached what its next call uses,    *)
(* and a stack that it pops is ready.                                      *)
LEMMA Attached ==
    ASSUME Standing, Family, Held, NoFault, NEW p \in X!Procs, Reached(p)
    PROVE /\ \A s \in X!Segments : s \in Uses(program, Call(p, at[p])) => s \in attached[p]
          /\ X!Op(p) = "pop_all" => stack[X!Arg(p)].ready
<1> DEFINE k == at[p]
<1>0. /\ Provided(program) /\ Readied(program) /\ Typed(program)
      /\ "main" \in X!Procs /\ Children \subseteq X!Procs \ {"main"}
      /\ \A r \in X!Procs \ {"main"} : Script(program, r) = Script(program, "child1")
      /\ "child1" \in X!Procs \ {"main"}
  BY Grounds DEF WellMade, X!Procs
<1>1. /\ k \in DOMAIN Script(program, p) /\ Behind[p] = 1 .. k - 1
      /\ \A j \in Behind[p] : j \in DOMAIN Script(program, p)
  BY Grounds DEF Reached
<1>2. ASSUME NEW s \in X!Segments, s \in Uses(program, Call(p, k)) PROVE s \in attached[p]
  <2>1. /\ s \in Inherits(program, p) \/ \E j \in Behind[p] : s \in Gives(program, Call(p, j))
        /\ \A j \in Behind[p] : s \notin Takes(Call(p, j))
    BY <1>0, <1>1, <1>2 DEF Provided, Call
  <2> QED BY <2>1 DEF Held, Reached
<1>3. ASSUME X!Op(p) = "pop_all" PROVE stack[X!Arg(p)].ready
  <2>1. p = "main" /\ Script(program, p)[k][1] = "pop_all" /\ Script(program, p)[k][2] = X!Arg(p)
    BY <1>0, <1>1, <1>3 DEF Reached, Call, Readied
  <2>2. PICK j \in 1 .. k - 1 :
              \/ Script(program, p)[j][1] = "create_stack" /\ Script(program, p)[k][2] = "heap"
              \/ /\ Script(program, p)[j][1] = "waitpid"
                 /\ \E i \in DOMAIN Script(program, "child1") :
                       Script(program, "child1")[i] = <<"init_shm_stack", Script(program, p)[k][2]>>
    BY <1>0, <1>1, <2>1 DEF Readied
  <2>3. CASE Script(program, p)[j][1] = "create_stack" /\ Script(program, p)[k][2] = "heap"
    BY <1>1, <2>1, <2>2, <2>3 DEF Held, Call
  <2>4. CASE /\ Script(program, p)[j][1] = "waitpid"
             /\ \E i \in DOMAIN Script(program, "child1") :
                   Script(program, "child1")[i] = <<"init_shm_stack", Script(program, p)[k][2]>>
    <3>1. PICK i \in DOMAIN Script(program, "child1") :
              Script(program, "child1")[i] = <<"init_shm_stack", X!Arg(p)>>
      BY <2>1, <2>4
    <3> DEFINE r == Script(program, p)[j][2]
    <3>2. r \in Children /\ life[r] \notin {"unborn", "runs"}
      BY <1>0, <1>1, <2>1, <2>2, <2>4 DEF Family, Call, Typed
    <3>3. r \in X!Procs \ {"main"}
      BY <1>0, <3>2
    <3> HIDE DEF r
    <3>4. life[r] = "exited"
      <4>1. life[r] # "failed" /\ life[r] # "astray"
        BY <3>3 DEF NoFault, Held
      <4>2. life[r] \in Ways
        BY <3>3 DEF Standing
      <4> QED BY <3>2, <4>1, <4>2 DEF Ways
    <3>5. i \in Behind[r]
      <4>1. /\ at[r] = Len(Script(program, r)) + 1 /\ Behind[r] = 1 .. at[r] - 1
            /\ DOMAIN Script(program, r) = 1 .. Len(Script(program, r)) /\ Len(Script(program, r)) \in Nat
        BY <3>3, <3>4, Grounds
      <4>2. i \in DOMAIN Script(program, r)
        BY <1>0, <3>1, <3>3
      <4> QED BY <4>1, <4>2
    <3>6. Call(r, i)[1] = "init_shm_stack" /\ Call(r, i)[2] = X!Arg(p)
      <4>1. Call(r, i) = <<"init_shm_stack", X!Arg(p)>>
        BY <1>0, <3>1, <3>3 DEF Call
      <4> QED BY <4>1
    <3> QED BY <3>3, <3>5, <3>6 DEF Held
  <2> QED BY <2>2, <2>3, <2>4
<1> QED BY <1>2, <1>3

LEMMA NotWild ==
    ASSUME Standing, Family, Rest, Held, NoFault, NEW p \in X!Procs, Reached(p)
    PROVE ~X!Wild(p)
<1> DEFINE e == Call(p, at[p])
<1>1. e[1] = X!Op(p) /\ e[2] = X!Arg(p)
  BY DEF Reached
<1>2. failed[p] = {}
  BY DEF NoFault
<1>3. X!Touched(p) \subseteq Uses(program, e) /\ X!Touched(p) \subseteq X!Segments
  <2>1. e[1] \in OnText \cup OnStack => e[2] \in X!Segments
    BY Grounds DEF WellMade, Typed, Reached, Call
  <2>2. X!Space = SpaceOf(program) /\ SpaceOf(program) \in X!Segments
    BY Grounds DEF WellMade, Placed, X!Space, SpaceOf, X!Segments
  <2> HIDE DEF e
  <2> QED BY <1>1, <1>2, <2>1, <2>2 DEF X!Touched, Uses, OnSems, OnText, OnStack, Makes, Inits, X!Segments
<1> QED BY <1>1, <1>3, Attached DEF X!Wild

(* A failure stays: nobody forgets one, and no child is born again.        *)
LEMMA Blames ==
    ASSUME Standing, Family, Rest, NEW p \in X!Procs, Moved(p)
    PROVE /\ \A r \in X!Procs : failed[r] \subseteq failed'[r]
          /\ \A r \in X!Procs : life[r] \in {"exited", "failed", "astray"} => life'[r] = life[r]
          /\ \A r \in X!Procs : life[r] # "unborn" => ~Forks(p, r)
          /\ NoFault' => NoFault /\ ~Passes(p) /\ ~LeavesOut(p)
<1>0. /\ Led(program) /\ failed \in [X!Procs -> SUBSET Names] /\ Children \subseteq X!Procs \ {"main"}
  BY Grounds DEF WellMade, Rest
<1>1. \A r \in X!Procs : failed[r] \subseteq failed'[r]
  BY <1>0 DEF Moved, Dies, Passes, LeavesOut, Stays, Does
<1>2. ASSUME NEW r \in X!Procs, life[r] # "unborn" PROVE ~Forks(p, r)
  <2>1. SUFFICES ASSUME Forks(p, r) PROVE FALSE
    OBVIOUS
  <2>2. Reached(p) /\ Does(p)
    BY <2>1, Grows DEF Forks
  <2>3. p = "main" /\ r \in Children
    <3>1. Call(p, at[p])[1] = "fork" /\ Call(p, at[p])[2] = r /\ at[p] \in DOMAIN Script(program, p)
      BY <2>1, <2>2 DEF Forks, Reached
    <3> QED BY <3>1, Grounds DEF WellMade, Typed, Call
  <2>4. PICK j \in DOMAIN Script(program, "main") :
           Named("main", j, "fork", r) /\ (life["main"] = "runs" => j < at["main"])
    BY <1>2, <2>3 DEF Family
  <2>5. j = at["main"]
    BY <1>0, <2>1, <2>2, <2>3, <2>4 DEF Led, Named, Reached, Call, Forks
  <2>6. at["main"] \in Nat
    BY <2>3, Grounds
  <2> QED BY <2>2, <2>3, <2>4, <2>5, <2>6 DEF Reached
<1>3. ASSUME NEW r \in X!Procs, life[r] \in {"exited", "failed", "astray"} PROVE life'[r] = life[r]
  <2>1. r # p
    BY <1>3, Grows DEF Moved, Reached
  <2>2. ~Forks(p, r)
    BY <1>2, <1>3
  <2> QED BY <2>1, <2>2, Grows
<1>4. ASSUME NoFault' PROVE NoFault
  BY <1>1, <1>3, <1>4 DEF NoFault
<1>5. ASSUME NoFault' PROVE ~Passes(p)
  <2>1. failed'[p] = {}
    BY <1>5 DEF NoFault
  <2> QED BY <1>0, <2>1 DEF Passes
<1>6. ASSUME NoFault' PROVE ~LeavesOut(p)
  <2>1. failed[p] = {}
    BY <1>4, <1>6 DEF NoFault
  <2> QED BY <2>1 DEF LeavesOut
<1> QED BY <1>1, <1>2, <1>3, <1>4, <1>5, <1>6

LEMMA KeepsHeld ==
    ASSUME Standing, Family, Rest, Held, Stacks, NEW p \in X!Procs, Moved(p)
    PROVE Held'
<1> SUFFICES ASSUME NoFault' PROVE Held'
  BY DEF Held
<1>0. /\ Typed(program) /\ Provided(program)
      /\ "main" \in X!Procs /\ Children \subseteq X!Procs \ {"main"}
      /\ attached \in [X!Procs -> SUBSET X!Segments]
  <2>1. attached \in [X!Procs -> SUBSET X!Segments]
    BY DEF Rest
  <2> QED BY <2>1, Grounds DEF WellMade
<1>1. NoFault /\ ~Passes(p) /\ ~LeavesOut(p) /\ \A r \in X!Procs : life'[r] # "failed"
  BY Blames DEF NoFault
<1>2. program' = program /\ \A r \in X!Procs : Script(program, r)' = Script(program, r)
  BY Grows
<1>3. \A r \in X!Procs : life'[r] # "astray"
  <2>1. \A r \in X!Procs : life[r] # "astray"
    BY <1>1 DEF Held
  <2>2. ASSUME life'[p] = "astray" PROVE FALSE
    <3>1. Dies(p)
      BY <2>2, Grows DEF Moved
    <3>2. life[p] = "runs" /\ todo[p] # <<>> /\ X!Wild(p)
      <4>1. PICK how \in {"exited", "failed", "astray"} :
               /\ life[p] = "runs" /\ life' = [life EXCEPT ![p] = how]
               /\ how = "astray" => todo[p] # <<>> /\ X!Wild(p)
        BY <3>1 DEF Dies, X!Over
      <4>2. life \in [X!Procs -> Ways]
        BY DEF Standing
      <4> QED BY <2>2, <4>1, <4>2
    <3>3. Reached(p)
      <4>1. Listed(program)
        BY Grounds DEF WellMade
      <4> QED BY <3>2, <4>1, Here DEF Reached
    <3> QED BY <1>1, <3>2, <3>3, NotWild
  <2>3. ASSUME NEW r \in X!Procs \ {p} PROVE life'[r] # "astray"
    <3>1. Forks(p, r) => life'[r] = "runs"
      BY Grows
    <3>2. ~Forks(p, r) => life'[r] = life[r]
      BY Grows
    <3> QED BY <2>1, <3>1, <3>2
  <2> QED BY <2>2, <2>3
<1>4. ASSUME NEW r \in X!Procs, life'[r] = "runs", NEW s \in X!Segments,
             s \in Inherits(program, r) \/ \E j \in Behind'[r] : s \in Gives(program, Script(program, r)[j]),
             \A j \in Behind'[r] : s \notin Takes(Script(program, r)[j])
      PROVE s \in attached'[r]
  <2>1. ASSUME life[r] = "runs",
               s \in Inherits(program, r) \/ \E j \in Behind[r] : s \in Gives(program, Script(program, r)[j]),
               \A j \in Behind[r] : s \notin Takes(Script(program, r)[j])
        PROVE s \in attached[r]
    BY <1>1, <2>1 DEF Held, Call
  <2>2. CASE r # p /\ ~Forks(p, r)
    <3>1. life[r] = "runs" /\ Behind'[r] = Behind[r]
      BY <1>4, <2>2, Grows
    <3>2. attached'[r] = attached[r]
      BY <1>0, <1>1, <2>2 DEF Moved, Dies, X!Over, Stays, Does, DoesToOthers, OwnedBy, Forks
    <3> QED BY <1>4, <2>1, <3>1, <3>2
  <2>3. CASE r # p /\ Forks(p, r)
    <3>1. Behind'[r] = {} /\ p = "main"
      BY <2>3, Grows
    <3>2. s \in Inherits(program, r)
      BY <1>4, <3>1
    <3>3. Reached(p) /\ Call(p, at[p])[1] = "fork" /\ Call(p, at[p])[2] = r
      BY <2>3, Grows DEF Forks, Reached
    <3>4. s \in Uses(program, Call(p, at[p]))
      BY <3>2, <3>3 DEF Uses, OnSems, OnText, OnStack, Makes, Inits
    <3>5. s \in attached[p]
      BY <1>1, <3>3, <3>4, Attached
    <3>6. attached'[r] = attached[p]
      BY <1>0, <2>3 DEF Forks, Does, DoesToOthers
    <3> QED BY <3>5, <3>6
  <2>4. CASE r = p /\ Stays(p)
    <3>1. life[r] = "runs" /\ Behind'[r] = Behind[r]
      BY <2>4, Grows DEF Reached
    <3>2. attached'[r] = attached[r]
      BY <2>4 DEF Stays
    <3> QED BY <1>4, <2>1, <3>1, <3>2
  <2>5. CASE r = p /\ Does(p)
    <3> DEFINE e == Script(program, p)[at[p]]
    <3>1. /\ Reached(p) /\ life[p] = "runs" /\ Behind'[p] = Behind[p] \cup {at[p]}
          /\ e[1] = X!Op(p) /\ e[2] = X!Arg(p)
      BY <2>5, Grows DEF Reached, Call
    <3>2. DoesToOthers(p, e[1], e[2]) /\ (e[1] = "fork" => e[2] # p)
      <4>1. DoesToOthers(p, e[1], e[2])
        BY <2>5, <3>1 DEF Does
      <4>2. e[1] = "fork" => e[2] \in Children /\ p = "main"
        BY <1>0, <3>1 DEF Typed, Reached
      <4> QED BY <1>0, <4>1, <4>2
    <3>3. s \notin Takes(e)
      BY <1>4, <2>5, <3>1
    <3>4. s \in attached[p] \/ s \in Gives(program, e)
      BY <1>4, <2>1, <2>5, <3>1
    <3>5. X!Space = SpaceOf(program)
      BY DEF X!Space, SpaceOf
    <3> HIDE DEF e
    <3> QED BY <1>0, <2>5, <3>2, <3>3, <3>4, <3>5 DEF DoesToOthers, Takes, Gives, OwnedBy, Inits
  <2>6. CASE r = p /\ Dies(p)
    BY <1>4, <2>6, Grows
  <2> QED BY <1>1, <2>2, <2>3, <2>4, <2>5, <2>6 DEF Moved
<1>5. ASSUME NEW s \in X!Segments, stack[s].ready PROVE stack'[s].ready
  <2>1. stack \in [X!Segments -> [ready : BOOLEAN, items : Seq(Int)]]
    BY DEF Stacks
  <2>2. CASE Dies(p)
    BY <1>5, <2>2 DEF Dies, Said
  <2>3. CASE Stays(p)
    BY <1>5, <2>1, <2>3 DEF Stays, X!Header, X!Piece, X!memory
  <2>4. CASE Does(p)
    BY <1>5, <2>1, <2>4 DEF Does, DoesToMemory, X!Empty
  <2> QED BY <1>1, <2>2, <2>3, <2>4 DEF Moved
<1>6. ASSUME NEW r \in X!Procs, NEW j \in Behind'[r]
      PROVE LET e == Script(program, r)[j]
            IN  /\ e[1] = "create_stack" => stack'["heap"].ready
                /\ e[1] = "init_shm_stack" => stack'[e[2]].ready
  <2> DEFINE e == Script(program, r)[j]
  <2>0. "heap" \in X!Segments
    BY DEF X!Segments
  <2>1. CASE j \in Behind[r]
    <3>1. /\ e[1] = "create_stack" => stack["heap"].ready
          /\ e[1] = "init_shm_stack" => stack[e[2]].ready /\ e[2] \in X!Segments
      <4>1. j \in DOMAIN Script(program, r)
        BY <2>1, Grounds
      <4> QED BY <1>0, <1>1, <2>1, <4>1 DEF Held, Call, Typed, OnStack
    <3> HIDE DEF e
    <3> QED BY <1>5, <2>0, <3>1 DEF e
  <2>2. CASE j \notin Behind[r]
    <3>1. /\ r = p /\ Reached(p) /\ Does(p) /\ j = at[p]
      BY <1>1, <2>2, Newly
    <3>2. e[1] = X!Op(p) /\ e[2] = X!Arg(p) /\ (e[1] = "init_shm_stack" => e[2] \in X!Segments)
      BY <1>0, <3>1 DEF Reached, Call, Typed, OnStack
    <3>3. /\ e[1] = "create_stack" => stack' = [stack EXCEPT !["heap"] = X!Empty]
          /\ e[1] = "init_shm_stack" => stack' = [stack EXCEPT ![e[2]] = X!Empty]
      BY <3>1, <3>2 DEF Does, DoesToMemory
    <3>4. stack \in [X!Segments -> [ready : BOOLEAN, items : Seq(Int)]]
      BY DEF Stacks
    <3> HIDE DEF e
    <3> QED BY <2>0, <3>2, <3>3, <3>4 DEF X!Empty, e
  <2> QED BY <2>1, <2>2
<1>7. Held' <=>
        (NoFault' =>
        /\ \A r \in X!Procs : life'[r] # "astray"
        /\ \A r \in X!Procs : life'[r] = "runs" => \A s \in X!Segments :
              /\ s \in Inherits(program, r) \/ \E j \in Behind'[r] : s \in Gives(program, Script(program, r)[j])
              /\ \A j \in Behind'[r] : s \notin Takes(Script(program, r)[j])
              => s \in attached'[r]
        /\ \A r \in X!Procs : \A j \in Behind'[r] :
              /\ Script(program, r)[j][1] = "create_stack" => stack'["heap"].ready
              /\ Script(program, r)[j][1] = "init_shm_stack" => stack'[Script(program, r)[j][2]].ready)
  BY <1>2 DEF Held, Call
<1> QED BY <1>3, <1>4, <1>6, <1>7

(* What the write callback does to a buffer that has room for what it      *)
(* holds and a 0 behind it.                                                *)
RecvBufs == [data : Seq(Nat), max_size : Nat, room : Nat, seq : Int]
Roomy(b) == b.data # <<>> => Len(b.data) + 1 <= b.max_size

LEMMA Receives ==
    ASSUME NEW b \in RecvBufs, Roomy(b), NEW piece \in Seq(Nat)
    PROVE LET w == X!write_cb_curl3(b, piece)
          IN  /\ w \in RecvBufs /\ Roomy(w) /\ w.data = b.data \o piece
              /\ X!Fits(b, piece) => w.max_size = b.max_size /\ w.room = b.room
              /\ b.max_size <= b.room => w.max_size <= w.room
<1> DEFINE w == X!write_cb_curl3(b, piece)
           d == b.data \o piece
<1>1. /\ b.data \in Seq(Nat) /\ b.max_size \in Nat /\ b.room \in Nat /\ b.seq \in Int
      /\ Len(b.data) \in Nat /\ Len(piece) \in Nat /\ BUF_INC \in Nat
      /\ d \in Seq(Nat) /\ Len(d) = Len(b.data) + Len(piece)
  <2>1. Len(b.data) \in Nat /\ Len(piece) \in Nat /\ b.data \in Seq(Nat)
    BY LenProperties DEF RecvBufs
  <2>2. d \in Seq(Nat) /\ Len(d) = Len(b.data) + Len(piece)
    BY <2>1, ConcatProperties
  <2> QED BY <2>1, <2>2, SizeAssumption DEF RecvBufs
<1>2. b.data # <<>> => Len(b.data) + 1 <= b.max_size
  BY DEF Roomy
<1>3. d # <<>> => b.data # <<>> \/ Len(b.data) = 0
  BY <1>1, EmptySeq
<1> HIDE DEF d
<1>4. CASE X!Fits(b, piece)
  <2>1. w = [b EXCEPT !.data = d]
    BY <1>4 DEF X!write_cb_curl3, X!Stored, d
  <2>2. Len(b.data) + Len(piece) + 1 <= b.max_size
    BY <1>4 DEF X!Fits
  <2>3. w.data = d /\ w.max_size = b.max_size /\ w.room = b.room /\ w \in RecvBufs
    BY <1>1, <2>1 DEF RecvBufs
  <2>4. Len(d) + 1 <= b.max_size
    BY <1>1, <2>2
  <2> HIDE DEF w
  <2> QED BY <1>4, <2>3, <2>4 DEF Roomy, d, w
<1>5. CASE ~X!Fits(b, piece)
  <2> DEFINE more == IF BUF_INC >= Len(piece) + 1 THEN BUF_INC ELSE Len(piece) + 1
  <2>1. w = [b EXCEPT !.max_size = @ + more, !.room = b.max_size + more, !.data = d]
    BY <1>1, <1>5 DEF X!write_cb_curl3, X!Stored, X!Grown, d, RecvBufs
  <2>2. more \in Nat /\ Len(piece) + 1 <= more
    BY <1>1
  <2> HIDE DEF more
  <2> DEFINE size == b.max_size + more
  <2>a. size \in Nat
    BY <1>1, <2>2
  <2>b. Len(d) + 1 <= size
    <3>1. Len(b.data) = 0 \/ Len(b.data) + 1 <= b.max_size
      BY <1>2, EmptySeq
    <3>2. /\ Len(b.data) \in Nat /\ Len(piece) \in Nat /\ Len(d) = Len(b.data) + Len(piece)
          /\ b.max_size \in Nat
      BY <1>1
    <3> QED BY ONLY <2>2, <3>1, <3>2
  <2> HIDE DEF size
  <2>3. w.data = d /\ w.max_size = size /\ w.room = size /\ w \in RecvBufs
    <3>1. w = [b EXCEPT !.max_size = size, !.room = size, !.data = d]
      BY <2>1 DEF size, RecvBufs
    <3> QED BY ONLY <1>1, <2>a, <3>1, b \in RecvBufs DEF RecvBufs
  <2>4. d # <<>> => Len(d) + 1 <= size
    BY <2>b
  <2>5. w.max_size <= w.room
    BY <2>a, <2>3
  <2> HIDE DEF w
  <2> QED BY <1>5, <2>3, <2>4, <2>5 DEF Roomy, d, w
<1> QED BY <1>4, <1>5

(* A program that has a buffer to give back has no child, and nothing left *)
(* to do after that.                                                       *)
LEMMA KeepsBuffered ==
    ASSUME Standing, Family, Rest, Buffered, NEW p \in X!Procs, Moved(p)
    PROVE Buffered'
<1> DEFINE m == Script(program, "main")
           Early(k) == k >= at["main"] /\ m[k][1] \in Inits
<1>0. /\ Typed(program) /\ Led(program) /\ Begins(program) /\ Closes(program) /\ Placed(program)
      /\ "main" \in X!Procs /\ Children \subseteq X!Procs \ {"main"} /\ X!Procs = Children \cup {"main"}
      /\ \A r \in X!Procs \ {"main"} : Script(program, r) = Script(program, "child1")
      /\ body \in Seq(Nat) /\ Len(body) \in Nat
  <2>1. body \in Seq(Nat)
    BY DEF Rest
  <2> QED BY <2>1, LenProperties, Grounds DEF WellMade
<1>1. /\ program' = program /\ body' = body /\ Script(program, "main")' = m /\ DOMAIN m \subseteq Nat
      /\ Standing'
  <2>1. body' = body
    BY DEF Moved, Dies, Passes, LeavesOut, Stays, Does, Shared
  <2>2. DOMAIN m = 1 .. Len(m) /\ Len(m) \in Nat
    BY <1>0, Grounds
  <2> QED BY <1>0, <2>1, <2>2, Grows
<1>2. /\ its_buf \in RecvBufs /\ Roomy(its_buf) /\ came \in 0 .. Len(body)
      /\ its_buf.data = SubSeq(body, 1, came)
          \/ (its_buf.data = <<>> /\ \A r \in X!Procs : todo[r] = <<>>)
      /\ IF program = "paster2" THEN its_buf.max_size = 0 \/ its_buf.room = Slot
         ELSE its_buf.max_size <= its_buf.room
      /\ life["main"] = "runs" => \A k \in DOMAIN m : Early(k) => came = 0 /\ \A r \in Children : life[r] = "unborn"
  BY DEF Buffered, RecvBufs, Roomy, Call
<1>3. SUFFICES
      /\ its_buf' \in RecvBufs /\ Roomy(its_buf') /\ came' \in 0 .. Len(body)
      /\ its_buf'.data = SubSeq(body, 1, came')
          \/ (its_buf'.data = <<>> /\ \A r \in X!Procs : todo'[r] = <<>>)
      /\ IF program = "paster2" THEN its_buf'.max_size = 0 \/ its_buf'.room = Slot
         ELSE its_buf'.max_size <= its_buf'.room
      /\ life'["main"] = "runs" => \A k \in DOMAIN m : k >= at'["main"] /\ m[k][1] \in Inits =>
            came' = 0 /\ \A r \in Children : life'[r] = "unborn"
  <2> HIDE DEF m
  <2> QED BY <1>1 DEF Buffered, RecvBufs, Roomy, Call, m
<1>4. life'["main"] = "runs" => life["main"] = "runs" /\ at'["main"] >= at["main"]
  <2>1. at["main"] \in Nat
    BY <1>0, Grounds
  <2>2. CASE p = "main"
    BY <1>0, <2>1, <2>2, Grows DEF Moved, Reached
  <2>3. CASE p # "main"
    BY <1>0, <2>1, <2>3, Grows DEF Moved
  <2> QED BY <2>2, <2>3
<1>5. at["main"] \in Nat /\ (life'["main"] = "runs" => at'["main"] \in Nat)
  <2>1. Standing'
    BY <1>1
  <2>2. at["main"] \in Nat
    BY <1>0, Grounds
  <2>3. at'["main"] \in 1 .. Len(m) + 1
    BY <1>0, <1>1, <2>1 DEF Standing
  <2> QED BY <2>2, <2>3
(* Early calls stay early, and a child is born after them.                 *)
<1>6. ASSUME life'["main"] = "runs", NEW k \in DOMAIN m, k >= at'["main"], m[k][1] \in Inits
      PROVE /\ life["main"] = "runs" /\ k >= at["main"] /\ came = 0
            /\ \A r \in Children : life[r] = "unborn" /\ life'[r] = "unborn"
  <2>1. life["main"] = "runs" /\ k >= at["main"] /\ k \in Nat
    BY <1>1, <1>4, <1>5, <1>6
  <2>2. came = 0 /\ \A r \in Children : life[r] = "unborn"
    BY <1>2, <1>6, <2>1
  <2>3. ASSUME NEW r \in Children PROVE life'[r] = "unborn"
    <3>1. r # p /\ r \in X!Procs
      BY <1>0, <2>2, Grows DEF Moved, Reached
    <3>2. ~Forks(p, r)
      <4>1. SUFFICES ASSUME Forks(p, r) PROVE FALSE
        OBVIOUS
      <4>2. p = "main" /\ Reached(p) /\ m[at[p]][1] = "fork"
        BY <3>1, <4>1, Grows DEF Forks, Reached, Call
      <4> QED BY <1>0, <1>5, <1>6, <2>1, <4>2 DEF Begins, Reached
    <3> QED BY <2>2, <3>1, <3>2, Grows
  <2> QED BY <2>1, <2>2, <2>3
<1>7. ASSUME its_buf' = its_buf, came' = came,
             (\A r \in X!Procs : todo[r] = <<>>) => (\A r \in X!Procs : todo'[r] = <<>>)
      PROVE /\ its_buf'.data = SubSeq(body, 1, came')
                \/ (its_buf'.data = <<>> /\ \A r \in X!Procs : todo'[r] = <<>>)
            /\ its_buf' \in RecvBufs /\ Roomy(its_buf') /\ came' \in 0 .. Len(body)
            /\ IF program = "paster2" THEN its_buf'.max_size = 0 \/ its_buf'.room = Slot
               ELSE its_buf'.max_size <= its_buf'.room
            /\ life'["main"] = "runs" => \A k \in DOMAIN m : k >= at'["main"] /\ m[k][1] \in Inits =>
                  came' = 0 /\ \A r \in Children : life'[r] = "unborn"
  BY <1>2, <1>6, <1>7
<1>8. CASE Dies(p)
  <2>1. its_buf' = its_buf /\ came' = came
    BY <1>8 DEF Dies, Fetched
  <2>2. \A r \in X!Procs : todo[r] = <<>> => todo'[r] = <<>>
    BY <1>8 DEF Dies, X!Over, Standing
  <2> QED BY <1>3, <1>7, <2>1, <2>2
<1>9. CASE LeavesOut(p)
  BY <1>3, <1>7, <1>9 DEF LeavesOut, Fetched
<1>10. ASSUME todo[p] # <<>>
       PROVE its_buf.data = SubSeq(body, 1, came)
  BY <1>2, <1>10
(* A fresh buffer.                                                         *)
<1>11. ASSUME Reached(p), X!Op(p) \in Inits, its_buf' = Fresh, came' = came
       PROVE /\ its_buf' \in RecvBufs /\ Roomy(its_buf') /\ came' \in 0 .. Len(body)
             /\ its_buf'.data = SubSeq(body, 1, came')
             /\ IF program = "paster2" THEN its_buf'.max_size = 0 \/ its_buf'.room = Slot
                ELSE its_buf'.max_size <= its_buf'.room
  <2>1. p = "main" /\ m[at[p]][1] \in Inits /\ life["main"] = "runs" /\ at[p] \in DOMAIN m
    BY <1>0, <1>11 DEF Led, Reached, Call
  <2>2. came = 0
    BY <1>2, <1>5, <2>1
  <2>3. SubSeq(body, 1, 0) = <<>>
    BY SubSeqEmpty
  <2>4. Fresh = [data |-> <<>>, max_size |-> BUF_SIZE, room |-> X!Room, seq |-> -1]
    BY DEF Fresh, X!recv_buf_init
  <2>5. X!Room = (IF program = "paster2" THEN Slot ELSE BUF_SIZE) /\ BUF_SIZE \in Nat /\ Slot \in Nat
    BY SizeAssumption, ExampleAssumption DEF X!Room
  <2>6. its_buf'.data = <<>> /\ its_buf'.max_size = BUF_SIZE /\ its_buf'.room = X!Room /\ its_buf' \in RecvBufs
    BY <1>11, <2>4, <2>5 DEF RecvBufs
  <2>7. Roomy(its_buf')
    BY <2>6 DEF Roomy
  <2> QED BY <1>0, <1>11, <2>2, <2>3, <2>5, <2>6, <2>7
<1>12. CASE Passes(p)
  <2>1. Reached(p) /\ todo[p] # <<>> /\ came' = came
    BY <1>12, Grows DEF Passes
  <2>2. CASE its_buf' = its_buf
    BY <1>3, <1>7, <1>10, <2>1, <2>2
  <2>3. CASE its_buf' = Fresh /\ X!Op(p) = "easy_handle_init"
    <3>1. X!Op(p) \in Inits
      BY <2>3 DEF Inits
    <3> QED BY <1>3, <1>6, <1>11, <2>1, <2>3, <3>1
  <2> QED BY <1>12, <2>2, <2>3 DEF Passes
<1>13. CASE Stays(p)
  <2>1. Reached(p) /\ todo[p] # <<>> /\ todo' = todo
    BY <1>13, Grows DEF Stays
  <2>2. CASE its_buf' = its_buf /\ came' = came
    BY <1>3, <1>7, <2>1, <2>2
  <2>3. CASE X!Header(p)
    <3>1. its_buf' = [its_buf EXCEPT !.seq = 0] /\ came' = came
      BY <2>3 DEF X!Header, X!header_cb_curl
    <3>2. /\ its_buf' \in RecvBufs /\ its_buf'.data = its_buf.data /\ its_buf'.max_size = its_buf.max_size
          /\ its_buf'.room = its_buf.room
      BY <1>2, <3>1 DEF RecvBufs
    <3>3. Roomy(its_buf')
      BY <1>2, <3>2 DEF Roomy
    <3> QED BY <1>2, <1>3, <1>6, <1>10, <2>1, <3>1, <3>2, <3>3
  <2>4. CASE \E k \in 1 .. Len(body) : X!Piece(p, k) /\ X!Op(p) = "perform"
    <3>1. PICK i \in 1 .. Len(body) : X!Piece(p, i) /\ X!Op(p) = "perform"
      BY <2>4
    <3> DEFINE piece == SubSeq(body, came + 1, came + i)
    <3>2. /\ came + i <= Len(body) /\ came' = came + i /\ its_buf' = X!write_cb_curl3(its_buf, piece)
          /\ X!Programs[program].cb.full = "grow" \/ X!Fits(its_buf, piece)
      BY <3>1 DEF X!Piece
    <3>3. came' \in 0 .. Len(body) /\ piece \in Seq(Nat)
      <4>1. \A j \in came + 1 .. came + i : j \in 1 .. Len(body)
        BY <1>0, <1>2, <3>2
      <4>2. \A j \in came + 1 .. came + i : body[j] \in Nat
        BY <1>0, <4>1, ElementOfSeq
      <4> QED BY <1>0, <1>2, <3>2, <4>2, SubSeqProperties
    <3>4. its_buf.data = SubSeq(body, 1, came)
      BY <1>10, <2>1
    <3>5. SubSeq(body, 1, came) \o piece = SubSeq(body, 1, came')
      <4>1. came \in 1 - 1 .. Len(body) /\ came + i \in came .. Len(body) /\ 1 \in 1 .. Len(body) + 1
        BY <1>0, <1>2, <3>2
      <4> QED BY <1>0, <3>2, <4>1, ConcatAdjacentSubSeq
    <3> HIDE DEF piece
    <3>6. /\ its_buf' \in RecvBufs /\ Roomy(its_buf') /\ its_buf'.data = its_buf.data \o piece
          /\ X!Fits(its_buf, piece) => its_buf'.max_size = its_buf.max_size /\ its_buf'.room = its_buf.room
          /\ its_buf.max_size <= its_buf.room => its_buf'.max_size <= its_buf'.room
      BY <1>2, <3>2, <3>3, Receives
    <3>7. program = "paster2" => X!Fits(its_buf, piece)
      BY <1>0, <3>2 DEF Placed
    (* No call is early any more.                                          *)
    <3>8. ~(life'["main"] = "runs" /\ \E k \in DOMAIN m : k >= at'["main"] /\ m[k][1] \in Inits)
      <4>1. SUFFICES ASSUME life'["main"] = "runs", NEW k \in DOMAIN m, k >= at'["main"], m[k][1] \in Inits
                     PROVE FALSE
        OBVIOUS
      <4>2. life["main"] = "runs" /\ k >= at["main"] /\ \A r \in Children : life[r] = "unborn"
        BY <1>6, <4>1
      <4>3. p = "main" /\ m[at[p]][1] = "perform" /\ at[p] \in DOMAIN m
        BY <1>0, <2>1, <3>1, <4>2 DEF Reached, Call
      <4> QED BY <1>0, <1>1, <1>5, <4>1, <4>2, <4>3 DEF Begins
    <3> QED BY <1>2, <1>3, <3>3, <3>4, <3>5, <3>6, <3>7, <3>8
  <2> QED BY <1>13, <2>2, <2>3, <2>4 DEF Stays
<1>14. CASE Does(p)
  <2>1. Reached(p) /\ todo[p] # <<>> /\ came' = came
    BY <1>14, Grows DEF Does, DoesToDownload
  <2>2. its_buf' = IF X!Op(p) \in Inits THEN Fresh
                   ELSE IF X!Op(p) = "cleanup"
                        THEN [its_buf EXCEPT !.data = <<>>, !.max_size = 0, !.room = 0] ELSE its_buf
    BY <1>14 DEF Does, DoesToDownload
  <2>3. CASE X!Op(p) \in Inits
    BY <1>3, <1>6, <1>11, <2>1, <2>2, <2>3
  <2>4. CASE X!Op(p) = "cleanup"
    <3>1. its_buf' = [its_buf EXCEPT !.data = <<>>, !.max_size = 0, !.room = 0]
      BY <2>2, <2>4 DEF Inits
    <3>2. its_buf'.data = <<>> /\ its_buf'.max_size = 0 /\ its_buf'.room = 0 /\ its_buf' \in RecvBufs
      BY <1>2, <3>1, EmptySeq DEF RecvBufs
    <3>3. Roomy(its_buf')
      BY <3>2 DEF Roomy
    <3>4. p = "main" /\ m[at[p]][1] = "cleanup" /\ at[p] \in DOMAIN m
      BY <1>0, <2>1, <2>4 DEF Led, Reached, Call
    <3>5. at[p] = Len(m) /\ \A j \in DOMAIN m : m[j][1] # "fork"
      BY <1>0, <3>4 DEF Closes
    <3>6. at'["main"] = Len(m) + 1
      BY <1>14, <3>4, <3>5, Grows
    <3>7. todo'["main"] = <<>>
      <4>1. Len(m) \in Nat
        BY <1>0, Grounds
      <4>2. todo'["main"] = SubSeq(m, at'["main"], Len(m))
        BY <1>0, <1>1 DEF Standing
      <4> QED BY <3>6, <4>1, <4>2, SubSeqEmpty
    <3>8. ASSUME NEW r \in Children PROVE todo'[r] = <<>>
      <4>1. life[r] = "unborn"
        BY <3>5 DEF Family, Named, Call
      <4>2. ~Forks(p, r)
        BY <2>4 DEF Forks
      <4>3. life'[r] = "unborn"
        BY <1>0, <3>4, <4>1, <4>2, Grows
      <4> QED BY <1>0, <1>1, <4>3 DEF Standing
    <3> QED BY <1>0, <1>2, <1>3, <1>6, <2>1, <3>2, <3>3, <3>7, <3>8
  <2>5. CASE X!Op(p) \notin Inits \cup {"cleanup"}
    BY <1>3, <1>7, <1>10, <2>1, <2>2, <2>5
  <2> QED BY <2>3, <2>4, <2>5
<1> QED BY <1>8, <1>9, <1>12, <1>13, <1>14 DEF Moved

(* came only grows, and not beyond the answer.                             *)
LEMMA Comes ==
    ASSUME Standing, Buffered, NEW p \in X!Procs, Moved(p)
    PROVE came = Len(body) => came' = Len(body)
<1>1. came' = came \/ Stays(p)
  BY DEF Moved, Dies, Passes, LeavesOut, Does, DoesToDownload, Fetched
<1>2. ASSUME Stays(p), came = Len(body) PROVE came' = came
  <2>1. CASE \E k \in 1 .. Len(body) : X!Piece(p, k)
    <3>1. PICK k \in 1 .. Len(body) : X!Piece(p, k)
      BY <2>1
    <3>2. came + k <= Len(body)
      BY <3>1 DEF X!Piece
    <3>3. came \in 0 .. Len(body)
      BY DEF Buffered
    <3> QED BY <1>2, <3>1, <3>2, <3>3
  <2>2. CASE X!Header(p)
    BY <2>2 DEF X!Header
  <2> QED BY <1>2, <2>1, <2>2 DEF Stays
<1> QED BY <1>1, <1>2

LEMMA KeepsBrought ==
    ASSUME Standing, Family, Rest, Buffered, Brought, NEW p \in X!Procs, Moved(p)
    PROVE Brought'
<1>0. /\ Skips(program) /\ Insists(program) /\ failed \in [X!Procs -> SUBSET Names]
      /\ \A r \in X!Procs : at[r] \in Nat /\ DOMAIN Script(program, r) \subseteq Nat
                            /\ Behind[r] \subseteq DOMAIN Script(program, r)
  <2>1. failed \in [X!Procs -> SUBSET Names]
    BY DEF Rest
  <2>2. \A r \in X!Procs : at[r] \in Nat /\ DOMAIN Script(program, r) = 1 .. Len(Script(program, r))
    BY Grounds
  <2>3. \A r \in X!Procs : Behind[r] \subseteq DOMAIN Script(program, r)
    BY Grounds
  <2> QED BY <2>1, <2>2, <2>3, Grounds DEF WellMade
<1>1. /\ program' = program /\ body' = body
      /\ \A r \in X!Procs : Script(program, r)' = Script(program, r)
  <2>1. body' = body
    BY DEF Moved, Dies, Passes, LeavesOut, Stays, Does, Shared
  <2> QED BY <2>1, Grows
<1>2. SUFFICES ASSUME NoFault' \/ program \in Sure,
                      NEW r \in X!Procs, NEW j \in Behind'[r], Script(program, r)[j][1] = "perform"
               PROVE \/ came' = Len(body)
                     \/ /\ "easy_handle_init" \in failed'[r]
                        /\ \A k \in DOMAIN Script(program, r) : k >= at'[r] => Script(program, r)[k][1] \notin Makes
  BY <1>1 DEF Brought, Call
<1>3. NoFault \/ program \in Sure
  BY <1>2, Blames
<1>4. failed[r] \subseteq failed'[r]
  BY Blames
<1>5. CASE j \in Behind[r]
  <2>1. \/ came = Len(body)
        \/ /\ "easy_handle_init" \in failed[r]
           /\ \A k \in DOMAIN Script(program, r) : k >= at[r] => Script(program, r)[k][1] \notin Makes
    BY <1>2, <1>3, <1>5 DEF Brought, Call
  <2>2. at'[r] >= at[r] /\ at'[r] \in Nat
    <3>1. ~Forks(p, r) \/ r = p
      BY <1>2, Grows
    <3>2. CASE r # p
      BY <1>0, <3>1, <3>2, Grows
    <3>3. CASE r = p
      BY <1>0, <3>3, Grows, Grounds DEF Moved
    <3> QED BY <3>2, <3>3
  <2>3. ASSUME NEW k \in DOMAIN Script(program, r), k >= at'[r] PROVE k >= at[r]
    BY <1>0, <2>2, <2>3
  <2> QED BY <1>4, <2>1, <2>3, Comes
<1>6. CASE j \notin Behind[r]
  <2>1. r = p /\ Reached(p) /\ j = at[p] /\ X!Op(p) = "perform"
    BY <1>2, <1>6, Newly DEF Makes, Reached, Call
  <2>2. CASE Does(p)
    BY <2>1, <2>2 DEF Does, DoesToDownload
  <2>3. CASE Passes(p)
    <3>1. X!Ignored("perform") /\ "perform" \in failed'[p]
      BY <1>0, <2>1, <2>3 DEF Passes
    <3> QED BY <1>0, <1>2, <3>1 DEF Insists, X!Ignored, NoFault
  <2>4. CASE LeavesOut(p)
    <3>1. /\ "easy_handle_init" \in failed[p] /\ "easy_handle_init" \in X!Programs[program].ignores
          /\ at'[p] = at[p] + 2
      BY <2>4, Grows DEF LeavesOut
    <3> QED BY <1>0, <1>4, <2>1, <3>1 DEF Skips, Reached, Call
  <2> QED BY <1>6, <2>1, <2>2, <2>3, <2>4, Newly
<1> QED BY <1>5, <1>6

LEMMA KeepsFileWhole ==
    ASSUME Standing, Family, Rest, Held, Buffered, Brought, X!FileWhole, NEW p \in X!Procs, Moved(p)
    PROVE X!FileWhole'
<1>0. /\ Led(program) /\ Relies(program) /\ Insists(program) /\ Typed(program)
      /\ "main" \in X!Procs /\ Children \subseteq X!Procs \ {"main"}
      /\ \A r \in X!Procs \ {"main"} : Script(program, r) = Script(program, "child1")
      /\ body \in Seq(Nat) /\ Len(body) \in Nat
  <2>1. body \in Seq(Nat)
    BY DEF Rest
  <2> QED BY <2>1, LenProperties, Grounds DEF WellMade
<1>1. program' = program /\ body' = body /\ kind' = kind
  BY DEF Moved, Dies, Passes, LeavesOut, Stays, Does, Shared
<1>2. X!NobodyFailed' => NoFault' /\ X!NobodyFailed /\ NoFault
  <2>1. X!NobodyFailed' => NoFault'
    BY DEF X!NobodyFailed, NoFault
  <2>2. \A r \in X!Procs : life'[r] \notin {"failed", "astray"} => life[r] \notin {"failed", "astray"}
    BY Blames
  <2> QED BY <2>1, <2>2, Blames DEF X!NobodyFailed, NoFault
<1>3. CASE made' = made
  BY <1>1, <1>2, <1>3 DEF X!FileWhole
<1>4. CASE made' # made
  <2>1. /\ Does(p) /\ X!Op(p) \in Makes /\ made' = [there |-> TRUE, data |-> its_buf.data]
        /\ X!Op(p) = "process_data" => kind \in X!Processed(program)
    BY <1>4 DEF Moved, Dies, Passes, LeavesOut, Stays, Does, DoesToDownload, Fetched, Makes
  <2>2. /\ Reached(p) /\ p = "main" /\ at[p] \in DOMAIN Script(program, "main")
        /\ Script(program, "main")[at[p]][1] = X!Op(p)
    <3>1. Reached(p)
      BY <2>1, Grows
    <3>2. p = "main"
      BY <1>0, <2>1, <3>1 DEF Led, Reached, Call
    <3> QED BY <3>1, <3>2 DEF Reached, Call
  <2>3. its_buf.data = SubSeq(body, 1, came) /\ came \in 0 .. Len(body)
    BY <2>2 DEF Buffered, Reached
  <2>4. X!IsPrefix(SubSeq(body, 1, came), body)
    <3>1. \A i \in 1 .. came : body[i] \in Nat
      <4>1. \A i \in 1 .. came : i \in 1 .. Len(body)
        BY <1>0, <2>3
      <4> QED BY <1>0, <4>1, ElementOfSeq
    <3>2. SubSeq(body, 1, came) \in Seq(Nat) /\ Len(SubSeq(body, 1, came)) = came
      BY <2>3, <3>1, SubSeqProperties
    <3> QED BY <1>0, <2>3, <3>2, SubSeqFull DEF X!IsPrefix
  <2>5. ASSUME X!NobodyFailed' \/ program \in Sure PROVE came = Len(body)
    <3>0. NoFault \/ program \in Sure
      BY <1>2, <2>5
    <3>1. PICK j \in 1 .. at[p] - 1 :
                \/ Script(program, "main")[j][1] = "perform"
                \/ /\ program \notin Sure /\ Script(program, "main")[j][1] = "waitpid"
                   /\ \E i \in DOMAIN Script(program, "child1") : Script(program, "child1")[i][1] = "perform"
      BY <1>0, <2>1, <2>2 DEF Relies
    <3>2. j \in Behind["main"] /\ j \in DOMAIN Script(program, "main") /\ at[p] >= at["main"] /\ at[p] \in Nat
      BY <1>0, <2>2, Grounds DEF Reached
    <3>3. CASE Script(program, "main")[j][1] = "perform"
      BY <1>0, <2>1, <2>2, <3>0, <3>2, <3>3 DEF Brought, Call
    <3>4. CASE /\ program \notin Sure /\ Script(program, "main")[j][1] = "waitpid"
               /\ \E i \in DOMAIN Script(program, "child1") : Script(program, "child1")[i][1] = "perform"
      <4>1. NoFault
        BY <3>0, <3>4
      <4> DEFINE r == Script(program, "main")[j][2]
      <4>2. r \in Children /\ life[r] \notin {"unborn", "runs"}
        BY <1>0, <3>2, <3>4 DEF Family, Call, Typed
      <4>3. r \in X!Procs \ {"main"}
        BY <1>0, <4>2
      <4> HIDE DEF r
      <4>4. life[r] = "exited" /\ failed[r] = {}
        <5>1. life[r] # "failed" /\ life[r] # "astray" /\ failed[r] = {}
          BY <4>1, <4>3 DEF NoFault, Held
        <5>2. life[r] \in Ways
          BY <4>3 DEF Standing
        <5> QED BY <4>2, <5>1, <5>2 DEF Ways
      <4>5. PICK i \in DOMAIN Script(program, r) : Script(program, r)[i][1] = "perform"
        BY <1>0, <3>4, <4>3
      <4>6. i \in Behind[r]
        <5>1. /\ at[r] = Len(Script(program, r)) + 1 /\ Behind[r] = 1 .. at[r] - 1
              /\ DOMAIN Script(program, r) = 1 .. Len(Script(program, r)) /\ Len(Script(program, r)) \in Nat
          BY <4>3, <4>4, Grounds
        <5> QED BY <4>5, <5>1
      <4> QED BY <3>0, <4>3, <4>4, <4>5, <4>6 DEF Brought, Call
    <3> QED BY <3>1, <3>3, <3>4
  <2>6. came = Len(body) => its_buf.data = body
    BY <1>0, <2>3, SubSeqFull
  <2>7. program \in Sure => kind \in X!Processed(program)
    <3>1. X!Op(p) # "process_data" /\ program \in Sure => program = "paster"
      BY <1>0, <2>1, <2>2 DEF Insists, Makes
    <3>2. program = "paster" => kind = "png"
      BY DEF Rest
    <3> QED BY <2>1, <3>1, <3>2 DEF X!Processed
  <2>8. made'.there = TRUE /\ made'.data = its_buf.data
    BY <2>1
  <2> QED BY <1>1, <2>3, <2>4, <2>5, <2>6, <2>7, <2>8 DEF X!FileWhole, Sure
<1> QED BY <1>3, <1>4

(* Where the programs with one child use semaphores, messages and stacks.  *)
LEMMA SemSimpleCalls ==
    LET m == Script("sem_simple", "main")
        d == Script("sem_simple", "child1")
    IN  /\ DOMAIN m = 1 .. 19 /\ DOMAIN d = 1 .. 6 /\ Len(m) = 19 /\ Len(d) = 6
        /\ m[7] = <<"clear", "buf">> /\ m[8] = <<"sem_init", 0, 1>> /\ m[9] = <<"sem_init", 1, 0>>
        /\ m[10] = <<"fork", "child1">> /\ m[11] = <<"sem_wait", 1>> /\ m[12] = <<"read", "buf">>
        /\ m[13] = <<"sem_post", 0>>
        /\ \A k \in 1 .. 19 : k \notin {7, 8, 9, 10, 11, 12, 13} =>
              m[k][1] \notin OnSems \cup OnText \cup OnStack \cup {"fork"}
        /\ d[1] = <<"sem_wait", 0>> /\ d[2][1] = "write" /\ d[3][1] = "write" /\ d[4] = <<"sem_post", 1>>
        /\ \A k \in {5, 6} : d[k][1] \notin OnSems \cup OnText \cup OnStack
        /\ \A k \in 1 .. 6 : d[k][1] \notin {"shmget", "shmat"}
        /\ X!Programs["sem_simple"].ignores = {"shmget", "shmat"}
<1> DEFINE m == Script("sem_simple", "main")
           d == Script("sem_simple", "child1")
<1>1. m = <<<<"shmget", "buf">>, <<"shmget", "sems">>, <<"check">>, <<"shmat", "buf">>,
            <<"shmat", "sems">>, <<"check">>, <<"clear", "buf">>, <<"sem_init", 0, 1>>,
            <<"sem_init", 1, 0>>, <<"fork", "child1">>, <<"sem_wait", 1>>, <<"read", "buf">>,
            <<"sem_post", 0>>, <<"shmdt", "buf">>, <<"rmid", "buf">>, <<"shmdt", "sems">>,
            <<"waitpid", "child1">>, <<"rmid", "sems">>, <<"sem_destroy">>>>
  BY DEF X!Programs, X!sem_simple, X!SemSimple, X!Program, Script
<1>2. d = <<<<"sem_wait", 0>>, <<"write", "buf">>, <<"write", "buf">>, <<"sem_post", 1>>,
            <<"shmdt", "buf">>, <<"shmdt", "sems">>>>
  BY DEF X!Programs, X!sem_simple, X!SemSimple, X!Program, Script
<1>3. X!Programs["sem_simple"].ignores = {"shmget", "shmat"}
  BY DEF X!Programs, X!sem_simple, X!SemSimple, X!Program
<1> HIDE DEF m, d
<1>4. /\ DOMAIN m = 1 .. 19 /\ Len(m) = 19
      /\ m[7] = <<"clear", "buf">> /\ m[8] = <<"sem_init", 0, 1>> /\ m[9] = <<"sem_init", 1, 0>>
      /\ m[10] = <<"fork", "child1">> /\ m[11] = <<"sem_wait", 1>> /\ m[12] = <<"read", "buf">>
      /\ m[13] = <<"sem_post", 0>>
  BY <1>1
<1>5. \A k \in 1 .. 19 : k \notin {7, 8, 9, 10, 11, 12, 13} =>
          m[k][1] \notin OnSems \cup OnText \cup OnStack \cup {"fork"}
  BY <1>1 DEF OnSems, OnText, OnStack
<1>6. /\ DOMAIN d = 1 .. 6 /\ Len(d) = 6
      /\ d[1] = <<"sem_wait", 0>> /\ d[2][1] = "write" /\ d[3][1] = "write" /\ d[4] = <<"sem_post", 1>>
      /\ \A k \in {5, 6} : d[k][1] \notin OnSems \cup OnText \cup OnStack
      /\ \A k \in 1 .. 6 : d[k][1] \notin {"shmget", "shmat"}
  BY <1>2 DEF OnSems, OnText, OnStack
<1> QED BY <1>3, <1>4, <1>5, <1>6 DEF m, d

LEMMA ShmSimpleCalls ==
    LET m == Script("shm_simple", "main")
        d == Script("shm_simple", "child1")
    IN  /\ DOMAIN m = 1 .. 7 /\ DOMAIN d = 1 .. 5 /\ Len(d) = 5
        /\ m[2] = <<"fork", "child1">> /\ m[4] = <<"waitpid", "child1">> /\ m[5] = <<"read", "buf">>
        /\ \A k \in 1 .. 7 : k \notin {2, 5} => m[k][1] \notin OnText \cup {"fork"}
        /\ d[2][1] = "clear" /\ d[3][1] = "write" /\ d[4][1] = "write"
        /\ \A k \in {1, 5} : d[k][1] \notin OnText
        /\ \A k \in 1 .. 5 : d[k][1] # "shmget"
        /\ X!Programs["shm_simple"].ignores = {"shmget"}
<1> DEFINE m == Script("shm_simple", "main")
           d == Script("shm_simple", "child1")
<1>1. m = <<<<"shmget", "buf">>, <<"fork", "child1">>, <<"shmat", "buf">>, <<"waitpid", "child1">>,
            <<"read", "buf">>, <<"shmdt", "buf">>, <<"rmid", "buf">>>>
  BY DEF X!Programs, X!shm_simple, X!Program, Script
<1>2. d = <<<<"shmat", "buf">>, <<"clear", "buf">>, <<"write", "buf">>, <<"write", "buf">>, <<"shmdt", "buf">>>>
  BY DEF X!Programs, X!shm_simple, X!Program, Script
<1>3. X!Programs["shm_simple"].ignores = {"shmget"}
  BY DEF X!Programs, X!shm_simple, X!Program
<1> HIDE DEF m, d
<1>4. /\ DOMAIN m = 1 .. 7
      /\ m[2] = <<"fork", "child1">> /\ m[4] = <<"waitpid", "child1">> /\ m[5] = <<"read", "buf">>
      /\ \A k \in 1 .. 7 : k \notin {2, 5} => m[k][1] \notin OnText \cup {"fork"}
  BY <1>1 DEF OnText
<1>5. /\ DOMAIN d = 1 .. 5 /\ Len(d) = 5 /\ d[2][1] = "clear" /\ d[3][1] = "write" /\ d[4][1] = "write"
      /\ \A k \in {1, 5} : d[k][1] \notin OnText
      /\ \A k \in 1 .. 5 : d[k][1] # "shmget"
  BY <1>2 DEF OnText
<1> QED BY <1>3, <1>4, <1>5 DEF m, d

LEMMA ShmStructCalls ==
    LET m == Script("shm_struct", "main")
        d == Script("shm_struct", "child1")
    IN  /\ DOMAIN m = 1 .. 11 /\ DOMAIN d = 1 .. 4 /\ Len(m) = 11 /\ Len(d) = 4
        /\ m[1] = <<"create_stack", "heap">> /\ m[2] = <<"push_all", "heap">>
        /\ m[3] = <<"pop_all", "heap">> /\ m[9] = <<"pop_all", "buf">>
        /\ m[6] = <<"fork", "child1">> /\ m[8] = <<"waitpid", "child1">>
        /\ \A k \in 1 .. 11 : k \notin {1, 2, 3, 6, 9} => m[k][1] \notin OnText \cup OnStack \cup {"fork"}
        /\ d[2] = <<"init_shm_stack", "buf">> /\ d[3] = <<"push_all", "buf">>
        /\ \A k \in {1, 4} : d[k][1] \notin OnText \cup OnStack
        /\ X!Programs["shm_struct"].ignores = {}
<1> DEFINE m == Script("shm_struct", "main")
           d == Script("shm_struct", "child1")
<1>1. m = <<<<"create_stack", "heap">>, <<"push_all", "heap">>, <<"pop_all", "heap">>,
            <<"destroy_stack", "heap">>, <<"shmget", "buf">>, <<"fork", "child1">>, <<"shmat", "buf">>,
            <<"waitpid", "child1">>, <<"pop_all", "buf">>, <<"shmdt", "buf">>, <<"rmid", "buf">>>>
  BY DEF X!Programs, X!shm_struct, X!Program, X!test_local, X!test_shm, Script
<1>2. d = <<<<"shmat", "buf">>, <<"init_shm_stack", "buf">>, <<"push_all", "buf">>, <<"shmdt", "buf">>>>
  BY DEF X!Programs, X!shm_struct, X!Program, X!PushingChild, Script
<1>3. X!Programs["shm_struct"].ignores = {}
  BY DEF X!Programs, X!shm_struct, X!Program
<1> HIDE DEF m, d
<1>4. /\ DOMAIN m = 1 .. 11 /\ Len(m) = 11
      /\ m[1] = <<"create_stack", "heap">> /\ m[2] = <<"push_all", "heap">>
      /\ m[3] = <<"pop_all", "heap">> /\ m[9] = <<"pop_all", "buf">>
      /\ m[6] = <<"fork", "child1">> /\ m[8] = <<"waitpid", "child1">>
      /\ \A k \in 1 .. 11 : k \notin {1, 2, 3, 6, 9} => m[k][1] \notin OnText \cup OnStack \cup {"fork"}
  BY <1>1 DEF OnText, OnStack
<1>5. /\ DOMAIN d = 1 .. 4 /\ Len(d) = 4
      /\ d[2] = <<"init_shm_stack", "buf">> /\ d[3] = <<"push_all", "buf">>
      /\ \A k \in {1, 4} : d[k][1] \notin OnText \cup OnStack
  BY <1>2 DEF OnText, OnStack
<1> QED BY <1>3, <1>4, <1>5 DEF m, d

(* Of the processes that a step may be of, in a program with one child.    *)
LEMMA OneChild ==
    ASSUME Standing, Family, program \in {"sem_simple", "shm_simple", "shm_struct"},
           NEW p \in X!Procs, Moved(p)
    PROVE /\ p \in {"main", "child1"}
          /\ p = "child1" => /\ at'["main"] = at["main"] /\ life'["main"] = life["main"]
                             /\ life[p] = "runs"
          /\ p = "main" => \/ at'["child1"] = at["child1"] /\ life'["child1"] = life["child1"]
                           \/ /\ Does(p) /\ X!Op(p) = "fork" /\ Reached(p) /\ life'[p] = "runs"
                              /\ at'["main"] = at["main"] + 1
                              /\ at'["child1"] = 1 /\ life'["child1"] = "runs" /\ life["child1"] = "unborn"
<1>0. "main" \in X!Procs /\ "child1" \in X!Procs /\ X!Procs = {"main", "child1", "child2"} /\ "child2" \in Children
      /\ "child1" \in Children
  BY DEF X!Procs, Children
<1>1. \A j \in DOMAIN Script(program, "main") : Script(program, "main")[j][1] = "fork" =>
         Script(program, "main")[j][2] = "child1"
  <2>1. CASE program = "sem_simple"
    BY <2>1, SemSimpleCalls
  <2>2. CASE program = "shm_simple"
    BY <2>2, ShmSimpleCalls
  <2>3. CASE program = "shm_struct"
    BY <2>3, ShmStructCalls
  <2> QED BY <2>1, <2>2, <2>3
<1>2. life["child2"] = "unborn"
  BY <1>0, <1>1 DEF Family, Named, Call
<1>3. p # "child2"
  BY <1>2, Grows DEF Moved, Reached
<1>4. p = "child1" => at'["main"] = at["main"] /\ life'["main"] = life["main"] /\ life[p] = "runs"
  <2>1. ASSUME p = "child1" PROVE ~Forks(p, "main")
    BY <1>0, <2>1, Grows
  <2>2. ASSUME p = "child1" PROVE life[p] = "runs"
    BY <2>2, Grows DEF Moved, Reached
  <2> QED BY <1>0, <2>1, <2>2, Grows
<1>5. p = "main" => \/ at'["child1"] = at["child1"] /\ life'["child1"] = life["child1"]
                    \/ Forks(p, "child1") /\ at'["child1"] = 1 /\ life'["child1"] = "runs" /\ life["child1"] = "unborn"
  <2>1. ASSUME p = "main", Forks(p, "child1") PROVE life["child1"] = "unborn"
    <3>1. Led(program) /\ at["main"] \in Nat
      BY <1>0, Grounds DEF WellMade
    <3>2. Reached(p)
      BY <2>1, Grows DEF Forks
    <3>3. SUFFICES ASSUME life["child1"] # "unborn" PROVE FALSE
      OBVIOUS
    <3>4. PICK j \in DOMAIN Script(program, "main") :
             Named("main", j, "fork", "child1") /\ (life["main"] = "runs" => j < at["main"])
      BY <1>0, <3>3 DEF Family
    <3>5. j = at["main"]
      BY <2>1, <3>1, <3>2, <3>4 DEF Led, Named, Reached, Call, Forks
    <3> QED BY <2>1, <3>1, <3>2, <3>4, <3>5 DEF Reached
  <2>2. ASSUME p = "main", Forks(p, "child1") PROVE at'["child1"] = 1 /\ life'["child1"] = "runs"
    BY <1>0, <2>2, Grows
  <2>3. ASSUME p = "main", ~Forks(p, "child1") PROVE at'["child1"] = at["child1"] /\ life'["child1"] = life["child1"]
    BY <1>0, <2>3, Grows
  <2> QED BY <2>1, <2>2, <2>3
<1>6. Forks(p, "child1") => /\ Does(p) /\ X!Op(p) = "fork" /\ Reached(p) /\ life'[p] = "runs"
                            /\ at'[p] = at[p] + 1
  BY Grows DEF Forks
<1> QED BY <1>0, <1>3, <1>4, <1>5, <1>6

LEMMA KeepsTurns ==
    ASSUME Standing, Family, Turns, NEW p \in X!Procs, Moved(p)
    PROVE Turns'
<1>0. sem \in [{0, 1} -> {0, 1}] /\ program' = program
  BY Grows DEF Turns
<1>1. sem' = sem \/ (Does(p) /\ Reached(p) /\ X!Op(p) \in OnSems)
  <2>1. Does(p) => Reached(p)
    BY Grows
  <2> QED BY <2>1 DEF Moved, Dies, Passes, LeavesOut, Stays, Does, DoesToMemory, OnSems, Said
<1>2. CASE program # "sem_simple"
  <2>1. ~(Reached(p) /\ X!Op(p) \in OnSems)
    BY <1>2, Grounds DEF WellMade, Keeps, Reached, Call
  <2> QED BY <1>0, <1>1, <1>2, <2>1 DEF Turns
<1>3. CASE program = "sem_simple"
  <2> DEFINE m == Script("sem_simple", "main")
             d == Script("sem_simple", "child1")
  <2>0. /\ at["main"] \in 1 .. 20 /\ at["child1"] \in 1 .. 7
        /\ DOMAIN m = 1 .. 19 /\ DOMAIN d = 1 .. 6
    <3>1. Len(m) = 19 /\ Len(d) = 6 /\ DOMAIN m = 1 .. 19 /\ DOMAIN d = 1 .. 6
      BY SemSimpleCalls
    <3>2. at["main"] \in 1 .. Len(m) + 1 /\ at["child1"] \in 1 .. Len(d) + 1
      BY <1>3 DEF Standing, X!Procs
    <3> HIDE DEF m, d
    <3> QED BY <3>1, <3>2
  <2>1. p \in {"main", "child1"}
    BY <1>3, OneChild
  <2>2. /\ ChildMayPost => sem[1] = 0
        /\ life["main"] = "runs" =>
                /\ at["main"] <= 10 => sem[1] = 0
                /\ at["main"] >= 11 /\ sem[1] = 1 => sem[0] = 0 /\ ~ChildMayPost
                /\ at["main"] >= 12 => sem[1] = 0 /\ ~ChildMayPost
                /\ at["main"] \in {12, 13} => sem[0] = 0
                /\ at["main"] <= 13 /\ ChildMayPost /\ at["child1"] >= 2 => sem[0] = 0
    BY <1>3 DEF Turns
  (* What a process does next is what its script says.                     *)
  <2>3. ~LeavesOut(p) /\ (Passes(p) => X!Op(p) \in {"shmget", "shmat"} /\ X!Op(p) \notin OnSems)
    <3>1. X!Programs[program].ignores = {"shmget", "shmat"}
      BY <1>3, SemSimpleCalls
    <3> QED BY <1>3, <3>1, Grows DEF Passes, X!Ignored, OnSems
  <2>4. CASE p = "main"
    <3>1. Reached(p) => X!Op(p) = m[at["main"]][1] /\ X!Arg(p) = m[at["main"]][2] /\ at["main"] \in 1 .. 19
      BY <1>3, <2>0, <2>4 DEF Reached, Call
    <3>2. \/ at'["child1"] = at["child1"] /\ life'["child1"] = life["child1"]
          \/ /\ at["main"] = 10 /\ Does(p) /\ X!Op(p) = "fork" /\ life'["main"] = "runs"
             /\ at'["main"] = at["main"] + 1
             /\ at'["child1"] = 1 /\ life'["child1"] = "runs" /\ life["child1"] = "unborn"
      <4>1. X!Op(p) = "fork" /\ Reached(p) => at["main"] = 10
        BY <3>1, SemSimpleCalls DEF OnSems, OnText
      <4> QED BY <1>3, <2>4, <4>1, OneChild
    <3>3. CASE Dies(p)
      <4>1. life'["main"] # "runs" /\ sem' = sem
        BY <2>4, <3>3, Grows DEF Dies, Said
      <4>2. at'["child1"] = at["child1"] /\ life'["child1"] = life["child1"]
        BY <3>2, <4>1
      <4> QED BY <1>0, <2>2, <4>1, <4>2 DEF Turns, ChildMayPost
    <3>4. CASE Stays(p)
      <4>1. life'["main"] = life["main"] /\ sem' = sem /\ at'["main"] = at["main"]
        BY <2>4, <3>4, Grows DEF Stays
      <4>2. at'["child1"] = at["child1"] /\ life'["child1"] = life["child1"]
        BY <2>0, <3>2, <4>1
      <4> QED BY <1>0, <2>2, <4>1, <4>2 DEF Turns, ChildMayPost
    <3>5. CASE Passes(p)
      <4>1. /\ life'["main"] = life["main"] /\ at'["main"] = at["main"] + 1 /\ Reached(p)
            /\ X!Op(p) \in {"shmget", "shmat"}
        BY <2>3, <2>4, <3>5, Grows DEF Passes
      <4>2. at["main"] \notin 7 .. 13
        BY <3>1, <4>1, SemSimpleCalls
      <4>3. sem' = sem
        BY <3>5 DEF Passes, Said
      <4>4. at'["child1"] = at["child1"] /\ life'["child1"] = life["child1"]
        BY <3>2, <4>2
      <4> QED BY <1>0, <2>0, <2>2, <4>1, <4>2, <4>3, <4>4 DEF Turns, ChildMayPost
    <3>6. CASE Does(p)
      <4>1. /\ life'["main"] = "runs" /\ life["main"] = "runs" /\ at'["main"] = at["main"] + 1 /\ Reached(p)
        BY <2>4, <3>6, Grows DEF Does
      <4>2. DoesToMemory(p, m[at["main"]][1], m[at["main"]][2]) /\ Head(todo[p])[3] = m[at["main"]][3]
        <5>1. Listed(program)
          BY Grounds DEF WellMade
        <5>2. Head(todo[p]) = m[at["main"]]
          BY <1>3, <2>4, <4>1, <5>1, Here DEF Reached, Call
        <5> QED BY <3>1, <3>6, <4>1, <5>2 DEF Does
      <4>3. CASE at["main"] \notin {8, 9, 11, 13}
        <5>1. m[at["main"]][1] \notin OnSems
          BY <2>0, <3>1, <4>1, <4>3, SemSimpleCalls DEF OnSems
        <5>2. sem' = sem
          BY <4>2, <5>1 DEF DoesToMemory, OnSems
        <5> QED BY <1>0, <2>0, <2>2, <3>2, <4>1, <4>3, <5>2 DEF Turns, ChildMayPost
      <4>4. CASE at["main"] \in {8, 9, 11, 13}
        <5>1. at'["child1"] = at["child1"] /\ life'["child1"] = life["child1"]
          BY <3>2, <4>4
        <5>2. CASE at["main"] = 8
          <6>1. m[at["main"]][1] = "sem_init" /\ m[at["main"]][2] = 0 /\ m[at["main"]][3] = 1
            BY <5>2, SemSimpleCalls
          <6>2. sem' = [sem EXCEPT ![0] = 1]
            BY <4>2, <6>1 DEF DoesToMemory
          <6>3. life["child1"] = "unborn"
            <7>1. SUFFICES ASSUME life["child1"] # "unborn" PROVE FALSE
              OBVIOUS
            <7>2. "child1" \in Children
              BY DEF Children
            <7>3. PICK j \in DOMAIN m : m[j][1] = "fork" /\ j < at["main"]
              BY <1>3, <4>1, <7>1, <7>2 DEF Family, Named, Call
            <7>4. j = 10
              BY <7>3, SemSimpleCalls DEF OnSems, OnText
            <7> QED BY <5>2, <7>3, <7>4
          <6> QED BY <1>0, <2>2, <4>1, <5>1, <5>2, <6>2, <6>3 DEF Turns, ChildMayPost
        <5>3. CASE at["main"] = 9
          <6>1. m[at["main"]][1] = "sem_init" /\ m[at["main"]][2] = 1 /\ m[at["main"]][3] = 0
            BY <5>3, SemSimpleCalls
          <6>2. sem' = [sem EXCEPT ![1] = 0]
            BY <4>2, <6>1 DEF DoesToMemory
          <6> QED BY <1>0, <2>2, <4>1, <5>1, <5>3, <6>2 DEF Turns, ChildMayPost
        <5>4. CASE at["main"] = 11
          <6>1. m[at["main"]][1] = "sem_wait" /\ m[at["main"]][2] = 1
            BY <5>4, SemSimpleCalls
          <6>2. sem' = [sem EXCEPT ![1] = @ - 1] /\ sem[1] > 0
            BY <4>2, <6>1 DEF DoesToMemory
          <6>3. sem[1] = 1 /\ sem'[1] = 0 /\ sem'[0] = sem[0] /\ sem' \in [{0, 1} -> {0, 1}]
            BY <1>0, <6>2
          <6> QED BY <1>0, <2>2, <4>1, <5>1, <5>4, <6>3 DEF Turns, ChildMayPost
        <5>5. CASE at["main"] = 13
          <6>1. m[at["main"]][1] = "sem_post" /\ m[at["main"]][2] = 0
            BY <5>5, SemSimpleCalls
          <6>2. sem' = [sem EXCEPT ![0] = @ + 1]
            BY <4>2, <6>1 DEF DoesToMemory
          <6>3. sem[0] = 0 /\ sem[1] = 0
            BY <1>0, <2>2, <4>1, <5>5
          <6>4. sem'[0] = 1 /\ sem'[1] = 0 /\ sem' \in [{0, 1} -> {0, 1}]
            BY <1>0, <6>2, <6>3
          <6> QED BY <1>0, <2>2, <4>1, <5>1, <5>5, <6>4 DEF Turns, ChildMayPost
        <5> QED BY <4>4, <5>2, <5>3, <5>4, <5>5
      <4> QED BY <4>3, <4>4
    <3> QED BY <2>3, <3>3, <3>4, <3>5, <3>6 DEF Moved
  <2>5. CASE p = "child1"
    <3>1. Reached(p) => X!Op(p) = d[at["child1"]][1] /\ X!Arg(p) = d[at["child1"]][2] /\ at["child1"] \in 1 .. 6
      BY <1>3, <2>0, <2>5 DEF Reached, Call
    <3>2. at'["main"] = at["main"] /\ life'["main"] = life["main"] /\ life["child1"] = "runs"
      BY <1>3, <2>5, OneChild
    <3>3. CASE Dies(p)
      <4>1. life'["child1"] # "runs" /\ sem' = sem
        BY <2>5, <3>3, Grows DEF Dies, Said
      <4> QED BY <1>0, <2>2, <3>2, <4>1 DEF Turns, ChildMayPost
    <3>4. CASE Stays(p)
      <4>1. life'["child1"] = life["child1"] /\ sem' = sem /\ at'["child1"] = at["child1"]
        BY <2>5, <3>4, Grows DEF Stays
      <4> QED BY <1>0, <2>2, <3>2, <4>1 DEF Turns, ChildMayPost
    <3>5. ~Passes(p)
      BY <2>3, <3>1, Grows, SemSimpleCalls
    <3>6. CASE Does(p)
      <4>1. life'["child1"] = "runs" /\ at'["child1"] = at["child1"] + 1 /\ Reached(p)
        BY <2>5, <3>6, Grows
      <4>2. DoesToMemory(p, d[at["child1"]][1], d[at["child1"]][2])
        BY <3>1, <3>6, <4>1 DEF Does
      <4>3. life["main"] = "runs" => at["main"] >= 11
        <5>1. "child1" \in Children
          BY DEF Children
        <5>2. PICK j \in DOMAIN m : m[j][1] = "fork" /\ (life["main"] = "runs" => j < at["main"])
          BY <1>3, <3>2, <5>1 DEF Family, Named, Call
        <5>3. j = 10
          BY <5>2, SemSimpleCalls DEF OnSems, OnText
        <5> QED BY <2>0, <5>2, <5>3
      <4>4. CASE at["child1"] \notin {1, 4}
        <5>1. d[at["child1"]][1] \notin OnSems
          BY <3>1, <4>1, <4>4, SemSimpleCalls DEF OnSems
        <5>2. sem' = sem
          BY <4>2, <5>1 DEF DoesToMemory, OnSems
        <5> QED BY <1>0, <2>0, <2>2, <3>2, <4>1, <4>4, <5>2 DEF Turns, ChildMayPost
      <4>5. CASE at["child1"] \in {1, 4}
        <5>1. CASE at["child1"] = 1
          <6>1. d[at["child1"]][1] = "sem_wait" /\ d[at["child1"]][2] = 0
            BY <5>1, SemSimpleCalls
          <6>2. sem' = [sem EXCEPT ![0] = @ - 1] /\ sem[0] > 0
            BY <4>2, <6>1 DEF DoesToMemory
          <6>3. sem'[0] = 0 /\ sem'[1] = sem[1] /\ sem' \in [{0, 1} -> {0, 1}]
            BY <1>0, <6>2
          <6> QED BY <1>0, <2>0, <2>2, <3>2, <4>1, <4>3, <5>1, <6>3 DEF Turns, ChildMayPost
        <5>2. CASE at["child1"] = 4
          <6>1. d[at["child1"]][1] = "sem_post" /\ d[at["child1"]][2] = 1
            BY <5>2, SemSimpleCalls
          <6>2. sem' = [sem EXCEPT ![1] = @ + 1]
            BY <4>2, <6>1 DEF DoesToMemory
          <6>3. sem[1] = 0 /\ ChildMayPost
            BY <2>2, <3>2, <5>2 DEF ChildMayPost
          <6>4. sem'[1] = 1 /\ sem'[0] = sem[0] /\ sem' \in [{0, 1} -> {0, 1}]
            BY <1>0, <6>2, <6>3
          <6> QED BY <1>0, <2>0, <2>2, <3>2, <4>1, <4>3, <5>2, <6>3, <6>4 DEF Turns, ChildMayPost
        <5> QED BY <4>5, <5>1, <5>2
      <4> QED BY <4>4, <4>5
    <3> QED BY <2>3, <3>3, <3>4, <3>5, <3>6 DEF Moved
  <2> QED BY <2>1, <2>4, <2>5
<1> QED BY <1>2, <1>3

(* While nobody has failed, nobody had before.                             *)
LEMMA FineBefore ==
    ASSUME Standing, Family, Rest, Held, NEW p \in X!Procs, Moved(p), X!NobodyFailed'
    PROVE X!NobodyFailed /\ NoFault /\ NoFault'
<1>1. NoFault'
  BY DEF X!NobodyFailed, NoFault
<1>2. \A r \in X!Procs : life'[r] \notin {"failed", "astray"} => life[r] \notin {"failed", "astray"}
  BY Blames
<1> QED BY <1>1, <1>2, Blames DEF X!NobodyFailed, NoFault

LEMMA KeepsTexts ==
    ASSUME Standing, Family, Rest, Held, Turns, Texts, NEW p \in X!Procs, Moved(p)
    PROVE Texts'
<1>0. program' = program /\ text \in 0 .. 2
  BY Grows DEF Texts
<1>1. text' = text \/ (Does(p) /\ Reached(p) /\ X!Op(p) \in {"clear", "write"})
  <2>1. Does(p) => Reached(p)
    BY Grows
  <2> QED BY <2>1 DEF Moved, Dies, Passes, LeavesOut, Stays, Does, DoesToMemory, X!Header, X!Piece, X!memory, Said
<1>2. CASE program \notin {"sem_simple", "shm_simple"}
  <2>1. ~(Reached(p) /\ X!Op(p) \in OnText)
    BY <1>2, Grounds DEF WellMade, Keeps, Reached, Call
  <2> QED BY <1>0, <1>1, <1>2, <2>1 DEF Texts, OnText
<1>3. CASE program \in {"sem_simple", "shm_simple"}
  <2> DEFINE m == Script(program, "main")
             d == Script(program, "child1")
             W == FirstWrite
             N == IF program = "sem_simple" THEN 7 ELSE 6
             Text(k) == IF k <= W THEN 0 ELSE IF k = W + 1 THEN 1 ELSE 2
  (* How the two scripts are alike.                                        *)
  <2>1. /\ W \in {2, 3} /\ N \in Nat /\ W' = W
        /\ at["child1"] \in 1 .. N /\ at["main"] \in Nat /\ (life["child1"] = "exited" => at["child1"] = N)
        /\ N > W + 2
    <3>1. Len(d) = N - 1
      <4>1. CASE program = "sem_simple"
        <5>1. Len(Script("sem_simple", "child1")) = 6
          BY SemSimpleCalls
        <5>2. N = 7
          BY <4>1
        <5> HIDE DEF N
        <5> QED BY <4>1, <5>1, <5>2
      <4>2. CASE program = "shm_simple"
        <5>1. Len(Script("shm_simple", "child1")) = 5
          BY ShmSimpleCalls
        <5>2. N = 6
          BY <4>2
        <5> HIDE DEF N
        <5> QED BY <4>2, <5>1, <5>2
      <4> QED BY <1>3, <4>1, <4>2
    <3>2. "child1" \in X!Procs /\ "main" \in X!Procs
      BY DEF X!Procs
    <3>3. at["child1"] \in 1 .. Len(d) + 1 /\ (life["child1"] = "exited" => at["child1"] = Len(d) + 1)
      BY <3>2, Grounds DEF Standing
    <3>4. at["main"] \in Nat
      BY <3>2, Grounds
    <3> QED BY <1>0, <1>3, <3>1, <3>3, <3>4 DEF FirstWrite
  <2>2. \A k \in DOMAIN d : /\ d[k][1] = "write" => k \in {W, W + 1}
                            /\ k \in {W, W + 1} => d[k][1] = "write"
                            /\ d[k][1] = "clear" => k < W
                            /\ d[k][1] # "read"
                            /\ d[k][1] \notin X!Programs[program].ignores
    BY <1>3, SemSimpleCalls, ShmSimpleCalls DEF FirstWrite, OnText
  <2>3. \A k \in DOMAIN m : /\ m[k][1] # "write"
                            /\ m[k][1] = "clear" => \A j \in DOMAIN m : m[j][1] = "fork" => k < j
    BY <1>3, SemSimpleCalls, ShmSimpleCalls DEF FirstWrite, OnText
  <2>4. "child1" \in Children /\ p \in {"main", "child1"}
    BY <1>3, OneChild DEF Children
  <2>5. at["main"] \in Nat /\ DOMAIN m = 1 .. Len(m) /\ DOMAIN d = 1 .. Len(d)
    BY <2>4, Grounds DEF X!Procs
  <2>6. /\ text' \in 0 .. 2
        /\ life'["child1"] = "unborn" => text' = 0
        /\ life'["child1"] \in {"runs", "exited"} => text' = Text(at'["child1"])
    <3>0. /\ life["child1"] = "unborn" => text = 0
          /\ life["child1"] \in {"runs", "exited"} => text = Text(at["child1"])
      BY <1>3 DEF Texts
    <3>1. CASE p = "main"
      <4>1. text' = text \/ (Reached(p) /\ X!Op(p) = "clear" /\ text' = 0)
        BY <1>1, <2>3, <3>1 DEF Reached, Call, Does, DoesToMemory
      <4>2. Reached(p) /\ X!Op(p) = "clear" => life["child1"] = "unborn"
        <5>1. SUFFICES ASSUME Reached(p), X!Op(p) = "clear", life["child1"] # "unborn" PROVE FALSE
          OBVIOUS
        <5>2. PICK j \in DOMAIN m : m[j][1] = "fork" /\ j < at["main"]
          BY <2>4, <3>1, <5>1 DEF Family, Named, Call, Reached
        <5>3. at["main"] < j
          BY <2>3, <3>1, <5>1, <5>2 DEF Reached, Call
        <5> QED BY <2>5, <5>2, <5>3
      <4>3. CASE at'["child1"] = at["child1"] /\ life'["child1"] = life["child1"]
        BY <1>0, <3>0, <4>1, <4>2, <4>3
      <4>4. CASE /\ Does(p) /\ X!Op(p) = "fork" /\ at'["child1"] = 1 /\ life'["child1"] = "runs"
                 /\ life["child1"] = "unborn"
        BY <2>1, <3>0, <4>1, <4>4
      <4> QED BY <1>3, <3>1, <4>3, <4>4, OneChild
    <3>2. CASE p = "child1"
      <4>1. life[p] = "runs" /\ text = Text(at[p])
        BY <1>3, <3>0, <3>2, OneChild
      <4>2. CASE Dies(p)
        BY <1>0, <3>2, <4>1, <4>2, Grows DEF Dies, Said
      <4>3. CASE Stays(p)
        BY <1>0, <3>2, <4>1, <4>3, Grows DEF Stays
      <4>4. ~Passes(p)
        BY <2>2, <3>2, Grows DEF Passes, X!Ignored, Reached, Call
      <4>5. ~LeavesOut(p)
        <5>1. "easy_handle_init" \notin X!Programs[program].ignores
          BY <1>3, SemSimpleCalls, ShmSimpleCalls
        <5> QED BY <5>1, Grows
      <4>6. CASE Does(p)
        <5>1. /\ life'[p] = "runs" /\ at'[p] = at[p] + 1 /\ at[p] \in DOMAIN d /\ X!Op(p) = d[at[p]][1]
          BY <3>2, <4>6, Grows DEF Reached, Call
        <5>2. text' = IF X!Op(p) = "clear" THEN 0 ELSE IF X!Op(p) = "write" THEN text + 1 ELSE text
          BY <4>6 DEF Does, DoesToMemory
        <5>3. /\ X!Op(p) = "write" <=> at[p] \in {W, W + 1}
              /\ X!Op(p) = "clear" => at[p] < W
          BY <2>2, <5>1
        <5>4. text' = Text(at[p] + 1)
          <6> HIDE DEF W, N
          <6>1. at[p] \in Nat /\ W \in {2, 3}
            BY <2>1, <3>2
          <6> QED BY ONLY <4>1, <5>2, <5>3, <6>1
        <5>5. text' \in 0 .. 2
          BY <5>4
        <5> QED BY <3>2, <5>1, <5>4, <5>5
      <4> QED BY <4>2, <4>3, <4>4, <4>5, <4>6 DEF Moved
    <3> QED BY <2>4, <3>1, <3>2
  <2>7. ASSUME X!NobodyFailed' PROVE got' \in {<<>>, <<2>>}
    <3>1. X!NobodyFailed /\ got \in {<<>>, <<2>>}
      BY <1>3, <2>7, FineBefore DEF Texts
    <3>2. CASE got' = got
      BY <3>1, <3>2
    <3>3. CASE got' # got
      <4>1. Reached(p) /\ X!Op(p) \notin OnStack
        <5>1. Reached(p)
          BY <3>3, Grows DEF Moved, Dies, Passes, LeavesOut, Said
        <5> QED BY <1>3, <5>1, Grounds DEF WellMade, Keeps, Reached, Call
      <4>2. Does(p) /\ X!Op(p) = "read" /\ got' = <<text>>
        BY <3>3, <4>1 DEF Moved, Dies, Passes, LeavesOut, Stays, Does, DoesToMemory, X!Header, X!Piece,
                          X!memory, Said, OnStack
      <4>3. p = "main" /\ at["main"] \in DOMAIN m /\ m[at["main"]][1] = "read" /\ life["main"] = "runs"
        BY <2>2, <2>4, <4>1, <4>2 DEF Reached, Call
      <4>4. life["child1"] \in Ways \ {"failed", "astray"}
        BY <2>4, <3>1 DEF X!NobodyFailed, Standing, X!Procs
      <4>5. CASE program = "sem_simple"
        <5>1. at["main"] = 12
          BY <4>3, <4>5, SemSimpleCalls DEF OnText
        <5>2. ~ChildMayPost
          BY <4>3, <4>5, <5>1 DEF Turns
        <5>3. life["child1"] # "unborn"
          <6>1. Script("sem_simple", "main")[10] = <<"fork", "child1">>
            BY SemSimpleCalls
          <6>2. Behind["main"] = 1 .. 12 - 1
            BY <2>4, <4>3, <5>1, Grounds DEF X!Procs
          <6>3. 10 \in Behind["main"]
            BY ONLY <6>2
          <6> QED BY <4>5, <6>1, <6>3 DEF Family, Call
        <5>4. life["child1"] \in {"runs", "exited"} /\ at["child1"] >= 5
          BY <2>1, <4>4, <4>5, <5>2, <5>3 DEF ChildMayPost, Ways
        <5>5. text = 2
          BY <2>1, <4>5, <5>4 DEF Texts, FirstWrite
        <5> QED BY <4>2, <5>5
      <4>6. CASE program = "shm_simple"
        <5>1. at["main"] = 5
          BY <4>3, <4>6, ShmSimpleCalls DEF OnText
        <5>2. life["child1"] \notin {"unborn", "runs"}
          <6>1. 4 \in Behind["main"] /\ m[4] = <<"waitpid", "child1">>
            BY <4>3, <4>6, <5>1, Grounds, ShmSimpleCalls
          <6> QED BY <6>1 DEF Family, Call
        <5>3. life["child1"] = "exited" /\ at["child1"] = 6
          BY <2>1, <4>4, <4>6, <5>2 DEF Ways
        <5>4. text = 2
          BY <4>6, <5>3 DEF Texts, FirstWrite
        <5> QED BY <4>2, <5>4
      <4> QED BY <1>3, <4>5, <4>6
    <3> QED BY <3>2, <3>3
  <2> QED BY <1>0, <2>1, <2>6, <2>7 DEF Texts, FirstWrite
<1> QED BY <1>2, <1>3

-----------------------------------------------------------------------------
(* The stacks: pushed upwards 0, -1, .., popped downwards.                 *)
LEMMA Pushed ==
    ASSUME NEW h \in Nat
    PROVE /\ Up(h) \in Seq(Int) /\ Len(Up(h)) = h
          /\ Append(Up(h), -h) = Up(h + 1)
          /\ h > 0 => X!Last(Up(h)) = 1 - h /\ X!Front(Up(h)) = Up(h - 1)
<1>1. \A j \in Nat : Up(j) \in Seq(Int) /\ Len(Up(j)) = j /\ DOMAIN Up(j) = 1 .. j
                     /\ \A k \in 1 .. j : Up(j)[k] = 1 - k
  BY DEF Up
<1>2. Append(Up(h), -h) = Up(h + 1)
  <2> DEFINE u == Up(h)
             s == Append(u, -h)
             t == Up(h + 1)
  <2>1. u \in Seq(Int) /\ Len(u) = h /\ \A k \in 1 .. h : u[k] = 1 - k
    BY <1>1
  <2>2. t \in Seq(Int) /\ Len(t) = h + 1 /\ \A k \in 1 .. h + 1 : t[k] = 1 - k
    BY <1>1
  <2> HIDE DEF u
  <2>3. s \in Seq(Int) /\ Len(s) = h + 1 /\ (\A k \in 1 .. h : s[k] = u[k]) /\ s[h + 1] = -h
    BY <2>1, AppendProperties
  <2> HIDE DEF s, t
  <2>4. ASSUME NEW k \in 1 .. h + 1 PROVE s[k] = t[k]
    <3>1. k \in 1 .. h \/ k = h + 1
      OBVIOUS
    <3> QED BY <2>1, <2>2, <2>3, <3>1
  <2>5. s = t
    BY <2>2, <2>3, <2>4, SeqEqual
  <2> QED BY <2>5 DEF s, t, u
<1>3. ASSUME h > 0 PROVE X!Last(Up(h)) = 1 - h /\ X!Front(Up(h)) = Up(h - 1)
  <2>1. X!Last(Up(h)) = 1 - h
    BY <1>1, <1>3 DEF X!Last
  <2> DEFINE s == SubSeq(Up(h), 1, h - 1)
             t == Up(h - 1)
  <2>2. s \in Seq(Int) /\ Len(s) = h - 1 /\ \A k \in 1 .. h - 1 : s[k] = Up(h)[k]
    BY <1>1, <1>3, SubSeqProperties
  <2>3. t \in Seq(Int) /\ Len(t) = h - 1 /\ \A k \in 1 .. h - 1 : t[k] = 1 - k
    BY <1>1, <1>3
  <2>4. \A k \in 1 .. h - 1 : s[k] = t[k]
    <3> HIDE DEF s, t
    <3> QED BY <1>1, <2>2, <2>3
  <2> HIDE DEF s, t
  <2>5. s = t
    BY <2>2, <2>3, <2>4, SeqEqual
  <2> QED BY <1>1, <2>1, <2>5 DEF s, t, X!Front
<1> QED BY <1>1, <1>2, <1>3

LEMMA PoppedOff ==
    /\ PoppedOnce(STACK_SIZE) = <<>> /\ PoppedTwice(STACK_SIZE) = PoppedOnce(0)
    /\ PoppedTwice(0) = X!Downward(STACK_SIZE) \o X!Downward(STACK_SIZE)
    /\ \A h \in 1 .. STACK_SIZE : /\ Append(PoppedOnce(h), 1 - h) = PoppedOnce(h - 1)
                                  /\ Append(PoppedTwice(h), 1 - h) = PoppedTwice(h - 1)
<1> DEFINE S == STACK_SIZE
<1>0. S \in Nat
  BY ExampleAssumption
<1>1. \A j \in 0 .. S : /\ PoppedOnce(j) \in Seq(Int) /\ Len(PoppedOnce(j)) = S - j
                        /\ \A k \in 1 .. S - j : PoppedOnce(j)[k] = k - S
  BY <1>0 DEF PoppedOnce
<1>2. \A j \in 0 .. S : /\ PoppedTwice(j) \in Seq(Int) /\ Len(PoppedTwice(j)) = 2 * S - j
                        /\ \A k \in 1 .. 2 * S - j : PoppedTwice(j)[k] = IF k <= S THEN k - S ELSE k - 2 * S
  <2> SUFFICES ASSUME NEW j \in 0 .. S
               PROVE /\ PoppedTwice(j) \in Seq(Int) /\ Len(PoppedTwice(j)) = 2 * S - j
                     /\ \A k \in 1 .. 2 * S - j : PoppedTwice(j)[k] = IF k <= S THEN k - S ELSE k - 2 * S
    OBVIOUS
  <2>1. 2 * S - j \in Nat
    BY <1>0
  <2> QED BY <1>0, <2>1 DEF PoppedTwice
<1>3. PoppedOnce(S) = <<>>
  <2>1. PoppedOnce(S) \in Seq(Int) /\ Len(PoppedOnce(S)) = 0
    BY <1>0, <1>1
  <2> QED BY <2>1, EmptySeq
<1>4. PoppedTwice(S) = PoppedOnce(0)
  <2> DEFINE s == PoppedTwice(S)
             t == PoppedOnce(0)
  <2>1. s \in Seq(Int) /\ Len(s) = S /\ \A k \in 1 .. S : s[k] = k - S
    BY <1>0, <1>2
  <2>2. t \in Seq(Int) /\ Len(t) = S /\ \A k \in 1 .. S : t[k] = k - S
    BY <1>0, <1>1
  <2> HIDE DEF s, t
  <2>3. s = t
    BY <1>0, <2>1, <2>2, SeqEqual
  <2> QED BY <2>3 DEF s, t
<1>5. PoppedTwice(0) = X!Downward(S) \o X!Downward(S)
  <2> DEFINE u == X!Downward(S)
             s == PoppedTwice(0)
             t == u \o u
  <2>1. u \in Seq(Int) /\ Len(u) = S /\ \A k \in 1 .. S : u[k] = k - S
    BY <1>0 DEF X!Downward
  <2>2. s \in Seq(Int) /\ Len(s) = S + S /\ \A k \in 1 .. S + S : s[k] = IF k <= S THEN k - S ELSE k - (S + S)
    BY <1>0, <1>2
  <2> HIDE DEF u
  <2>3. t \in Seq(Int) /\ Len(t) = S + S /\ \A k \in 1 .. S + S : t[k] = IF k <= S THEN u[k] ELSE u[k - S]
    BY <2>1, ConcatProperties
  <2> HIDE DEF s, t
  <2>4. ASSUME NEW k \in 1 .. S + S PROVE s[k] = t[k]
    <3>1. k \in 1 .. S \/ (k > S /\ k - S \in 1 .. S)
      BY <1>0
    <3> QED BY <1>0, <2>1, <2>2, <2>3, <3>1
  <2>5. s = t
    BY <2>2, <2>3, <2>4, SeqEqual
  <2> QED BY <2>5 DEF s, t, u
<1>6. ASSUME NEW h \in 1 .. S PROVE Append(PoppedOnce(h), 1 - h) = PoppedOnce(h - 1)
  <2> DEFINE u == PoppedOnce(h)
             s == Append(u, 1 - h)
             t == PoppedOnce(h - 1)
  <2>1. u \in Seq(Int) /\ Len(u) = S - h /\ \A k \in 1 .. S - h : u[k] = k - S
    BY <1>0, <1>1
  <2>2. t \in Seq(Int) /\ Len(t) = S - h + 1 /\ \A k \in 1 .. S - h + 1 : t[k] = k - S
    <3>1. h - 1 \in 0 .. S /\ S - (h - 1) = S - h + 1
      BY <1>0
    <3> QED BY <1>1, <3>1
  <2> HIDE DEF u
  <2>3. s \in Seq(Int) /\ Len(s) = S - h + 1 /\ (\A k \in 1 .. S - h : s[k] = u[k]) /\ s[S - h + 1] = 1 - h
    BY <1>0, <2>1, AppendProperties
  <2> HIDE DEF s, t
  <2>4. ASSUME NEW k \in 1 .. S - h + 1 PROVE s[k] = t[k]
    <3>1. k \in 1 .. S - h \/ k = S - h + 1
      BY <1>0
    <3>2. t[k] = k - S
      BY <2>2
    <3>3. k \in 1 .. S - h => s[k] = k - S
      BY <2>1, <2>3
    <3>4. k = S - h + 1 => s[k] = 1 - h /\ k - S = 1 - h
      BY <1>0, <2>3
    <3> QED BY <3>1, <3>2, <3>3, <3>4
  <2>5. s = t
    BY <2>2, <2>3, <2>4, SeqEqual
  <2> QED BY <2>5 DEF s, t, u
<1>7. ASSUME NEW h \in 1 .. S PROVE Append(PoppedTwice(h), 1 - h) = PoppedTwice(h - 1)
  <2> DEFINE u == PoppedTwice(h)
             s == Append(u, 1 - h)
             t == PoppedTwice(h - 1)
             V(k) == IF k <= S THEN k - S ELSE k - 2 * S
  <2>0. 2 * S - h \in Nat /\ 2 * S - h >= S
    BY <1>0
  <2>1. u \in Seq(Int) /\ Len(u) = 2 * S - h /\ \A k \in 1 .. 2 * S - h : u[k] = V(k)
    BY <1>0, <1>2
  <2>2. t \in Seq(Int) /\ Len(t) = 2 * S - h + 1 /\ \A k \in 1 .. 2 * S - h + 1 : t[k] = V(k)
    <3>1. h - 1 \in 0 .. S /\ 2 * S - (h - 1) = 2 * S - h + 1
      BY <1>0
    <3> QED BY <1>2, <3>1
  <2> HIDE DEF u
  <2>3. /\ s \in Seq(Int) /\ Len(s) = 2 * S - h + 1 /\ (\A k \in 1 .. 2 * S - h : s[k] = u[k])
        /\ s[2 * S - h + 1] = 1 - h
    BY <1>0, <2>0, <2>1, AppendProperties
  <2> HIDE DEF s, t
  <2>4. V(2 * S - h + 1) = 1 - h
    BY <1>0, <2>0
  <2>5. \A k \in 1 .. 2 * S - h + 1 : s[k] = t[k]
    <3> SUFFICES ASSUME NEW k \in 1 .. 2 * S - h + 1 PROVE s[k] = t[k]
      OBVIOUS
    <3> HIDE DEF V
    <3>1. k \in 1 .. 2 * S - h \/ k = 2 * S - h + 1
      BY <2>0
    <3> QED BY <2>1, <2>2, <2>3, <2>4, <3>1
  <2>6. s = t
    BY <2>0, <2>2, <2>3, <2>5, SeqEqual
  <2> QED BY <2>6 DEF s, t, u
<1> QED BY <1>3, <1>4, <1>5, <1>6, <1>7

LEMMA KeepsStackTypes ==
    ASSUME Standing, Family, Stacks, NEW p \in X!Procs, Moved(p)
    PROVE /\ stack' \in [X!Segments -> [ready : BOOLEAN, items : Seq(Int)]]
          /\ \A s \in X!Segments : Height(s)' <= STACK_SIZE
          /\ (stack' = stack /\ got' = got) \/ (Reached(p) /\ X!Op(p) \in OnText \cup OnStack)
<1> DEFINE a == X!Arg(p)
           Sized(t) == \A s \in X!Segments : Len(t[s].items) <= STACK_SIZE
           St == [X!Segments -> [ready : BOOLEAN, items : Seq(Int)]]
<1>0. stack \in St /\ Sized(stack) /\ STACK_SIZE \in Nat /\ \A s \in X!Segments : Len(stack[s].items) \in Nat
  <2>1. stack \in St /\ Sized(stack)
    BY DEF Stacks, Height
  <2> QED BY <2>1, LenProperties, ExampleAssumption
<1>1. Reached(p) /\ X!Op(p) \in OnStack => a \in X!Segments
  BY Grounds DEF WellMade, Typed, Reached, Call
<1>2. "heap" \in X!Segments
  BY DEF X!Segments
<1>3. ASSUME NEW s \in X!Segments PROVE [stack EXCEPT ![s] = X!Empty] \in St /\ Sized([stack EXCEPT ![s] = X!Empty])
  BY <1>0, <1>3, EmptySeq DEF X!Empty
<1>4. CASE Stays(p) /\ X!Op(p) = "push_all" /\ ~X!is_full(a) /\ stack' = [stack EXCEPT ![a].items = Append(@, -Len(@))]
  <2>1. a \in X!Segments /\ Reached(p)
    BY <1>1, <1>4, Grows DEF OnStack
  <2> DEFINE t == stack[a].items
  <2>2. t \in Seq(Int) /\ Len(t) < STACK_SIZE /\ Len(t) \in Nat
    BY <1>0, <1>4, <2>1 DEF X!is_full
  <2> HIDE DEF a
  <2>3. Append(t, -Len(t)) \in Seq(Int) /\ Len(Append(t, -Len(t))) = Len(t) + 1
    <3> HIDE DEF t
    <3> QED BY <2>2, AppendProperties
  <2>4. stack' = [stack EXCEPT ![a].items = Append(t, -Len(t))]
    BY <1>4, <2>1, <1>0
  <2>5. stack' \in St
    BY <1>0, <2>1, <2>3, <2>4
  <2>6. \A s \in X!Segments : stack'[s].items = IF s = a THEN Append(t, -Len(t)) ELSE stack[s].items
    BY <1>0, <2>1, <2>4
  <2>7. Len(Append(t, -Len(t))) <= STACK_SIZE
    <3> HIDE DEF t
    <3> QED BY <1>0, <2>2, <2>3
  <2>8. Sized(stack')
    <3> HIDE DEF t
    <3> QED BY <1>0, <2>6, <2>7
  <2> QED BY <1>4, <2>1, <2>5, <2>8 DEF Height, OnStack
<1>5. CASE Stays(p) /\ X!Op(p) = "pop_all" /\ ~X!is_empty(a) /\ stack' = [stack EXCEPT ![a].items = X!Front(@)]
  <2>1. a \in X!Segments /\ Reached(p)
    BY <1>1, <1>5, Grows DEF OnStack
  <2> DEFINE t == stack[a].items
  <2>2. t \in Seq(Int) /\ Len(t) <= STACK_SIZE /\ Len(t) \in Nat /\ t # <<>>
    BY <1>0, <1>5, <2>1 DEF X!is_empty
  <2> HIDE DEF a
  <2>3. X!Front(t) \in Seq(Int) /\ Len(X!Front(t)) = Len(t) - 1
    <3> HIDE DEF t
    <3>1. Len(t) - 1 \in Nat
      BY <2>2, EmptySeq
    <3>2. \A i \in 1 .. Len(t) - 1 : i \in 1 .. Len(t)
      BY <2>2
    <3>3. \A i \in 1 .. Len(t) - 1 : t[i] \in Int
      BY <2>2, <3>2, ElementOfSeq
    <3> DEFINE i == Len(t) - 1
    <3>4. i \in Nat /\ \A j \in 1 .. i : t[j] \in Int
      BY <3>1, <3>3
    <3> HIDE DEF i
    <3>5. SubSeq(t, 1, i) \in Seq(Int) /\ Len(SubSeq(t, 1, i)) = i
      BY <3>4, SubSeqProperties
    <3> QED BY <3>5 DEF X!Front, i
  <2>4. stack' = [stack EXCEPT ![a].items = X!Front(t)]
    BY <1>5, <2>1, <1>0
  <2>5. stack' \in St
    BY <1>0, <2>1, <2>3, <2>4
  <2>6. \A s \in X!Segments : stack'[s].items = IF s = a THEN X!Front(t) ELSE stack[s].items
    BY <1>0, <2>1, <2>4
  <2>7. Len(X!Front(t)) <= STACK_SIZE
    <3> HIDE DEF t
    <3> QED BY <1>0, <2>2, <2>3
  <2>8. Sized(stack')
    <3> HIDE DEF t
    <3> QED BY <1>0, <2>6, <2>7
  <2> QED BY <1>5, <2>1, <2>5, <2>8 DEF Height, OnStack
<1>6. CASE stack' = stack /\ got' = got
  BY <1>0, <1>6 DEF Height
<1>7. CASE Does(p)
  <2>1. Reached(p) /\ DoesToMemory(p, X!Op(p), a)
    BY <1>7, Grows DEF Does
  <2>2. \/ stack' = stack /\ X!Op(p) \notin {"create_stack", "init_shm_stack"}
        \/ stack' = [stack EXCEPT !["heap"] = X!Empty] /\ X!Op(p) = "create_stack"
        \/ stack' = [stack EXCEPT ![a] = X!Empty] /\ X!Op(p) = "init_shm_stack"
    BY <2>1 DEF DoesToMemory
  <2>3. stack' \in St /\ Sized(stack')
    BY <1>0, <1>1, <1>2, <1>3, <2>1, <2>2 DEF OnStack
  <2>4. got' = got \/ X!Op(p) = "read"
    BY <2>1 DEF DoesToMemory
  <2> QED BY <2>1, <2>2, <2>3, <2>4 DEF Height, OnText, OnStack
<1> QED BY <1>4, <1>5, <1>6, <1>7 DEF Moved, Dies, Passes, LeavesOut, Stays, Said, X!Header, X!Piece, X!memory

(* Of shm_struct, while nobody fails.                                      *)
LEMMA KeepsStacks ==
    ASSUME Standing, Family, Rest, Held, Stacks, NEW p \in X!Procs, Moved(p)
    PROVE Stacks'
<1>0. program' = program
  BY Grows
<1>1. CASE program # "shm_struct"
  BY <1>0, <1>1, KeepsStackTypes DEF Stacks, Height
<1>2. CASE program = "shm_struct"
  <2> SUFFICES ASSUME X!NobodyFailed' PROVE MainStacks' /\ ChildStacks'
    BY KeepsStackTypes DEF Stacks, Height
  <2> DEFINE m == Script("shm_struct", "main")
             d == Script("shm_struct", "child1")
             S == STACK_SIZE
             h == Height("heap")
             b == Height("buf")
  <2>1. X!NobodyFailed /\ NoFault /\ ~Passes(p) /\ ~LeavesOut(p)
    BY FineBefore, Blames
  <2>2. MainStacks /\ ChildStacks
    BY <1>2, <2>1 DEF Stacks
  <2>3. /\ stack \in [X!Segments -> [ready : BOOLEAN, items : Seq(Int)]]
        /\ S \in Nat /\ h \in 0 .. S /\ b \in 0 .. S
        /\ "main" \in X!Procs /\ "child1" \in X!Procs /\ "child1" \in Children
        /\ "heap" \in X!Segments /\ "buf" \in X!Segments
    <3>1. stack \in [X!Segments -> [ready : BOOLEAN, items : Seq(Int)]] /\ h <= S /\ b <= S
      BY DEF Stacks, X!Segments
    <3>2. h \in Nat /\ b \in Nat
      BY <3>1, LenProperties DEF Height, X!Segments
    <3> QED BY <3>1, <3>2, ExampleAssumption DEF X!Procs, Children, X!Segments
  <2>4. at["main"] \in 1 .. 12 /\ at["child1"] \in 1 .. 5
    <3>1. Len(m) = 11 /\ Len(d) = 4
      BY ShmStructCalls
    <3>2. at["main"] \in 1 .. Len(m) + 1 /\ at["child1"] \in 1 .. Len(d) + 1
      BY <1>2, <2>3 DEF Standing
    <3> HIDE DEF m, d
    <3> QED BY <3>1, <3>2
  <2>5. life["main"] \in {"runs", "exited"} /\ life["child1"] \in {"unborn", "runs", "exited"}
    BY <2>1, <2>3 DEF X!NobodyFailed, Standing, Ways
  <2>6. life["main"] = "runs" /\ at["main"] >= 9 => life["child1"] = "exited" /\ at["child1"] = 5
    <3>1. SUFFICES ASSUME life["main"] = "runs", at["main"] >= 9
                   PROVE life["child1"] = "exited" /\ at["child1"] = 5
      OBVIOUS
    <3>2. 8 \in Behind["main"] /\ m[8] = <<"waitpid", "child1">>
      <4>1. Behind["main"] = 1 .. at["main"] - 1
        BY <2>3, <3>1, Grounds
      <4>2. 8 \in Behind["main"]
        BY ONLY <2>4, <3>1, <4>1
      <4> QED BY <4>2, ShmStructCalls
    <3>3. life["child1"] \notin {"unborn", "runs"}
      BY <1>2, <3>2 DEF Family, Call
    <3>4. Len(d) = 4 /\ at["child1"] = Len(d) + 1
      <4>1. at["child1"] = Len(d) + 1
        BY <1>2, <2>3, <2>5, <3>3, Grounds
      <4> QED BY <4>1, ShmStructCalls
    <3> HIDE DEF d
    <3> QED BY <2>5, <3>3, <3>4
  <2>7. CASE p = "main"
    <3>1. Reached(p) => /\ X!Op(p) = m[at["main"]][1] /\ X!Arg(p) = m[at["main"]][2] /\ at["main"] \in 1 .. 11
      BY <1>2, <2>7, ShmStructCalls DEF Reached, Call
    <3>2. \/ at'["child1"] = at["child1"] /\ life'["child1"] = life["child1"]
          \/ /\ at["main"] = 6 /\ at'["main"] = 7 /\ Does(p)
             /\ at'["child1"] = 1 /\ life'["child1"] = "runs"
      <4>1. X!Op(p) = "fork" /\ Reached(p) => at["main"] = 6
        BY <3>1, ShmStructCalls DEF OnStack
      <4> QED BY <1>2, <2>7, <4>1, OneChild
    <3>3. CASE Dies(p)
      <4>1. /\ life'["main"] = "exited" /\ at'["main"] = at["main"] /\ at["main"] = 12
            /\ stack' = stack /\ got' = got
        <5>1. life'["main"] = "exited"
          BY <2>3, <2>7, <3>3, Grows DEF X!NobodyFailed
        <5>2. Len(m) = 11
          BY ShmStructCalls
        <5>3. at'["main"] = at["main"] /\ at["main"] = Len(m) + 1
          BY <1>2, <2>7, <3>3, <5>1, Grows
        <5>4. at["main"] = 12
          <6> HIDE DEF m
          <6> QED BY ONLY <5>2, <5>3
        <5> QED BY <3>3, <5>1, <5>3, <5>4 DEF Dies, Said
      <4> QED BY <2>2, <3>2, <4>1 DEF MainStacks, ChildStacks, Height
    <3>4. CASE Stays(p)
      <4>1. /\ Reached(p) /\ life'["main"] = "runs" /\ life["main"] = "runs" /\ at'["main"] = at["main"]
            /\ at'["child1"] = at["child1"] /\ life'["child1"] = life["child1"]
        <5>1. /\ Reached(p) /\ life'["main"] = "runs" /\ at'["main"] = at["main"] /\ life["main"] = "runs"
          BY <2>7, <3>4, Grows DEF Stays
        <5>2. life' = life
          BY <3>4 DEF Stays
        <5> QED BY <3>2, <5>1, <5>2
      <4>2. CASE stack' = stack /\ got' = got
        BY <2>2, <4>1, <4>2 DEF MainStacks, ChildStacks, Height
      <4>3. CASE X!Op(p) = "push_all"
        <5>1. at["main"] = 2 /\ X!Arg(p) = "heap"
          BY <3>1, <4>1, <4>3, ShmStructCalls DEF OnStack
        <5>2. stack["heap"].items = Up(h) /\ got = <<>>
          BY <2>2, <4>1, <5>1 DEF MainStacks
        <5>3. stack' = [stack EXCEPT !["heap"].items = Append(@, -Len(@))] /\ got' = got
          BY <3>4, <4>3, <5>1 DEF Stays
        <5>4. stack'["heap"].items = Append(Up(h), -h) /\ stack'["buf"] = stack["buf"]
          BY <2>3, <5>2, <5>3 DEF Height
        <5>5. stack'["heap"].items = Up(h + 1) /\ Len(Up(h + 1)) = h + 1
          <6>1. h \in Nat /\ h + 1 \in Nat
            BY <2>3
          <6> HIDE DEF h
          <6> QED BY <5>4, <6>1, Pushed
        <5>6. MainStacks'
          BY <4>1, <5>1, <5>2, <5>3, <5>5 DEF MainStacks, Height
        <5>7. ChildStacks'
          BY <2>2, <4>1, <5>4 DEF ChildStacks, Height
        <5> QED BY <5>6, <5>7
      <4>4. CASE X!Op(p) = "pop_all"
        <5>1. /\ \/ at["main"] = 3 /\ X!Arg(p) = "heap"
                 \/ at["main"] = 9 /\ X!Arg(p) = "buf"
          BY <3>1, <4>1, <4>4, ShmStructCalls DEF OnStack
        <5> DEFINE a == X!Arg(p)
                   g == Height(a)
        <5>2. /\ stack[a].items = Up(g) /\ g \in 1 .. S
              /\ got' = Append(got, X!Last(stack[a].items)) /\ stack' = [stack EXCEPT ![a].items = X!Front(@)]
          <6>1. /\ stack[a].items # <<>>
                /\ got' = Append(got, X!Last(stack[a].items)) /\ stack' = [stack EXCEPT ![a].items = X!Front(@)]
            BY <3>4, <4>4 DEF Stays, X!is_empty
          <6>2. stack[a].items = Up(g) /\ g \in 0 .. S
            BY <2>2, <2>3, <4>1, <5>1 DEF MainStacks
          <6>3. g # 0
            BY <2>3, <5>1, <6>1, EmptySeq DEF Height
          <6> QED BY <2>3, <6>1, <6>2, <6>3
        <5>3. a \in {"heap", "buf"}
          BY <5>1
        <5> HIDE DEF a
        <5>4. stack'[a].items = Up(g - 1) /\ Len(Up(g - 1)) = g - 1 /\ got' = Append(got, 1 - g)
          <6>1. stack'[a].items = X!Front(stack[a].items)
            BY <2>3, <5>2, <5>3
          <6>2. g \in Nat /\ g > 0 /\ g - 1 \in Nat
            BY <2>3, <5>2
          <6> HIDE DEF g
          <6> QED BY <5>2, <6>1, <6>2, Pushed
        <5>5. CASE at["main"] = 3
          <6>0. a = "heap"
            BY <5>1, <5>5 DEF a
          <6>1. got' = PoppedOnce(g - 1)
            <7>1. got = PoppedOnce(g)
              BY <2>2, <4>1, <5>5, <6>0 DEF MainStacks
            <7> HIDE DEF g
            <7> QED BY <5>2, <5>4, <7>1, PoppedOff
          <6>2. stack'["buf"] = stack["buf"]
            BY <2>3, <5>2, <6>0
          <6>3. MainStacks'
            BY <4>1, <5>4, <5>5, <6>0, <6>1 DEF MainStacks, Height
          <6>4. ChildStacks'
            BY <2>2, <4>1, <6>2 DEF ChildStacks, Height
          <6> QED BY <6>3, <6>4
        <5>6. CASE at["main"] = 9
          <6>0. a = "buf"
            BY <5>1, <5>6 DEF a
          <6>1. got' = PoppedTwice(g - 1)
            <7>1. got = PoppedTwice(g)
              BY <2>2, <4>1, <5>6, <6>0 DEF MainStacks
            <7> HIDE DEF g
            <7> QED BY <5>2, <5>4, <7>1, PoppedOff
          <6>2. MainStacks'
            BY <4>1, <5>4, <5>6, <6>0, <6>1 DEF MainStacks, Height
          <6>3. ChildStacks'
            BY <2>6, <4>1, <5>6 DEF ChildStacks
          <6> QED BY <6>2, <6>3
        <5> QED BY <5>1, <5>5, <5>6
      <4> QED BY <3>4, <4>2, <4>3, <4>4 DEF Stays, X!Header, X!Piece, X!memory
    <3>5. CASE Does(p)
      <4>1. /\ Reached(p) /\ life'["main"] = "runs" /\ life["main"] = "runs" /\ at'["main"] = at["main"] + 1
            /\ at["main"] \in 1 .. 11
        BY <2>7, <3>1, <3>5, Grows DEF Does
      <4>2. DoesToMemory(p, m[at["main"]][1], m[at["main"]][2])
        BY <3>1, <3>5, <4>1 DEF Does
      <4>3. at["main"] = 6 => at'["child1"] = 1 \/ (at'["child1"] = at["child1"] /\ life'["child1"] = life["child1"])
        BY <3>2
      <4>4. at["main"] # 6 => at'["child1"] = at["child1"] /\ life'["child1"] = life["child1"]
        BY <3>2
      <4>5. CASE at["main"] = 1
        <5>1. m[at["main"]] = <<"create_stack", "heap">>
          BY <4>5, ShmStructCalls
        <5>2. stack' = [stack EXCEPT !["heap"] = X!Empty] /\ got' = got
          BY <4>2, <5>1 DEF DoesToMemory
        <5>3. stack'["heap"].items = <<>> /\ stack'["buf"] = stack["buf"]
          BY <2>3, <5>2 DEF X!Empty
        <5>4. Up(0) = <<>> /\ Len(<<>>) = 0
          BY Pushed, EmptySeq
        <5>5. MainStacks'
          BY <2>2, <4>1, <4>5, <5>2, <5>3, <5>4 DEF MainStacks, Height
        <5>6. ChildStacks'
          BY <2>2, <4>1, <4>4, <4>5, <5>3 DEF ChildStacks, Height
        <5> QED BY <5>5, <5>6
      <4>6. CASE at["main"] \in 2 .. 11
        <5>1. m[at["main"]][1] \notin {"create_stack", "init_shm_stack", "read"}
          BY <4>1, <4>6, ShmStructCalls DEF OnStack, OnText
        <5>2. stack' = stack /\ got' = got
          BY <4>2, <5>1 DEF DoesToMemory
        <5>3. ChildStacks'
          <6>1. at["main"] = 6 \/ at["main"] # 6
            OBVIOUS
          <6>2. CASE at["main"] # 6
            BY <2>2, <2>4, <4>1, <4>4, <5>2, <6>2 DEF ChildStacks, Height
          <6>3. CASE at["main"] = 6
            BY <2>2, <2>4, <4>1, <4>3, <5>2, <6>3 DEF ChildStacks, Height
          <6> QED BY <6>2, <6>3
        <5>4. MainStacks'
          <6>1. CASE at["main"] = 2
            <7>1. m[at["main"]] = <<"push_all", "heap">>
              BY <6>1, ShmStructCalls
            <7>2. h = S
              BY <4>2, <7>1 DEF DoesToMemory, X!is_full, Height
            <7>3. got = PoppedOnce(S) /\ stack["heap"].items = Up(h)
              BY <2>2, <4>1, <6>1, PoppedOff DEF MainStacks
            <7> QED BY <4>1, <5>2, <6>1, <7>2, <7>3 DEF MainStacks, Height
          <6>2. CASE at["main"] = 3
            <7>1. m[at["main"]] = <<"pop_all", "heap">>
              BY <6>2, ShmStructCalls
            <7>2. h = 0
              BY <4>2, <7>1, EmptySeq DEF DoesToMemory, X!is_empty, Height
            <7>3. got = PoppedOnce(0)
              BY <2>2, <4>1, <6>2, <7>2 DEF MainStacks
            <7> QED BY <4>1, <5>2, <6>2, <7>3 DEF MainStacks, Height
          <6>3. CASE at["main"] \in 4 .. 7
            BY <2>2, <4>1, <5>2, <6>3 DEF MainStacks, Height
          <6>4. CASE at["main"] = 8
            <7>1. m[at["main"]] = <<"waitpid", "child1">> /\ X!Op(p) = "waitpid" /\ X!Arg(p) = "child1"
              BY <3>1, <4>1, <6>4, ShmStructCalls
            <7>2. life["child1"] \notin {"unborn", "runs"}
              BY <3>5, <7>1 DEF Does, DoesToOthers
            <7>3. life["child1"] = "exited" /\ at["child1"] = 5
              <8>1. Len(d) = 4
                BY ShmStructCalls
              <8>2. at["child1"] = Len(d) + 1
                BY <1>2, <2>3, <2>5, <7>2, Grounds
              <8> HIDE DEF d
              <8> QED BY <2>5, <7>2, <8>1, <8>2
            <7>4. stack["buf"].items = Up(S)
              BY <2>2, <6>4, <7>3 DEF ChildStacks
            <7>5. Height("buf") = S
              BY <2>3, <7>4, Pushed DEF Height
            <7>6. got = PoppedTwice(S)
              BY <2>2, <4>1, <6>4, PoppedOff DEF MainStacks
            <7> QED BY <4>1, <5>2, <6>4, <7>4, <7>5, <7>6 DEF MainStacks, Height
          <6>5. CASE at["main"] = 9
            <7>1. m[at["main"]] = <<"pop_all", "buf">>
              BY <6>5, ShmStructCalls
            <7>2. b = 0
              BY <4>2, <7>1, EmptySeq DEF DoesToMemory, X!is_empty, Height
            <7>3. got = PoppedTwice(0)
              BY <2>2, <4>1, <6>5, <7>2 DEF MainStacks
            <7> QED BY <4>1, <5>2, <6>5, <7>3 DEF MainStacks, Height
          <6>6. CASE at["main"] \in {10, 11}
            BY <2>2, <4>1, <5>2, <6>6 DEF MainStacks, Height
          <6> QED BY <4>6, <6>1, <6>2, <6>3, <6>4, <6>5, <6>6
        <5> QED BY <5>3, <5>4
      <4> QED BY <4>1, <4>5, <4>6
    <3> QED BY <2>1, <3>3, <3>4, <3>5 DEF Moved
  <2>8. CASE p = "child1"
    <3>1. Reached(p) => X!Op(p) = d[at[p]][1] /\ X!Arg(p) = d[at[p]][2] /\ at[p] \in 1 .. 4
      BY <1>2, <2>8, ShmStructCalls DEF Reached, Call
    <3>2. at'["main"] = at["main"] /\ life'["main"] = life["main"] /\ life[p] = "runs"
      BY <1>2, <2>8, OneChild
    <3>3. life["main"] = "runs" => at["main"] \in 1 .. 8
      BY <2>4, <2>6, <2>8, <3>2
    <3>4. Reached(p) => X!Op(p) \notin {"read", "pop_all", "create_stack"}
      BY <3>1, ShmStructCalls DEF OnStack, OnText
    <3>5. got' = got /\ stack'["heap"] = stack["heap"]
      <4>1. CASE stack' = stack /\ got' = got
        BY <4>1
      <4>2. CASE Reached(p) /\ X!Op(p) \in OnText \cup OnStack
        <5>1. X!Arg(p) = "buf"
          BY <3>1, <3>4, <4>2, ShmStructCalls DEF OnStack, OnText
        <5>2. CASE Stays(p)
          BY <2>3, <3>4, <4>2, <5>1, <5>2 DEF Stays, OnText, OnStack
        <5>3. CASE Does(p)
          BY <2>3, <3>4, <4>2, <5>1, <5>3 DEF Does, DoesToMemory
        <5>4. CASE Dies(p)
          BY <5>4 DEF Dies, Said
        <5> QED BY <2>1, <5>2, <5>3, <5>4 DEF Moved
      <4> QED BY <4>1, <4>2, KeepsStackTypes
    <3>6. MainStacks'
      <4>1. CASE life["main"] = "runs"
        BY <2>2, <3>2, <3>3, <3>5, <4>1 DEF MainStacks, Height
      <4>2. CASE life["main"] # "runs"
        BY <2>2, <3>2, <3>5, <4>2 DEF MainStacks
      <4> QED BY <4>1, <4>2
    <3>7. CASE Dies(p)
      <4>1. life'[p] = "exited" /\ at'[p] = at[p] /\ stack' = stack
        <5>1. life'[p] = "exited"
          BY <2>3, <2>8, <3>7, Grows DEF X!NobodyFailed
        <5> QED BY <3>7, <5>1, Grows DEF Dies, Said
      <4>2. ChildStacks'
        BY <2>2, <2>8, <3>2, <4>1 DEF ChildStacks, Height
      <4> QED BY <3>6, <4>2
    <3>8. CASE Stays(p)
      <4>1. Reached(p) /\ life'[p] = "runs" /\ at'[p] = at[p]
        BY <3>8, Grows
      <4>2. CASE stack' = stack
        <5>1. ChildStacks'
          BY <2>2, <2>8, <3>2, <4>1, <4>2 DEF ChildStacks, Height
        <5> QED BY <3>6, <5>1
      <4>3. CASE stack' # stack
        <5>1. X!Op(p) = "push_all" /\ at[p] = 3 /\ X!Arg(p) = "buf"
          <6>1. X!Op(p) = "push_all"
            BY <3>4, <3>8, <4>1, <4>3 DEF Stays, X!Header, X!Piece, X!memory
          <6> QED BY <3>1, <4>1, <6>1, ShmStructCalls DEF OnStack
        <5>2. stack' = [stack EXCEPT !["buf"].items = Append(@, -Len(@))]
          BY <3>8, <5>1 DEF Stays
        <5>3. stack["buf"].items = Up(b)
          BY <2>2, <2>8, <3>2, <5>1 DEF ChildStacks
        <5>4. stack'["buf"].items = Append(Up(b), -b)
          BY <2>3, <5>2, <5>3 DEF Height
        <5>5. stack'["buf"].items = Up(b + 1) /\ Len(Up(b + 1)) = b + 1
          <6>1. b \in Nat /\ b + 1 \in Nat
            BY <2>3
          <6> HIDE DEF b
          <6> QED BY <5>4, <6>1, Pushed
        <5>6. ChildStacks'
          BY <2>8, <4>1, <5>1, <5>5 DEF ChildStacks, Height
        <5> QED BY <3>6, <5>6
      <4> QED BY <4>2, <4>3
    <3>9. CASE Does(p)
      <4>1. Reached(p) /\ life'[p] = "runs" /\ at'[p] = at[p] + 1 /\ at[p] \in 1 .. 4
        BY <3>1, <3>9, Grows
      <4>2. DoesToMemory(p, d[at[p]][1], d[at[p]][2])
        BY <3>1, <3>9, <4>1 DEF Does
      <4>3. CASE at[p] = 2
        <5>1. d[at[p]] = <<"init_shm_stack", "buf">>
          BY <4>3, ShmStructCalls
        <5>2. stack' = [stack EXCEPT !["buf"] = X!Empty]
          <6>1. DoesToMemory(p, "init_shm_stack", "buf")
            BY <4>2, <5>1
          <6> QED BY <6>1 DEF DoesToMemory
        <5>3. stack'["buf"].items = <<>>
          BY <2>3, <5>2 DEF X!Empty
        <5>4. Up(0) = <<>> /\ Len(<<>>) = 0
          BY Pushed, EmptySeq
        <5>5. ChildStacks'
          BY <2>8, <4>1, <4>3, <5>3, <5>4 DEF ChildStacks, Height
        <5> QED BY <3>6, <5>5
      <4>4. CASE at[p] # 2
        <5>1. d[at[p]][1] \notin {"create_stack", "init_shm_stack"}
          BY <4>1, <4>4, ShmStructCalls DEF OnStack
        <5>2. stack' = stack
          BY <4>2, <5>1 DEF DoesToMemory
        <5>3. CASE at[p] = 3
          <6>1. d[at[p]] = <<"push_all", "buf">>
            BY <5>3, ShmStructCalls
          <6>2. b = S
            BY <4>2, <6>1 DEF DoesToMemory, X!is_full, Height
          <6>3. stack["buf"].items = Up(b)
            BY <2>2, <2>8, <3>2, <5>3 DEF ChildStacks
          <6>4. ChildStacks'
            BY <2>8, <4>1, <5>2, <5>3, <6>2, <6>3 DEF ChildStacks, Height
          <6> QED BY <3>6, <6>4
        <5>4. CASE at[p] \in {1, 4}
          <6>1. ChildStacks'
            BY <2>2, <2>8, <3>2, <4>1, <5>2, <5>4 DEF ChildStacks, Height
          <6> QED BY <3>6, <6>1
        <5> QED BY <4>1, <4>4, <5>3, <5>4
      <4> QED BY <4>3, <4>4
    <3> QED BY <2>1, <3>7, <3>8, <3>9 DEF Moved
  <2> QED BY <1>2, <2>7, <2>8, OneChild
<1> QED BY <1>1, <1>2

-----------------------------------------------------------------------------
(* The invariant of the small programs is one.                             *)
LEMMA ExampleBegins == ASSUME X!Init PROVE XInv
<1>1. /\ program \in DOMAIN X!Programs /\ WellMade(program)
      /\ todo = [p \in X!Procs |-> IF p = "main" THEN Script(program, "main") ELSE <<>>]
      /\ life = [p \in X!Procs |-> IF p = "main" THEN "runs" ELSE "unborn"]
      /\ "main" \in X!Procs /\ Children \subseteq X!Procs \ {"main"}
  BY AllMade DEF X!Init, Script, X!Procs, Children
<1>2. \A p \in X!Procs : /\ Script(program, p) \in Seq(Words) /\ Len(Script(program, p)) \in Nat
                         /\ SubSeq(Script(program, p), 1, Len(Script(program, p))) = Script(program, p)
                         /\ SubSeq(Script(program, p), Len(Script(program, p)) + 1, Len(Script(program, p))) = <<>>
  <2>1. ASSUME NEW p \in X!Procs PROVE Script(program, p) \in Seq(Words)
    BY <1>1 DEF WellMade, Listed
  <2>2. ASSUME NEW p \in X!Procs
        PROVE /\ Len(Script(program, p)) \in Nat
              /\ SubSeq(Script(program, p), 1, Len(Script(program, p))) = Script(program, p)
    BY <2>1, LenProperties, SubSeqFull
  <2>3. ASSUME NEW p \in X!Procs
        PROVE SubSeq(Script(program, p), Len(Script(program, p)) + 1, Len(Script(program, p))) = <<>>
    BY <2>2, SubSeqEmpty
  <2> QED BY <2>1, <2>2, <2>3
<1>3. \A p \in X!Procs : at[p] = IF p = "main" THEN 1 ELSE Len(Script(program, p)) + 1
  <2>1. Len(<<>>) = 0
    OBVIOUS
  <2>2. ASSUME NEW p \in X!Procs
        PROVE at[p] = Len(Script(program, p)) - Len(IF p = "main" THEN Script(program, "main") ELSE <<>>) + 1
    BY <1>1 DEF at
  <2>3. ASSUME NEW p \in X!Procs, p = "main" PROVE at[p] = 1
    <3>1. at[p] = Len(Script(program, p)) - Len(Script(program, p)) + 1 /\ Len(Script(program, p)) \in Nat
      BY <1>2, <2>2, <2>3
    <3> QED BY <3>1
  <2>4. ASSUME NEW p \in X!Procs, p # "main" PROVE at[p] = Len(Script(program, p)) + 1
    <3>1. at[p] = Len(Script(program, p)) - 0 + 1 /\ Len(Script(program, p)) \in Nat
      BY <1>2, <2>1, <2>2, <2>4
    <3> QED BY <3>1
  <2> QED BY <2>3, <2>4
<1>4. \A p \in X!Procs : Behind[p] = {}
  BY <1>1, <1>3 DEF Behind
<1>5. Standing
  <2>1. \A p \in X!Procs : at[p] \in 1 .. Len(Script(program, p)) + 1
    BY <1>2, <1>3
  <2>2. todo \in [X!Procs -> Seq(Words)]
    BY <1>1, <1>2, EmptySeq
  <2>3. \A p \in X!Procs : todo[p] = SubSeq(Script(program, p), at[p], Len(Script(program, p)))
    BY <1>1, <1>2, <1>3
  <2> QED BY <1>1, <2>1, <2>2, <2>3 DEF Standing, Ways
<1>6. body \in Seq(Nat) /\ Len(body) \in Nat
  <2>1. PICK k \in IF X!Programs[program].cb = X!NoCallbacks THEN {0} ELSE BodyLengths :
            body = [i \in 1 .. k |-> i]
    BY DEF X!Init
  <2>2. k \in Nat
    BY ExampleAssumption
  <2> QED BY <2>1, <2>2
<1>7. Rest
  <2>1. program = "paster" => kind = "png"
    <3>1. SUFFICES ASSUME program = "paster" PROVE kind = "png"
      OBVIOUS
    <3>2. \A k \in DOMAIN Script(program, "main") : Script(program, "main")[k][1] # "process_data"
      BY <1>1, <3>1 DEF WellMade, Insists
    <3>3. ~\E k \in DOMAIN X!Programs[program].main : X!Programs[program].main[k] = <<"process_data">>
      BY <3>2 DEF Script
    <3> QED BY <3>3 DEF X!Init
  <2>2. made \in [there : BOOLEAN, data : Seq(Nat)]
    BY EmptySeq DEF X!Init, X!Nothing
  <2> QED BY <1>6, <2>1, <2>2 DEF Rest, X!Init
<1>8. Family
  BY <1>1, <1>4 DEF Family, X!Init
<1>9. Segs
  BY <1>1, <1>4 DEF Segs, X!Init
<1>10. Held
  <2>1. Inherits(program, "main") = {}
    BY DEF Inherits
  <2>2. \A p \in X!Procs : life[p] # "astray" /\ (life[p] = "runs" => p = "main")
    BY <1>1
  <2> QED BY <1>1, <1>4, <2>1, <2>2 DEF Held
<1>11. Buffered
  <2>1. its_buf = [data |-> <<>>, max_size |-> 0, room |-> 0, seq |-> 0] /\ came = 0
    BY DEF X!Init, X!Zeroed
  <2>2. SubSeq(body, 1, 0) = <<>> /\ <<>> \in Seq(Nat)
    BY SubSeqEmpty, EmptySeq
  <2>3. \A r \in Children : life[r] = "unborn"
    BY <1>1
  <2> QED BY <1>6, <2>1, <2>2, <2>3 DEF Buffered
<1>12. Brought
  BY <1>4 DEF Brought
<1>13. Texts /\ Turns
  <2>1. /\ life["child1"] = "unborn" /\ at["main"] = 1 /\ sem = [k \in {0, 1} |-> 0] /\ text = 0 /\ got = <<>>
    BY <1>1, <1>3 DEF X!Init, X!Procs
  <2> QED BY <2>1 DEF Texts, Turns, ChildMayPost
<1>14. Stacks
  <2>1. /\ life["child1"] = "unborn" /\ at["main"] = 1 /\ got = <<>>
        /\ \A s \in X!Segments : stack[s] = [ready |-> FALSE, items |-> <<>>]
        /\ stack \in [X!Segments -> [ready : BOOLEAN, items : Seq(Int)]]
    BY <1>1, <1>3, EmptySeq DEF X!Init, X!Procs, X!NoStack
  <2>2. \A s \in X!Segments : Height(s) = 0
    BY <2>1, EmptySeq DEF Height
  <2> QED BY <2>1, <2>2, ExampleAssumption DEF Stacks, MainStacks, ChildStacks
<1>15. X!FileWhole /\ faults \in 0 .. MaxFaults
  BY ExampleAssumption DEF X!Init, X!Nothing, X!FileWhole
<1> QED BY <1>5, <1>7, <1>8, <1>9, <1>10, <1>11, <1>12, <1>13, <1>14, <1>15 DEF XInv

(* A call of a program is no fault of the system; there are MaxFaults.     *)
LEMMA FaultsBounded ==
    ASSUME faults \in 0 .. MaxFaults, NEW p \in X!Procs, X!Step(p) \/ X!Fault(p) \/ X!NoHandle(p)
    PROVE faults' \in 0 .. MaxFaults
<1>0. MaxFaults \in Nat
  BY ExampleAssumption
<1>1. CASE X!Fault(p) \/ X!NoHandle(p)
  BY <1>0, <1>1 DEF X!Fault, X!NoHandle
<1>2. CASE X!Step(p)
  <2>1. faults' = faults
    BY <1>2, SMTT(30) DEF X!Step, X!Exit, X!GoesAstray, X!Check, X!Fork, X!Waitpid, X!Work,
         X!Shmget, X!Shmat, X!ShmatFails, X!Shmdt, X!Shmctl, X!SemInit, X!SemWait, X!SemPost, X!Message,
         X!create_stack, X!destroy_stack, X!init_shm_stack, X!push_all, X!pop_all,
         X!RecvBufInit, X!CurlEasyInit, X!easy_handle_init, X!NoTransfer, X!Header, X!Piece, X!PieceAborts,
         X!TransferDone, X!Make, X!process_data, X!cleanup
  <2> QED BY <2>1
<1> QED BY <1>1, <1>2

LEMMA ExampleSteps == ASSUME XInv, X!Next PROVE XInv'
<1>1. PICK p \in X!Procs : X!Step(p) \/ X!Fault(p) \/ X!NoHandle(p)
  BY DEF X!Next
<1>2. Moved(p)
  BY <1>1, StepIs, FaultIs DEF Moved
<1>3. /\ Standing /\ Rest /\ Family /\ Segs /\ Held /\ Buffered /\ Brought /\ Texts /\ Turns /\ Stacks
      /\ X!FileWhole /\ faults \in 0 .. MaxFaults
  BY DEF XInv
<1>4. Standing' /\ Rest' /\ Family' /\ Segs' /\ Held'
  BY <1>2, <1>3, Grows, KeepsRest, KeepsFamily, KeepsSegs, KeepsHeld
<1>5. Buffered' /\ Brought' /\ X!FileWhole'
  BY <1>2, <1>3, KeepsBuffered, KeepsBrought, KeepsFileWhole
<1>6. Texts' /\ Turns' /\ Stacks'
  BY <1>2, <1>3, KeepsTexts, KeepsTurns, KeepsStacks
<1>7. faults' \in 0 .. MaxFaults
  BY <1>1, <1>3, FaultsBounded
<1> QED BY <1>4, <1>5, <1>6, <1>7 DEF XInv

LEMMA ExampleInvHolds == ProgramsSpec => []XInv
<1>1. ProgramsInit => XInv
  BY ExampleBegins DEF ProgramsInit
<1>2. ASSUME XInv, [ProgramsNext]_<<runs, vars, example, checksum, search>> PROVE XInv'
  <2>1. X!Next \/ UNCHANGED example
    BY <1>2 DEF ProgramsNext
  <2>2. CASE UNCHANGED example
    <3>1. at' = at /\ Behind' = Behind
      BY <2>2 DEF at, Behind, Script, example
    <3>2. /\ program' = program /\ todo' = todo /\ life' = life /\ reaped' = reaped /\ seg' = seg
          /\ attached' = attached /\ failed' = failed /\ sem' = sem /\ text' = text /\ stack' = stack
          /\ got' = got /\ body' = body /\ kind' = kind /\ came' = came /\ its_buf' = its_buf
          /\ made' = made /\ faults' = faults
      BY <2>2 DEF example
    <3>3. NoFault' = NoFault /\ X!NobodyFailed' = X!NobodyFailed
      BY <3>2 DEF NoFault, X!NobodyFailed
    <3>4. (Standing => Standing') /\ (Rest => Rest')
      BY <3>1, <3>2 DEF Standing, Rest, Script
    <3>5. (Family => Family') /\ (Segs => Segs')
      BY <3>1, <3>2 DEF Family, Segs, Named, Call, Script
    <3>6. Held => Held'
      BY <3>1, <3>2, <3>3 DEF Held, Call, Script
    <3>7. Buffered => Buffered'
      BY <3>1, <3>2 DEF Buffered, Call, Script
    <3>8. Brought => Brought'
      BY <3>1, <3>2, <3>3 DEF Brought, Call, Script
    <3>9. (Texts => Texts') /\ (Turns => Turns')
      BY <3>1, <3>2, <3>3 DEF Texts, Turns, FirstWrite, ChildMayPost
    <3>10. Stacks => Stacks'
      BY <3>1, <3>2, <3>3 DEF Stacks, MainStacks, ChildStacks, Height
    <3>11. X!FileWhole => X!FileWhole'
      BY <3>2, <3>3 DEF X!FileWhole
    <3> QED BY <1>2, <3>2, <3>4, <3>5, <3>6, <3>7, <3>8, <3>9, <3>10, <3>11 DEF XInv
  <2> QED BY <1>2, <2>1, <2>2, ExampleSteps
<1> QED BY <1>1, <1>2, PTL DEF ProgramsSpec

-----------------------------------------------------------------------------
(* What the small programs promise.                                        *)
LEMMA ExamplePromises ==
    ASSUME XInv
    PROVE /\ X!TypeOK /\ X!InBounds /\ X!NoWildAccess /\ X!HandedOver /\ X!FileWhole
          /\ X!SegmentsRemoved /\ X!AllReaped
<1>0. /\ Standing /\ Rest /\ Family /\ Segs /\ Held /\ Buffered /\ Brought /\ Texts /\ Turns /\ Stacks
      /\ X!FileWhole /\ faults \in 0 .. MaxFaults
      /\ "main" \in X!Procs /\ Children \subseteq X!Procs \ {"main"} /\ X!Procs = Children \cup {"main"}
  BY DEF XInv, X!Procs, Children
<1>1. X!TypeOK
  BY <1>0 DEF X!TypeOK, Standing, Rest, Buffered, Texts, Turns, Stacks, Height, Ways
<1>2. X!InBounds
  <2>1. SUFFICES ASSUME its_buf.data # <<>>, Len(its_buf.data) + 1 > its_buf.room
                 PROVE program = "paster2" /\ Len(body) >= Slot
    BY <1>0, LenProperties DEF X!InBounds, X!InRoom, Buffered
  <2>2. /\ its_buf.data = SubSeq(body, 1, came) /\ came \in 0 .. Len(body) /\ body \in Seq(Nat)
        /\ Len(its_buf.data) + 1 <= its_buf.max_size
        /\ its_buf.max_size \in Nat /\ its_buf.room \in Nat /\ its_buf.data \in Seq(Nat)
    BY <1>0, <2>1 DEF Buffered, Rest
  <2>3. Len(its_buf.data) \in Nat /\ Len(body) \in Nat
    BY <2>2, LenProperties
  <2>4. Len(its_buf.data) = came
    <3>1. \A i \in 1 .. came : i \in 1 .. Len(body)
      BY <2>2, <2>3
    <3>2. \A i \in 1 .. came : body[i] \in Nat
      BY <2>2, <3>1, ElementOfSeq
    <3> QED BY <2>2, <2>3, <3>2, SubSeqProperties
  <2>5. its_buf.max_size > its_buf.room /\ its_buf.max_size # 0
    BY <2>1, <2>2, <2>3
  <2>6. program = "paster2" /\ its_buf.room = Slot
    BY <1>0, <2>2, <2>5 DEF Buffered
  <2> QED BY <2>1, <2>2, <2>3, <2>4, <2>6, ExampleAssumption
<1>3. X!NoWildAccess
  BY <1>0 DEF X!NoWildAccess, Held, NoFault
<1>4. X!HandedOver
  <2>1. ASSUME X!NobodyFailed, program = "shm_struct", life["main"] = "exited"
        PROVE got = X!Downward(STACK_SIZE) \o X!Downward(STACK_SIZE)
    <3>1. at["main"] = Len(Script(program, "main")) + 1
      BY <1>0, <2>1, Grounds
    <3>2. Len(Script("shm_struct", "main")) = 11
      BY ShmStructCalls
    <3>3. at["main"] = 12
      <4> DEFINE l == Len(Script("shm_struct", "main"))
      <4>1. at["main"] = l + 1 /\ l = 11
        BY <2>1, <3>1, <3>2
      <4> HIDE DEF l
      <4> QED BY ONLY <4>1
    <3> QED BY <1>0, <2>1, <3>3, PoppedOff DEF Stacks, MainStacks
  <2>2. X!NobodyFailed /\ program \in {"sem_simple", "shm_simple"} => got \in {<<>>, <<2>>}
    BY <1>0 DEF Texts
  <2> QED BY <2>1, <2>2 DEF X!HandedOver
<1>5. ASSUME life["main"] = "exited"
      PROVE /\ Behind["main"] = DOMAIN Script(program, "main") /\ program \in DOMAIN X!Programs
            /\ Removes(program) /\ Awaits(program) /\ Typed(program)
  <2>1. /\ at["main"] = Len(Script(program, "main")) + 1 /\ Behind["main"] = 1 .. at["main"] - 1
        /\ DOMAIN Script(program, "main") = 1 .. Len(Script(program, "main"))
        /\ Len(Script(program, "main")) \in Nat
    BY <1>0, <1>5, Grounds
  <2> QED BY <1>0, <2>1, Grounds DEF WellMade
<1>6. X!SegmentsRemoved
  <2>1. SUFFICES ASSUME life["main"] = "exited", program # "paster2", NEW s \in X!Segments, seg[s] = "there"
                 PROVE FALSE
    BY DEF X!SegmentsRemoved
  <2>2. PICK i \in DOMAIN Script(program, "main") : Named("main", i, "shmget", s)
    BY <1>0, <2>1 DEF Segs
  <2>3. PICK j \in DOMAIN Script(program, "main") : Script(program, "main")[j] = <<"rmid", s>>
    BY <1>5, <2>1, <2>2 DEF Removes, Named, Call
  <2> QED BY <1>0, <1>5, <2>1, <2>3 DEF Segs, Call
<1>7. X!AllReaped
  <2>1. SUFFICES ASSUME life["main"] = "exited", program # "zombie", NEW p \in Children, life[p] # "unborn"
                 PROVE p \in reaped
    BY <1>0 DEF X!AllReaped
  <2>2. PICK i \in DOMAIN Script(program, "main") : Named("main", i, "fork", p)
    BY <1>0, <2>1 DEF Family
  <2>3. PICK j \in DOMAIN Script(program, "main") : Script(program, "main")[j] = <<"waitpid", p>>
    BY <1>5, <2>1, <2>2 DEF Awaits, Named, Call
  <2> QED BY <1>0, <1>5, <2>1, <2>3 DEF Family, Call
<1> QED BY <1>0, <1>1, <1>2, <1>3, <1>4, <1>6, <1>7

(* pastersingle among the other programs.                                  *)
LEMMA PastersingleRuns == ProgramsSpec => Spec
<1>1. ProgramsInit => Init
  BY DEF ProgramsInit
<1>2. [ProgramsNext]_<<runs, vars, example, checksum, search>> => [Next]_vars
  BY DEF ProgramsNext
<1> QED BY <1>1, <1>2, PTL DEF ProgramsSpec, Spec

(* The variables of every program keep their types, whichever of them is   *)
(* run: among them the register and the table of crc.c their width, the    *)
(* semaphores of sem_simple their turns, and findpng's open descriptors    *)
(* their limit.                                                            *)
THEOREM TypesAreKept == ProgramsSpec => []TypesOK
<1>1. FP!Spec => []FP!TypeOK
  BY OneTree, FP!TypeCorrect
<1>2. FP!TypeOK => F!TypeOK
  BY OneFiniteSets DEF FP!TypeOK, F!TypeOK, FP!InUse, F!InUse
<1>3. XInv => X!TypeOK
  BY ExamplePromises
<1>4. TypeOK /\ K!TypeOK /\ F!TypeOK /\ X!TypeOK => TypesOK
  BY DEF TypesOK
<1> QED BY <1>1, <1>2, <1>3, <1>4, FindpngRuns, PastersingleRuns, TypeCorrect, RegisterKeepsWidth,
           ExampleInvHolds, PTL

(* Memory: image_buffer is not overrun, whatever fails; the write          *)
(* callbacks stay within their buffers, for every length of an answer and  *)
(* every size of a buffer, but for paster2's and its slots; and no process *)
(* uses a segment, a buffer or a stack that is not there, before a call    *)
(* has failed that nobody looked at.                                       *)
THEOREM MemoryIsSafe == ProgramsSpec => []MemorySafe
<1>1. XInv => X!InBounds /\ X!NoWildAccess
  BY ExamplePromises
<1>2. InImageBuffer /\ X!InBounds /\ X!NoWildAccess => MemorySafe
  BY DEF MemorySafe
<1> QED BY <1>1, <1>2, PastersingleRuns, BufferSuffices, ExampleInvHolds, PTL

(* What a process reads in shared memory is the whole message or the whole *)
(* stack that the other has written, in every order of their steps; and    *)
(* what a program makes of a download is the answer as far as it came.     *)
THEOREM ExamplesDeliver == ProgramsSpec => []Delivered
<1>1. XInv => X!HandedOver /\ X!FileWhole
  BY ExamplePromises
<1>2. X!HandedOver /\ X!FileWhole => Delivered
  BY DEF Delivered
<1> QED BY <1>1, <1>2, ExampleInvHolds, PTL

(* A main that comes to its end has removed every segment and waited for   *)
(* every child, but for paster2's segment and the child of zombie.         *)
THEOREM ExamplesCleanUp == ProgramsSpec => []NothingLeftBehind
<1>1. XInv => X!SegmentsRemoved /\ X!AllReaped
  BY ExamplePromises
<1>2. X!SegmentsRemoved /\ X!AllReaped => NothingLeftBehind
  BY DEF NothingLeftBehind
<1> QED BY <1>1, <1>2, ExampleInvHolds, PTL
=============================================================================
