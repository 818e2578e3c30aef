--------------------------- MODULE Findpng3Proofs ---------------------------
(***************************************************************************)
(* Safety of findpng3 for every web, every t and every m, and that it      *)
(* implements the abstract crawl.                                          *)
(***************************************************************************)
EXTENDS Findpng3, TLAPS, FiniteSetTheorems, SequenceTheorems

(* The transfers of a round whose result has not been looked at.           *)
Open == Cardinality(cm) + Len(messages)

(* A round has at most t transfers, and begins below m images: whatever    *)
(* they all turn out to be, the bound holds.                               *)
Budget ==
    /\ IsFiniteSet(cm)
    /\ Open <= t
    /\ image_counter + Open <= m - 1 + t
    /\ pc = "fill" => image_counter < m

IInv == TypeOK /\ RoundsComplete /\ Budget

-----------------------------------------------------------------------------
(* Sizes of what the helpers give *)

LEMMA CountType == ASSUME IsFiniteSet(cm), messages \in Seq([url : Urls, ok : BOOLEAN])
                   PROVE Cardinality(cm) \in Nat /\ Len(messages) \in Nat /\ Open \in Nat
BY FS_CardinalityType, LenProperties DEF Open

LEMMA FunctionIsSeq ==
    ASSUME NEW S, NEW n \in Nat, NEW f \in [1 .. n -> S]
    PROVE f \in Seq(S) /\ Len(f) = n
OBVIOUS

(* At most n items are popped, and what is below them is a stack.          *)
LEMMA TopAndBelow ==
    ASSUME NEW s \in Seq(Urls), NEW n \in 0 .. Len(s)
    PROVE /\ Top(s, n) \subseteq Urls /\ IsFiniteSet(Top(s, n))
          /\ Cardinality(Top(s, n)) <= n
          /\ Below(s, n) \in Seq(Urls)
<1> DEFINE I == Len(s) - n + 1 .. Len(s)
           f == [k \in I |-> s[k]]
<1>1. Len(s) \in Nat /\ s \in [1 .. Len(s) -> Urls]
  BY LenProperties
<1>2. IsFiniteSet(I) /\ Cardinality(I) = n
  BY <1>1, FS_Interval
<1>3. f \in Surjection(I, Top(s, n))
  BY DEF Top, Surjection
<1>4. Top(s, n) \subseteq Urls
  BY <1>1 DEF Top
<1>5. IsFiniteSet(Top(s, n)) /\ Cardinality(Top(s, n)) <= n
  BY <1>2, <1>3, FS_Surjection
<1>6. \A k \in 1 .. Len(s) - n : s[k] \in Urls
  BY <1>1
<1>7. SubSeq(s, 1, Len(s) - n) \in Seq(Urls)
  BY <1>1, <1>6, SubSeqProperties
<1> QED
  BY <1>4, <1>5, <1>7 DEF Below

LEMMA PushedType ==
    ASSUME NEW s \in Seq(Urls), NEW u \in Urls
    PROVE Pushed(s, u) \in Seq(Urls)
BY DEF Pushed

(* A call of curl_multi_perform moves transfers from running to over.      *)
LEMMA PerformMoves ==
    ASSUME IsFiniteSet(cm), cm \subseteq Urls,
           messages \in Seq([url : Urls, ok : BOOLEAN]),
           NEW over \in SUBSET cm, NEW order \in Orders(over), NEW bad \in SUBSET over,
           cm' = cm \ over,
           messages' = messages \o
               [k \in DOMAIN order |-> [url |-> order[k], ok |-> order[k] \notin bad]]
    PROVE /\ IsFiniteSet(cm') /\ Open' = Open
          /\ Cardinality(cm') <= Cardinality(cm)
          /\ messages' \in Seq([url : Urls, ok : BOOLEAN])
<1> DEFINE n == Cardinality(over)
           new == [k \in DOMAIN order |-> [url |-> order[k], ok |-> order[k] \notin bad]]
<1>1. IsFiniteSet(over) /\ n \in Nat /\ n <= Cardinality(cm)
  BY FS_Subset, FS_CardinalityType
<1>2. IsFiniteSet(cm \ over) /\ Cardinality(cm \ over) = Cardinality(cm) - n
  <2>1. cm \cap over = over
    OBVIOUS
  <2> QED
    BY <2>1, FS_Difference
<1>3. order \in [1 .. n -> over]
  BY DEF Orders
<1>4. new \in [1 .. n -> [url : Urls, ok : BOOLEAN]]
  BY <1>3
<1> HIDE DEF n, new
<1>5. new \in Seq([url : Urls, ok : BOOLEAN]) /\ Len(new) = n
  BY <1>1, <1>4, FunctionIsSeq
<1>6. /\ messages \o new \in Seq([url : Urls, ok : BOOLEAN])
      /\ Len(messages \o new) = Len(messages) + n
  BY <1>5, ConcatProperties
<1>7. Cardinality(cm) \in Nat /\ Len(messages) \in Nat
  BY CountType
<1> QED
  BY <1>1, <1>2, <1>6, <1>7 DEF Open, new

-----------------------------------------------------------------------------
(* The invariant *)

LEMMA InitIInv == Init => IInv
<1> SUFFICES ASSUME Init PROVE IInv
  OBVIOUS
<1>1. Cardinality(cm) = 0 /\ IsFiniteSet(cm) /\ Len(messages) = 0
  BY FS_EmptySet DEF Init
<1>2. TypeOK
  BY WebAssumption, SizeAssumption, BoundAssumption DEF Init, TypeOK, Labels
<1>3. RoundsComplete
  BY <1>1 DEF Init, RoundsComplete
<1>4. Budget
  BY <1>1, SizeAssumption DEF Init, Budget, Open
<1> QED
  BY <1>2, <1>3, <1>4 DEF IInv

(* The two calls of curl_multi_perform.                                    *)
LEMMA PerformStep ==
    ASSUME TypeOK, Budget, NEW from, NEW to, Perform(from, to)
    PROVE /\ IsFiniteSet(cm') /\ cm' \subseteq Urls /\ Open' = Open
          /\ messages' \in Seq([url : Urls, ok : BOOLEAN])
          /\ still_running' = Cardinality(cm') /\ still_running' \in 0 .. t
          /\ failures' \in 0 .. MaxFailures
          /\ still_running' = 0 => cm' = {}
<1> DEFINE Moves(over, order, bad) ==
          /\ failures' = failures + Cardinality(bad) /\ failures' <= MaxFailures
          /\ cm' = cm \ over /\ still_running' = Cardinality(cm')
          /\ messages' = messages \o
                [k \in DOMAIN order |-> [url |-> order[k], ok |-> order[k] \notin bad]]
<1>p. PICK over \in SUBSET cm :
         \E order \in Orders(over), bad \in SUBSET over : Moves(over, order, bad)
  BY DEF Perform
<1>1. PICK order \in Orders(over), bad \in SUBSET over : Moves(over, order, bad)
  BY <1>p
<1>2. /\ cm \subseteq Urls /\ messages \in Seq([url : Urls, ok : BOOLEAN])
      /\ failures \in 0 .. MaxFailures /\ IsFiniteSet(cm) /\ Open <= t
  BY DEF TypeOK, Budget
<1>3. /\ IsFiniteSet(cm') /\ Open' = Open /\ Cardinality(cm') <= Cardinality(cm)
      /\ messages' \in Seq([url : Urls, ok : BOOLEAN])
  BY <1>1, <1>2, PerformMoves
<1>4. Cardinality(cm') \in Nat /\ (Cardinality(cm') = 0 => cm' = {})
  BY <1>3, FS_CardinalityType, FS_EmptySet
<1>5. Cardinality(cm) \in Nat /\ Len(messages) \in Nat
  BY <1>2, CountType
<1>6. Cardinality(cm') <= t
  BY <1>2, <1>3, <1>4, <1>5, SizeAssumption DEF Open
<1>7. IsFiniteSet(bad)
  BY <1>2, FS_Subset
<1>8. Cardinality(bad) \in Nat
  BY <1>7, FS_CardinalityType
<1>9. failures' \in 0 .. MaxFailures
  BY <1>1, <1>2, <1>8, BoundAssumption
<1> QED
  BY <1>1, <1>2, <1>3, <1>4, <1>6, <1>9, SizeAssumption

(* Lines 32-56.                                                            *)
LEMMA FillStep ==
    ASSUME IInv, Fill
    PROVE /\ IsFiniteSet(cm') /\ cm' \subseteq Urls /\ Cardinality(cm') \in 0 .. t
          /\ frontier' \in Seq(Urls) /\ messages' = <<>> /\ Len(messages') = 0
<1> DEFINE n == Lesser(t, Len(frontier))
<1>1. frontier \in Seq(Urls) /\ messages = <<>>
  BY DEF IInv, TypeOK, RoundsComplete, Fill, Goto
<1>2. Len(frontier) \in Nat
  BY <1>1, LenProperties
<1>3. n \in 0 .. Len(frontier) /\ n <= t /\ n \in Nat
  BY <1>2, SizeAssumption DEF Lesser
<1>4. cm' = Top(frontier, n) /\ frontier' = Below(frontier, n) /\ messages' = messages
  BY DEF Fill
<1> HIDE DEF n
<1>5. /\ cm' \subseteq Urls /\ IsFiniteSet(cm') /\ Cardinality(cm') <= n
      /\ frontier' \in Seq(Urls)
  BY <1>1, <1>3, <1>4, TopAndBelow
<1>6. Cardinality(cm') \in Nat
  BY <1>5, FS_CardinalityType
<1> QED
  BY <1>1, <1>3, <1>4, <1>5, <1>6, SizeAssumption, EmptySeq

LEMMA OutputType ==
    ASSUME TypeOK
    PROVE [k \in 1 .. Lesser(m, Len(png)) |-> png[Len(png) + 1 - k]] \in Seq(Urls)
<1> DEFINE n == Lesser(m, Len(png))
<1>1. Len(png) \in Nat /\ png \in [1 .. Len(png) -> Urls]
  BY LenProperties DEF TypeOK
<1>2. n \in Nat /\ n <= Len(png)
  BY <1>1, SizeAssumption DEF Lesser
<1> HIDE DEF n
<1>3. [k \in 1 .. n |-> png[Len(png) + 1 - k]] \in [1 .. n -> Urls]
  BY <1>1, <1>2
<1> QED
  BY <1>2, <1>3, FunctionIsSeq DEF n

(* What the first message says, and what is left.                          *)
LEMMA ReadStep ==
    ASSUME TypeOK, messages # <<>>, messages' = Tail(messages), cm' = cm
    PROVE /\ messages' \in Seq([url : Urls, ok : BOOLEAN])
          /\ Head(messages).url \in Urls
          /\ IsFiniteSet(cm) => Open' = Open - 1
<1>1. messages \in Seq([url : Urls, ok : BOOLEAN])
  BY DEF TypeOK
<1>2. /\ Head(messages) \in [url : Urls, ok : BOOLEAN]
      /\ Tail(messages) \in Seq([url : Urls, ok : BOOLEAN])
      /\ Len(Tail(messages)) = Len(messages) - 1
  BY <1>1, HeadTailProperties
<1>3. IsFiniteSet(cm) => Cardinality(cm) \in Nat /\ Len(messages) \in Nat
  BY <1>1, CountType
<1> QED
  BY <1>2, <1>3 DEF Open

LEMMA TypeStep == ASSUME IInv, [Next]_vars PROVE TypeOK'
<1> USE DEF Goto, Labels, marks, images, multi, page, faults
<1>t. TypeOK /\ Budget
  BY DEF IInv
<1>1. CASE Fill
  BY <1>1, <1>t, FillStep DEF Fill, TypeOK
<1>2. CASE PerformFirst
  <2>1. Perform("perform", "wait")
    BY <1>2 DEF PerformFirst
  <2>2. pc' = "wait" /\ UNCHANGED <<frontier, marks, images, page, png_urls, waiterrors>>
    BY <2>1 DEF Perform
  <2>3. /\ cm' \subseteq Urls /\ messages' \in Seq([url : Urls, ok : BOOLEAN])
        /\ still_running' \in 0 .. t /\ failures' \in 0 .. MaxFailures
    BY <1>t, <2>1, PerformStep
  <2> QED
    BY <1>t, <2>2, <2>3 DEF TypeOK
<1>3. CASE PerformAgain
  <2> DEFINE to == IF still_running' # 0 THEN "wait" ELSE "read"
  <2>1. Perform("again", to)
    BY <1>3 DEF PerformAgain
  <2>2. pc' = to /\ UNCHANGED <<frontier, marks, images, page, png_urls, waiterrors>>
    BY <2>1 DEF Perform
  <2>3. to \in Labels
    OBVIOUS
  <2> HIDE DEF to
  <2>4. /\ cm' \subseteq Urls /\ messages' \in Seq([url : Urls, ok : BOOLEAN])
        /\ still_running' \in 0 .. t /\ failures' \in 0 .. MaxFailures
    BY <1>t, <2>1, PerformStep
  <2> QED
    BY <1>t, <2>2, <2>3, <2>4 DEF TypeOK
<1>4. CASE WaitOk
  BY <1>4, <1>t DEF WaitOk, TypeOK
<1>5. CASE WaitError
  BY <1>5, <1>t, BoundAssumption DEF WaitError, TypeOK
<1>6. CASE ReadFailed
  BY <1>6, <1>t, ReadStep DEF ReadFailed, TypeOK
<1>7. CASE ReadPage
  <2>1. messages # <<>> /\ messages' = Tail(messages) /\ cm' = cm
    BY <1>7 DEF ReadPage
  <2>2. /\ messages' \in Seq([url : Urls, ok : BOOLEAN])
        /\ Head(messages).url \in Urls
    BY <1>t, <2>1, ReadStep
  <2>3. eh' \in Urls /\ todo' \in Seq(Urls)
    BY <1>7, <2>2, WebAssumption DEF ReadPage
  <2> QED
    BY <1>7, <1>t, <2>2, <2>3 DEF ReadPage, TypeOK
<1>8. CASE ReadPng
  <2>1. messages # <<>> /\ messages' = Tail(messages) /\ cm' = cm
    BY <1>8 DEF ReadPng
  <2>2. /\ messages' \in Seq([url : Urls, ok : BOOLEAN])
        /\ Head(messages).url \in Urls
    BY <1>t, <2>1, ReadStep
  <2>3. Redirect[Head(messages).url] \in Urls /\ png \in Seq(Urls)
    BY <1>t, <2>2, WebAssumption DEF TypeOK
  <2>4. png' \in Seq(Urls)
    BY <1>8, <2>3, PushedType DEF ReadPng
  <2> QED
    BY <1>8, <1>t, <2>2, <2>4 DEF ReadPng, TypeOK
<1>9. CASE ReadOther
  BY <1>9, <1>t, ReadStep DEF ReadOther, TypeOK
<1>10. CASE KnownLink
  BY <1>10, <1>t, HeadTailProperties DEF KnownLink, TypeOK
<1>11. CASE NewLink
  <2>1. /\ todo \in Seq(Urls) /\ todo # <<>> /\ frontier \in Seq(Urls)
        /\ dp \in Seq(Urls) /\ table \subseteq Urls
    BY <1>11, <1>t DEF NewLink, TypeOK
  <2>2. Head(todo) \in Urls /\ Tail(todo) \in Seq(Urls)
    BY <2>1, HeadTailProperties
  <2>3. frontier' \in Seq(Urls)
    BY <1>11, <2>1, <2>2, PushedType DEF NewLink
  <2>4. dp' \in Seq(Urls) /\ table' \subseteq Urls /\ todo' \in Seq(Urls)
    BY <1>11, <2>1, <2>2 DEF NewLink
  <2> QED
    BY <1>11, <1>t, <2>3, <2>4 DEF NewLink, TypeOK
<1>12. CASE LastLink
  BY <1>12, <1>t DEF LastLink, TypeOK
<1>13. CASE GoOn
  BY <1>13, <1>t DEF GoOn, TypeOK
<1>14. CASE Finish
  BY <1>14, <1>t, OutputType DEF Finish, TypeOK
<1>15. CASE UNCHANGED vars
  BY <1>15, <1>t DEF vars, TypeOK
<1> QED
  BY <1>1, <1>2, <1>3, <1>4, <1>5, <1>6, <1>7, <1>8, <1>9, <1>10, <1>11, <1>12, <1>13,
     <1>14, <1>15 DEF Next

(* A round is left only when curl_multi_perform has said that nothing      *)
(* runs; an error of curl_multi_wait changes nothing that was said.        *)
LEMMA RoundsStep == ASSUME IInv, [Next]_vars PROVE RoundsComplete'
<1> USE DEF Goto, Labels, marks, images, multi, page, faults
<1>t. TypeOK /\ Budget /\ RoundsComplete
  BY DEF IInv
<1>1. CASE Fill
  BY <1>1, <1>t DEF Fill, RoundsComplete
<1>2. CASE PerformFirst
  <2>1. Perform("perform", "wait")
    BY <1>2 DEF PerformFirst
  <2>2. pc' = "wait"
    BY <2>1 DEF Perform
  <2>3. still_running' = Cardinality(cm')
    BY <1>t, <2>1, PerformStep
  <2> QED
    BY <2>2, <2>3 DEF RoundsComplete
<1>3. CASE PerformAgain
  <2> DEFINE to == IF still_running' # 0 THEN "wait" ELSE "read"
  <2>1. Perform("again", to)
    BY <1>3 DEF PerformAgain
  <2>2. pc' = to
    BY <2>1 DEF Perform
  <2> HIDE DEF to
  <2>3. still_running' = Cardinality(cm') /\ (still_running' = 0 => cm' = {})
    BY <1>t, <2>1, PerformStep
  <2> QED
    BY <2>2, <2>3 DEF RoundsComplete, to
<1>4. CASE WaitOk
  BY <1>4, <1>t DEF WaitOk, RoundsComplete
<1>5. CASE WaitError
  <2>1. IsFiniteSet(cm) /\ still_running = Cardinality(cm) /\ cm' = cm /\ still_running' = still_running
    BY <1>5, <1>t DEF WaitError, Budget, RoundsComplete
  <2>2. still_running = 0 => cm = {}
    BY <2>1, FS_EmptySet
  <2> QED
    BY <1>5, <2>1, <2>2 DEF WaitError, RoundsComplete
<1>6. CASE ReadFailed \/ ReadPage \/ ReadPng \/ ReadOther
  BY <1>6, <1>t DEF ReadFailed, ReadPage, ReadPng, ReadOther, RoundsComplete
<1>7. CASE KnownLink \/ NewLink \/ LastLink
  BY <1>7, <1>t DEF KnownLink, NewLink, LastLink, RoundsComplete
<1>8. CASE GoOn \/ Finish
  BY <1>8, <1>t DEF GoOn, Finish, RoundsComplete
<1>9. CASE UNCHANGED vars
  BY <1>9, <1>t DEF vars, RoundsComplete
<1> QED
  BY <1>1, <1>2, <1>3, <1>4, <1>5, <1>6, <1>7, <1>8, <1>9 DEF Next

(* Only the start of a round opens transfers, and then fewer than m images *)
(* are there; each image closes one.                                       *)
LEMMA BudgetStep == ASSUME IInv, [Next]_vars PROVE Budget'
<1> USE DEF Goto, Labels, marks, images, multi, page, faults
<1>t. TypeOK /\ Budget /\ RoundsComplete
  BY DEF IInv
<1>n. image_counter \in Nat /\ Open \in Nat /\ m \in Nat /\ t \in Nat
  BY <1>t, CountType, SizeAssumption DEF TypeOK, Budget
<1>1. CASE Fill
  <2>1. /\ IsFiniteSet(cm') /\ Cardinality(cm') \in 0 .. t /\ Len(messages') = 0
    BY <1>1, FillStep
  <2>2. image_counter < m /\ image_counter' = image_counter /\ pc' = "perform"
    BY <1>1, <1>t DEF Fill, Budget
  <2>3. Open' = Cardinality(cm')
    BY <2>1 DEF Open
  <2> QED
    BY <1>n, <2>1, <2>2, <2>3 DEF Budget
<1>2. ASSUME NEW from, NEW to, Perform(from, to), to # "fill" PROVE Budget'
  <2>1. pc' = to /\ image_counter' = image_counter
    BY <1>2 DEF Perform
  <2>2. IsFiniteSet(cm') /\ Open' = Open
    BY <1>t, <1>2, PerformStep
  <2> QED
    BY <1>t, <1>2, <2>1, <2>2 DEF Budget
<1>3. CASE PerformFirst \/ PerformAgain
  BY <1>2, <1>3 DEF PerformFirst, PerformAgain
<1>4. CASE ReadFailed \/ ReadPage \/ ReadPng \/ ReadOther
  <2>1. messages # <<>> /\ messages' = Tail(messages) /\ cm' = cm
    BY <1>4 DEF ReadFailed, ReadPage, ReadPng, ReadOther
  <2>2. IsFiniteSet(cm) /\ Open' = Open - 1
    BY <1>t, <2>1, ReadStep DEF Budget
  <2>3. pc' # "fill" /\ image_counter' \in {image_counter, image_counter + 1}
    BY <1>4 DEF ReadFailed, ReadPage, ReadPng, ReadOther
  <2>4. Open <= t /\ image_counter + Open <= m - 1 + t
    BY <1>t DEF Budget
  <2>5. Open' <= t /\ image_counter' + Open' <= m - 1 + t
    <3> DEFINE o == Open
               c == image_counter'
    <3>1. Open' = o - 1 /\ o \in Nat /\ o <= t /\ image_counter + o <= m - 1 + t
      BY <1>n, <2>2, <2>4
    <3>2. c = image_counter \/ c = image_counter + 1
      BY <2>3
    <3> HIDE DEF o, c
    <3>3. o - 1 <= t /\ c + (o - 1) <= m - 1 + t
      BY <1>n, <3>1, <3>2
    <3> QED
      BY <3>1, <3>3 DEF c
  <2> QED
    BY <2>1, <2>2, <2>3, <2>5 DEF Budget
<1>5. CASE WaitOk \/ WaitError \/ KnownLink \/ NewLink \/ LastLink \/ Finish
  BY <1>5, <1>t DEF WaitOk, WaitError, KnownLink, NewLink, LastLink, Finish, Budget, Open
<1>6. CASE GoOn
  BY <1>6, <1>t, <1>n DEF GoOn, CrawlIsOver, Budget, Open
<1>7. CASE UNCHANGED vars
  BY <1>7, <1>t DEF vars, Budget, Open
<1> QED
  BY <1>1, <1>3, <1>4, <1>5, <1>6, <1>7 DEF Next

LEMMA IInvHolds == Spec => []IInv
<1>1. IInv /\ [Next]_vars => IInv'
  BY TypeStep, RoundsStep, BudgetStep DEF IInv
<1> QED
  BY InitIInv, <1>1, PTL DEF Spec

-----------------------------------------------------------------------------
(* Every variable keeps its type: no round starts more than t transfers.   *)
THEOREM TypeCorrect == Spec => []TypeOK
<1>1. IInv => TypeOK
  BY DEF IInv
<1> QED
  BY IInvHolds, <1>1, PTL

(* No transfer outlives its round, although an error of curl_multi_wait    *)
(* (findpng3.c:64) skips the call that brings still_running up to date.    *)
THEOREM RoundsAreComplete == Spec => []RoundsComplete
<1>1. IInv => RoundsComplete
  BY DEF IInv
<1> QED
  BY IInvHolds, <1>1, PTL

(* The test of findpng3.c:121, made once a round, lets at most t - 1       *)
(* images pass beyond the m-th.                                            *)
THEOREM OvershootBounded == Spec => []Overshoot
<1>1. IInv => Overshoot
  <2> SUFFICES ASSUME IInv PROVE Overshoot
    OBVIOUS
  <2>1. image_counter \in Nat /\ Open \in Nat /\ image_counter + Open <= m - 1 + t
    BY CountType DEF IInv, TypeOK, Budget
  <2> QED
    BY <2>1, SizeAssumption DEF Overshoot
<1> QED
  BY IInvHolds, <1>1, PTL

-----------------------------------------------------------------------------
(* Sequences and their members *)

Distinct(s) == \A j, k \in DOMAIN s : s[j] = s[k] => j = k

LEMMA ElemsOf ==
    ASSUME NEW S, NEW s \in Seq(S)
    PROVE /\ Len(s) \in Nat /\ DOMAIN s = 1 .. Len(s)
          /\ Elems(s) = {s[k] : k \in 1 .. Len(s)} /\ Elems(s) \subseteq S
BY LenProperties, ElementOfSeq DEF Elems

LEMMA AppendFacts ==
    ASSUME NEW S, NEW s \in Seq(S), NEW u \in S
    PROVE /\ Append(s, u) \in Seq(S) /\ Len(Append(s, u)) = Len(s) + 1
          /\ Elems(Append(s, u)) = Elems(s) \cup {u}
          /\ Distinct(s) /\ u \notin Elems(s) => Distinct(Append(s, u))
<1> DEFINE a == Append(s, u)
           n == Len(s)
<1>1. n \in Nat /\ DOMAIN s = 1 .. n /\ Elems(s) = {s[k] : k \in 1 .. n}
  BY ElemsOf
<1>2. a \in Seq(S) /\ Len(a) = n + 1
  OBVIOUS
<1>3. \A k \in 1 .. n + 1 : a[k] = IF k <= n THEN s[k] ELSE u
  OBVIOUS
<1>4. Elems(a) = {a[k] : k \in 1 .. n + 1} /\ DOMAIN a = 1 .. n + 1
  BY <1>2, ElemsOf
<1> HIDE DEF a, n
<1>5. Elems(a) = Elems(s) \cup {u}
  <2>1. Elems(a) \subseteq Elems(s) \cup {u}
    BY <1>1, <1>3, <1>4
  <2>2. \A k \in 1 .. n : a[k] = s[k] /\ k \in 1 .. n + 1
    BY <1>1, <1>3
  <2>3. a[n + 1] = u /\ n + 1 \in 1 .. n + 1
    BY <1>1, <1>3
  <2> QED
    BY <2>1, <2>2, <2>3, <1>1, <1>4
<1>6. Distinct(s) /\ u \notin Elems(s) => Distinct(a)
  <2> SUFFICES ASSUME Distinct(s), u \notin Elems(s),
                      NEW j \in 1 .. n + 1, NEW k \in 1 .. n + 1, a[j] = a[k]
               PROVE j = k
    BY <1>4 DEF Distinct
  <2>1. CASE j <= n /\ k <= n
    BY <2>1, <1>1, <1>3 DEF Distinct
  <2>2. CASE j = n + 1 \/ k = n + 1
    BY <2>2, <1>1, <1>3
  <2> QED
    BY <2>1, <2>2, <1>1
<1> QED
  BY <1>2, <1>5, <1>6 DEF a, n

LEMMA HeadTailElems ==
    ASSUME NEW S, NEW s \in Seq(S), s # <<>>
    PROVE /\ Head(s) \in Elems(s) /\ Elems(Tail(s)) \subseteq Elems(s)
          /\ Len(s) \in Nat \ {0} /\ Head(s) = s[1] /\ Len(Tail(s)) = Len(s) - 1
          /\ Tail(s) \in Seq(S) /\ DOMAIN Tail(s) = 1 .. Len(s) - 1
          /\ \A k \in 1 .. Len(s) - 1 : Tail(s)[k] = s[k + 1]
<1> DEFINE r == Tail(s)
           n == Len(s)
<1>1. n \in Nat \ {0} /\ Elems(s) = {s[k] : k \in 1 .. n}
  BY EmptySeq, ElemsOf
<1>2. Head(s) = s[1]
  OBVIOUS
<1>3. r \in Seq(S) /\ Len(r) = n - 1 /\ \A k \in 1 .. Len(r) : r[k] = s[k + 1]
  BY HeadTailProperties
<1>4. Elems(r) = {r[k] : k \in 1 .. n - 1} /\ DOMAIN r = 1 .. n - 1
  BY <1>3, ElemsOf
<1> HIDE DEF r, n
<1>5. Elems(r) \subseteq Elems(s)
  BY <1>1, <1>3, <1>4
<1>6. s[1] \in Elems(s)
  BY <1>1
<1> QED
  BY <1>1, <1>2, <1>3, <1>4, <1>5, <1>6 DEF r, n

(* A sequence of addresses without repetition is no longer than there are  *)
(* addresses.                                                              *)
LEMMA DistinctLen ==
    ASSUME NEW S, IsFiniteSet(S), NEW s \in Seq(S), Distinct(s)
    PROVE Len(s) <= Cardinality(S)
<1>1. Len(s) \in Nat /\ s \in [1 .. Len(s) -> S] /\ DOMAIN s = 1 .. Len(s)
  BY LenProperties
<1>2. s \in Injection(1 .. Len(s), S)
  BY <1>1 DEF Distinct, Injection, IsInjective
<1>3. Cardinality(1 .. Len(s)) <= Cardinality(S)
  BY <1>2, FS_Injection
<1>4. Cardinality(1 .. Len(s)) = Len(s)
  <2> DEFINE n == Len(s)
  <2>1. n \in Nat
    BY <1>1
  <2> HIDE DEF n
  <2>2. Cardinality(1 .. n) = IF 1 > n THEN 0 ELSE n - 1 + 1
    BY <2>1, FS_Interval
  <2>3. Cardinality(1 .. n) = n
    BY <2>1, <2>2
  <2> QED
    BY <2>3 DEF n
<1> QED
  BY <1>3, <1>4

(* The items that are popped and those that stay make the stack.           *)
LEMMA TopBelowElems ==
    ASSUME NEW s \in Seq(Urls), NEW n \in 0 .. Len(s), Distinct(s)
    PROVE /\ Distinct(Below(s, n)) /\ Elems(Below(s, n)) \cap Top(s, n) = {}
          /\ Elems(s) = Elems(Below(s, n)) \cup Top(s, n)
<1> DEFINE q == Len(s)
           b == Below(s, n)
<1>1. q \in Nat /\ DOMAIN s = 1 .. q /\ Elems(s) = {s[k] : k \in 1 .. q} /\ n \in Nat /\ n <= q
  BY ElemsOf
<1>2. b \in Seq(Urls) /\ Len(b) = q - n /\ \A k \in 1 .. q - n : b[k] = s[k]
  <2> DEFINE w == q - n
  <2>1. w \in Nat /\ \A k \in 1 .. w : s[k] \in Urls
    BY <1>1, ElementOfSeq
  <2>2. /\ SubSeq(s, 1, w) \in Seq(Urls)
        /\ Len(SubSeq(s, 1, w)) = IF 1 <= w THEN w - 1 + 1 ELSE 0
        /\ \A k \in 1 .. w - 1 + 1 : SubSeq(s, 1, w)[k] = s[1 + k - 1]
    <3> HIDE DEF w
    <3> QED BY <2>1, SubSeqProperties
  <2>3. b = SubSeq(s, 1, w)
    BY DEF Below
  <2> HIDE DEF w, b
  <2>4. b \in Seq(Urls) /\ Len(b) = w /\ \A k \in 1 .. w : b[k] = s[k]
    BY <2>1, <2>2, <2>3
  <2> QED
    BY <2>4 DEF w
<1>3. DOMAIN b = 1 .. q - n /\ Elems(b) = {b[k] : k \in 1 .. q - n}
  BY <1>2, ElemsOf
<1>4. Top(s, n) = {s[k] : k \in q - n + 1 .. q}
  BY DEF Top
<1>5. \A j, k \in 1 .. q : s[j] = s[k] => j = k
  BY <1>1 DEF Distinct
<1> HIDE DEF q, b
<1>6. Distinct(b)
  BY <1>1, <1>2, <1>3, <1>5 DEF Distinct
<1>7. Elems(b) \cap Top(s, n) = {}
  <2> SUFFICES ASSUME NEW j \in 1 .. q - n, NEW k \in q - n + 1 .. q, b[j] = s[k] PROVE FALSE
    BY <1>3, <1>4
  <2>1. s[j] = s[k] /\ j \in 1 .. q /\ k \in 1 .. q /\ j # k
    BY <1>1, <1>2
  <2> QED
    BY <2>1, <1>5
<1>8. Elems(s) \subseteq Elems(b) \cup Top(s, n)
  <2> SUFFICES ASSUME NEW k \in 1 .. q PROVE s[k] \in Elems(b) \cup Top(s, n)
    BY <1>1
  <2>1. CASE k <= q - n
    BY <2>1, <1>1, <1>2, <1>3
  <2>2. CASE k > q - n
    <3>1. k \in q - n + 1 .. q
      BY <2>2, <1>1
    <3> QED
      BY <3>1, <1>4
  <2> QED
    BY <2>1, <2>2, <1>1
<1>9. Elems(b) \subseteq Elems(s) /\ Top(s, n) \subseteq Elems(s)
  <2>1. \A k \in 1 .. q - n : b[k] \in Elems(s)
    BY <1>1, <1>2
  <2>2. \A k \in q - n + 1 .. q : k \in 1 .. q
    BY <1>1
  <2> QED
    BY <2>1, <2>2, <1>1, <1>3, <1>4
<1> QED
  BY <1>6, <1>7, <1>8, <1>9 DEF b

-----------------------------------------------------------------------------
(* Every address that is found is at one place only.                       *)

LogExact == Elems(dp) = table /\ Distinct(dp)
Found == Elems(frontier) \subseteq table /\ cm \subseteq table /\ MessageUrls \subseteq table
Once == /\ Distinct(frontier)
        /\ Elems(frontier) \cap (cm \cup MessageUrls) = {} /\ cm \cap MessageUrls = {}
MessageOnce == \A j, k \in DOMAIN messages : messages[j].url = messages[k].url => j = k
PageOnce == pc = "link" => /\ eh \notin Elems(frontier) \cup cm \cup MessageUrls
                           /\ eh \in table
                           /\ Elems(todo) \subseteq Elems(Links[Redirect[eh]])
(* What is logged, found, and where; with IInv it is inductive.            *)
PlaceInv == LogExact /\ Found /\ Once /\ MessageOnce /\ PageOnce

UrlsIn(s) == {s[k].url : k \in DOMAIN s}
Unrepeated(s) == \A j, k \in DOMAIN s : s[j].url = s[k].url => j = k

(* r is s with one message, in some order, for every transfer of over.     *)
Appended(over, order, new, s, r) ==
    /\ over \subseteq Urls /\ IsFiniteSet(over) /\ order \in Orders(over)
    /\ new \in [DOMAIN order -> [url : Urls, ok : BOOLEAN]]
    /\ \A k \in DOMAIN order : new[k].url = order[k]
    /\ s \in Seq([url : Urls, ok : BOOLEAN]) /\ Unrepeated(s) /\ over \cap UrlsIn(s) = {}
    /\ r = s \o new

(* The transfers that end get one message each.                            *)
LEMMA PerformMessages ==
    ASSUME NEW over, NEW order, NEW new, NEW s, NEW r, Appended(over, order, new, s, r)
    PROVE UrlsIn(r) = UrlsIn(s) \cup over /\ Unrepeated(r)
<1> DEFINE n == Cardinality(over)
           l == Len(s)
<1>h. /\ over \subseteq Urls /\ IsFiniteSet(over) /\ order \in Orders(over)
      /\ new \in [DOMAIN order -> [url : Urls, ok : BOOLEAN]]
      /\ \A k \in DOMAIN order : new[k].url = order[k]
  BY DEF Appended
<1>s. /\ s \in Seq([url : Urls, ok : BOOLEAN]) /\ Unrepeated(s) /\ over \cap UrlsIn(s) = {}
      /\ r = s \o new
  BY DEF Appended
<1>1. IsFiniteSet(over) /\ n \in Nat
  BY <1>h, FS_CardinalityType
<1>2. order \in [1 .. n -> over] /\ {order[k] : k \in 1 .. n} = over
  BY <1>h DEF Orders
<1>3. \A j, k \in 1 .. n : order[j] = order[k] => j = k
  <2>1. order \in Surjection(1 .. n, over)
    BY <1>2 DEF Surjection
  <2>2. IsFiniteSet(1 .. n) /\ Cardinality(1 .. n) = n
    BY <1>1, FS_Interval
  <2>3. order \in Injection(1 .. n, over)
    BY <1>1, <2>1, <2>2, FS_SurjSameCardinalityImpliesInj
  <2> QED
    BY <2>3 DEF Injection, IsInjective
<1>4. new \in [1 .. n -> [url : Urls, ok : BOOLEAN]] /\ \A k \in 1 .. n : new[k].url = order[k]
  BY <1>2, <1>h
<1>m. l \in Nat /\ DOMAIN s = 1 .. l /\ \A k \in 1 .. l : s[k].url \in UrlsIn(s)
  BY <1>s, LenProperties DEF UrlsIn
<1>x. UrlsIn(s) = {s[k].url : k \in 1 .. l}
  BY <1>m DEF UrlsIn
<1> HIDE DEF n, l
<1>5. new \in Seq([url : Urls, ok : BOOLEAN]) /\ Len(new) = n
  BY <1>1, <1>4, FunctionIsSeq
<1>6. /\ r \in Seq([url : Urls, ok : BOOLEAN]) /\ Len(r) = l + n
      /\ \A k \in 1 .. l + n : r[k] = IF k <= l THEN s[k] ELSE new[k - l]
  <2>1. /\ s \o new \in Seq([url : Urls, ok : BOOLEAN]) /\ Len(s \o new) = Len(s) + Len(new)
        /\ \A k \in 1 .. Len(s) + Len(new) :
              (s \o new)[k] = IF k <= Len(s) THEN s[k] ELSE new[k - Len(s)]
    BY <1>s, <1>5, ConcatProperties
  <2>2. Len(s) = l /\ Len(new) = n
    BY <1>5 DEF l
  <2>3. r = s \o new
    BY <1>s
  <2> QED
    BY <2>1, <2>2, <2>3
<1>7. DOMAIN r = 1 .. l + n
  BY <1>1, <1>6, LenProperties
<1>8. \A k \in 1 .. l + n : r[k].url = IF k <= l THEN s[k].url ELSE order[k - l]
  <2> SUFFICES ASSUME NEW k \in 1 .. l + n
               PROVE r[k].url = IF k <= l THEN s[k].url ELSE order[k - l]
    OBVIOUS
  <2>1. CASE k <= l
    BY <2>1, <1>6
  <2>2. CASE ~(k <= l)
    <3>1. k - l \in 1 .. n
      BY <2>2, <1>1, <1>m
    <3>2. new[k - l].url = order[k - l]
      BY <3>1, <1>4
    <3>3. r[k] = new[k - l]
      BY <2>2, <1>6
    <3> QED
      BY <2>2, <3>2, <3>3
  <2> QED
    BY <2>1, <2>2
<1>9. UrlsIn(r) = {r[k].url : k \in 1 .. l + n}
  BY <1>7 DEF UrlsIn
<1>10. \A k \in 1 .. n : order[k] \in over
  BY <1>2
<1>a. \A k \in 1 .. l + n : k <= l => r[k].url = s[k].url /\ k \in 1 .. l
  <2>1. \A k \in 1 .. l + n : k <= l => k \in 1 .. l
    BY <1>1, <1>m
  <2> QED
    BY <2>1, <1>8
<1>b. \A k \in 1 .. l + n : ~(k <= l) => r[k].url = order[k - l] /\ k - l \in 1 .. n
  <2>1. \A k \in 1 .. l + n : ~(k <= l) => k - l \in 1 .. n
    BY <1>1, <1>m
  <2> QED
    BY <2>1, <1>8
<1>11. UrlsIn(r) \subseteq UrlsIn(s) \cup over
  <2> SUFFICES ASSUME NEW k \in 1 .. l + n PROVE r[k].url \in UrlsIn(s) \cup over
    BY <1>9
  <2>1. CASE k <= l
    BY <2>1, <1>a, <1>m
  <2>2. CASE ~(k <= l)
    BY <2>2, <1>b, <1>10
  <2> QED
    BY <2>1, <2>2
<1>12. UrlsIn(s) \subseteq UrlsIn(r)
  <2> SUFFICES ASSUME NEW k \in 1 .. l PROVE s[k].url \in UrlsIn(r)
    BY <1>x
  <2>1. k \in 1 .. l + n /\ k <= l
    BY <1>1, <1>m
  <2> QED
    BY <2>1, <1>a, <1>9
<1>13. over \subseteq UrlsIn(r)
  <2> SUFFICES ASSUME NEW k \in 1 .. n PROVE order[k] \in UrlsIn(r)
    BY <1>2
  <2>1. l + k \in 1 .. l + n /\ ~(l + k <= l) /\ (l + k) - l = k
    BY <1>1, <1>m
  <2>2. r[l + k].url = order[(l + k) - l]
    BY <2>1, <1>b
  <2>3. r[l + k].url = order[k]
    BY <2>1, <2>2
  <2> QED
    BY <2>1, <2>3, <1>9
<1>14. Unrepeated(r)
  <2> SUFFICES ASSUME NEW j \in 1 .. l + n, NEW k \in 1 .. l + n, r[j].url = r[k].url
               PROVE j = k
    BY <1>7 DEF Unrepeated
  <2>1. CASE j <= l /\ k <= l
    BY <2>1, <1>a, <1>m, <1>s DEF Unrepeated
  <2>2. CASE ~(j <= l) /\ ~(k <= l)
    <3>1. order[j - l] = order[k - l] /\ j - l \in 1 .. n /\ k - l \in 1 .. n
      BY <2>2, <1>b
    <3>2. j - l = k - l
      BY <3>1, <1>3
    <3> QED
      BY <3>2, <1>1, <1>m
  <2>3. ASSUME NEW i \in 1 .. l + n, NEW h \in 1 .. l + n, i <= l, ~(h <= l)
        PROVE r[i].url # r[h].url
    <3>1. r[i].url \in UrlsIn(s) /\ r[h].url \in over
      BY <2>3, <1>a, <1>b, <1>10, <1>m
    <3> QED
      BY <3>1, <1>s
  <2> QED
    BY <2>1, <2>2, <2>3
<1> QED
  BY <1>11, <1>12, <1>13, <1>14

(* A message that is read was the only one of its transfer.                *)
LEMMA MessageRead ==
    ASSUME NEW s \in Seq([url : Urls, ok : BOOLEAN]), s # <<>>, Unrepeated(s),
           NEW r, r = Tail(s)
    PROVE /\ UrlsIn(s) = UrlsIn(r) \cup {Head(s).url}
          /\ Head(s).url \notin UrlsIn(r) /\ Unrepeated(r)
<1> DEFINE n == Len(s)
<1>1. /\ n \in Nat \ {0} /\ Head(s) = s[1] /\ DOMAIN r = 1 .. n - 1
      /\ \A k \in 1 .. n - 1 : r[k] = s[k + 1]
  BY HeadTailElems
<1>2. DOMAIN s = 1 .. n
  BY LenProperties
<1>3. UrlsIn(s) = {s[k].url : k \in 1 .. n} /\ UrlsIn(r) = {r[k].url : k \in 1 .. n - 1}
  BY <1>1, <1>2 DEF UrlsIn
<1>4. \A j, k \in 1 .. n : s[j].url = s[k].url => j = k
  BY <1>2 DEF Unrepeated
<1> HIDE DEF n
<1>5. \A k \in 1 .. n - 1 : k + 1 \in 1 .. n /\ k + 1 # 1 /\ r[k].url = s[k + 1].url
  BY <1>1
<1>6. UrlsIn(r) \subseteq UrlsIn(s) /\ s[1].url \in UrlsIn(s)
  BY <1>1, <1>3, <1>5
<1>7. UrlsIn(s) \subseteq UrlsIn(r) \cup {s[1].url}
  <2> SUFFICES ASSUME NEW k \in 1 .. n, k # 1 PROVE s[k].url \in UrlsIn(r)
    BY <1>1, <1>3
  <2>1. k - 1 \in 1 .. n - 1 /\ k - 1 + 1 = k
    BY <1>1
  <2>2. r[k - 1].url = s[k].url
    BY <1>1, <2>1, <1>5
  <2> QED
    BY <1>1, <2>1, <2>2, <1>3
<1>8. s[1].url \notin UrlsIn(r)
  <2>1. 1 \in 1 .. n
    BY <1>1
  <2> QED
    BY <1>1, <2>1, <1>3, <1>4, <1>5
<1>9. Unrepeated(r)
  <2> SUFFICES ASSUME NEW j \in 1 .. n - 1, NEW k \in 1 .. n - 1, r[j].url = r[k].url
               PROVE j = k
    BY <1>1 DEF Unrepeated
  <2>1. j + 1 = k + 1
    BY <1>1, <1>4, <1>5
  <2> QED
    BY <2>1
<1> QED
  BY <1>1, <1>6, <1>7, <1>8, <1>9

LEMMA InitPlace == Init => PlaceInv
<1> SUFFICES ASSUME Init PROVE PlaceInv
  OBVIOUS
<1>1. dp = <<Seed>> /\ table = {Seed} /\ frontier = <<Seed>> /\ cm = {} /\ messages = <<>> /\ pc = "fill"
  BY DEF Init
<1>2. Elems(<<Seed>>) = {Seed} /\ Distinct(<<Seed>>)
  BY DEF Elems, Distinct
<1>3. MessageUrls = {} /\ MessageOnce
  BY <1>1 DEF MessageUrls, MessageOnce
<1> QED
  BY <1>1, <1>2, <1>3 DEF PlaceInv, LogExact, Found, Once, PageOnce

(* What a push does to the members of a stack.                             *)
LEMMA PushedFacts ==
    ASSUME NEW s \in Seq(Urls), NEW u \in Urls, Distinct(s), u \notin Elems(s)
    PROVE Distinct(Pushed(s, u)) /\ Elems(Pushed(s, u)) \subseteq Elems(s) \cup {u}
BY AppendFacts DEF Pushed

(* A call of curl_multi_perform: every transfer is running or over.        *)
LEMMA PerformPlaces ==
    ASSUME IInv, PlaceInv, NEW from, NEW to, Perform(from, to)
    PROVE /\ cm' \cup MessageUrls' = cm \cup MessageUrls
          /\ cm' \cap MessageUrls' = {} /\ MessageOnce'
<1> DEFINE Moves(over, order, bad) ==
         /\ cm' = cm \ over
         /\ messages' = messages \o
                [k \in DOMAIN order |-> [url |-> order[k], ok |-> order[k] \notin bad]]
<1>p. PICK over \in SUBSET cm :
         \E order \in Orders(over), bad \in SUBSET over : Moves(over, order, bad)
  BY DEF Perform
<1>1. PICK order \in Orders(over), bad \in SUBSET over : Moves(over, order, bad)
  BY <1>p
<1>2. cm \subseteq Urls /\ messages \in Seq([url : Urls, ok : BOOLEAN]) /\ IsFiniteSet(cm)
  BY DEF IInv, TypeOK, Budget
<1>3. over \in SUBSET Urls /\ IsFiniteSet(over)
  BY <1>2, FS_Subset
<1>4. Unrepeated(messages) /\ UrlsIn(messages) = MessageUrls /\ cm \cap MessageUrls = {}
  BY DEF PlaceInv, MessageOnce, Once, Unrepeated, UrlsIn, MessageUrls
<1>5. UrlsIn(messages') = UrlsIn(messages) \cup over /\ Unrepeated(messages')
  <2> DEFINE r == messages'
             new == [k \in DOMAIN order |-> [url |-> order[k], ok |-> order[k] \notin bad]]
  <2>1. over \cap UrlsIn(messages) = {} /\ order \in Orders(over)
    BY <1>1, <1>4
  <2>2. r = messages \o new
    BY <1>1
  <2>x. \A k \in DOMAIN order : order[k] \in Urls
    BY <1>3 DEF Orders
  <2>3. \A k \in DOMAIN order : new[k].url = order[k]
    OBVIOUS
  <2>4. new \in [DOMAIN order -> [url : Urls, ok : BOOLEAN]]
    BY <2>x
  <2> HIDE DEF r, new
  <2>5. Appended(over, order, new, messages, r)
    BY <1>2, <1>3, <1>4, <2>1, <2>2, <2>3, <2>4 DEF Appended
  <2>6. UrlsIn(r) = UrlsIn(messages) \cup over /\ Unrepeated(r)
    BY <2>5, PerformMessages
  <2> QED
    BY <2>6 DEF r
<1>6. MessageUrls' = MessageUrls \cup over /\ MessageOnce'
  BY <1>4, <1>5 DEF MessageOnce, MessageUrls, UrlsIn, Unrepeated
<1> QED
  BY <1>1, <1>4, <1>6

LEMMA PerformKeeps ==
    ASSUME IInv, PlaceInv, NEW from, NEW to, Perform(from, to), to # "link"
    PROVE PlaceInv'
<1>1. /\ cm' \cup MessageUrls' = cm \cup MessageUrls
      /\ cm' \cap MessageUrls' = {} /\ MessageOnce'
  BY PerformPlaces
<1>2. pc' = to /\ UNCHANGED <<frontier, table, dp>>
  BY DEF Perform, marks
<1> QED
  BY <1>1, <1>2 DEF PlaceInv, LogExact, Found, Once, PageOnce, Elems, Distinct

(* A message is read: its address leaves the places of the round.          *)
LEMMA ReadPlaces ==
    ASSUME IInv, PlaceInv, messages # <<>>, messages' = Tail(messages)
    PROVE /\ MessageUrls = MessageUrls' \cup {Head(messages).url}
          /\ Head(messages).url \notin MessageUrls' /\ MessageOnce'
          /\ Head(messages).url \in Urls
<1>1. messages \in Seq([url : Urls, ok : BOOLEAN])
  BY DEF IInv, TypeOK
<1>2. Unrepeated(messages) /\ UrlsIn(messages) = MessageUrls
  BY DEF PlaceInv, MessageOnce, Unrepeated, UrlsIn, MessageUrls
<1>3. /\ UrlsIn(messages) = UrlsIn(messages') \cup {Head(messages).url}
      /\ Head(messages).url \notin UrlsIn(messages') /\ Unrepeated(messages')
  BY <1>1, <1>2, MessageRead
<1>4. Head(messages) \in [url : Urls, ok : BOOLEAN]
  BY <1>1, HeadTailProperties
<1> QED
  BY <1>2, <1>3, <1>4 DEF MessageOnce, MessageUrls, UrlsIn, Unrepeated

LEMMA StepPlace == ASSUME IInv, PlaceInv, [Next]_vars PROVE PlaceInv'
<1> USE DEF Goto, marks, images, multi, page, faults
<1>t. TypeOK /\ RoundsComplete /\ LogExact /\ Found /\ Once /\ MessageOnce /\ PageOnce
  BY DEF IInv, PlaceInv
<1>1. CASE Fill
  <2> DEFINE n == Lesser(t, Len(frontier))
  <2>1. /\ cm' = Top(frontier, n) /\ frontier' = Below(frontier, n) /\ pc' = "perform"
        /\ UNCHANGED <<table, dp, messages>> /\ pc = "fill"
    BY <1>1 DEF Fill
  <2>2. frontier \in Seq(Urls) /\ Distinct(frontier) /\ Len(frontier) \in Nat
    BY <1>t, LenProperties DEF TypeOK, Once
  <2>3. n \in 0 .. Len(frontier)
    BY <2>2, SizeAssumption DEF Lesser
  <2> HIDE DEF n
  <2>4. /\ Distinct(frontier') /\ Elems(frontier') \cap cm' = {}
        /\ Elems(frontier) = Elems(frontier') \cup cm'
    BY <2>1, <2>2, <2>3, TopBelowElems
  <2>5. messages = <<>>
    BY <2>1, <1>t DEF RoundsComplete
  <2>6. MessageUrls = {} /\ MessageUrls' = {} /\ MessageOnce'
    BY <2>1, <2>5 DEF MessageUrls, MessageOnce
  <2> QED
    BY <1>t, <2>1, <2>4, <2>6 DEF PlaceInv, LogExact, Found, Once, PageOnce
<1>2. CASE PerformFirst
  BY <1>2, PerformKeeps DEF PerformFirst
<1>3. CASE PerformAgain
  <2> DEFINE to == IF still_running' # 0 THEN "wait" ELSE "read"
  <2>1. Perform("again", to) /\ to # "link"
    BY <1>3 DEF PerformAgain
  <2> HIDE DEF to
  <2> QED
    BY <2>1, PerformKeeps
<1>4. CASE WaitOk \/ WaitError \/ GoOn \/ Finish \/ LastLink
  <2>1. UNCHANGED <<frontier, table, dp, cm, messages, eh, todo>> /\ pc' # "link"
    BY <1>4 DEF WaitOk, WaitError, GoOn, Finish, LastLink
  <2> QED
    BY <1>t, <2>1
       DEF PlaceInv, LogExact, Found, Once, MessageOnce, PageOnce, MessageUrls, Elems, Distinct
<1>5. CASE ReadFailed \/ ReadPng \/ ReadOther
  <2>1. /\ messages # <<>> /\ messages' = Tail(messages) /\ pc' # "link"
        /\ UNCHANGED <<frontier, table, dp, cm>>
    BY <1>5 DEF ReadFailed, ReadPng, ReadOther
  <2>2. MessageUrls = MessageUrls' \cup {Head(messages).url} /\ MessageOnce'
    BY <2>1, ReadPlaces
  <2> QED
    BY <1>t, <2>1, <2>2 DEF PlaceInv, LogExact, Found, Once, PageOnce
<1>6. CASE ReadPage
  <2> DEFINE u == Head(messages).url
  <2>1. /\ messages # <<>> /\ messages' = Tail(messages) /\ pc' = "link"
        /\ eh' = u /\ todo' = Links[Redirect[u]]
        /\ UNCHANGED <<frontier, table, dp, cm>> /\ pc = "read"
    BY <1>6 DEF ReadPage
  <2>2. MessageUrls = MessageUrls' \cup {u} /\ u \notin MessageUrls' /\ MessageOnce'
    BY <2>1, ReadPlaces
  <2>3. cm = {}
    BY <2>1, <1>t DEF RoundsComplete
  <2> HIDE DEF u
  <2>4. u \notin Elems(frontier) /\ u \in table
    BY <1>t, <2>2 DEF Once, Found
  <2>5. PageOnce'
    BY <2>1, <2>2, <2>3, <2>4 DEF PageOnce
  <2> QED
    BY <1>t, <2>1, <2>2, <2>5 DEF PlaceInv, LogExact, Found, Once
<1>7. CASE KnownLink
  <2>1. /\ todo # <<>> /\ todo' = Tail(todo) /\ pc' = pc /\ pc = "link"
        /\ UNCHANGED <<frontier, table, dp, cm, messages, eh>>
    BY <1>7 DEF KnownLink
  <2>2. Elems(Tail(todo)) \subseteq Elems(todo)
    BY <1>t, <2>1, HeadTailElems DEF TypeOK
  <2>3. MessageUrls' = MessageUrls /\ MessageOnce'
    BY <1>t, <2>1 DEF MessageUrls, MessageOnce
  <2>4. PageOnce'
    BY <1>t, <2>1, <2>2, <2>3 DEF PageOnce
  <2> QED
    BY <1>t, <2>1, <2>3, <2>4 DEF PlaceInv, LogExact, Found, Once
<1>8. CASE NewLink
  <2> DEFINE u == Head(todo)
  <2>1. /\ todo # <<>> /\ todo' = Tail(todo) /\ pc' = pc /\ pc = "link"
        /\ table' = table \cup {u} /\ dp' = Append(dp, u) /\ frontier' = Pushed(frontier, u)
        /\ UNCHANGED <<cm, messages, eh>> /\ u \notin table
    BY <1>8 DEF NewLink
  <2>2. todo \in Seq(Urls) /\ dp \in Seq(Urls) /\ frontier \in Seq(Urls)
    BY <1>t DEF TypeOK
  <2>3. u \in Elems(todo) /\ Elems(Tail(todo)) \subseteq Elems(todo) /\ u \in Urls
    BY <2>1, <2>2, HeadTailElems, ElemsOf
  <2>4. MessageUrls' = MessageUrls /\ MessageOnce'
    BY <1>t, <2>1 DEF MessageUrls, MessageOnce
  <2> HIDE DEF u
  <2>5. Elems(dp') = table' /\ Distinct(dp')
    BY <1>t, <2>1, <2>2, <2>3, AppendFacts DEF LogExact
  <2>6. Distinct(frontier') /\ Elems(frontier') \subseteq Elems(frontier) \cup {u}
    BY <1>t, <2>1, <2>2, <2>3, PushedFacts DEF Once, Found
  <2>7. u \notin cm \cup MessageUrls /\ u # eh
    BY <1>t, <2>1 DEF Found, PageOnce
  <2>8. Once' /\ Found'
    BY <1>t, <2>1, <2>4, <2>6, <2>7 DEF Once, Found
  <2>9. PageOnce'
    BY <1>t, <2>1, <2>3, <2>4, <2>6, <2>7 DEF PageOnce
  <2> QED
    BY <2>4, <2>5, <2>8, <2>9 DEF PlaceInv, LogExact
<1>9. CASE UNCHANGED vars
  BY <1>9, <1>t
     DEF vars, PlaceInv, LogExact, Found, Once, MessageOnce, PageOnce, MessageUrls, Elems, Distinct
<1> QED
  BY <1>1, <1>2, <1>3, <1>4, <1>5, <1>6, <1>7, <1>8, <1>9 DEF Next

LEMMA PlaceInvHolds == Spec => [](IInv /\ PlaceInv)
<1>1. IInv /\ PlaceInv /\ [Next]_vars => (IInv /\ PlaceInv)'
  BY TypeStep, RoundsStep, BudgetStep, StepPlace DEF IInv
<1>2. Init => IInv /\ PlaceInv
  BY InitIInv, InitPlace
<1> QED
  BY <1>1, <1>2, PTL DEF Spec

(* hsearch before push (lab_png.h:157-178) and the pops of a round leave   *)
(* every URL at one place: it is fetched once.                             *)
THEOREM FetchesOnce == Spec => []FetchedOnce
<1>1. PlaceInv => FetchedOnce
  BY DEF PlaceInv, LogExact, Once, FetchedOnce, Distinct
<1> QED
  BY PlaceInvHolds, <1>1, PTL

-----------------------------------------------------------------------------
(* What main writes *)

PngCounted == Len(png) = Lesser(image_counter, StackSize)
OutInv == PngCounted /\ (m <= StackSize => OutputComplete)

LEMMA OutputLen ==
    ASSUME TypeOK, PngCounted, m <= StackSize
    PROVE Len([k \in 1 .. Lesser(m, Len(png)) |-> png[Len(png) + 1 - k]]) = Lesser(m, image_counter)
<1> DEFINE n == Lesser(m, Len(png))
           out == [k \in 1 .. n |-> png[Len(png) + 1 - k]]
<1>1. Len(png) \in Nat /\ png \in [1 .. Len(png) -> Urls] /\ image_counter \in Nat
  BY LenProperties DEF TypeOK
<1>2. n \in Nat /\ n <= Len(png) /\ n = Lesser(m, image_counter)
  BY <1>1, SizeAssumption DEF Lesser, PngCounted
<1> HIDE DEF n
<1>3. out \in [1 .. n -> Urls]
  BY <1>1, <1>2
<1> HIDE DEF out
<1>4. Len(out) = n
  BY <1>2, <1>3, FunctionIsSeq
<1> QED
  BY <1>2, <1>4 DEF n, out

LEMMA StepOut == ASSUME TypeOK, OutInv, [Next]_vars PROVE OutInv'
<1> USE DEF Goto, marks, images, multi, page, faults
<1>t. /\ PngCounted /\ png \in Seq(Urls) /\ Len(png) \in Nat /\ image_counter \in Nat
      /\ StackSize \in Nat \ {0} /\ m \in Nat \ {0}
  BY LenProperties, SizeAssumption DEF OutInv, TypeOK
<1>1. CASE ReadPng
  <2> DEFINE u == Redirect[Head(messages).url]
  <2>1. u \in Urls
    <3>1. messages # <<>> /\ messages' = Tail(messages) /\ cm' = cm
      BY <1>1 DEF ReadPng
    <3>2. Head(messages).url \in Urls
      BY <3>1, ReadStep
    <3> QED
      BY <3>2, WebAssumption
  <2>2. png' = Pushed(png, u) /\ image_counter' = image_counter + 1 /\ pc' = "read"
    BY <1>1 DEF ReadPng
  <2> HIDE DEF u
  <2>3. Len(Append(png, u)) = Len(png) + 1
    BY <2>1, <1>t
  <2>4. Len(png') = IF Len(png) < StackSize THEN Len(png) + 1 ELSE Len(png)
    BY <2>2, <2>3 DEF Pushed
  <2>5. PngCounted'
    BY <1>t, <2>2, <2>4 DEF PngCounted, Lesser
  <2> QED
    BY <2>2, <2>5 DEF OutInv, OutputComplete
<1>2. CASE Finish
  <2>1. /\ png' = png /\ image_counter' = image_counter /\ frontier' = frontier
        /\ png_urls' = [k \in 1 .. Lesser(m, Len(png)) |-> png[Len(png) + 1 - k]]
        /\ (image_counter >= m \/ frontier = <<>>)
    BY <1>2 DEF Finish, CrawlIsOver
  <2>2. m <= StackSize => Len(png_urls') = Lesser(m, image_counter)
    BY <2>1, <1>t, OutputLen
  <2>3. /\ PngCounted' /\ image_counter' = image_counter
        /\ (image_counter < m => frontier' = <<>>)
    BY <1>t, <2>1 DEF PngCounted
  <2> QED
    BY <2>2, <2>3 DEF OutInv, OutputComplete
<1>3. CASE Fill \/ WaitOk \/ WaitError \/ ReadFailed \/ ReadPage \/ ReadOther \/ KnownLink
           \/ NewLink \/ LastLink \/ GoOn
  <2>1. UNCHANGED <<png, image_counter>> /\ pc' # "written"
    BY <1>3 DEF Fill, WaitOk, WaitError, ReadFailed, ReadPage, ReadOther, KnownLink,
                NewLink, LastLink, GoOn
  <2> QED
    BY <2>1, <1>t DEF OutInv, OutputComplete, PngCounted
<1>4. CASE PerformFirst \/ PerformAgain
  <2>1. UNCHANGED <<png, image_counter>> /\ pc' # "written"
    BY <1>4 DEF PerformFirst, PerformAgain, Perform
  <2> QED
    BY <2>1, <1>t DEF OutInv, OutputComplete, PngCounted
<1>5. CASE UNCHANGED vars
  BY <1>5 DEF vars, OutInv, OutputComplete, PngCounted
<1> QED
  BY <1>1, <1>2, <1>3, <1>4, <1>5 DEF Next

(* As long as the images wanted fit into the stack, main (findpng3.c:234)  *)
(* writes m lines or all the images, and fewer than m only when nothing    *)
(* was left to visit.                                                      *)
THEOREM OutputIsComplete == ASSUME m <= StackSize PROVE Spec => []OutputComplete
<1>1. Init => OutInv
  <2>1. Init => png = <<>> /\ image_counter = 0 /\ pc = "fill" /\ Len(<<>>) = 0
    BY DEF Init
  <2> QED
    BY <2>1, SizeAssumption DEF OutInv, OutputComplete, PngCounted, Lesser
<1>2. TypeOK /\ OutInv /\ [Next]_vars => OutInv'
  BY StepOut
<1>3. OutInv => OutputComplete
  BY DEF OutInv
<1> QED
  BY <1>1, <1>2, <1>3, TypeCorrect, PTL DEF Spec

-----------------------------------------------------------------------------
(* The crawl that findpng3 makes *)

Active == cm \cup MessageUrls \cup (IF pc = "link" THEN {eh} ELSE {})

LEMMA AbstractInit == Init => Abstract!Init
<1> SUFFICES ASSUME Init PROVE Abstract!Init
  OBVIOUS
<1>1. /\ frontier = <<Seed>> /\ table = {Seed} /\ cm = {} /\ messages = <<>> /\ pc = "fill"
      /\ image_counter = 0
  BY DEF Init
<1>2. Elems(<<Seed>>) = {Seed} /\ MessageUrls = {}
  BY <1>1 DEF Elems, MessageUrls
<1> QED
  BY <1>1, <1>2 DEF Abstract!Init

LEMMA AbstractStep ==
    ASSUME IsFiniteSet(Urls), Cardinality(Urls) <= StackSize, IInv, PlaceInv, [Next]_vars
    PROVE [Abstract!Next]_(Abstract!vars)
<1> USE DEF Goto, marks, images, multi, page, faults
<1>t. TypeOK /\ RoundsComplete /\ LogExact /\ Found /\ Once /\ MessageOnce /\ PageOnce
  BY DEF IInv, PlaceInv
<1>s. ASSUME Elems(frontier') = Elems(frontier), Active' = Active,
             UNCHANGED <<table, image_counter>>, (pc' = "written") <=> (pc = "written")
      PROVE UNCHANGED Abstract!vars
  BY <1>s DEF Abstract!vars, Active
<1>r. ASSUME NEW u \in Urls, u \in Active, Active' = Active \ {u},
             Elems(frontier') = Elems(frontier), table' = table,
             image_counter' \in {image_counter, image_counter + 1},
             pc' = "written" <=> pc = "written"
      PROVE Abstract!Next
  <2>1. Abstract!Retire(u)
    BY <1>r DEF Abstract!Retire, Active
  <2> QED
    BY <2>1 DEF Abstract!Next
<1>1. CASE Fill
  <2> DEFINE n == Lesser(t, Len(frontier))
  <2>1. /\ cm' = Top(frontier, n) /\ frontier' = Below(frontier, n) /\ pc' = "perform"
        /\ UNCHANGED <<table, messages, image_counter>> /\ pc = "fill"
    BY <1>1 DEF Fill
  <2>2. frontier \in Seq(Urls) /\ Distinct(frontier) /\ Len(frontier) \in Nat
    BY <1>t, LenProperties DEF TypeOK, Once
  <2>3. n \in 0 .. Len(frontier)
    BY <2>2, SizeAssumption DEF Lesser
  <2> HIDE DEF n
  <2>4. /\ Elems(frontier') \cap cm' = {} /\ Elems(frontier) = Elems(frontier') \cup cm'
        /\ Elems(frontier) \subseteq Urls
    BY <2>1, <2>2, <2>3, TopBelowElems, ElemsOf
  <2>5. cm = {} /\ messages = <<>>
    BY <2>1, <1>t DEF RoundsComplete
  <2>6. Active = {} /\ Active' = cm'
    BY <2>1, <2>5 DEF Active, MessageUrls
  <2>7. CASE cm' = {}
    BY <2>1, <2>4, <2>6, <2>7, <1>s
  <2>8. CASE cm' # {}
    <3>1. PICK S \in SUBSET Urls : S = cm'
      BY <2>4
    <3>2. Abstract!Start(S)
      BY <3>1, <2>1, <2>4, <2>6, <2>8 DEF Abstract!Start, Active
    <3> QED
      BY <3>2 DEF Abstract!Next
  <2> QED
    BY <2>7, <2>8
<1>2. ASSUME NEW from, NEW to, Perform(from, to),
             from \notin {"written", "link"}, to \notin {"written", "link"}
      PROVE UNCHANGED Abstract!vars
  <2>1. cm' \cup MessageUrls' = cm \cup MessageUrls
    BY <1>2, PerformPlaces
  <2>2. pc = from /\ pc' = to /\ UNCHANGED <<frontier, table, image_counter>>
    BY <1>2 DEF Perform
  <2>3. Active' = Active
    BY <1>2, <2>1, <2>2 DEF Active
  <2>4. Elems(frontier') = Elems(frontier)
    BY <2>2
  <2> QED
    BY <1>2, <2>2, <2>3, <2>4, <1>s
<1>3. CASE PerformFirst
  BY <1>3, <1>2 DEF PerformFirst
<1>4. CASE PerformAgain
  <2> DEFINE to == IF still_running' # 0 THEN "wait" ELSE "read"
  <2>1. Perform("again", to) /\ to \notin {"written", "link"}
    BY <1>4 DEF PerformAgain
  <2> HIDE DEF to
  <2> QED
    BY <2>1, <1>2
<1>5. CASE WaitOk \/ WaitError \/ GoOn \/ KnownLink \/ UNCHANGED vars
  <2>1. /\ UNCHANGED <<frontier, table, cm, messages, eh, image_counter>>
        /\ (pc' = "written" <=> pc = "written") /\ (pc' = "link" <=> pc = "link")
    BY <1>5 DEF WaitOk, WaitError, GoOn, KnownLink, vars
  <2>2. Active' = Active /\ Elems(frontier') = Elems(frontier)
    BY <2>1 DEF Active, MessageUrls
  <2> QED
    BY <2>1, <2>2, <1>s
<1>6. CASE ReadFailed \/ ReadPng \/ ReadOther
  <2> DEFINE u == Head(messages).url
  <2>1. /\ messages # <<>> /\ messages' = Tail(messages) /\ pc' = "read" /\ pc = "read"
        /\ UNCHANGED <<frontier, table, cm>>
        /\ image_counter' \in {image_counter, image_counter + 1}
    BY <1>6 DEF ReadFailed, ReadPng, ReadOther
  <2>2. MessageUrls = MessageUrls' \cup {u} /\ u \notin MessageUrls' /\ u \in Urls
    BY <2>1, ReadPlaces
  <2> HIDE DEF u
  <2>3. u \in Active /\ Active' = Active \ {u}
    BY <1>t, <2>1, <2>2 DEF Active, Once
  <2>4. Elems(frontier') = Elems(frontier)
    BY <2>1
  <2> QED
    BY <2>1, <2>2, <2>3, <2>4, <1>r
<1>7. CASE ReadPage
  <2> DEFINE u == Head(messages).url
  <2>1. /\ messages # <<>> /\ messages' = Tail(messages) /\ pc' = "link" /\ pc = "read"
        /\ eh' = u /\ UNCHANGED <<frontier, table, cm, image_counter>>
    BY <1>7 DEF ReadPage
  <2>2. MessageUrls = MessageUrls' \cup {u}
    BY <2>1, ReadPlaces
  <2> HIDE DEF u
  <2>3. Active' = Active /\ Elems(frontier') = Elems(frontier)
    BY <2>1, <2>2 DEF Active
  <2> QED
    BY <2>1, <2>3, <1>s
<1>8. CASE NewLink
  <2> DEFINE u == Head(todo)
  <2>1. /\ todo # <<>> /\ pc' = "link" /\ pc = "link" /\ u \notin table
        /\ table' = table \cup {u} /\ frontier' = Pushed(frontier, u)
        /\ UNCHANGED <<cm, messages, eh, image_counter>>
    BY <1>8 DEF NewLink
  <2>2. todo \in Seq(Urls) /\ frontier \in Seq(Urls)
    BY <1>t DEF TypeOK
  <2>3. u \in Elems(todo) /\ u \in Urls
    BY <2>1, <2>2, HeadTailElems, ElemsOf
  <2>4. u \in Elems(Links[Redirect[eh]])
    BY <1>t, <2>1, <2>3 DEF PageOnce
  <2>5. u \in {Links[Redirect[eh]][k] : k \in DOMAIN Links[Redirect[eh]]}
    BY <2>4 DEF Elems
  <2> HIDE DEF u
  <2>6. /\ Append(frontier, u) \in Seq(Urls) /\ Len(Append(frontier, u)) = Len(frontier) + 1
        /\ Elems(Append(frontier, u)) = Elems(frontier) \cup {u} /\ Distinct(Append(frontier, u))
    BY <1>t, <2>1, <2>2, <2>3, AppendFacts DEF Found, Once
  <2>7. Len(Append(frontier, u)) <= Cardinality(Urls)
    BY <2>6, DistinctLen
  <2>8. Len(frontier) < StackSize
    BY <2>2, <2>6, <2>7, LenProperties, FS_CardinalityType, SizeAssumption
  <2>9. Elems(frontier') = Elems(frontier) \cup {u}
    BY <2>1, <2>6, <2>8 DEF Pushed
  <2>10. Active' = Active /\ eh \in Active
    BY <2>1 DEF Active, MessageUrls
  <2>11. PICK v \in Urls : v = u
    BY <2>3
  <2>12. Abstract!Discover(v)
    BY <2>1, <2>5, <2>9, <2>10, <2>11 DEF Abstract!Discover, Abstract!LinksOf, Active
  <2> QED
    BY <2>12 DEF Abstract!Next
<1>9. CASE LastLink
  <2>1. pc = "link" /\ pc' = "read" /\ UNCHANGED <<frontier, table, cm, messages, eh, image_counter>>
    BY <1>9 DEF LastLink
  <2>2. eh \in Urls /\ eh \notin cm \cup MessageUrls
    BY <1>t, <2>1 DEF TypeOK, PageOnce
  <2>3. eh \in Active /\ Active' = Active \ {eh} /\ Elems(frontier') = Elems(frontier)
    BY <2>1, <2>2 DEF Active, MessageUrls
  <2>4. PICK v \in Urls : v = eh
    BY <2>2
  <2> QED
    BY <2>1, <2>3, <2>4, <1>r
<1>10. CASE Finish
  <2>1. /\ pc = "read" /\ pc' = "written" /\ messages = <<>>
        /\ (image_counter >= m \/ frontier = <<>>)
        /\ UNCHANGED <<frontier, table, cm, messages, eh, image_counter>>
    BY <1>10 DEF Finish, CrawlIsOver
  <2>2. cm = {}
    BY <2>1, <1>t DEF RoundsComplete
  <2>3. Active = {} /\ Active' = Active
    BY <2>1, <2>2 DEF Active, MessageUrls
  <2>4. Elems(frontier') = Elems(frontier) /\ Elems(<<>>) = {}
    BY <2>1 DEF Elems
  <2>5. Abstract!Finish
    BY <2>1, <2>3, <2>4 DEF Abstract!Finish, Active
  <2> QED
    BY <2>5 DEF Abstract!Next
<1> QED
  BY <1>1, <1>3, <1>4, <1>5, <1>6, <1>7, <1>8, <1>9, <1>10 DEF Next

(* As long as every address fits into the stack, findpng3 is a crawl, as   *)
(* findpng2 is: the two programs promise the same.                         *)
THEOREM Implements ==
    ASSUME IsFiniteSet(Urls), Cardinality(Urls) <= StackSize
    PROVE Spec => Crawls
<1>1. IInv /\ PlaceInv /\ [Next]_vars => [Abstract!Next]_(Abstract!vars)
  BY AbstractStep
<1>2. Init => Abstract!Init
  BY AbstractInit
<1> QED
  BY <1>1, <1>2, PlaceInvHolds, PTL DEF Spec, Crawls, Abstract!Spec
=============================================================================
