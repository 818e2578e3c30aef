--------------------------- MODULE Findpng2Proofs ---------------------------
(***************************************************************************)
(* findpng2 for every number of threads, every web and every m, in three   *)
(* parts: how many threads wait and how many images are found; what the    *)
(* data promise (types, the table and its log, the room on the frontier,   *)
(* the work that is left on it and what main writes); and that findpng2    *)
(* implements the abstract crawl.                                          *)
(***************************************************************************)
EXTENDS Findpng2, Counting, SequenceTheorems

(* The threads that waiting_thread counts, and those that are past their   *)
(* last image once the counter is met: they break at the next test.        *)
WaitLabels == {"asleep", "relock", "recheck", "left"}
PastLabels == {"close", "check", "left", "ended"}
Waiters == Cardinality(At(WaitLabels))
Past == Cardinality(At(PastLabels))

(* From the m-th image on, each image beyond it belongs to a thread that   *)
(* will not fetch again.                                                   *)
ImagesHeld == image_counter < m \/ image_counter <= m - 1 + Past

IInv == /\ pc \in [Threads -> Labels]
        /\ waiting_thread = 1 + Waiters
        /\ image_counter \in Nat
        /\ ImagesHeld

-----------------------------------------------------------------------------
(* The facts of Counting about the threads.                                *)
LEMMA AtType ==
    ASSUME NEW A
    PROVE /\ Cardinality(At(A)) \in Nat
          /\ Cardinality(At(A)) <= Cardinality(Threads)
          /\ \A th \in Threads : pc[th] \in A => Cardinality(At(A)) >= 1
BY ThreadAssumption, NumberType DEF Number, Where, At

LEMMA AtStep ==
    ASSUME NEW A, NEW th \in Threads, \A r \in Threads \ {th} : pc'[r] = pc[r]
    PROVE Cardinality(At(A)') = Cardinality(At(A)) - In(pc[th], A) + In(pc'[th], A)
<1>1. Number(pc', Threads, A) = Number(pc, Threads, A) - In(pc[th], A) + In(pc'[th], A)
  BY ThreadAssumption, NumberStep
<1>2. Number(pc, Threads, A) = Cardinality(At(A)) /\ Number(pc', Threads, A) = Cardinality(At(A)')
  BY DEF Number, Where, At
<1> QED
  BY <1>1, <1>2

Moved(from, to) ==
    /\ Waiters' = Waiters - In(from, WaitLabels) + In(to, WaitLabels)
    /\ Past' = Past - In(from, PastLabels) + In(to, PastLabels)

LEMMA MoveStep ==
    ASSUME pc \in [Threads -> Labels], NEW th \in Threads,
           NEW from, NEW to, Goto(th, from, to)
    PROVE Moved(from, to)
<1>1. pc[th] = from /\ pc'[th] = to /\ \A r \in Threads \ {th} : pc'[r] = pc[r]
  BY DEF Goto
<1> QED
  BY <1>1, AtStep DEF Moved, Waiters, Past

LEMMA CountTypes == Waiters \in Nat /\ Past \in Nat
BY AtType DEF Waiters, Past

-----------------------------------------------------------------------------

LEMMA InitIInv == Init => IInv
<1> SUFFICES ASSUME Init PROVE IInv
  OBVIOUS
<1>1. At(WaitLabels) = {}
  BY DEF Init, InitThreads, At, WaitLabels
<1>2. Waiters = 0
  BY <1>1, FS_EmptySet DEF Waiters
<1> QED
  BY <1>2, SizeAssumption DEF Init, InitThreads, IInv, ImagesHeld, Labels

(* A thread is taken off the count when it stops waiting, and counted as   *)
(* past when it counts an image; nobody past the m-th image goes on.       *)
LEMMA StepIInv == IInv /\ [Next]_vars => IInv'
<1> SUFFICES ASSUME IInv, [Next]_vars PROVE IInv'
  OBVIOUS
<1>t. pc \in [Threads -> Labels] /\ image_counter \in Nat /\ m \in Nat
  BY SizeAssumption DEF IInv
<1>w. waiting_thread = 1 + Waiters /\ ImagesHeld
  BY DEF IInv
<1>f. ASSUME NEW th \in Threads, NEW from, NEW to \in Labels, Goto(th, from, to)
      PROVE pc' \in [Threads -> Labels] /\ Moved(from, to)
  <2>1. pc' \in [Threads -> Labels]
    BY <1>t, <1>f DEF Goto
  <2> QED
    BY <2>1, <1>t, <1>f, MoveStep
<1>1. ASSUME NEW th \in Threads, Step(th) PROVE IInv'
  <2> USE <1>t, <1>w, CountTypes DEF IInv, ImagesHeld, Moved, WaitLabels, PastLabels, In, counters
  <2>1. CASE LockFrontier(th)
    <3>1. Goto(th, "top", "look")
      BY <2>1 DEF LockFrontier
    <3>2. pc' \in [Threads -> Labels] /\ Moved("top", "look")
      BY <3>1, <1>f DEF Labels
    <3> QED
      BY <2>1, <3>2 DEF LockFrontier
  <2>2. CASE Wait(th)
    <3>1. Goto(th, "look", "asleep")
      BY <2>2 DEF Wait
    <3>2. pc' \in [Threads -> Labels] /\ Moved("look", "asleep")
      BY <3>1, <1>f DEF Labels
    <3> QED
      BY <2>2, <3>2 DEF Wait
  <2>3. CASE Relock(th)
    <3>1. Goto(th, "relock", "recheck")
      BY <2>3 DEF Relock
    <3>2. pc' \in [Threads -> Labels] /\ Moved("relock", "recheck")
      BY <3>1, <1>f DEF Labels
    <3> QED
      BY <2>3, <3>2 DEF Relock
  <2>4. CASE Leave(th)
    <3>1. Goto(th, "recheck", "left")
      BY <2>4 DEF Leave
    <3>2. pc' \in [Threads -> Labels] /\ Moved("recheck", "left")
      BY <3>1, <1>f DEF Labels
    <3> QED
      BY <2>4, <3>2 DEF Leave
  <2>5. CASE LookAgain(th)
    <3>1. Goto(th, "recheck", "look")
      BY <2>5 DEF LookAgain
    <3>2. pc' \in [Threads -> Labels] /\ Moved("recheck", "look")
      BY <3>1, <1>f DEF Labels
    <3> QED
      BY <2>5, <3>2 DEF LookAgain
  <2>6. CASE Pop(th)
    <3>1. Goto(th, "look", "fetch")
      BY <2>6 DEF Pop
    <3>2. pc' \in [Threads -> Labels] /\ Moved("look", "fetch")
      BY <3>1, <1>f DEF Labels
    <3> QED
      BY <2>6, <3>2 DEF Pop
  <2>7. CASE Fetch(th)
    <3>1. \E to \in {"link", "png", "close"} : Goto(th, "fetch", to)
      BY <2>7 DEF Fetch
    <3>2. PICK to \in {"link", "png", "close"} : Goto(th, "fetch", to)
      BY <3>1
    <3>3. pc' \in [Threads -> Labels] /\ Moved("fetch", to)
      BY <3>2, <1>f DEF Labels
    <3> QED
      BY <2>7, <3>3 DEF Fetch
  <2>8. CASE FetchFails(th)
    <3>1. Goto(th, "fetch", "top")
      BY <2>8 DEF FetchFails
    <3>2. pc' \in [Threads -> Labels] /\ Moved("fetch", "top")
      BY <3>1, <1>f DEF Labels
    <3> QED
      BY <2>8, <3>2 DEF FetchFails
  <2>9. CASE LockTable(th)
    <3>1. Goto(th, "link", "find")
      BY <2>9 DEF LockTable
    <3>2. pc' \in [Threads -> Labels] /\ Moved("link", "find")
      BY <3>1, <1>f DEF Labels
    <3> QED
      BY <2>9, <3>2 DEF LockTable
  <2>10. CASE NoMoreLinks(th)
    <3>1. Goto(th, "link", "close")
      BY <2>10 DEF NoMoreLinks
    <3>2. pc' \in [Threads -> Labels] /\ Moved("link", "close")
      BY <3>1, <1>f DEF Labels
    <3> QED
      BY <2>10, <3>2 DEF NoMoreLinks
  <2>11. CASE Known(th)
    <3>1. Goto(th, "find", "link")
      BY <2>11 DEF Known
    <3>2. pc' \in [Threads -> Labels] /\ Moved("find", "link")
      BY <3>1, <1>f DEF Labels
    <3> QED
      BY <2>11, <3>2 DEF Known
  <2>12. CASE Unknown(th)
    <3>1. Goto(th, "find", "enter")
      BY <2>12 DEF Unknown
    <3>2. pc' \in [Threads -> Labels] /\ Moved("find", "enter")
      BY <3>1, <1>f DEF Labels
    <3> QED
      BY <2>12, <3>2 DEF Unknown
  <2>13. CASE Enter(th)
    <3>1. Goto(th, "enter", "push")
      BY <2>13 DEF Enter
    <3>2. pc' \in [Threads -> Labels] /\ Moved("enter", "push")
      BY <3>1, <1>f DEF Labels
    <3> QED
      BY <2>13, <3>2 DEF Enter
  <2>14. CASE LockPush(th)
    <3>1. Goto(th, "push", "pushing")
      BY <2>14 DEF LockPush
    <3>2. pc' \in [Threads -> Labels] /\ Moved("push", "pushing")
      BY <3>1, <1>f DEF Labels
    <3> QED
      BY <2>14, <3>2 DEF LockPush
  <2>15. CASE PushUrl(th)
    <3>1. Goto(th, "pushing", "signal")
      BY <2>15 DEF PushUrl
    <3>2. pc' \in [Threads -> Labels] /\ Moved("pushing", "signal")
      BY <3>1, <1>f DEF Labels
    <3> QED
      BY <2>15, <3>2 DEF PushUrl
  <2>16. CASE Signal(th)
    <3>1. pc' \in [Threads -> Labels]
      BY <2>16 DEF Signal, Labels, Asleep
    <3>2. At(WaitLabels)' = At(WaitLabels) /\ At(PastLabels)' = At(PastLabels)
      BY <2>16 DEF Signal, At, Asleep
    <3>3. Waiters' = Waiters /\ Past' = Past
      BY <3>2 DEF Waiters, Past
    <3> QED
      BY <2>16, <3>1, <3>3 DEF Signal
  <2>17. CASE LockPng(th)
    <3>1. Goto(th, "png", "count")
      BY <2>17 DEF LockPng
    <3>2. pc' \in [Threads -> Labels] /\ Moved("png", "count")
      BY <3>1, <1>f DEF Labels
    <3> QED
      BY <2>17, <3>2 DEF LockPng
  <2>18. CASE CountPng(th)
    <3>1. Goto(th, "count", "close")
      BY <2>18 DEF CountPng
    <3>2. pc' \in [Threads -> Labels] /\ Moved("count", "close")
      BY <3>1, <1>f DEF Labels
    <3> QED
      BY <2>18, <3>2 DEF CountPng
  <2>19. CASE LockCheck(th)
    <3>1. Goto(th, "close", "check")
      BY <2>19 DEF LockCheck
    <3>2. pc' \in [Threads -> Labels] /\ Moved("close", "check")
      BY <3>1, <1>f DEF Labels
    <3> QED
      BY <2>19, <3>2 DEF LockCheck
  <2>20. CASE Break(th)
    <3>1. pc' \in [Threads -> Labels]
      BY <2>20 DEF Break, Labels, Asleep
    <3>2. At(WaitLabels)' = At(WaitLabels) /\ At(PastLabels)' = At(PastLabels)
      BY <2>20 DEF Break, At, Asleep
    <3>3. Waiters' = Waiters /\ Past' = Past
      BY <3>2 DEF Waiters, Past
    <3> QED
      BY <2>20, <3>1, <3>3 DEF Break
  <2>21. CASE GoOn(th)
    <3>1. Goto(th, "check", "top")
      BY <2>21 DEF GoOn
    <3>2. pc' \in [Threads -> Labels] /\ Moved("check", "top")
      BY <3>1, <1>f DEF Labels
    <3> QED
      BY <2>21, <3>2 DEF GoOn, CrawlIsOver
  <2> QED
    BY <1>1, <2>1, <2>2, <2>3, <2>4, <2>5, <2>6, <2>7, <2>8, <2>9, <2>10, <2>11, <2>12, <2>13, <2>14, <2>15, <2>16, <2>17, <2>18, <2>19, <2>20, <2>21 DEF Step
<1>2. ASSUME NEW th \in Threads, Spurious(th) PROVE IInv'
  <2>1. Goto(th, "asleep", "relock")
    BY <1>2 DEF Spurious
  <2>2. pc' \in [Threads -> Labels] /\ Moved("asleep", "relock")
    BY <2>1, <1>f DEF Labels
  <2> QED
    BY <1>2, <2>2, <1>t, <1>w, CountTypes
       DEF Spurious, IInv, ImagesHeld, Moved, WaitLabels, PastLabels, In, counters
<1>3. ASSUME UNCHANGED <<pc, counters>> PROVE IInv'
  <2>1. Waiters' = Waiters /\ Past' = Past
    BY <1>3 DEF Waiters, Past, At
  <2> QED
    BY <2>1, <1>3, <1>t, <1>w DEF IInv, ImagesHeld, counters
<1>4. CASE WritePngUrls \/ WriteLog \/ UNCHANGED vars
  <2>1. UNCHANGED <<pc, counters>>
    BY <1>4 DEF WritePngUrls, WriteLog, vars, counters
  <2> QED
    BY <2>1, <1>3
<1> QED
  BY <1>1, <1>2, <1>4 DEF Next

LEMMA IInvHolds == Spec => []IInv
BY InitIInv, StepIInv, PTL DEF Spec

(* waiting_thread is one more than the threads that wait or left after a   *)
(* wait: what the tests at lines 40 and 86 count.                          *)
THEOREM WaitersCounted == Spec => []WaitAccounting
<1>1. IInv => WaitAccounting
  BY DEF IInv, WaitAccounting, Waiters, WaitLabels
<1> QED
  BY IInvHolds, <1>1, PTL

(* At most one image per other thread is found after the m-th.             *)
THEOREM OvershootBounded == Spec => []Overshoot
<1>1. IInv => Overshoot
  <2> SUFFICES ASSUME IInv PROVE Overshoot
    OBVIOUS
  <2>1. Past \in Nat /\ Past <= t
    BY AtType DEF Past, t
  <2>2. m \in Nat /\ t \in Nat
    BY SizeAssumption, ThreadAssumption, FS_CardinalityType DEF t
  <2> QED
    BY <2>1, <2>2 DEF IInv, ImagesHeld, Overshoot
<1> QED
  BY IInvHolds, <1>1, PTL

-----------------------------------------------------------------------------
(* Types, the table and its log, the frontier, and what main writes.       *)

(* The stacks.                                                             *)

LEMMA ElemsOf ==
    ASSUME NEW S, NEW s \in Seq(S)
    PROVE Elems(s) = {s[k] : k \in 1 .. Len(s)} /\ Elems(s) \subseteq S
BY LenProperties, ElementOfSeq DEF Elems

(* An element is added on the top of a stack, or nothing when it is full.  *)
LEMMA PushedFacts ==
    ASSUME NEW S, NEW s \in Seq(S), NEW u \in S
    PROVE /\ Pushed(s, u) \in Seq(S)
          /\ Len(Pushed(s, u)) <= Len(s) + 1
          /\ Elems(Pushed(s, u)) \subseteq Elems(s) \cup {u}
<1>1. CASE IsFull(s)
  BY <1>1, LenProperties DEF Pushed
<1>2. CASE ~IsFull(s)
  <2>1. Pushed(s, u) = Append(s, u)
    BY <1>2 DEF Pushed
  <2>2. Append(s, u) \in Seq(S) /\ Len(Append(s, u)) = Len(s) + 1
    OBVIOUS
  <2>3. \A k \in 1 .. Len(s) + 1 : Append(s, u)[k] = IF k <= Len(s) THEN s[k] ELSE u
    OBVIOUS
  <2>4. Elems(Append(s, u)) \subseteq Elems(s) \cup {u}
    <3>1. Len(s) \in Nat /\ Elems(s) = {s[k] : k \in 1 .. Len(s)}
      BY ElemsOf, LenProperties
    <3>2. Elems(Append(s, u)) = {Append(s, u)[k] : k \in 1 .. Len(s) + 1}
      BY <2>2, ElemsOf
    <3> QED
      BY <2>3, <3>1, <3>2
  <2> QED
    BY <2>1, <2>2, <2>4, LenProperties
<1> QED
  BY <1>1, <1>2

LEMMA FrontFacts ==
    ASSUME NEW S, NEW s \in Seq(S), s # <<>>
    PROVE /\ Front(s) \in Seq(S) /\ s[Len(s)] \in Elems(s)
          /\ Len(Front(s)) = Len(s) - 1
          /\ \A k \in 1 .. Len(s) - 1 : Front(s)[k] = s[k]
          /\ Elems(Front(s)) \subseteq Elems(s)
<1>1. Len(s) \in Nat \ {0} /\ \A k \in 1 .. Len(s) : s[k] \in S
  BY EmptySeq, ElementOfSeq
<1>2. /\ Front(s) \in Seq(S) /\ Len(Front(s)) = Len(s) - 1
      /\ \A k \in 1 .. Len(s) - 1 : Front(s)[k] = s[k]
  <2> DEFINE n == Len(s) - 1
  <2>1. n \in Int /\ 1 \in Int /\ \A i \in 1 .. n : s[i] \in S
    BY <1>1
  <2>2. /\ SubSeq(s, 1, n) \in Seq(S)
        /\ Len(SubSeq(s, 1, n)) = IF 1 <= n THEN n - 1 + 1 ELSE 0
        /\ \A i \in 1 .. n - 1 + 1 : SubSeq(s, 1, n)[i] = s[1 + i - 1]
    <3> HIDE DEF n
    <3> QED BY <2>1, SubSeqProperties
  <2> DEFINE q == SubSeq(s, 1, n)
  <2>3. Front(s) = q /\ n = Len(s) - 1 /\ n \in Nat
    BY <1>1 DEF Front
  <2>4. q \in Seq(S) /\ Len(q) = n /\ \A k \in 1 .. n : q[k] = s[k]
    <3>1. n \in Nat
      BY <2>3
    <3> HIDE DEF n
    <3> QED BY <2>2, <3>1
  <2> HIDE DEF q
  <2> QED
    BY <2>3, <2>4
<1>3. Elems(s) = {s[k] : k \in 1 .. Len(s)}
  BY ElemsOf
<1>4. Elems(Front(s)) = {Front(s)[k] : k \in 1 .. Len(s) - 1}
  BY <1>2, ElemsOf
<1> QED
  BY <1>1, <1>2, <1>3, <1>4

LEMMA FunctionIsSeq ==
    ASSUME NEW S, NEW n \in Nat, NEW f \in [1 .. n -> S]
    PROVE f \in Seq(S) /\ Len(f) = n
<1>1. f \in Seq(S)
  BY SeqDef
<1> QED
  BY <1>1, LenProperties

-----------------------------------------------------------------------------
(* Types: a thread that looks at a link has one to look at.                *)

Linking == {"find", "enter", "push", "pushing", "signal"}
HasLink == \A th \in Threads : pc[th] \in Linking => todo[th] # <<>>
TypeInv == TypeOK /\ HasLink

LEMMA InitType == Init => TypeInv
<1> SUFFICES ASSUME Init PROVE TypeInv
  OBVIOUS
<1>1. <<>> \in Seq(Urls) /\ Len(<<>>) = 0
  BY EmptySeq
<1>2. Seed \in Urls
  BY WebAssumption
<1>3. EmptyStack = <<>> /\ EmptyStack \in Seq(Urls)
  BY <1>1 DEF EmptyStack
<1>4. frontier \in Seq(Urls) /\ png \in Seq(Urls)
  BY <1>2, <1>3, PushedFacts DEF Init, InitStacks
<1>5. dp \in Seq(Urls) /\ table \subseteq Urls
  BY <1>2 DEF Init, InitMarks
<1>6. /\ pc \in [Threads -> Labels] /\ url \in [Threads -> Urls]
      /\ todo \in [Threads -> Seq(Urls)] /\ HasLink
  BY <1>1, <1>2 DEF Init, InitThreads, Labels, HasLink, Linking
<1>7. owner \in [Mutex -> Threads \cup {Free}]
  BY DEF Init
<1>8. png_urls \in Seq(Urls) /\ log \in Seq(Urls) /\ written \in BOOLEAN /\ logged \in BOOLEAN
  BY <1>1 DEF Init
<1>9. /\ waiting_thread \in Nat /\ image_counter \in Nat
      /\ failures \in 0 .. MaxFailures /\ spurious \in 0 .. MaxSpurious
  BY BoundAssumption DEF Init
<1> QED
  BY <1>4, <1>5, <1>6, <1>7, <1>8, <1>9 DEF TypeInv, TypeOK

LEMMA StepType == IInv /\ TypeInv /\ [Next]_vars => TypeInv'
<1> SUFFICES ASSUME IInv, TypeInv, [Next]_vars PROVE TypeInv'
  OBVIOUS
<1>c. waiting_thread = 1 + Waiters
  BY DEF IInv
<1> USE DEF TypeInv, TypeOK, HasLink, Linking, Labels, Mutex, Goto, Lock, Unlock,
            stacks, marks, counters, main, faults
<1>1. ASSUME NEW th \in Threads, Step(th) PROVE TypeInv'
  <2>1. CASE LockFrontier(th)
    BY <2>1 DEF LockFrontier
  <2>2. CASE Wait(th)
    BY <2>2 DEF Wait
  <2>3. CASE Relock(th)
    BY <2>3 DEF Relock
  <2>4. CASE Leave(th)
    BY <2>4 DEF Leave
  <2>5. CASE LookAgain(th)
    <3>1. waiting_thread' \in Nat
      <4>1. pc[th] \in WaitLabels
        BY <2>5 DEF LookAgain, Goto, WaitLabels
      <4>2. Waiters >= 1 /\ Waiters \in Nat
        BY <4>1, AtType DEF Waiters
      <4> QED
        BY <4>2, <1>c, <2>5 DEF LookAgain
    <3> QED
      BY <2>5, <3>1 DEF LookAgain
  <2>6. CASE Pop(th)
    <3>1. Front(frontier) \in Seq(Urls) /\ frontier[Len(frontier)] \in Urls
      <4>1. Elems(frontier) \subseteq Urls
        BY ElemsOf
      <4> QED
        BY <2>6, <4>1, FrontFacts DEF Pop
    <3> QED
      BY <2>6, <3>1 DEF Pop
  <2>7. CASE Fetch(th)
    <3>1. Links[Redirect[url[th]]] \in Seq(Urls)
      BY WebAssumption
    <3>2. /\ todo' \in [Threads -> Seq(Urls)] /\ pc' \in [Threads -> Labels]
          /\ \A q \in Threads : pc'[q] \in Linking => pc[q] = pc'[q] /\ todo'[q] = todo[q]
      <4>1. todo' \in [Threads -> Seq(Urls)]
        BY <2>7, <3>1 DEF Fetch
      <4>2. pc' \in [Threads -> Labels] /\ pc'[th] \notin Linking
        BY <2>7 DEF Fetch
      <4>3. \A q \in Threads \ {th} : pc'[q] = pc[q] /\ todo'[q] = todo[q]
        BY <2>7 DEF Fetch
      <4> QED
        BY <4>1, <4>2, <4>3
    <3>3. UNCHANGED <<owner, stacks, marks, counters, url, main, faults>>
      BY <2>7 DEF Fetch
    <3>4. HasLink'
      BY <3>2
    <3>5. TypeOK'
      BY <3>2, <3>3
    <3> QED
      BY <3>4, <3>5
  <2>8. CASE FetchFails(th)
    BY <2>8, BoundAssumption DEF FetchFails
  <2>9. CASE LockTable(th)
    BY <2>9 DEF LockTable
  <2>10. CASE NoMoreLinks(th)
    BY <2>10 DEF NoMoreLinks
  <2>11. CASE Known(th)
    <3>1. Tail(todo[th]) \in Seq(Urls)
      BY <2>11, HeadTailProperties DEF Known
    <3> QED
      BY <2>11, <3>1 DEF Known
  <2>12. CASE Unknown(th)
    BY <2>12 DEF Unknown
  <2>13. CASE Enter(th)
    <3>1. Head(todo[th]) \in Urls
      BY <2>13, HeadTailProperties DEF Enter
    <3>2. table' \subseteq Urls /\ dp' \in Seq(Urls)
      BY <2>13, <3>1 DEF Enter
    <3>3. owner' \in [Mutex -> Threads \cup {Free}]
      BY <2>13 DEF Enter
    <3>4. pc' \in [Threads -> Labels] /\ HasLink'
      BY <2>13 DEF Enter
    <3>5. UNCHANGED <<stacks, counters, url, todo, main, faults>>
      BY <2>13 DEF Enter
    <3>6. TypeOK'
      BY <3>2, <3>3, <3>4, <3>5
    <3> QED
      BY <3>4, <3>6
  <2>14. CASE LockPush(th)
    BY <2>14 DEF LockPush
  <2>15. CASE PushUrl(th)
    <3>1. Head(todo[th]) \in Urls
      BY <2>15, HeadTailProperties DEF PushUrl
    <3>2. Pushed(frontier, Head(todo[th])) \in Seq(Urls)
      BY <3>1, PushedFacts
    <3> QED
      BY <2>15, <3>2 DEF PushUrl
  <2>16. CASE Signal(th)
    <3>1. Tail(todo[th]) \in Seq(Urls)
      BY <2>16, HeadTailProperties DEF Signal
    <3>2. /\ pc' \in [Threads -> Labels] /\ pc'[th] = "link"
          /\ \A q \in Threads : pc'[q] \in Linking => pc'[q] = pc[q] /\ q # th
      BY <2>16 DEF Signal, Asleep
    <3> QED
      BY <2>16, <3>1, <3>2 DEF Signal
  <2>17. CASE LockPng(th)
    BY <2>17 DEF LockPng
  <2>18. CASE CountPng(th)
    <3>1. Redirect[url[th]] \in Urls
      BY WebAssumption
    <3>2. Pushed(png, Redirect[url[th]]) \in Seq(Urls)
      BY <3>1, PushedFacts
    <3> QED
      BY <2>18, <3>2 DEF CountPng
  <2>19. CASE LockCheck(th)
    BY <2>19 DEF LockCheck
  <2>20. CASE Break(th)
    <3>1. /\ pc' \in [Threads -> Labels]
          /\ \A q \in Threads : pc'[q] \in Linking => pc'[q] = pc[q]
      BY <2>20 DEF Break, Asleep
    <3> QED
      BY <2>20, <3>1 DEF Break
  <2>21. CASE GoOn(th)
    BY <2>21 DEF GoOn
  <2> QED
    BY <1>1, <2>1, <2>2, <2>3, <2>4, <2>5, <2>6, <2>7, <2>8, <2>9, <2>10, <2>11, <2>12, <2>13, <2>14, <2>15, <2>16, <2>17, <2>18, <2>19, <2>20, <2>21 DEF Step
<1>2. ASSUME NEW th \in Threads, Spurious(th) PROVE TypeInv'
  BY <1>2, BoundAssumption DEF Spurious
<1>3. ASSUME WritePngUrls PROVE TypeInv'
  <2>1. png_urls' \in Seq(Urls)
    <3> DEFINE n == IF Len(png) < m THEN Len(png) ELSE m
    <3>1. n \in Nat /\ n <= Len(png) /\ Len(png) \in Nat
      BY SizeAssumption, LenProperties
    <3>2. png_urls' = [k \in 1 .. n |-> png[Len(png) + 1 - k]]
      BY <1>3 DEF WritePngUrls
    <3> HIDE DEF n
    <3>3. \A k \in 1 .. n : png[Len(png) + 1 - k] \in Urls
      <4> SUFFICES ASSUME NEW k \in 1 .. n PROVE png[Len(png) + 1 - k] \in Urls
        OBVIOUS
      <4>1. Len(png) + 1 - k \in 1 .. Len(png)
        BY <3>1
      <4> QED
        BY <4>1, ElementOfSeq
    <3>4. png_urls' \in [1 .. n -> Urls]
      BY <3>2, <3>3
    <3> QED
      BY <3>1, <3>4, FunctionIsSeq
  <2> QED
    BY <1>3, <2>1 DEF WritePngUrls
<1>4. ASSUME WriteLog PROVE TypeInv'
  <2>1. log' \in Seq(Urls) /\ logged' \in BOOLEAN
    BY <1>4 DEF WriteLog
  <2>2. UNCHANGED <<owner, stacks, marks, counters, pc, url, todo, png_urls, written, faults>>
    BY <1>4 DEF WriteLog
  <2>3. HasLink'
    BY <2>2
  <2>4. TypeOK'
    BY <2>1, <2>2
  <2> QED
    BY <2>3, <2>4
<1>5. ASSUME UNCHANGED vars PROVE TypeInv'
  BY <1>5 DEF vars
<1> QED
  BY <1>1, <1>2, <1>3, <1>4, <1>5 DEF Next

(* Every variable keeps its type, and no thread looks at a link where      *)
(* there is none, for any number of threads, any web and any m.            *)
THEOREM TypeCorrect == Spec => []TypeOK
<1>1. IInv /\ TypeInv /\ [Next]_vars => TypeInv'
  BY StepType
<1>2. TypeInv => TypeOK
  BY DEF TypeInv
<1> QED
  BY InitType, IInvHolds, <1>1, <1>2, PTL DEF Spec

-----------------------------------------------------------------------------
(* The log: a thread holds hashmap_mutex from FIND to ENTER, so the link   *)
(* that it enters is still unknown, and nobody enters one once main writes.*)

Distinct(s) == \A j, k \in DOMAIN s : s[j] = s[k] => j = k
Locked == \A th \in Threads : pc[th] \in {"find", "enter"} => owner["hashmap_mutex"] = th
FreshLink == \A th \in Threads : pc[th] = "enter" => Head(todo[th]) \notin table
DpExact == Elems(dp) = table /\ Distinct(dp)
AllGone == written => \A th \in Threads : pc[th] \in {"left", "ended"}
LogDone == logged => written /\ log = dp
LogInv == Locked /\ FreshLink /\ DpExact /\ AllGone /\ LogDone

LEMMA AppendFacts ==
    ASSUME NEW S, NEW s \in Seq(S), NEW u \in S
    PROVE /\ Append(s, u) \in Seq(S) /\ Len(Append(s, u)) = Len(s) + 1
          /\ Elems(Append(s, u)) = Elems(s) \cup {u}
          /\ Distinct(s) /\ u \notin Elems(s) => Distinct(Append(s, u))
<1>1. Len(s) \in Nat /\ DOMAIN s = 1 .. Len(s) /\ Elems(s) = {s[k] : k \in 1 .. Len(s)}
  BY LenProperties, ElemsOf
<1>2. Append(s, u) \in Seq(S) /\ Len(Append(s, u)) = Len(s) + 1
  OBVIOUS
<1>3. \A k \in 1 .. Len(s) + 1 : Append(s, u)[k] = IF k <= Len(s) THEN s[k] ELSE u
  OBVIOUS
<1> DEFINE a == Append(s, u)
           n == Len(s)
<1>4. /\ n \in Nat /\ Elems(a) = {a[k] : k \in 1 .. n + 1} /\ DOMAIN a = 1 .. n + 1
      /\ \A k \in 1 .. n + 1 : a[k] = IF k <= n THEN s[k] ELSE u
  BY <1>1, <1>2, <1>3, ElemsOf, LenProperties
<1>5. DOMAIN s = 1 .. n /\ Elems(s) = {s[k] : k \in 1 .. n}
  BY <1>1
<1> HIDE DEF a, n
<1>6. Elems(a) = Elems(s) \cup {u}
  <2>1. Elems(a) \subseteq Elems(s) \cup {u}
    BY <1>4, <1>5
  <2>2. \A k \in 1 .. n : a[k] = s[k] /\ k \in 1 .. n + 1
    BY <1>4
  <2>3. a[n + 1] = u /\ n + 1 \in 1 .. n + 1
    BY <1>4
  <2> QED
    BY <2>1, <2>2, <2>3, <1>4, <1>5
<1>7. Distinct(s) /\ u \notin Elems(s) => Distinct(a)
  <2> SUFFICES ASSUME Distinct(s), u \notin Elems(s),
                      NEW j \in 1 .. n + 1, NEW k \in 1 .. n + 1, a[j] = a[k]
               PROVE j = k
    BY <1>4 DEF Distinct
  <2>1. CASE j <= n /\ k <= n
    BY <2>1, <1>4, <1>5 DEF Distinct
  <2>2. CASE j = n + 1 \/ k = n + 1
    BY <2>2, <1>4, <1>5
  <2> QED
    BY <2>1, <2>2, <1>4
<1> QED
  BY <1>2, <1>6, <1>7 DEF a

LEMMA InitLog == Init => LogInv
<1> SUFFICES ASSUME Init PROVE LogInv
  OBVIOUS
<1>1. dp = <<Seed>> /\ table = {Seed}
  BY DEF Init, InitMarks
<1>2. DpExact
  <2>1. DOMAIN dp = {1} /\ dp[1] = Seed
    BY <1>1
  <2> QED
    BY <1>1, <2>1 DEF DpExact, Elems, Distinct
<1>3. Locked /\ FreshLink
  BY DEF Init, InitThreads, Locked, FreshLink
<1>4. AllGone /\ LogDone
  BY DEF Init, AllGone, LogDone
<1> QED
  BY <1>2, <1>3, <1>4 DEF LogInv

LEMMA StepLog == TypeInv /\ LogInv /\ [Next]_vars => LogInv'
<1> SUFFICES ASSUME TypeInv, LogInv, [Next]_vars PROVE LogInv'
  OBVIOUS
<1>t. /\ owner \in [Mutex -> Threads \cup {Free}] /\ pc \in [Threads -> Labels]
      /\ todo \in [Threads -> Seq(Urls)] /\ dp \in Seq(Urls) /\ HasLink
      /\ Free \notin Threads /\ "hashmap_mutex" \in Mutex
  BY FreeAssumption DEF TypeInv, TypeOK, Mutex
<1> USE <1>t DEF LogInv, Locked, FreshLink, AllGone, LogDone, Goto, Lock, Unlock,
                 stacks, marks, counters, main, faults
<1>d. ASSUME dp' = dp, table' = table PROVE DpExact'
  BY <1>d DEF DpExact, Elems, Distinct
<1>1. ASSUME NEW th \in Threads, Step(th) PROVE LogInv'
  <2>1. CASE LockFrontier(th)
    BY <2>1, <1>d DEF LockFrontier, Mutex
  <2>2. CASE Wait(th)
    BY <2>2, <1>d DEF Wait, Mutex
  <2>3. CASE Relock(th)
    BY <2>3, <1>d DEF Relock, Mutex
  <2>4. CASE Leave(th)
    BY <2>4, <1>d DEF Leave, Mutex
  <2>5. CASE LookAgain(th)
    BY <2>5, <1>d DEF LookAgain, Mutex
  <2>6. CASE Pop(th)
    BY <2>6, <1>d DEF Pop, Mutex
  <2>7. CASE Fetch(th)
    BY <2>7, <1>d DEF Fetch, Mutex
  <2>8. CASE FetchFails(th)
    BY <2>8, <1>d DEF FetchFails, Mutex
  <2>9. CASE LockTable(th)
    BY <2>9, <1>d DEF LockTable, Mutex
  <2>10. CASE NoMoreLinks(th)
    BY <2>10, <1>d DEF NoMoreLinks, Mutex
  <2>11. CASE Known(th)
    BY <2>11, <1>d DEF Known, Mutex
  <2>12. CASE Unknown(th)
    BY <2>12, <1>d DEF Unknown, Mutex
  <2>13. CASE Enter(th)
    <3>1. Head(todo[th]) \in Urls /\ Head(todo[th]) \notin Elems(dp)
      BY <2>13, HeadTailProperties DEF Enter, HasLink, Linking, DpExact
    <3>2. DpExact'
      BY <2>13, <3>1, AppendFacts DEF Enter, DpExact
    <3>3. \A q \in Threads \ {th} : pc[q] \notin {"find", "enter"}
      BY <2>13 DEF Enter
    <3>4. ~written
      BY <2>13 DEF Enter
    <3> QED
      BY <2>13, <3>2, <3>3, <3>4 DEF Enter
  <2>14. CASE LockPush(th)
    BY <2>14, <1>d DEF LockPush, Mutex
  <2>15. CASE PushUrl(th)
    BY <2>15, <1>d DEF PushUrl, Mutex
  <2>16. CASE Signal(th)
    <3>1. /\ \A q \in Threads : pc'[q] \in {"find", "enter"} => pc'[q] = pc[q] /\ todo'[q] = todo[q]
          /\ \A q \in Threads : pc[q] \in {"left", "ended"} => pc'[q] = pc[q]
          /\ pc[th] \notin {"left", "ended"} /\ owner'["hashmap_mutex"] = owner["hashmap_mutex"]
      BY <2>16 DEF Signal, Asleep, Mutex
    <3> QED
      BY <2>16, <3>1, <1>d DEF Signal
  <2>17. CASE LockPng(th)
    BY <2>17, <1>d DEF LockPng, Mutex
  <2>18. CASE CountPng(th)
    BY <2>18, <1>d DEF CountPng, Mutex
  <2>19. CASE LockCheck(th)
    BY <2>19, <1>d DEF LockCheck, Mutex
  <2>20. CASE Break(th)
    <3>1. /\ \A q \in Threads : pc'[q] \in {"find", "enter"} => pc'[q] = pc[q] /\ todo'[q] = todo[q]
          /\ \A q \in Threads : pc[q] \in {"left", "ended"} => pc'[q] = pc[q]
          /\ pc[th] \notin {"left", "ended"} /\ owner'["hashmap_mutex"] = owner["hashmap_mutex"]
      BY <2>20 DEF Break, Asleep, Mutex
    <3> QED
      BY <2>20, <3>1, <1>d DEF Break
  <2>21. CASE GoOn(th)
    BY <2>21, <1>d DEF GoOn, Mutex
  <2> QED
    BY <1>1, <2>1, <2>2, <2>3, <2>4, <2>5, <2>6, <2>7, <2>8, <2>9, <2>10, <2>11, <2>12, <2>13, <2>14, <2>15, <2>16, <2>17, <2>18, <2>19, <2>20, <2>21 DEF Step
<1>2. ASSUME NEW th \in Threads, Spurious(th) PROVE LogInv'
  BY <1>2, <1>d DEF Spurious
<1>3. ASSUME WritePngUrls PROVE LogInv'
  BY <1>3, <1>d DEF WritePngUrls
<1>4. ASSUME WriteLog PROVE LogInv'
  BY <1>4, <1>d DEF WriteLog
<1>5. ASSUME UNCHANGED vars PROVE LogInv'
  BY <1>5, <1>d DEF vars
<1> QED
  BY <1>1, <1>2, <1>3, <1>4, <1>5 DEF Next

LEMMA TypeInvHolds == Spec => []TypeInv
<1>1. IInv /\ TypeInv /\ [Next]_vars => TypeInv'
  BY StepType
<1> QED
  BY InitType, IInvHolds, <1>1, PTL DEF Spec

LEMMA LogInvHolds == Spec => []LogInv
<1>1. TypeInv /\ LogInv /\ [Next]_vars => LogInv'
  BY StepLog
<1> QED
  BY InitLog, TypeInvHolds, <1>1, PTL DEF Spec

(* No URL is logged twice, and the log that main writes is the whole hash  *)
(* table: FIND and ENTER are one step, whatever the threads do.            *)
THEOREM LogIsExact == Spec => []LogExact
<1>1. LogInv => LogExact
  BY DEF LogInv, LogDone, DpExact, Distinct, LogExact
<1> QED
  BY LogInvHolds, <1>1, PTL

-----------------------------------------------------------------------------
(* The room on the frontier: a link is entered in dp before it is pushed.  *)

PushLabels == {"push", "pushing"}
Pushers == Cardinality(At(PushLabels))

LEMMA PushMove ==
    ASSUME NEW th \in Threads, \A r \in Threads \ {th} : pc'[r] = pc[r]
    PROVE Pushers' = Pushers - In(pc[th], PushLabels) + In(pc'[th], PushLabels)
BY AtStep DEF Pushers

LEMMA StepRoom == TypeInv /\ PushRoom /\ [Next]_vars => PushRoom'
<1> SUFFICES ASSUME TypeInv, PushRoom, [Next]_vars PROVE PushRoom'
  OBVIOUS
<1>t. /\ pc \in [Threads -> Labels] /\ todo \in [Threads -> Seq(Urls)] /\ HasLink
      /\ frontier \in Seq(Urls) /\ dp \in Seq(Urls)
  BY DEF TypeInv, TypeOK
<1>n. Pushers \in Nat /\ Len(frontier) \in Nat /\ Len(dp) \in Nat
  BY <1>t, AtType, LenProperties DEF Pushers
<1>r. Len(frontier) + Pushers <= Len(dp)
  BY DEF PushRoom, Pushers, PushLabels
<1>s. ASSUME frontier' = frontier, dp' = dp, Pushers' = Pushers PROVE PushRoom'
  BY <1>s, <1>r DEF PushRoom, Pushers, PushLabels
<1>1. ASSUME NEW th \in Threads, Step(th) PROVE PushRoom'
  <2>1. CASE LockFrontier(th)
    <3>1. pc[th] = "top" /\ pc'[th] = "look" /\ \A r \in Threads \ {th} : pc'[r] = pc[r]
      BY <2>1, <1>t DEF LockFrontier, Goto
    <3>2. Pushers' = Pushers
      BY <3>1, <1>n, PushMove DEF In, PushLabels
    <3> QED
      BY <2>1, <3>2, <1>s DEF LockFrontier, stacks, marks
  <2>2. CASE Wait(th)
    <3>1. pc[th] = "look" /\ pc'[th] = "asleep" /\ \A r \in Threads \ {th} : pc'[r] = pc[r]
      BY <2>2, <1>t DEF Wait, Goto
    <3>2. Pushers' = Pushers
      BY <3>1, <1>n, PushMove DEF In, PushLabels
    <3> QED
      BY <2>2, <3>2, <1>s DEF Wait, stacks, marks
  <2>3. CASE Relock(th)
    <3>1. pc[th] = "relock" /\ pc'[th] = "recheck" /\ \A r \in Threads \ {th} : pc'[r] = pc[r]
      BY <2>3, <1>t DEF Relock, Goto
    <3>2. Pushers' = Pushers
      BY <3>1, <1>n, PushMove DEF In, PushLabels
    <3> QED
      BY <2>3, <3>2, <1>s DEF Relock, stacks, marks
  <2>4. CASE Leave(th)
    <3>1. pc[th] = "recheck" /\ pc'[th] = "left" /\ \A r \in Threads \ {th} : pc'[r] = pc[r]
      BY <2>4, <1>t DEF Leave, Goto
    <3>2. Pushers' = Pushers
      BY <3>1, <1>n, PushMove DEF In, PushLabels
    <3> QED
      BY <2>4, <3>2, <1>s DEF Leave, stacks, marks
  <2>5. CASE LookAgain(th)
    <3>1. pc[th] = "recheck" /\ pc'[th] = "look" /\ \A r \in Threads \ {th} : pc'[r] = pc[r]
      BY <2>5, <1>t DEF LookAgain, Goto
    <3>2. Pushers' = Pushers
      BY <3>1, <1>n, PushMove DEF In, PushLabels
    <3> QED
      BY <2>5, <3>2, <1>s DEF LookAgain, stacks, marks
  <2>6. CASE Pop(th)
    <3>1. pc[th] = "look" /\ pc'[th] = "fetch" /\ \A r \in Threads \ {th} : pc'[r] = pc[r]
      BY <2>6, <1>t DEF Pop, Goto
    <3>2. Pushers' = Pushers
      BY <3>1, <1>n, PushMove DEF In, PushLabels
    <3>3. Len(frontier') = Len(frontier) - 1 /\ dp' = dp
      BY <2>6, <1>t, FrontFacts DEF Pop, marks
    <3> QED
      BY <3>2, <3>3, <1>r, <1>n DEF PushRoom, Pushers, PushLabels
  <2>7. CASE Fetch(th)
    <3>1. pc[th] = "fetch" /\ pc'[th] \in {"link", "png", "close"} /\ \A r \in Threads \ {th} : pc'[r] = pc[r]
      BY <2>7, <1>t DEF Fetch, Goto
    <3>2. Pushers' = Pushers
      BY <3>1, <1>n, PushMove DEF In, PushLabels
    <3> QED
      BY <2>7, <3>2, <1>s DEF Fetch, stacks, marks
  <2>8. CASE FetchFails(th)
    <3>1. pc[th] = "fetch" /\ pc'[th] = "top" /\ \A r \in Threads \ {th} : pc'[r] = pc[r]
      BY <2>8, <1>t DEF FetchFails, Goto
    <3>2. Pushers' = Pushers
      BY <3>1, <1>n, PushMove DEF In, PushLabels
    <3> QED
      BY <2>8, <3>2, <1>s DEF FetchFails, stacks, marks
  <2>9. CASE LockTable(th)
    <3>1. pc[th] = "link" /\ pc'[th] = "find" /\ \A r \in Threads \ {th} : pc'[r] = pc[r]
      BY <2>9, <1>t DEF LockTable, Goto
    <3>2. Pushers' = Pushers
      BY <3>1, <1>n, PushMove DEF In, PushLabels
    <3> QED
      BY <2>9, <3>2, <1>s DEF LockTable, stacks, marks
  <2>10. CASE NoMoreLinks(th)
    <3>1. pc[th] = "link" /\ pc'[th] = "close" /\ \A r \in Threads \ {th} : pc'[r] = pc[r]
      BY <2>10, <1>t DEF NoMoreLinks, Goto
    <3>2. Pushers' = Pushers
      BY <3>1, <1>n, PushMove DEF In, PushLabels
    <3> QED
      BY <2>10, <3>2, <1>s DEF NoMoreLinks, stacks, marks
  <2>11. CASE Known(th)
    <3>1. pc[th] = "find" /\ pc'[th] = "link" /\ \A r \in Threads \ {th} : pc'[r] = pc[r]
      BY <2>11, <1>t DEF Known, Goto
    <3>2. Pushers' = Pushers
      BY <3>1, <1>n, PushMove DEF In, PushLabels
    <3> QED
      BY <2>11, <3>2, <1>s DEF Known, stacks, marks
  <2>12. CASE Unknown(th)
    <3>1. pc[th] = "find" /\ pc'[th] = "enter" /\ \A r \in Threads \ {th} : pc'[r] = pc[r]
      BY <2>12, <1>t DEF Unknown, Goto
    <3>2. Pushers' = Pushers
      BY <3>1, <1>n, PushMove DEF In, PushLabels
    <3> QED
      BY <2>12, <3>2, <1>s DEF Unknown, stacks, marks
  <2>13. CASE Enter(th)
    <3>1. pc[th] = "enter" /\ pc'[th] = "push" /\ \A r \in Threads \ {th} : pc'[r] = pc[r]
      BY <2>13, <1>t DEF Enter, Goto
    <3>2. Pushers' = Pushers + 1
      BY <3>1, <1>n, PushMove DEF In, PushLabels
    <3>3. Len(dp') = Len(dp) + 1 /\ frontier' = frontier
      BY <2>13, <1>t, HeadTailProperties, AppendFacts DEF Enter, HasLink, Linking, Goto, stacks
    <3> QED
      BY <3>2, <3>3, <1>r, <1>n DEF PushRoom, Pushers, PushLabels
  <2>14. CASE LockPush(th)
    <3>1. pc[th] = "push" /\ pc'[th] = "pushing" /\ \A r \in Threads \ {th} : pc'[r] = pc[r]
      BY <2>14, <1>t DEF LockPush, Goto
    <3>2. Pushers' = Pushers
      BY <3>1, <1>n, PushMove DEF In, PushLabels
    <3> QED
      BY <2>14, <3>2, <1>s DEF LockPush, stacks, marks
  <2>15. CASE PushUrl(th)
    <3>1. pc[th] = "pushing" /\ pc'[th] = "signal" /\ \A r \in Threads \ {th} : pc'[r] = pc[r]
      BY <2>15, <1>t DEF PushUrl, Goto
    <3>2. Pushers' = Pushers - 1
      BY <3>1, <1>n, PushMove DEF In, PushLabels
    <3>3. Len(frontier') <= Len(frontier) + 1 /\ Len(frontier') \in Nat /\ dp' = dp
      <4>1. Head(todo[th]) \in Urls
        BY <2>15, <1>t, HeadTailProperties DEF PushUrl, HasLink, Linking, Goto
      <4>2. frontier' = Pushed(frontier, Head(todo[th])) /\ dp' = dp
        BY <2>15 DEF PushUrl, marks
      <4> QED
        BY <4>1, <4>2, <1>t, PushedFacts, LenProperties
    <3> QED
      BY <3>2, <3>3, <1>r, <1>n DEF PushRoom, Pushers, PushLabels
  <2>16. CASE Signal(th)
    <3>1. At(PushLabels)' = At(PushLabels)
      BY <2>16, <1>t DEF Signal, At, Asleep, PushLabels
    <3>2. Pushers' = Pushers
      BY <3>1 DEF Pushers
    <3> QED
      BY <2>16, <3>2, <1>s DEF Signal, stacks, marks
  <2>17. CASE LockPng(th)
    <3>1. pc[th] = "png" /\ pc'[th] = "count" /\ \A r \in Threads \ {th} : pc'[r] = pc[r]
      BY <2>17, <1>t DEF LockPng, Goto
    <3>2. Pushers' = Pushers
      BY <3>1, <1>n, PushMove DEF In, PushLabels
    <3> QED
      BY <2>17, <3>2, <1>s DEF LockPng, stacks, marks
  <2>18. CASE CountPng(th)
    <3>1. pc[th] = "count" /\ pc'[th] = "close" /\ \A r \in Threads \ {th} : pc'[r] = pc[r]
      BY <2>18, <1>t DEF CountPng, Goto
    <3>2. Pushers' = Pushers
      BY <3>1, <1>n, PushMove DEF In, PushLabels
    <3> QED
      BY <2>18, <3>2, <1>s DEF CountPng, stacks, marks
  <2>19. CASE LockCheck(th)
    <3>1. pc[th] = "close" /\ pc'[th] = "check" /\ \A r \in Threads \ {th} : pc'[r] = pc[r]
      BY <2>19, <1>t DEF LockCheck, Goto
    <3>2. Pushers' = Pushers
      BY <3>1, <1>n, PushMove DEF In, PushLabels
    <3> QED
      BY <2>19, <3>2, <1>s DEF LockCheck, stacks, marks
  <2>20. CASE Break(th)
    <3>1. At(PushLabels)' = At(PushLabels)
      BY <2>20, <1>t DEF Break, At, Asleep, PushLabels
    <3>2. Pushers' = Pushers
      BY <3>1 DEF Pushers
    <3> QED
      BY <2>20, <3>2, <1>s DEF Break, stacks, marks
  <2>21. CASE GoOn(th)
    <3>1. pc[th] = "check" /\ pc'[th] = "top" /\ \A r \in Threads \ {th} : pc'[r] = pc[r]
      BY <2>21, <1>t DEF GoOn, Goto
    <3>2. Pushers' = Pushers
      BY <3>1, <1>n, PushMove DEF In, PushLabels
    <3> QED
      BY <2>21, <3>2, <1>s DEF GoOn, stacks, marks
  <2> QED
    BY <1>1, <2>1, <2>2, <2>3, <2>4, <2>5, <2>6, <2>7, <2>8, <2>9, <2>10, <2>11, <2>12, <2>13, <2>14, <2>15, <2>16, <2>17, <2>18, <2>19, <2>20, <2>21 DEF Step
<1>2. ASSUME NEW th \in Threads, Spurious(th) PROVE PushRoom'
  <2>1. pc[th] = "asleep" /\ pc'[th] = "relock" /\ \A r \in Threads \ {th} : pc'[r] = pc[r]
    BY <1>2, <1>t DEF Spurious, Goto
  <2>2. Pushers' = Pushers
    BY <2>1, <1>n, PushMove DEF In, PushLabels
  <2> QED
    BY <1>2, <2>2, <1>s DEF Spurious, stacks, marks
<1>3. CASE WritePngUrls \/ WriteLog \/ UNCHANGED vars
  <2>1. UNCHANGED <<frontier, dp, pc>>
    BY <1>3 DEF WritePngUrls, WriteLog, vars, stacks, marks
  <2>2. Pushers' = Pushers
    BY <2>1 DEF Pushers, At
  <2> QED
    BY <2>1, <2>2, <1>s
<1> QED
  BY <1>1, <1>2, <1>3 DEF Next

LEMMA InitRoom == Init => PushRoom
<1> SUFFICES ASSUME Init PROVE PushRoom
  OBVIOUS
<1>1. At(PushLabels) = {}
  BY DEF Init, InitThreads, At, PushLabels
<1>2. Pushers = 0
  BY <1>1, FS_EmptySet DEF Pushers
<1>3. <<>> \in Seq(Urls) /\ Seed \in Urls /\ Len(<<>>) = 0
  BY EmptySeq, WebAssumption
<1>4. frontier = Pushed(<<>>, Seed)
  BY DEF Init, InitStacks, EmptyStack
<1>5. Len(frontier) <= 1 /\ Len(frontier) \in Nat
  <2>1. Pushed(<<>>, Seed) \in Seq(Urls) /\ Len(Pushed(<<>>, Seed)) <= Len(<<>>) + 1
    BY <1>3, PushedFacts
  <2> QED
    BY <2>1, <1>3, <1>4, LenProperties
<1>6. Len(dp) = 1
  BY DEF Init, InitMarks
<1> QED
  BY <1>2, <1>5, <1>6 DEF PushRoom, Pushers, PushLabels

(* The frontier with the links on their way to it is never longer than     *)
(* dp: with as many entries in both, no push is refused before dp is       *)
(* overrun.                                                                *)
THEOREM PushHasRoom == Spec => []PushRoom
<1>1. TypeInv /\ PushRoom /\ [Next]_vars => PushRoom'
  BY StepRoom
<1> QED
  BY InitRoom, TypeInvHolds, <1>1, PTL DEF Spec

-----------------------------------------------------------------------------
(* No work is left to nobody: a thread stops only when the frontier is     *)
(* empty or the counter is met, and whoever pushes is awake.               *)

Awake == Labels \ {"asleep", "left", "ended"}

LEMMA StepStranded == TypeInv /\ NoStrandedWork /\ [Next]_vars => NoStrandedWork'
<1> SUFFICES ASSUME TypeInv, NoStrandedWork, [Next]_vars,
                    frontier' # <<>>, image_counter' < m
             PROVE \E q \in Threads : pc'[q] \in Awake
  BY DEF NoStrandedWork, At, Awake
<1>t. pc \in [Threads -> Labels] /\ image_counter \in Nat /\ m \in Nat
  BY SizeAssumption DEF TypeInv, TypeOK
<1>a. (frontier # <<>> /\ image_counter < m) => \E q \in Threads : pc[q] \in Awake
  BY DEF NoStrandedWork, At, Awake
<1> USE <1>t DEF Goto, Awake, Labels, stacks, counters
<1>1. ASSUME NEW th \in Threads, Step(th) PROVE \E q \in Threads : pc'[q] \in Awake
  <2>1. CASE LockFrontier(th)
    <3>1. pc'[th] = "look"
      BY <2>1 DEF LockFrontier
    <3> QED
      BY <3>1
  <2>2. CASE Wait(th)
    <3>1. FALSE
      BY <2>2 DEF Wait
    <3> QED
      BY <3>1
  <2>3. CASE Relock(th)
    <3>1. pc'[th] = "recheck"
      BY <2>3 DEF Relock
    <3> QED
      BY <3>1
  <2>4. CASE Leave(th)
    <3>1. FALSE
      BY <2>4 DEF Leave, CrawlIsOver
    <3> QED
      BY <3>1
  <2>5. CASE LookAgain(th)
    <3>1. pc'[th] = "look"
      BY <2>5 DEF LookAgain
    <3> QED
      BY <3>1
  <2>6. CASE Pop(th)
    <3>1. pc'[th] = "fetch"
      BY <2>6 DEF Pop
    <3> QED
      BY <3>1
  <2>7. CASE Fetch(th)
    <3>1. pc'[th] \in {"link", "png", "close"}
      BY <2>7 DEF Fetch
    <3> QED
      BY <3>1
  <2>8. CASE FetchFails(th)
    <3>1. pc'[th] = "top"
      BY <2>8 DEF FetchFails
    <3> QED
      BY <3>1
  <2>9. CASE LockTable(th)
    <3>1. pc'[th] = "find"
      BY <2>9 DEF LockTable
    <3> QED
      BY <3>1
  <2>10. CASE NoMoreLinks(th)
    <3>1. pc'[th] = "close"
      BY <2>10 DEF NoMoreLinks
    <3> QED
      BY <3>1
  <2>11. CASE Known(th)
    <3>1. pc'[th] = "link"
      BY <2>11 DEF Known
    <3> QED
      BY <3>1
  <2>12. CASE Unknown(th)
    <3>1. pc'[th] = "enter"
      BY <2>12 DEF Unknown
    <3> QED
      BY <3>1
  <2>13. CASE Enter(th)
    <3>1. pc'[th] = "push"
      BY <2>13 DEF Enter
    <3> QED
      BY <3>1
  <2>14. CASE LockPush(th)
    <3>1. pc'[th] = "pushing"
      BY <2>14 DEF LockPush
    <3> QED
      BY <3>1
  <2>15. CASE PushUrl(th)
    <3>1. pc'[th] = "signal"
      BY <2>15 DEF PushUrl
    <3> QED
      BY <3>1
  <2>16. CASE Signal(th)
    <3>1. pc'[th] = "link"
      BY <2>16 DEF Signal, Asleep
    <3> QED
      BY <3>1
  <2>17. CASE LockPng(th)
    <3>1. pc'[th] = "count"
      BY <2>17 DEF LockPng
    <3> QED
      BY <3>1
  <2>18. CASE CountPng(th)
    <3>1. pc'[th] = "close"
      BY <2>18 DEF CountPng
    <3> QED
      BY <3>1
  <2>19. CASE LockCheck(th)
    <3>1. pc'[th] = "check"
      BY <2>19 DEF LockCheck
    <3> QED
      BY <3>1
  <2>20. CASE Break(th)
    <3>1. FALSE
      BY <2>20 DEF Break, CrawlIsOver
    <3> QED
      BY <3>1
  <2>21. CASE GoOn(th)
    <3>1. pc'[th] = "top"
      BY <2>21 DEF GoOn
    <3> QED
      BY <3>1
  <2> QED
    BY <1>1, <2>1, <2>2, <2>3, <2>4, <2>5, <2>6, <2>7, <2>8, <2>9, <2>10, <2>11, <2>12, <2>13, <2>14, <2>15, <2>16, <2>17, <2>18, <2>19, <2>20, <2>21 DEF Step
<1>2. ASSUME NEW th \in Threads, Spurious(th) PROVE \E q \in Threads : pc'[q] \in Awake
  <2>1. pc'[th] = "relock"
    BY <1>2 DEF Spurious
  <2> QED
    BY <2>1
<1>3. CASE WritePngUrls \/ WriteLog \/ UNCHANGED vars
  <2>1. UNCHANGED <<frontier, image_counter, pc>>
    BY <1>3 DEF WritePngUrls, WriteLog, vars
  <2> QED
    BY <2>1, <1>a
<1> QED
  BY <1>1, <1>2, <1>3 DEF Next

LEMMA InitStranded == Init => NoStrandedWork
<1> SUFFICES ASSUME Init PROVE At(Awake) # {}
  BY DEF NoStrandedWork, Awake
<1>1. PICK th \in Threads : TRUE
  BY ThreadAssumption
<1>2. pc[th] = "top"
  BY DEF Init, InitThreads
<1> QED
  BY <1>2 DEF At, Awake, Labels

(* While images are wanted, a URL on the frontier always has a thread that *)
(* is awake: no wakeup that matters is lost.                               *)
THEOREM WorkIsNotStranded == Spec => []NoStrandedWork
<1>1. TypeInv /\ NoStrandedWork /\ [Next]_vars => NoStrandedWork'
  BY StepStranded
<1> QED
  BY InitStranded, TypeInvHolds, <1>1, PTL DEF Spec

-----------------------------------------------------------------------------
(* What main writes: every image on the stack is one that a page of the    *)
(* table ends at, and the stack has them all while it is not full.         *)

Images == {u \in {Redirect[v] : v \in table} : Kind[u] = "png"}
InTable == /\ Elems(frontier) \subseteq table
           /\ \A th \in Threads : /\ url[th] \in table
                                  /\ pc[th] \in {"push", "pushing"} => Head(todo[th]) \in table
PngHeld == /\ \A th \in Threads : pc[th] \in {"png", "count"} => Kind[Redirect[url[th]]] = "png"
           /\ Elems(png) \subseteq Images
PngCounted == Len(png) = IF image_counter < StackSize THEN image_counter ELSE StackSize
OutInv == InTable /\ PngHeld /\ PngCounted /\ (m <= StackSize => OutputComplete)

(* A push adds one element while there is room.                            *)
LEMMA PushedLen ==
    ASSUME NEW S, NEW s \in Seq(S), NEW u \in S
    PROVE Len(Pushed(s, u)) = IF Len(s) = StackSize THEN Len(s) ELSE Len(s) + 1
BY AppendFacts DEF Pushed, IsFull

(* A thread that is gone takes no step.                                    *)
LEMMA GoneStays ==
    ASSUME NEW th \in Threads, pc[th] \in {"left", "ended"}
    PROVE ~Step(th) /\ ~Spurious(th)
BY DEF Step, Spurious, Goto, LockFrontier, Wait, Relock, Leave, LookAgain, Pop, Fetch, FetchFails, LockTable, NoMoreLinks, Known, Unknown, Enter, LockPush, PushUrl, Signal, LockPng, CountPng, LockCheck, Break, GoOn

LEMMA InitOut == Init => OutInv
<1> SUFFICES ASSUME Init PROVE OutInv
  OBVIOUS
<1>1. <<>> \in Seq(Urls) /\ Seed \in Urls /\ Len(<<>>) = 0 /\ Elems(<<>>) = {}
  BY EmptySeq, WebAssumption DEF Elems
<1>2. table = {Seed} /\ frontier = Pushed(<<>>, Seed) /\ png = <<>>
  BY DEF Init, InitStacks, InitMarks, EmptyStack
<1>3. InTable
  <2>1. Elems(Pushed(<<>>, Seed)) \subseteq Elems(<<>>) \cup {Seed}
    BY <1>1, PushedFacts
  <2> QED
    BY <2>1, <1>1, <1>2 DEF Init, InitThreads, InTable
<1>4. PngHeld
  BY <1>1, <1>2 DEF Init, InitThreads, PngHeld
<1>5. PngCounted
  BY <1>1, <1>2, SizeAssumption DEF Init, PngCounted
<1> QED
  BY <1>3, <1>4, <1>5 DEF OutInv, OutputComplete, Init

LEMMA StepOut == TypeInv /\ LogInv /\ NoStrandedWork /\ OutInv /\ [Next]_vars => OutInv'
<1> SUFFICES ASSUME TypeInv, LogInv, NoStrandedWork, OutInv, [Next]_vars PROVE OutInv'
  OBVIOUS
<1>t. /\ pc \in [Threads -> Labels] /\ url \in [Threads -> Urls]
      /\ todo \in [Threads -> Seq(Urls)] /\ HasLink
      /\ frontier \in Seq(Urls) /\ png \in Seq(Urls) /\ table \subseteq Urls
      /\ image_counter \in Nat /\ m \in Nat \ {0} /\ StackSize \in Nat \ {0}
      /\ \A u \in Urls : Redirect[u] \in Urls
  BY SizeAssumption, WebAssumption DEF TypeInv, TypeOK
<1> USE <1>t DEF Goto, stacks, marks, counters, main, faults
<1>k. ASSUME NEW th \in Threads, Step(th) PROVE ~written
  BY <1>k, GoneStays DEF LogInv, AllGone
<1>1. ASSUME NEW th \in Threads, Step(th) PROVE InTable'
  <2> USE DEF OutInv, InTable
  <2>1. CASE LockFrontier(th)
    BY <2>1 DEF LockFrontier
  <2>2. CASE Wait(th)
    BY <2>2 DEF Wait
  <2>3. CASE Relock(th)
    BY <2>3 DEF Relock
  <2>4. CASE Leave(th)
    BY <2>4 DEF Leave
  <2>5. CASE LookAgain(th)
    BY <2>5 DEF LookAgain
  <2>6. CASE Pop(th)
    <3>1. frontier[Len(frontier)] \in table /\ Elems(Front(frontier)) \subseteq table
      BY <2>6, FrontFacts DEF Pop
    <3>2. Elems(frontier') \subseteq table'
      BY <2>6, <3>1 DEF Pop
    <3>3. \A q \in Threads : url'[q] \in table' /\ (pc'[q] \in {"push", "pushing"} => Head(todo'[q]) \in table')
      BY <2>6, <3>1 DEF Pop
    <3> QED
      BY <3>2, <3>3
  <2>7. CASE Fetch(th)
    <3>1. UNCHANGED <<frontier, table, url>>
      BY <2>7 DEF Fetch
    <3>2. \A q \in Threads : pc'[q] \in {"push", "pushing"} => pc'[q] = pc[q] /\ todo'[q] = todo[q]
      BY <2>7 DEF Fetch
    <3> QED
      BY <3>1, <3>2
  <2>8. CASE FetchFails(th)
    BY <2>8 DEF FetchFails
  <2>9. CASE LockTable(th)
    BY <2>9 DEF LockTable
  <2>10. CASE NoMoreLinks(th)
    BY <2>10 DEF NoMoreLinks
  <2>11. CASE Known(th)
    BY <2>11 DEF Known
  <2>12. CASE Unknown(th)
    BY <2>12 DEF Unknown
  <2>13. CASE Enter(th)
    BY <2>13 DEF Enter
  <2>14. CASE LockPush(th)
    BY <2>14 DEF LockPush
  <2>15. CASE PushUrl(th)
    <3>1. Head(todo[th]) \in Urls /\ Head(todo[th]) \in table
      BY <2>15, HeadTailProperties DEF PushUrl, HasLink, Linking
    <3>p. Elems(Pushed(frontier, Head(todo[th]))) \subseteq Elems(frontier) \cup {Head(todo[th])}
      BY <3>1, PushedFacts
    <3>f. frontier' = Pushed(frontier, Head(todo[th])) /\ table' = table
      BY <2>15 DEF PushUrl
    <3>2. Elems(frontier') \subseteq table'
      BY <3>1, <3>p, <3>f
    <3>3. \A q \in Threads : url'[q] \in table' /\ (pc'[q] \in {"push", "pushing"} => Head(todo'[q]) \in table')
      BY <2>15 DEF PushUrl
    <3> QED
      BY <3>2, <3>3
  <2>16. CASE Signal(th)
    <3>1. UNCHANGED <<frontier, table, url>>
      BY <2>16 DEF Signal
    <3>2. \A q \in Threads : pc'[q] \in {"push", "pushing"} => pc'[q] = pc[q] /\ todo'[q] = todo[q]
      BY <2>16 DEF Signal, Asleep
    <3> QED
      BY <3>1, <3>2
  <2>17. CASE LockPng(th)
    BY <2>17 DEF LockPng
  <2>18. CASE CountPng(th)
    BY <2>18 DEF CountPng
  <2>19. CASE LockCheck(th)
    BY <2>19 DEF LockCheck
  <2>20. CASE Break(th)
    <3>1. UNCHANGED <<frontier, table, url>>
      BY <2>20 DEF Break
    <3>2. \A q \in Threads : pc'[q] \in {"push", "pushing"} => pc'[q] = pc[q] /\ todo'[q] = todo[q]
      BY <2>20 DEF Break, Asleep
    <3> QED
      BY <3>1, <3>2
  <2>21. CASE GoOn(th)
    BY <2>21 DEF GoOn
  <2> QED
    BY <1>1, <2>1, <2>2, <2>3, <2>4, <2>5, <2>6, <2>7, <2>8, <2>9, <2>10, <2>11, <2>12, <2>13, <2>14, <2>15, <2>16, <2>17, <2>18, <2>19, <2>20, <2>21 DEF Step
<1>2. ASSUME NEW th \in Threads, Step(th) PROVE PngHeld' /\ PngCounted'
  <2>g. ASSUME table \subseteq table' PROVE Images \subseteq Images'
    BY <2>g DEF Images
  <2>p. ASSUME png' = png, table \subseteq table' PROVE Elems(png') \subseteq Images'
    BY <2>p, <2>g DEF OutInv, PngHeld
  <2>c. ASSUME png' = png, image_counter' = image_counter PROVE PngCounted'
    BY <2>c DEF OutInv, PngCounted
  <2> USE DEF OutInv, PngHeld
  <2>1. CASE LockFrontier(th)
    BY <2>1, <2>p, <2>c DEF LockFrontier
  <2>2. CASE Wait(th)
    BY <2>2, <2>p, <2>c DEF Wait
  <2>3. CASE Relock(th)
    BY <2>3, <2>p, <2>c DEF Relock
  <2>4. CASE Leave(th)
    BY <2>4, <2>p, <2>c DEF Leave
  <2>5. CASE LookAgain(th)
    BY <2>5, <2>p, <2>c DEF LookAgain
  <2>6. CASE Pop(th)
    BY <2>6, <2>p, <2>c DEF Pop
  <2>7. CASE Fetch(th)
    <3>1. UNCHANGED <<png, table, url, image_counter>>
      BY <2>7 DEF Fetch
    <3>2. \A q \in Threads \ {th} : pc'[q] = pc[q]
      BY <2>7 DEF Fetch
    <3>3. pc'[th] \in {"png", "count"} => Kind[Redirect[url[th]]] = "png"
      BY <2>7 DEF Fetch
    <3> QED
      BY <3>1, <3>2, <3>3, <2>p, <2>c
  <2>8. CASE FetchFails(th)
    BY <2>8, <2>p, <2>c DEF FetchFails
  <2>9. CASE LockTable(th)
    BY <2>9, <2>p, <2>c DEF LockTable
  <2>10. CASE NoMoreLinks(th)
    BY <2>10, <2>p, <2>c DEF NoMoreLinks
  <2>11. CASE Known(th)
    BY <2>11, <2>p, <2>c DEF Known
  <2>12. CASE Unknown(th)
    BY <2>12, <2>p, <2>c DEF Unknown
  <2>13. CASE Enter(th)
    BY <2>13, <2>p, <2>c DEF Enter
  <2>14. CASE LockPush(th)
    BY <2>14, <2>p, <2>c DEF LockPush
  <2>15. CASE PushUrl(th)
    BY <2>15, <2>p, <2>c DEF PushUrl
  <2>16. CASE Signal(th)
    <3>1. UNCHANGED <<png, table, url, image_counter>>
      BY <2>16 DEF Signal
    <3>2. \A q \in Threads : pc'[q] \in {"png", "count"} => pc'[q] = pc[q]
      BY <2>16 DEF Signal, Asleep
    <3> QED
      BY <3>1, <3>2, <2>p, <2>c
  <2>17. CASE LockPng(th)
    BY <2>17, <2>p, <2>c DEF LockPng
  <2>18. CASE CountPng(th)
    <3>1. Redirect[url[th]] \in Urls /\ Redirect[url[th]] \in Images
      BY <2>18 DEF CountPng, Images, InTable
    <3>2. Elems(png') \subseteq Elems(png) \cup {Redirect[url[th]]} /\ Images' = Images
      <4>1. png' = Pushed(png, Redirect[url[th]]) /\ table' = table
        BY <2>18 DEF CountPng
      <4>2. Elems(Pushed(png, Redirect[url[th]])) \subseteq Elems(png) \cup {Redirect[url[th]]}
        BY <3>1, PushedFacts
      <4> QED
        BY <4>1, <4>2 DEF Images
    <3>3. PngHeld'
      BY <2>18, <3>1, <3>2 DEF CountPng
    <3>4. Len(png') = IF Len(png) = StackSize THEN Len(png) ELSE Len(png) + 1
      BY <2>18, <3>1, PushedLen DEF CountPng
    <3>5. PngCounted'
      BY <2>18, <3>4 DEF CountPng, PngCounted
    <3> QED
      BY <3>3, <3>5
  <2>19. CASE LockCheck(th)
    BY <2>19, <2>p, <2>c DEF LockCheck
  <2>20. CASE Break(th)
    <3>1. UNCHANGED <<png, table, url, image_counter>>
      BY <2>20 DEF Break
    <3>2. \A q \in Threads : pc'[q] \in {"png", "count"} => pc'[q] = pc[q]
      BY <2>20 DEF Break, Asleep
    <3> QED
      BY <3>1, <3>2, <2>p, <2>c
  <2>21. CASE GoOn(th)
    BY <2>21, <2>p, <2>c DEF GoOn
  <2> QED
    BY <1>2, <2>1, <2>2, <2>3, <2>4, <2>5, <2>6, <2>7, <2>8, <2>9, <2>10, <2>11, <2>12, <2>13, <2>14, <2>15, <2>16, <2>17, <2>18, <2>19, <2>20, <2>21 DEF Step
<1>3. ASSUME NEW th \in Threads, Step(th) PROVE ~written'
  <2> USE <1>3, <1>k
  <2>1. CASE LockFrontier(th)
    BY <2>1 DEF LockFrontier
  <2>2. CASE Wait(th)
    BY <2>2 DEF Wait
  <2>3. CASE Relock(th)
    BY <2>3 DEF Relock
  <2>4. CASE Leave(th)
    BY <2>4 DEF Leave
  <2>5. CASE LookAgain(th)
    BY <2>5 DEF LookAgain
  <2>6. CASE Pop(th)
    BY <2>6 DEF Pop
  <2>7. CASE Fetch(th)
    BY <2>7 DEF Fetch
  <2>8. CASE FetchFails(th)
    BY <2>8 DEF FetchFails
  <2>9. CASE LockTable(th)
    BY <2>9 DEF LockTable
  <2>10. CASE NoMoreLinks(th)
    BY <2>10 DEF NoMoreLinks
  <2>11. CASE Known(th)
    BY <2>11 DEF Known
  <2>12. CASE Unknown(th)
    BY <2>12 DEF Unknown
  <2>13. CASE Enter(th)
    BY <2>13 DEF Enter
  <2>14. CASE LockPush(th)
    BY <2>14 DEF LockPush
  <2>15. CASE PushUrl(th)
    BY <2>15 DEF PushUrl
  <2>16. CASE Signal(th)
    BY <2>16 DEF Signal
  <2>17. CASE LockPng(th)
    BY <2>17 DEF LockPng
  <2>18. CASE CountPng(th)
    BY <2>18 DEF CountPng
  <2>19. CASE LockCheck(th)
    BY <2>19 DEF LockCheck
  <2>20. CASE Break(th)
    BY <2>20 DEF Break
  <2>21. CASE GoOn(th)
    BY <2>21 DEF GoOn
  <2> QED
    BY <1>3, <2>1, <2>2, <2>3, <2>4, <2>5, <2>6, <2>7, <2>8, <2>9, <2>10, <2>11, <2>12, <2>13, <2>14, <2>15, <2>16, <2>17, <2>18, <2>19, <2>20, <2>21 DEF Step
<1>4. ASSUME NEW th \in Threads, Spurious(th) PROVE OutInv'
  <2>1. ~written
    BY <1>4, GoneStays DEF LogInv, AllGone
  <2>2. UNCHANGED <<frontier, table, url, todo, png, image_counter, written>>
    BY <1>4 DEF Spurious
  <2>3. \A q \in Threads : pc'[q] \in {"push", "pushing", "png", "count"} => pc'[q] = pc[q]
    BY <1>4 DEF Spurious
  <2>4. InTable'
    BY <2>2, <2>3 DEF OutInv, InTable
  <2>5. PngHeld'
    BY <2>2, <2>3 DEF OutInv, PngHeld, Images
  <2> QED
    BY <2>1, <2>2, <2>4, <2>5 DEF OutInv, PngCounted, OutputComplete
<1>5. ASSUME WriteLog \/ WritePngUrls \/ UNCHANGED vars
      PROVE /\ InTable' /\ PngHeld' /\ PngCounted'
            /\ UNCHANGED <<frontier, table, png, image_counter>>
  <2>1. UNCHANGED <<frontier, table, url, todo, png, image_counter, pc>>
    BY <1>5 DEF WriteLog, WritePngUrls, vars
  <2> QED
    BY <2>1 DEF OutInv, InTable, PngHeld, Images, PngCounted
<1>6. ASSUME WriteLog \/ UNCHANGED vars PROVE OutInv'
  <2>1. UNCHANGED <<png_urls, written>>
    BY <1>6 DEF WriteLog, vars
  <2> QED
    BY <2>1, <1>5, <1>6 DEF OutInv, OutputComplete
<1>7. ASSUME WritePngUrls PROVE OutInv'
  <2> DEFINE n == IF Len(png) < m THEN Len(png) ELSE m
  <2>1. n \in Nat /\ n <= Len(png) /\ Len(png) \in Nat
    BY LenProperties
  <2>2. png_urls' = [k \in 1 .. n |-> png[Len(png) + 1 - k]]
    BY <1>7 DEF WritePngUrls
  <2>3. m <= StackSize => n = IF image_counter < m THEN image_counter ELSE m
    BY DEF OutInv, PngCounted
  <2> HIDE DEF n
  <2>4. \A k \in 1 .. n : png[Len(png) + 1 - k] \in Elems(png)
    <3> SUFFICES ASSUME NEW k \in 1 .. n PROVE png[Len(png) + 1 - k] \in Elems(png)
      OBVIOUS
    <3>1. Len(png) + 1 - k \in 1 .. Len(png)
      BY <2>1
    <3> QED
      BY <3>1, ElemsOf
  <2>5. png_urls' \in [1 .. n -> Elems(png)]
    BY <2>2, <2>4
  <2>6. Len(png_urls') = n /\ png_urls' \in Seq(Elems(png))
    BY <2>1, <2>5, FunctionIsSeq
  <2>7. Elems(png_urls') \subseteq Elems(png)
    BY <2>6, ElemsOf
  <2>8. Elems(png_urls') \subseteq Images'
    BY <2>7, <1>5, <1>7 DEF PngHeld, OutInv
  <2>9. image_counter < m => frontier = <<>>
    BY <1>7 DEF WritePngUrls, NoStrandedWork, At
  <2>10. m <= StackSize => OutputComplete'
    BY <2>3, <2>6, <2>8, <2>9, <1>5, <1>7 DEF OutputComplete, Images
  <2> QED
    BY <2>10, <1>5, <1>7 DEF OutInv
<1> QED
  <2>1. ASSUME NEW th \in Threads, Step(th) PROVE OutInv'
    BY <2>1, <1>1, <1>2, <1>3 DEF OutInv, OutputComplete
  <2> QED
    BY <2>1, <1>4, <1>6, <1>7 DEF Next

(* When m is no more than what the stacks hold, main writes m images or    *)
(* all there are, each of them the image of a page that was found, and     *)
(* leaves nothing unvisited if they are fewer.                             *)
THEOREM OutputIsComplete == ASSUME m <= StackSize PROVE Spec => []OutputComplete
<1>1. TypeInv /\ LogInv /\ NoStrandedWork /\ OutInv /\ [Next]_vars => OutInv'
  BY StepOut
<1>2. OutInv => OutputComplete
  BY DEF OutInv
<1> QED
  BY InitOut, TypeInvHolds, LogInvHolds, WorkIsNotStranded, <1>1, <1>2, PTL DEF Spec

-----------------------------------------------------------------------------
(* The refinement of Crawl: each page is fetched at most once, and the     *)
(* crawl is over when main writes.                                         *)

ActiveLabels == {"fetch", "link", "find", "enter", "push", "pushing", "signal", "png", "count"}
Pending == Elems(frontier) \cup {Head(todo[th]) : th \in At({"push", "pushing"})}
Active == {url[th] : th \in At(ActiveLabels)}

(* Every address that is found is in one place: on the frontier, on its    *)
(* way there, or with the thread that fetches it.                          *)
OnStack == /\ Distinct(frontier)
           /\ \A th \in Threads :
                 /\ pc[th] \in ActiveLabels => url[th] \notin Elems(frontier)
                 /\ pc[th] \in PushLabels => Head(todo[th]) \notin Elems(frontier)
OnWay == \A th, q \in Threads :
            pc[th] \in PushLabels =>
                /\ pc[q] \in PushLabels /\ Head(todo[th]) = Head(todo[q]) => th = q
                /\ pc[q] \in ActiveLabels => Head(todo[th]) # url[q]
OnePage == \A th, q \in Threads :
            pc[th] \in ActiveLabels /\ pc[q] \in ActiveLabels /\ url[th] = url[q] => th = q

(* The links that a thread still looks at are on the page it fetched.      *)
OnThePage == \A th \in Threads :
                pc[th] \in Linking \cup {"link"} =>
                    Elems(todo[th]) \subseteq Elems(Links[Redirect[url[th]]])

PlaceInv == OnStack /\ OnWay /\ OnePage /\ OnThePage

LEMMA HeadTailElems ==
    ASSUME NEW S, NEW s \in Seq(S), s # <<>>
    PROVE Head(s) \in Elems(s) /\ Elems(Tail(s)) \subseteq Elems(s)
<1>1. Len(s) \in Nat \ {0} /\ Elems(s) = {s[k] : k \in 1 .. Len(s)}
  BY EmptySeq, ElemsOf
<1>2. Head(s) = s[1]
  OBVIOUS
<1>3. /\ Tail(s) \in Seq(S) /\ Len(Tail(s)) = Len(s) - 1
      /\ \A k \in 1 .. Len(Tail(s)) : Tail(s)[k] = s[k + 1]
  BY HeadTailProperties
<1>4. Elems(Tail(s)) = {Tail(s)[k] : k \in 1 .. Len(Tail(s))}
  BY <1>3, ElemsOf
<1> DEFINE r == Tail(s)
           n == Len(s)
<1>5. /\ n \in Nat \ {0} /\ Elems(s) = {s[k] : k \in 1 .. n}
      /\ Elems(r) = {r[k] : k \in 1 .. n - 1} /\ \A k \in 1 .. n - 1 : r[k] = s[k + 1]
  BY <1>1, <1>3, <1>4
<1> HIDE DEF r, n
<1>6. Elems(r) \subseteq Elems(s)
  BY <1>5
<1>7. s[1] \in Elems(s)
  BY <1>5
<1> QED
  BY <1>2, <1>6, <1>7 DEF r

LEMMA FrontDistinct ==
    ASSUME NEW S, NEW s \in Seq(S), s # <<>>, Distinct(s)
    PROVE Distinct(Front(s)) /\ s[Len(s)] \notin Elems(Front(s))
<1> DEFINE n == Len(s)
           f == Front(s)
<1>1. n \in Nat \ {0} /\ DOMAIN s = 1 .. n
  BY EmptySeq, LenProperties
<1>2. /\ f \in Seq(S) /\ Len(f) = n - 1 /\ \A k \in 1 .. n - 1 : f[k] = s[k]
  BY FrontFacts
<1>3. DOMAIN f = 1 .. n - 1 /\ Elems(f) = {f[k] : k \in 1 .. n - 1}
  BY <1>2, LenProperties, ElemsOf
<1>4. \A j, k \in 1 .. n : s[j] = s[k] => j = k
  BY <1>1 DEF Distinct
<1> HIDE DEF n, f
<1>5. Distinct(f)
  BY <1>1, <1>2, <1>3, <1>4 DEF Distinct
<1>6. s[n] \notin Elems(f)
  <2> SUFFICES ASSUME NEW k \in 1 .. n - 1, s[n] = f[k] PROVE FALSE
    BY <1>3
  <2>1. s[n] = s[k] /\ k \in 1 .. n /\ n \in 1 .. n /\ k # n
    BY <1>1, <1>2
  <2> QED
    BY <2>1, <1>4
<1> QED
  BY <1>5, <1>6 DEF f, n

(* A sequence of addresses without repetition is no longer than there are  *)
(* addresses.                                                              *)
LEMMA DistinctLen ==
    ASSUME NEW S, IsFiniteSet(S), NEW s \in Seq(S), Distinct(s)
    PROVE Len(s) <= Cardinality(S)
<1>1. Len(s) \in Nat /\ s \in [1 .. Len(s) -> S] /\ DOMAIN s = 1 .. Len(s)
  BY LenProperties
<1>2. s \in Injection(1 .. Len(s), S)
  BY <1>1 DEF Distinct, Injection, IsInjective
<1>3. Cardinality(1 .. Len(s)) <= Cardinality(S)
  BY <1>2, FS_Injection
<1>4. Cardinality(1 .. Len(s)) = Len(s)
  BY <1>1, FS_Interval
<1> QED
  BY <1>3, <1>4

LEMMA InitPlace == Init => PlaceInv
<1> SUFFICES ASSUME Init PROVE PlaceInv
  OBVIOUS
<1>1. \A th \in Threads : pc[th] = "top"
  BY DEF Init, InitThreads
<1>2. <<>> \in Seq(Urls) /\ Seed \in Urls /\ Len(<<>>) = 0 /\ Elems(<<>>) = {} /\ Distinct(<<>>)
  BY EmptySeq, WebAssumption DEF Elems, Distinct
<1>3. frontier = Append(<<>>, Seed)
  BY <1>2, SizeAssumption DEF Init, InitStacks, EmptyStack, Pushed, IsFull
<1>4. Distinct(frontier)
  BY <1>2, <1>3, AppendFacts
<1> QED
  BY <1>1, <1>4 DEF PlaceInv, OnStack, OnWay, OnePage, OnThePage, ActiveLabels, PushLabels, Linking

LEMMA StepPlace == TypeInv /\ LogInv /\ OutInv /\ PlaceInv /\ [Next]_vars => PlaceInv'
<1> SUFFICES ASSUME TypeInv, LogInv, OutInv, PlaceInv, [Next]_vars PROVE PlaceInv'
  OBVIOUS
<1>t. /\ pc \in [Threads -> Labels] /\ url \in [Threads -> Urls]
      /\ todo \in [Threads -> Seq(Urls)] /\ HasLink /\ frontier \in Seq(Urls)
      /\ InTable /\ FreshLink
  BY DEF TypeInv, TypeOK, OutInv, LogInv
<1> USE <1>t DEF PlaceInv, OnStack, OnWay, OnePage, OnThePage, ActiveLabels, PushLabels, Linking,
                 Goto, stacks, marks, counters, main, faults
<1>s. ASSUME UNCHANGED <<frontier, url, todo>>,
             \A q \in Threads : /\ pc'[q] \in ActiveLabels => pc[q] \in ActiveLabels
                                /\ pc'[q] \in PushLabels => pc[q] \in PushLabels
                                /\ pc'[q] \in Linking \cup {"link"} => pc[q] \in Linking \cup {"link"}
      PROVE PlaceInv'
  BY <1>s
<1>o. ASSUME url' = url, \A q \in Threads : pc'[q] \in ActiveLabels => pc[q] \in ActiveLabels
      PROVE OnePage'
  BY <1>o
<1>w. ASSUME url' = url, todo' = todo,
             \A q \in Threads : /\ pc'[q] \in ActiveLabels => pc[q] \in ActiveLabels
                                /\ pc'[q] \in PushLabels => pc[q] \in PushLabels
      PROVE OnWay'
  BY <1>w
<1>h. ASSUME NEW th \in Threads, pc[th] \in Linking
      PROVE /\ Head(todo[th]) \in Urls /\ Head(todo[th]) \in Elems(todo[th])
            /\ Elems(Tail(todo[th])) \subseteq Elems(todo[th])
  <2>1. todo[th] \in Seq(Urls) /\ todo[th] # <<>>
    BY <1>h DEF HasLink
  <2> QED
    BY <2>1, HeadTailElems, HeadTailProperties
<1>1. ASSUME NEW th \in Threads, Step(th) PROVE PlaceInv'
  <2>1. CASE LockFrontier(th)
    BY <2>1, <1>s DEF LockFrontier
  <2>2. CASE Wait(th)
    BY <2>2, <1>s DEF Wait
  <2>3. CASE Relock(th)
    BY <2>3, <1>s DEF Relock
  <2>4. CASE Leave(th)
    BY <2>4, <1>s DEF Leave
  <2>5. CASE LookAgain(th)
    BY <2>5, <1>s DEF LookAgain
  <2>6. CASE Pop(th)
    <3> DEFINE u == frontier[Len(frontier)]
    <3>1. u \in Elems(frontier) /\ Elems(Front(frontier)) \subseteq Elems(frontier)
      BY <2>6, FrontFacts DEF Pop
    <3>2. Distinct(Front(frontier)) /\ u \notin Elems(Front(frontier))
      BY <2>6, FrontDistinct DEF Pop
    <3>3. frontier' = Front(frontier) /\ todo' = todo /\ url'[th] = u /\ pc[th] = "look" /\ pc'[th] = "fetch"
      BY <2>6 DEF Pop
    <3>4. \A q \in Threads \ {th} : url'[q] = url[q] /\ pc'[q] = pc[q]
      BY <2>6 DEF Pop
    <3> HIDE DEF u
    <3>5. OnStack'
      BY <3>1, <3>2, <3>3, <3>4
    <3>6. OnWay'
      BY <3>1, <3>3, <3>4
    <3>7. OnePage'
      BY <3>1, <3>3, <3>4
    <3>8. OnThePage'
      BY <3>3, <3>4
    <3> QED
      BY <3>5, <3>6, <3>7, <3>8
  <2>7. CASE Fetch(th)
    <3>1. /\ pc[th] = "fetch" /\ pc'[th] \in {"link", "png", "close"} /\ UNCHANGED <<frontier, url>>
          /\ pc'[th] = "link" => todo'[th] = Links[Redirect[url[th]]]
      BY <2>7 DEF Fetch
    <3>2. \A q \in Threads \ {th} : todo'[q] = todo[q] /\ pc'[q] = pc[q]
      BY <2>7 DEF Fetch
    <3>3. OnStack' /\ OnWay' /\ OnePage'
      <4>1. OnStack'
        BY <3>1, <3>2
      <4>2. OnWay'
        BY <3>1, <3>2
      <4>3. OnePage'
        BY <3>1, <3>2
      <4> QED
        BY <4>1, <4>2, <4>3
    <3>4. OnThePage'
      BY <3>1, <3>2
    <3> QED
      BY <3>3, <3>4
  <2>8. CASE FetchFails(th)
    BY <2>8, <1>s DEF FetchFails
  <2>9. CASE LockTable(th)
    BY <2>9, <1>s DEF LockTable
  <2>10. CASE NoMoreLinks(th)
    BY <2>10, <1>s DEF NoMoreLinks
  <2>11. CASE Known(th)
    <3>1. Elems(Tail(todo[th])) \subseteq Elems(todo[th])
      BY <2>11, <1>h DEF Known
    <3>2. todo'[th] = Tail(todo[th]) /\ pc[th] = "find" /\ pc'[th] = "link" /\ UNCHANGED <<frontier, url>>
      BY <2>11 DEF Known
    <3>3. \A q \in Threads \ {th} : todo'[q] = todo[q] /\ pc'[q] = pc[q]
      BY <2>11 DEF Known
    <3>4. OnStack' /\ OnWay' /\ OnePage'
      <4>1. OnStack'
        BY <3>2, <3>3
      <4>2. OnWay'
        BY <3>2, <3>3
      <4>3. OnePage'
        BY <3>2, <3>3
      <4> QED
        BY <4>1, <4>2, <4>3
    <3>5. OnThePage'
      BY <3>1, <3>2, <3>3
    <3> QED
      BY <3>4, <3>5
  <2>12. CASE Unknown(th)
    BY <2>12, <1>s DEF Unknown
  <2>13. CASE Enter(th)
    <3> DEFINE u == Head(todo[th])
    <3>1. u \notin table /\ u \in Elems(todo[th])
      BY <2>13, <1>h DEF Enter, FreshLink
    <3>2. pc[th] = "enter" /\ pc'[th] = "push" /\ UNCHANGED <<frontier, url, todo>>
      BY <2>13 DEF Enter
    <3>3. \A q \in Threads \ {th} : pc'[q] = pc[q]
      BY <2>13 DEF Enter
    <3>4. Elems(frontier) \subseteq table /\ \A q \in Threads : url[q] \in table /\ (pc[q] \in PushLabels => Head(todo[q]) \in table)
      BY DEF InTable
    <3>5. OnStack'
      BY <3>1, <3>2, <3>3, <3>4
    <3>6. OnWay'
      BY <3>1, <3>2, <3>3, <3>4
    <3>7. OnePage'
      BY <3>2, <3>3
    <3>8. OnThePage'
      BY <3>2, <3>3
    <3> QED
      BY <3>5, <3>6, <3>7, <3>8
  <2>14. CASE LockPush(th)
    BY <2>14, <1>s DEF LockPush
  <2>15. CASE PushUrl(th)
    <3> DEFINE u == Head(todo[th])
    <3>1. u \in Urls /\ u \notin Elems(frontier)
      BY <2>15, <1>h DEF PushUrl
    <3>2. Distinct(Pushed(frontier, u)) /\ Elems(Pushed(frontier, u)) \subseteq Elems(frontier) \cup {u}
      BY <3>1, AppendFacts DEF Pushed
    <3>3. frontier' = Pushed(frontier, u) /\ UNCHANGED <<url, todo>> /\ pc[th] = "pushing" /\ pc'[th] = "signal"
      BY <2>15 DEF PushUrl
    <3>4. \A q \in Threads \ {th} : pc'[q] = pc[q]
      BY <2>15 DEF PushUrl
    <3>5. \A q \in Threads : /\ pc[q] \in ActiveLabels => url[q] # u
                             /\ pc[q] \in PushLabels /\ q # th => Head(todo[q]) # u
      BY <3>3
    <3> HIDE DEF u
    <3>6. OnStack'
      BY <3>2, <3>3, <3>4, <3>5
    <3>7. OnWay'
      BY <3>3, <3>4, <1>w
    <3>8. OnePage'
      BY <3>3, <3>4, <1>o
    <3>9. OnThePage'
      BY <3>3, <3>4
    <3> QED
      BY <3>6, <3>7, <3>8, <3>9
  <2>16. CASE Signal(th)
    <3>1. Elems(Tail(todo[th])) \subseteq Elems(todo[th])
      BY <2>16, <1>h DEF Signal
    <3>2. todo'[th] = Tail(todo[th]) /\ pc[th] = "signal" /\ pc'[th] = "link" /\ UNCHANGED <<frontier, url>>
      BY <2>16 DEF Signal, Asleep
    <3>3. \A q \in Threads \ {th} : todo'[q] = todo[q] /\ (pc'[q] = pc[q] \/ pc'[q] = "relock")
      BY <2>16 DEF Signal, Asleep
    <3>4. OnStack' /\ OnWay' /\ OnePage'
      <4>1. OnStack'
        BY <3>2, <3>3
      <4>2. OnWay'
        <5>1. \A q \in Threads : /\ pc'[q] \in ActiveLabels => pc[q] \in ActiveLabels
                                 /\ pc'[q] \in PushLabels => pc[q] \in PushLabels /\ todo'[q] = todo[q]
          BY <3>2, <3>3
        <5> QED
          BY <3>2, <5>1
      <4>3. OnePage'
        BY <3>2, <3>3, <1>o
      <4> QED
        BY <4>1, <4>2, <4>3
    <3>5. OnThePage'
      BY <3>1, <3>2, <3>3
    <3> QED
      BY <3>4, <3>5
  <2>17. CASE LockPng(th)
    BY <2>17, <1>s DEF LockPng
  <2>18. CASE CountPng(th)
    BY <2>18, <1>s DEF CountPng
  <2>19. CASE LockCheck(th)
    BY <2>19, <1>s DEF LockCheck
  <2>20. CASE Break(th)
    <3>1. UNCHANGED <<frontier, url, todo>>
      BY <2>20 DEF Break
    <3>2. \A q \in Threads : pc'[q] \in ActiveLabels \cup PushLabels \cup Linking => pc'[q] = pc[q]
      BY <2>20 DEF Break, Asleep
    <3> QED
      BY <3>1, <3>2, <1>s
  <2>21. CASE GoOn(th)
    BY <2>21, <1>s DEF GoOn
  <2> QED
    BY <1>1, <2>1, <2>2, <2>3, <2>4, <2>5, <2>6, <2>7, <2>8, <2>9, <2>10, <2>11, <2>12, <2>13, <2>14, <2>15, <2>16, <2>17, <2>18, <2>19, <2>20, <2>21 DEF Step
<1>2. ASSUME NEW th \in Threads, Spurious(th) PROVE PlaceInv'
  BY <1>2, <1>s DEF Spurious
<1>3. CASE WritePngUrls \/ WriteLog \/ UNCHANGED vars
  <2>1. UNCHANGED <<frontier, url, todo, pc>>
    BY <1>3 DEF WritePngUrls, WriteLog, vars
  <2> QED
    BY <2>1, <1>s
<1> QED
  BY <1>1, <1>2, <1>3 DEF Next

LEMMA PlaceHolds == Spec => [](TypeInv /\ LogInv /\ PushRoom /\ NoStrandedWork /\ PlaceInv)
<1>1. TypeInv /\ LogInv /\ NoStrandedWork /\ OutInv /\ [Next]_vars => OutInv'
  BY StepOut
<1>2. TypeInv /\ LogInv /\ OutInv /\ PlaceInv /\ [Next]_vars => PlaceInv'
  BY StepPlace
<1> QED
  BY InitOut, InitPlace, TypeInvHolds, LogInvHolds, WorkIsNotStranded, PushHasRoom, <1>1, <1>2, PTL DEF Spec

-----------------------------------------------------------------------------
(* The steps.                                                              *)

(* What is pending and active does not change if nobody starts or stops.   *)
LEMMA SameWork ==
    ASSUME UNCHANGED <<frontier, url>>,
           \A q \in Threads : /\ pc'[q] \in ActiveLabels <=> pc[q] \in ActiveLabels
                              /\ pc'[q] \in PushLabels <=> pc[q] \in PushLabels
                              /\ pc[q] \in PushLabels => todo'[q] = todo[q]
    PROVE Pending' = Pending /\ Active' = Active
<1>1. At(ActiveLabels)' = At(ActiveLabels) /\ At(PushLabels)' = At(PushLabels)
  BY DEF At
<1>2. Active' = Active
  BY <1>1 DEF Active
<1>3. {Head(todo[q]) : q \in At(PushLabels)}' = {Head(todo[q]) : q \in At(PushLabels)}
  BY <1>1 DEF At
<1> QED
  BY <1>2, <1>3 DEF Pending, PushLabels

(* A thread that is done with its page is the only one that has it.        *)
LEMMA Retired ==
    ASSUME OnePage, NEW th \in Threads, pc[th] \in ActiveLabels, pc'[th] \notin ActiveLabels,
           \A q \in Threads \ {th} : pc'[q] = pc[q], UNCHANGED <<frontier, url, todo>>,
           pc[th] \notin PushLabels, pc'[th] \notin PushLabels
    PROVE Pending' = Pending /\ Active' = Active \ {url[th]} /\ url[th] \in Active
<1>1. At(PushLabels)' = At(PushLabels) /\ At(ActiveLabels)' = At(ActiveLabels) \ {th} /\ th \in At(ActiveLabels)
  BY DEF At
<1>2. Pending' = Pending
  BY <1>1 DEF Pending, PushLabels
<1>3. \A q \in At(ActiveLabels) \ {th} : url[q] # url[th]
  BY <1>1 DEF OnePage, At
<1> QED
  BY <1>1, <1>2, <1>3 DEF Active

LEMMA AbstractInit == TypeInv /\ Init => Abstract!Init
<1> SUFFICES ASSUME TypeInv, Init PROVE Abstract!Init
  OBVIOUS
<1>1. At(ActiveLabels) = {} /\ At({"push", "pushing"}) = {}
  BY DEF Init, InitThreads, At, ActiveLabels
<1>2. <<>> \in Seq(Urls) /\ Seed \in Urls /\ Len(<<>>) = 0 /\ Elems(<<>>) = {}
  BY EmptySeq, WebAssumption DEF Elems
<1>3. frontier = Append(<<>>, Seed)
  BY <1>2, SizeAssumption DEF Init, InitStacks, EmptyStack, Pushed, IsFull
<1>4. Elems(frontier) = {Seed}
  <2>1. frontier = <<Seed>>
    BY <1>3
  <2>2. DOMAIN frontier = {1} /\ frontier[1] = Seed
    BY <2>1
  <2> QED
    BY <2>2 DEF Elems
<1>5. Pending = {Seed} /\ Active = {}
  BY <1>1, <1>4 DEF Pending, Active
<1> QED
  BY <1>5 DEF Abstract!Init, Init, InitMarks, Pending, Active, ActiveLabels

LEMMA AbstractStep ==
    ASSUME IsFiniteSet(Urls), Cardinality(Urls) <= StackSize,
           TypeInv, LogInv, PushRoom, NoStrandedWork, PlaceInv, [Next]_vars
    PROVE [Abstract!Next]_(Abstract!vars)
<1>t. /\ pc \in [Threads -> Labels] /\ url \in [Threads -> Urls]
      /\ todo \in [Threads -> Seq(Urls)] /\ HasLink /\ frontier \in Seq(Urls) /\ dp \in Seq(Urls)
      /\ OnStack /\ OnWay /\ OnePage /\ OnThePage /\ FreshLink /\ AllGone
      /\ image_counter \in Nat /\ m \in Nat /\ table \subseteq Urls
  BY SizeAssumption DEF TypeInv, TypeOK, PlaceInv, LogInv
<1>s. ASSUME Pending' = Pending, Active' = Active, UNCHANGED <<table, image_counter, written>>
      PROVE UNCHANGED Abstract!vars
  BY <1>s DEF Abstract!vars, Pending, Active, ActiveLabels
<1>r. ASSUME NEW u \in Urls, u \in Active, Pending' = Pending, Active' = Active \ {u},
             image_counter' \in {image_counter, image_counter + 1}, UNCHANGED <<table, written>>
      PROVE Abstract!Next
  <2>1. Abstract!Retire(u)
    BY <1>r DEF Abstract!Retire, Pending, Active, ActiveLabels
  <2> QED
    BY <2>1 DEF Abstract!Next
<1>a. ASSUME NEW S \in SUBSET Urls, Abstract!Start(S) PROVE Abstract!Next
  BY <1>a DEF Abstract!Next
<1>d. ASSUME NEW u \in Urls, Abstract!Discover(u) PROVE Abstract!Next
  BY <1>d DEF Abstract!Next
<1>1. ASSUME NEW th \in Threads, Step(th) PROVE [Abstract!Next]_(Abstract!vars)
  <2> USE <1>t DEF Goto, stacks, marks, counters, main, faults
  <2>1. CASE LockFrontier(th)
    <3>1. Pending' = Pending /\ Active' = Active
      <4>1. UNCHANGED <<frontier, url>>
        BY <2>1 DEF LockFrontier
      <4>2. \A q \in Threads : /\ pc'[q] \in ActiveLabels <=> pc[q] \in ActiveLabels
                               /\ pc'[q] \in PushLabels <=> pc[q] \in PushLabels
                               /\ pc[q] \in PushLabels => todo'[q] = todo[q]
        BY <2>1 DEF LockFrontier, Asleep, ActiveLabels, PushLabels
      <4> QED
        BY <4>1, <4>2, SameWork
    <3> QED
      BY <2>1, <3>1, <1>s DEF LockFrontier
  <2>2. CASE Wait(th)
    <3>1. Pending' = Pending /\ Active' = Active
      <4>1. UNCHANGED <<frontier, url>>
        BY <2>2 DEF Wait
      <4>2. \A q \in Threads : /\ pc'[q] \in ActiveLabels <=> pc[q] \in ActiveLabels
                               /\ pc'[q] \in PushLabels <=> pc[q] \in PushLabels
                               /\ pc[q] \in PushLabels => todo'[q] = todo[q]
        BY <2>2 DEF Wait, Asleep, ActiveLabels, PushLabels
      <4> QED
        BY <4>1, <4>2, SameWork
    <3> QED
      BY <2>2, <3>1, <1>s DEF Wait
  <2>3. CASE Relock(th)
    <3>1. Pending' = Pending /\ Active' = Active
      <4>1. UNCHANGED <<frontier, url>>
        BY <2>3 DEF Relock
      <4>2. \A q \in Threads : /\ pc'[q] \in ActiveLabels <=> pc[q] \in ActiveLabels
                               /\ pc'[q] \in PushLabels <=> pc[q] \in PushLabels
                               /\ pc[q] \in PushLabels => todo'[q] = todo[q]
        BY <2>3 DEF Relock, Asleep, ActiveLabels, PushLabels
      <4> QED
        BY <4>1, <4>2, SameWork
    <3> QED
      BY <2>3, <3>1, <1>s DEF Relock
  <2>4. CASE Leave(th)
    <3>1. Pending' = Pending /\ Active' = Active
      <4>1. UNCHANGED <<frontier, url>>
        BY <2>4 DEF Leave
      <4>2. \A q \in Threads : /\ pc'[q] \in ActiveLabels <=> pc[q] \in ActiveLabels
                               /\ pc'[q] \in PushLabels <=> pc[q] \in PushLabels
                               /\ pc[q] \in PushLabels => todo'[q] = todo[q]
        BY <2>4 DEF Leave, Asleep, ActiveLabels, PushLabels
      <4> QED
        BY <4>1, <4>2, SameWork
    <3> QED
      BY <2>4, <3>1, <1>s DEF Leave
  <2>5. CASE LookAgain(th)
    <3>1. Pending' = Pending /\ Active' = Active
      <4>1. UNCHANGED <<frontier, url>>
        BY <2>5 DEF LookAgain
      <4>2. \A q \in Threads : /\ pc'[q] \in ActiveLabels <=> pc[q] \in ActiveLabels
                               /\ pc'[q] \in PushLabels <=> pc[q] \in PushLabels
                               /\ pc[q] \in PushLabels => todo'[q] = todo[q]
        BY <2>5 DEF LookAgain, Asleep, ActiveLabels, PushLabels
      <4> QED
        BY <4>1, <4>2, SameWork
    <3> QED
      BY <2>5, <3>1, <1>s DEF LookAgain
  <2>6. CASE Pop(th)
    <3> DEFINE u == frontier[Len(frontier)]
    <3>1. u \in Elems(frontier) /\ Elems(Front(frontier)) \subseteq Elems(frontier)
      BY <2>6, FrontFacts DEF Pop
    <3>2. u \notin Elems(Front(frontier))
      BY <2>6, FrontDistinct DEF Pop, OnStack
    <3>3. Elems(frontier) \subseteq Elems(Front(frontier)) \cup {u} /\ Elems(frontier) \subseteq Urls
      <4> DEFINE n == Len(frontier)
                 f == Front(frontier)
      <4>1. /\ n \in Nat \ {0} /\ Elems(frontier) = {frontier[k] : k \in 1 .. n} /\ Elems(frontier) \subseteq Urls
            /\ f \in Seq(Urls) /\ Len(f) = n - 1 /\ \A k \in 1 .. n - 1 : f[k] = frontier[k]
        BY <2>6, EmptySeq, ElemsOf, FrontFacts DEF Pop
      <4>2. Elems(f) = {f[k] : k \in 1 .. n - 1}
        BY <4>1, ElemsOf
      <4>3. u = frontier[n]
        OBVIOUS
      <4> HIDE DEF n, f, u
      <4>4. Elems(frontier) \subseteq Elems(f) \cup {u}
        <5> SUFFICES ASSUME NEW k \in 1 .. n, frontier[k] # u PROVE frontier[k] \in Elems(f)
          BY <4>1
        <5>1. k \in 1 .. n - 1
          BY <4>1, <4>3
        <5> QED
          BY <5>1, <4>1, <4>2
      <4> QED
        BY <4>1, <4>4 DEF f
    <3>4. frontier' = Front(frontier) /\ todo' = todo /\ url'[th] = u /\ pc[th] = "look" /\ pc'[th] = "fetch"
      BY <2>6 DEF Pop
    <3>5. \A q \in Threads \ {th} : url'[q] = url[q] /\ pc'[q] = pc[q]
      BY <2>6 DEF Pop
    <3> HIDE DEF u
    <3>6. \A q \in At(PushLabels) : Head(todo[q]) # u
      BY <3>1 DEF OnStack, At
    <3>7. At(PushLabels)' = At(PushLabels) /\ At(ActiveLabels)' = At(ActiveLabels) \cup {th} /\ th \notin At(ActiveLabels)
      BY <3>4, <3>5 DEF At, PushLabels, ActiveLabels
    <3>8. Pending' = Pending \ {u} /\ u \in Pending
      BY <3>1, <3>2, <3>3, <3>4, <3>6, <3>7 DEF Pending, PushLabels
    <3>9. Active' = Active \cup {u}
      <4>1. \A q \in At(ActiveLabels) : url'[q] = url[q]
        BY <3>5, <3>7 DEF At
      <4> DEFINE B == At(ActiveLabels)
      <4>2. Active = {url[q] : q \in B} /\ Active' = {url'[q] : q \in B \cup {th}}
        BY <3>7 DEF Active
      <4>3. \A q \in B : url'[q] = url[q]
        BY <4>1
      <4> HIDE DEF B
      <4> QED
        BY <4>2, <4>3, <3>4
    <3>10. ~written /\ UNCHANGED <<table, image_counter, written>>
      BY <2>6 DEF Pop, AllGone
    <3>11. PICK v \in Urls : v = u
      BY <3>1, <3>3
    <3>12. Abstract!Start({v})
      BY <3>8, <3>9, <3>10, <3>11 DEF Abstract!Start, Pending, Active, ActiveLabels
    <3> QED
      BY <3>12, <1>a
  <2>7. CASE Fetch(th)
    <3>1. /\ pc[th] = "fetch" /\ pc'[th] \in {"link", "png", "close"}
          /\ \A q \in Threads \ {th} : pc'[q] = pc[q] /\ todo'[q] = todo[q]
          /\ pc'[th] = "close" => todo' = todo
          /\ UNCHANGED <<frontier, url, table, image_counter, written>>
      BY <2>7 DEF Fetch
    <3>2. CASE pc'[th] = "close"
      <4>1. Pending' = Pending /\ Active' = Active \ {url[th]} /\ url[th] \in Active
        BY <3>1, <3>2, Retired DEF ActiveLabels, PushLabels
      <4> QED
        BY <3>1, <4>1, <1>r
    <3>3. CASE pc'[th] # "close"
      <4>1. Pending' = Pending /\ Active' = Active
        BY <3>1, <3>3, SameWork DEF ActiveLabels, PushLabels
      <4> QED
        BY <3>1, <4>1, <1>s
    <3> QED
      BY <3>2, <3>3
  <2>8. CASE FetchFails(th)
    <3>1. /\ pc[th] = "fetch" /\ pc'[th] = "top" /\ \A q \in Threads \ {th} : pc'[q] = pc[q]
          /\ UNCHANGED <<frontier, url, todo>>
      BY <2>8 DEF FetchFails
    <3>2. Pending' = Pending /\ Active' = Active \ {url[th]} /\ url[th] \in Active
      BY <3>1, Retired DEF ActiveLabels, PushLabels
    <3> QED
      BY <2>8, <3>2, <1>r DEF FetchFails
  <2>9. CASE LockTable(th)
    <3>1. Pending' = Pending /\ Active' = Active
      <4>1. UNCHANGED <<frontier, url>>
        BY <2>9 DEF LockTable
      <4>2. \A q \in Threads : /\ pc'[q] \in ActiveLabels <=> pc[q] \in ActiveLabels
                               /\ pc'[q] \in PushLabels <=> pc[q] \in PushLabels
                               /\ pc[q] \in PushLabels => todo'[q] = todo[q]
        BY <2>9 DEF LockTable, Asleep, ActiveLabels, PushLabels
      <4> QED
        BY <4>1, <4>2, SameWork
    <3> QED
      BY <2>9, <3>1, <1>s DEF LockTable
  <2>10. CASE NoMoreLinks(th)
    <3>1. /\ pc[th] = "link" /\ pc'[th] = "close" /\ \A q \in Threads \ {th} : pc'[q] = pc[q]
          /\ UNCHANGED <<frontier, url, todo>>
      BY <2>10 DEF NoMoreLinks
    <3>2. Pending' = Pending /\ Active' = Active \ {url[th]} /\ url[th] \in Active
      BY <3>1, Retired DEF ActiveLabels, PushLabels
    <3> QED
      BY <2>10, <3>2, <1>r DEF NoMoreLinks
  <2>11. CASE Known(th)
    <3>1. Pending' = Pending /\ Active' = Active
      <4>1. UNCHANGED <<frontier, url>>
        BY <2>11 DEF Known
      <4>2. \A q \in Threads : /\ pc'[q] \in ActiveLabels <=> pc[q] \in ActiveLabels
                               /\ pc'[q] \in PushLabels <=> pc[q] \in PushLabels
                               /\ pc[q] \in PushLabels => todo'[q] = todo[q]
        BY <2>11 DEF Known, Asleep, ActiveLabels, PushLabels
      <4> QED
        BY <4>1, <4>2, SameWork
    <3> QED
      BY <2>11, <3>1, <1>s DEF Known
  <2>12. CASE Unknown(th)
    <3>1. Pending' = Pending /\ Active' = Active
      <4>1. UNCHANGED <<frontier, url>>
        BY <2>12 DEF Unknown
      <4>2. \A q \in Threads : /\ pc'[q] \in ActiveLabels <=> pc[q] \in ActiveLabels
                               /\ pc'[q] \in PushLabels <=> pc[q] \in PushLabels
                               /\ pc[q] \in PushLabels => todo'[q] = todo[q]
        BY <2>12 DEF Unknown, Asleep, ActiveLabels, PushLabels
      <4> QED
        BY <4>1, <4>2, SameWork
    <3> QED
      BY <2>12, <3>1, <1>s DEF Unknown
  <2>13. CASE Enter(th)
    <3> DEFINE u == Head(todo[th])
    <3>1. u \in Urls /\ u \in Elems(todo[th]) /\ u \notin table
      BY <2>13, HeadTailProperties, HeadTailElems DEF Enter, HasLink, Linking, FreshLink
    <3>2. pc[th] = "enter" /\ pc'[th] = "push" /\ \A q \in Threads \ {th} : pc'[q] = pc[q]
      BY <2>13 DEF Enter
    <3>3. UNCHANGED <<frontier, url, todo, image_counter, written>> /\ table' = table \cup {u}
      BY <2>13 DEF Enter
    <3>4. At(PushLabels)' = At(PushLabels) \cup {th} /\ At(ActiveLabels)' = At(ActiveLabels) /\ th \in At(ActiveLabels)
      BY <3>2 DEF At, PushLabels, ActiveLabels
    <3>5. Pending' = Pending \cup {u} /\ Active' = Active /\ url[th] \in Active
      BY <3>3, <3>4 DEF Pending, Active, PushLabels
    <3>6. u \in Elems(Links[Redirect[url[th]]])
      BY <3>1, <3>2 DEF OnThePage, Linking
    <3>7. u \in {Links[Redirect[url[th]]][k] : k \in DOMAIN Links[Redirect[url[th]]]}
      BY <3>6 DEF Elems
    <3> HIDE DEF u
    <3>8. PICK v \in Urls : v = u
      BY <3>1
    <3>9. Abstract!Discover(v)
      BY <3>1, <3>3, <3>5, <3>7, <3>8 DEF Abstract!Discover, Abstract!LinksOf, Pending, Active, ActiveLabels
    <3> QED
      BY <3>9, <1>d
  <2>14. CASE LockPush(th)
    <3>1. Pending' = Pending /\ Active' = Active
      <4>1. UNCHANGED <<frontier, url>>
        BY <2>14 DEF LockPush
      <4>2. \A q \in Threads : /\ pc'[q] \in ActiveLabels <=> pc[q] \in ActiveLabels
                               /\ pc'[q] \in PushLabels <=> pc[q] \in PushLabels
                               /\ pc[q] \in PushLabels => todo'[q] = todo[q]
        BY <2>14 DEF LockPush, Asleep, ActiveLabels, PushLabels
      <4> QED
        BY <4>1, <4>2, SameWork
    <3> QED
      BY <2>14, <3>1, <1>s DEF LockPush
  <2>15. CASE PushUrl(th)
    <3> DEFINE u == Head(todo[th])
    <3>1. u \in Urls
      BY <2>15, HeadTailProperties DEF PushUrl, HasLink, Linking
    <3>2. pc[th] = "pushing" /\ pc'[th] = "signal" /\ \A q \in Threads \ {th} : pc'[q] = pc[q]
      BY <2>15 DEF PushUrl
    <3>3. frontier' = Pushed(frontier, u) /\ UNCHANGED <<url, todo, table, image_counter, written>>
      BY <2>15 DEF PushUrl
    <3>4. ~IsFull(frontier)
      <4>1. Len(dp) <= Cardinality(Urls)
        BY DistinctLen DEF LogInv, DpExact
      <4>2. Pushers >= 1 /\ Pushers \in Nat
        BY <3>2, AtType DEF Pushers, PushLabels
      <4>3. Len(frontier) + Pushers <= Len(dp)
        BY DEF PushRoom, Pushers, PushLabels
      <4>4. Len(frontier) \in Nat /\ Len(dp) \in Nat /\ Cardinality(Urls) \in Nat /\ StackSize \in Nat
        BY LenProperties, FS_CardinalityType, SizeAssumption
      <4>5. Len(frontier) < StackSize
        BY <4>1, <4>2, <4>3, <4>4
      <4> QED
        BY <4>4, <4>5 DEF IsFull
    <3>5. Elems(frontier') = Elems(frontier) \cup {u}
      BY <3>1, <3>3, <3>4, AppendFacts DEF Pushed
    <3>6. At(PushLabels) = At(PushLabels)' \cup {th} /\ At(ActiveLabels)' = At(ActiveLabels)
      BY <3>2 DEF At, PushLabels, ActiveLabels
    <3>7. Pending' = Pending /\ Active' = Active
      BY <3>3, <3>5, <3>6 DEF Pending, Active, PushLabels
    <3> QED
      BY <3>3, <3>7, <1>s
  <2>16. CASE Signal(th)
    <3>1. Pending' = Pending /\ Active' = Active
      <4>1. UNCHANGED <<frontier, url>>
        BY <2>16 DEF Signal
      <4>2. \A q \in Threads : /\ pc'[q] \in ActiveLabels <=> pc[q] \in ActiveLabels
                               /\ pc'[q] \in PushLabels <=> pc[q] \in PushLabels
                               /\ pc[q] \in PushLabels => todo'[q] = todo[q]
        BY <2>16 DEF Signal, Asleep, ActiveLabels, PushLabels
      <4> QED
        BY <4>1, <4>2, SameWork
    <3> QED
      BY <2>16, <3>1, <1>s DEF Signal
  <2>17. CASE LockPng(th)
    <3>1. Pending' = Pending /\ Active' = Active
      <4>1. UNCHANGED <<frontier, url>>
        BY <2>17 DEF LockPng
      <4>2. \A q \in Threads : /\ pc'[q] \in ActiveLabels <=> pc[q] \in ActiveLabels
                               /\ pc'[q] \in PushLabels <=> pc[q] \in PushLabels
                               /\ pc[q] \in PushLabels => todo'[q] = todo[q]
        BY <2>17 DEF LockPng, Asleep, ActiveLabels, PushLabels
      <4> QED
        BY <4>1, <4>2, SameWork
    <3> QED
      BY <2>17, <3>1, <1>s DEF LockPng
  <2>18. CASE CountPng(th)
    <3>1. /\ pc[th] = "count" /\ pc'[th] = "close" /\ \A q \in Threads \ {th} : pc'[q] = pc[q]
          /\ UNCHANGED <<frontier, url, todo>>
      BY <2>18 DEF CountPng
    <3>2. Pending' = Pending /\ Active' = Active \ {url[th]} /\ url[th] \in Active
      BY <3>1, Retired DEF ActiveLabels, PushLabels
    <3> QED
      BY <2>18, <3>2, <1>r DEF CountPng
  <2>19. CASE LockCheck(th)
    <3>1. Pending' = Pending /\ Active' = Active
      <4>1. UNCHANGED <<frontier, url>>
        BY <2>19 DEF LockCheck
      <4>2. \A q \in Threads : /\ pc'[q] \in ActiveLabels <=> pc[q] \in ActiveLabels
                               /\ pc'[q] \in PushLabels <=> pc[q] \in PushLabels
                               /\ pc[q] \in PushLabels => todo'[q] = todo[q]
        BY <2>19 DEF LockCheck, Asleep, ActiveLabels, PushLabels
      <4> QED
        BY <4>1, <4>2, SameWork
    <3> QED
      BY <2>19, <3>1, <1>s DEF LockCheck
  <2>20. CASE Break(th)
    <3>1. Pending' = Pending /\ Active' = Active
      <4>1. UNCHANGED <<frontier, url>>
        BY <2>20 DEF Break
      <4>2. \A q \in Threads : /\ pc'[q] \in ActiveLabels <=> pc[q] \in ActiveLabels
                               /\ pc'[q] \in PushLabels <=> pc[q] \in PushLabels
                               /\ pc[q] \in PushLabels => todo'[q] = todo[q]
        BY <2>20 DEF Break, Asleep, ActiveLabels, PushLabels
      <4> QED
        BY <4>1, <4>2, SameWork
    <3> QED
      BY <2>20, <3>1, <1>s DEF Break
  <2>21. CASE GoOn(th)
    <3>1. Pending' = Pending /\ Active' = Active
      <4>1. UNCHANGED <<frontier, url>>
        BY <2>21 DEF GoOn
      <4>2. \A q \in Threads : /\ pc'[q] \in ActiveLabels <=> pc[q] \in ActiveLabels
                               /\ pc'[q] \in PushLabels <=> pc[q] \in PushLabels
                               /\ pc[q] \in PushLabels => todo'[q] = todo[q]
        BY <2>21 DEF GoOn, Asleep, ActiveLabels, PushLabels
      <4> QED
        BY <4>1, <4>2, SameWork
    <3> QED
      BY <2>21, <3>1, <1>s DEF GoOn
  <2> QED
    BY <1>1, <2>1, <2>2, <2>3, <2>4, <2>5, <2>6, <2>7, <2>8, <2>9, <2>10, <2>11, <2>12, <2>13, <2>14, <2>15, <2>16, <2>17, <2>18, <2>19, <2>20, <2>21 DEF Step
<1>2. ASSUME NEW th \in Threads, Spurious(th) PROVE UNCHANGED Abstract!vars
  <2>1. \A q \in Threads : /\ pc'[q] \in ActiveLabels <=> pc[q] \in ActiveLabels
                           /\ pc'[q] \in PushLabels <=> pc[q] \in PushLabels
    BY <1>2, <1>t DEF Spurious, Goto, ActiveLabels, PushLabels
  <2>2. UNCHANGED <<frontier, url, todo, table, image_counter, written>>
    BY <1>2 DEF Spurious, stacks, marks, counters, main
  <2>3. Pending' = Pending /\ Active' = Active
    BY <2>1, <2>2, SameWork
  <2> QED
    BY <2>2, <2>3, <1>s
<1>3. CASE WritePngUrls
  <2>1. \A q \in Threads : pc[q] \in {"left", "ended"}
    BY <1>3 DEF WritePngUrls
  <2>2. At(ActiveLabels) = {} /\ At({"push", "pushing"}) = {} /\ At(Labels \ {"asleep", "left", "ended"}) = {}
    BY <2>1 DEF At, ActiveLabels
  <2>3. Active = {}
    BY <2>2 DEF Active
  <2>4. Pending = {} \/ image_counter >= m
    <3>1. frontier = <<>> \/ image_counter >= m
      <4>1. ~(frontier # <<>> /\ image_counter < m)
        BY <2>2 DEF NoStrandedWork
      <4> QED
        BY <4>1, <1>t
    <3>2. Elems(<<>>) = {}
      BY DEF Elems
    <3> QED
      BY <3>1, <3>2, <2>2 DEF Pending
  <2>5. UNCHANGED <<frontier, url, todo, pc, table, image_counter>> /\ ~written /\ written' = TRUE
    BY <1>3 DEF WritePngUrls, stacks, marks, counters
  <2>6. Pending' = Pending /\ Active' = Active
    BY <2>5, SameWork
  <2>7. Abstract!Finish
    BY <2>3, <2>4, <2>5, <2>6 DEF Abstract!Finish, Pending, Active, ActiveLabels
  <2> QED
    BY <2>7 DEF Abstract!Next
<1>4. CASE WriteLog \/ UNCHANGED vars
  <2>1. UNCHANGED <<frontier, url, todo, pc, table, image_counter, written>>
    BY <1>4 DEF WriteLog, vars, stacks, marks, counters
  <2>2. Pending' = Pending /\ Active' = Active
    BY <2>1, SameWork
  <2> QED
    BY <2>1, <2>2, <1>s
<1> QED
  BY <1>1, <1>2, <1>3, <1>4 DEF Next

(* As long as every address fits into the stack, findpng2 is a crawl: no   *)
(* page is fetched twice, every page that is fetched was linked from one   *)
(* that was, and main writes when nothing is left or m images were found.  *)
THEOREM Implements ==
    ASSUME IsFiniteSet(Urls), Cardinality(Urls) <= StackSize
    PROVE Spec => Crawls
<1>1. TypeInv /\ LogInv /\ PushRoom /\ NoStrandedWork /\ PlaceInv /\ [Next]_vars
        => [Abstract!Next]_(Abstract!vars)
  BY AbstractStep
<1>2. Init => Abstract!Init
  BY InitType, AbstractInit
<1> QED
  BY <1>1, <1>2, PlaceHolds, PTL DEF Spec, Crawls, Abstract!Spec
=============================================================================
