--------------------------- MODULE Paster2Proofs ---------------------------
(***************************************************************************)
(* paster2 for every number of children, slots and strips, in two parts:   *)
(* the semaphores, the critical sections and the stack; and where the      *)
(* strips are: no strip is ever in two places, none is lost but by curl or *)
(* by a child that returns early, and the parent goes on when all is done, *)
(* so that paster2 implements the assembly of strips.                      *)
(***************************************************************************)
EXTENDS Paster2, Counting

Labels == ProdLabels \cup ConsLabels \cup {"done"}

(* The numbers of children SlotAccounting and Exclusion speak of.          *)
Pushing == Cardinality(At({"p_buf", "p_push"}))
Freeing == Cardinality(At({"c_unbuf", "c_empty"}))
Posting == Cardinality(At({"p_store", "p_unbuf", "p_filled"}))
Popping == Cardinality(At({"c_buf", "c_pop", "c_dec"}))
InBuf == Cardinality(At(BufSection))
InClaim == Cardinality(At(ClaimSection))
InTake == Cardinality(At(TakeSection))

(* The facts of Counting about the children.                               *)
LEMMA AtFinite ==
    ASSUME NEW A
    PROVE /\ IsFiniteSet(Procs)
          /\ Cardinality(At(A)) \in Nat
          /\ \A q \in Procs : pc[q] \in A => Cardinality(At(A)) >= 1
<1>1. IsFiniteSet(Procs)
  BY ProcessAssumption, FS_Union DEF Procs
<1> QED
  BY <1>1, NumberType DEF Number, Where, At

LEMMA AtStep ==
    ASSUME NEW A, NEW q \in Procs, \A r \in Procs \ {q} : pc'[r] = pc[r]
    PROVE Cardinality(At(A)') = Cardinality(At(A)) - In(pc[q], A) + In(pc'[q], A)
<1>1. Number(pc', Procs, A) = Number(pc, Procs, A) - In(pc[q], A) + In(pc'[q], A)
  BY AtFinite, NumberStep
<1>2. Number(pc, Procs, A) = Cardinality(At(A)) /\ Number(pc', Procs, A) = Cardinality(At(A)')
  BY DEF Number, Where, At
<1> QED
  BY <1>1, <1>2

LEMMA AtOne ==
    ASSUME NEW A, Cardinality(At(A)) <= 1,
           NEW q \in Procs, NEW r \in Procs, pc[q] \in A, pc[r] \in A
    PROVE q = r
BY AtFinite, AtMostOne DEF Number, Where, At

(* The same for the seven counts at once.                                  *)
CountsMove(from, to) ==
    /\ Pushing' = Pushing - In(from, {"p_buf", "p_push"}) + In(to, {"p_buf", "p_push"})
    /\ Freeing' = Freeing - In(from, {"c_unbuf", "c_empty"}) + In(to, {"c_unbuf", "c_empty"})
    /\ Posting' = Posting - In(from, {"p_store", "p_unbuf", "p_filled"})
          + In(to, {"p_store", "p_unbuf", "p_filled"})
    /\ Popping' = Popping - In(from, {"c_buf", "c_pop", "c_dec"}) + In(to, {"c_buf", "c_pop", "c_dec"})
    /\ InBuf' = InBuf - In(from, BufSection) + In(to, BufSection)
    /\ InClaim' = InClaim - In(from, ClaimSection) + In(to, ClaimSection)
    /\ InTake' = InTake - In(from, TakeSection) + In(to, TakeSection)

LEMMA CountStep ==
    ASSUME pc \in [Procs -> Labels],
           NEW q \in Procs, NEW from, NEW to, Goto(q, from, to)
    PROVE CountsMove(from, to)
<1>1. pc[q] = from /\ pc'[q] = to /\ \A r \in Procs \ {q} : pc'[r] = pc[r]
  BY DEF Goto
<1> QED
  BY <1>1, AtStep DEF CountsMove, Pushing, Freeing, Posting, Popping, InBuf, InClaim, InTake

LEMMA CountTypes ==
    /\ Pushing \in Nat /\ Freeing \in Nat /\ Posting \in Nat /\ Popping \in Nat
    /\ InBuf \in Nat /\ InClaim \in Nat /\ InTake \in Nat
BY AtFinite DEF Pushing, Freeing, Posting, Popping, InBuf, InClaim, InTake

LEMMA CountStutter ==
    ASSUME UNCHANGED pc
    PROVE UNCHANGED <<Pushing, Freeing, Posting, Popping, InBuf, InClaim, InTake>>
BY DEF At, Pushing, Freeing, Posting, Popping, InBuf, InClaim, InTake

-----------------------------------------------------------------------------
(* What the sections protect: the counters are below their limit when they *)
(* are incremented, and a claim is the value the counter still has.        *)
ClaimBound ==
    /\ \A p \in Producers : pc[p] = "p_incr" => counter_p < NumParts /\ local_counter[p] = counter_p
    /\ \A c \in Consumers : pc[c] = "c_incr" => counter_c < NumParts

IInv == TypeOK /\ SlotAccounting /\ Exclusion /\ ClaimBound

(* A full stack is never pushed to, an empty one never popped from.        *)
LEMMA RoomAndItems ==
    ASSUME TypeOK, SlotAccounting
    PROVE StackNeverFails
<1>1. ASSUME NEW q \in Procs, pc[q] = "p_push" PROVE pos < BufSize - 1
  <2>1. Pushing >= 1
    BY <1>1, AtFinite DEF Pushing
  <2>2. sem["empty"] \in Nat /\ pos \in Int /\ BufSize \in Int
    BY SizeAssumption DEF TypeOK, SemName
  <2> QED
    BY <2>1, <2>2, CountTypes DEF SlotAccounting, EmptyAccounting, Pushing, Freeing
<1>2. ASSUME NEW q \in Procs, pc[q] = "c_pop" PROVE pos >= 0
  <2>1. Popping >= 1
    BY <1>2, AtFinite DEF Popping
  <2>2. sem["filled"] \in Nat /\ pos \in Int
    BY DEF TypeOK, SemName
  <2> QED
    BY <2>1, <2>2, CountTypes DEF SlotAccounting, FilledAccounting, Popping, Posting
<1>3. pos \in Int /\ BufSize \in Int
  BY SizeAssumption DEF TypeOK
<1> QED
  BY <1>1, <1>2, <1>3 DEF StackNeverFails, At, is_full, is_empty

(* The accounting in terms of the counts.                                  *)
Balanced ==
    /\ sem["empty"] + Pushing + (pos + 1) + Freeing = BufSize
    /\ sem["filled"] + Posting + Popping = pos + 1
    /\ sem["buffer_lock"] + InBuf = 1
    /\ sem["mutex_p"] + InClaim = 1
    /\ sem["mutex_c"] + InTake = 1

LEMMA Accounts == Balanced <=> SlotAccounting /\ Exclusion
BY DEF Balanced, SlotAccounting, EmptyAccounting, FilledAccounting, Exclusion,
       Pushing, Freeing, Posting, Popping, InBuf, InClaim, InTake

(* Every step keeps the accounting: what a child takes from a semaphore or *)
(* from the stack shows up in the section it enters.                       *)
LEMMA AccountStep == IInv /\ [Next]_vars => (SlotAccounting /\ Exclusion)'
<1> SUFFICES ASSUME IInv, [Next]_vars PROVE (SlotAccounting /\ Exclusion)'
  OBVIOUS
<1> USE SizeAssumption
<1>t. /\ sem \in [SemName -> Nat] /\ pos \in -1 .. BufSize - 1
      /\ pc \in [Procs -> Labels]
  BY DEF IInv, TypeOK, Labels
<1>a. Balanced
  BY Accounts DEF IInv
<1>g. Balanced'
  <2> USE <1>t, <1>a, CountTypes DEF CountsMove, SemWait, SemPost, SemName, BufSection, ClaimSection, TakeSection, In, stack, Balanced
  <2>s. StackNeverFails
    BY RoomAndItems DEF IInv
  <2>1. ASSUME NEW p \in Producers, Producer(p) PROVE Balanced'
    <3>q. p \in Procs
      BY DEF Procs
    <3>1. CASE ProdLock(p)
      <4>1. Goto(p, "p_lock", "p_test")
        BY <3>1 DEF ProdLock
      <4>c. CountsMove("p_lock", "p_test")
        BY <4>1, <3>q, <1>t, CountStep
      <4> QED BY <3>1, <4>c DEF ProdLock
    <3>2. CASE ProdQuit(p)
      <4>1. Goto(p, "p_test", "done")
        BY <3>2 DEF ProdQuit
      <4>c. CountsMove("p_test", "done")
        BY <4>1, <3>q, <1>t, CountStep
      <4> QED BY <3>2, <4>c DEF ProdQuit
    <3>3. CASE ProdRead(p)
      <4>1. Goto(p, "p_test", "p_incr")
        BY <3>3 DEF ProdRead
      <4>c. CountsMove("p_test", "p_incr")
        BY <4>1, <3>q, <1>t, CountStep
      <4> QED BY <3>3, <4>c DEF ProdRead
    <3>4. CASE ProdClaim(p)
      <4>1. Goto(p, "p_incr", "p_fetch")
        BY <3>4 DEF ProdClaim
      <4>c. CountsMove("p_incr", "p_fetch")
        BY <4>1, <3>q, <1>t, CountStep
      <4> QED BY <3>4, <4>c DEF ProdClaim
    <3>5. CASE ProdFetch(p)
      <4>1. Goto(p, "p_fetch", "p_empty")
        BY <3>5 DEF ProdFetch
      <4>c. CountsMove("p_fetch", "p_empty")
        BY <4>1, <3>q, <1>t, CountStep
      <4> QED BY <3>5, <4>c DEF ProdFetch
    <3>6. CASE ProdFetchFails(p)
      <4>1. Goto(p, "p_fetch", "p_empty")
        BY <3>6 DEF ProdFetchFails
      <4>c. CountsMove("p_fetch", "p_empty")
        BY <4>1, <3>q, <1>t, CountStep
      <4> QED BY <3>6, <4>c DEF ProdFetchFails
    <3>7. CASE ProdDies(p)
      <4>1. Goto(p, "p_fetch", "done")
        BY <3>7 DEF ProdDies
      <4>c. CountsMove("p_fetch", "done")
        BY <4>1, <3>q, <1>t, CountStep
      <4> QED BY <3>7, <4>c DEF ProdDies
    <3>8. CASE ProdWaitEmpty(p)
      <4>1. Goto(p, "p_empty", "p_buf")
        BY <3>8 DEF ProdWaitEmpty
      <4>c. CountsMove("p_empty", "p_buf")
        BY <4>1, <3>q, <1>t, CountStep
      <4> QED BY <3>8, <4>c DEF ProdWaitEmpty
    <3>9. CASE ProdLockBuf(p)
      <4>1. Goto(p, "p_buf", "p_push")
        BY <3>9 DEF ProdLockBuf
      <4>c. CountsMove("p_buf", "p_push")
        BY <4>1, <3>q, <1>t, CountStep
      <4> QED BY <3>9, <4>c DEF ProdLockBuf
    <3>10. CASE ProdPushGrow(p)
      <4>1. ~is_full
        BY <2>s, <3>10, <3>q DEF StackNeverFails, At, ProdPushGrow, Goto
      <4>2. Goto(p, "p_push", "p_store")
        BY <3>10, <4>1 DEF ProdPushGrow
      <4>c. CountsMove("p_push", "p_store")
        BY <4>2, <3>q, <1>t, CountStep
      <4> QED BY <3>10, <4>1, <4>c DEF ProdPushGrow, is_full
    <3>11. CASE ProdPushStore(p)
      <4>1. Goto(p, "p_store", "p_unbuf")
        BY <3>11 DEF ProdPushStore
      <4>c. CountsMove("p_store", "p_unbuf")
        BY <4>1, <3>q, <1>t, CountStep
      <4> QED BY <3>11, <4>c DEF ProdPushStore
    <3>12. CASE ProdUnlockBuf(p)
      <4>1. Goto(p, "p_unbuf", "p_filled")
        BY <3>12 DEF ProdUnlockBuf
      <4>c. CountsMove("p_unbuf", "p_filled")
        BY <4>1, <3>q, <1>t, CountStep
      <4> QED BY <3>12, <4>c DEF ProdUnlockBuf
    <3>13. CASE ProdPostFilled(p)
      <4>1. Goto(p, "p_filled", "p_lock")
        BY <3>13 DEF ProdPostFilled
      <4>c. CountsMove("p_filled", "p_lock")
        BY <4>1, <3>q, <1>t, CountStep
      <4> QED BY <3>13, <4>c DEF ProdPostFilled
    <3> QED
      BY <2>1, <3>1, <3>2, <3>3, <3>4, <3>5, <3>6, <3>7, <3>8, <3>9, <3>10, <3>11, <3>12, <3>13 DEF Producer
  <2>2. ASSUME NEW c \in Consumers, Consumer(c) PROVE Balanced'
    <3>q. c \in Procs
      BY DEF Procs
    <3>1. CASE ConsLock(c)
      <4>1. Goto(c, "c_lock", "c_test")
        BY <3>1 DEF ConsLock
      <4>c. CountsMove("c_lock", "c_test")
        BY <4>1, <3>q, <1>t, CountStep
      <4> QED BY <3>1, <4>c DEF ConsLock
    <3>2. CASE ConsQuit(c)
      <4>1. Goto(c, "c_test", "done")
        BY <3>2 DEF ConsQuit
      <4>c. CountsMove("c_test", "done")
        BY <4>1, <3>q, <1>t, CountStep
      <4> QED BY <3>2, <4>c DEF ConsQuit
    <3>3. CASE ConsTest(c)
      <4>1. Goto(c, "c_test", "c_incr")
        BY <3>3 DEF ConsTest
      <4>c. CountsMove("c_test", "c_incr")
        BY <4>1, <3>q, <1>t, CountStep
      <4> QED BY <3>3, <4>c DEF ConsTest
    <3>4. CASE ConsClaim(c)
      <4>1. Goto(c, "c_incr", "c_filled")
        BY <3>4 DEF ConsClaim
      <4>c. CountsMove("c_incr", "c_filled")
        BY <4>1, <3>q, <1>t, CountStep
      <4> QED BY <3>4, <4>c DEF ConsClaim
    <3>5. CASE ConsWaitFilled(c)
      <4>1. Goto(c, "c_filled", "c_buf")
        BY <3>5 DEF ConsWaitFilled
      <4>c. CountsMove("c_filled", "c_buf")
        BY <4>1, <3>q, <1>t, CountStep
      <4> QED BY <3>5, <4>c DEF ConsWaitFilled
    <3>6. CASE ConsLockBuf(c)
      <4>1. Goto(c, "c_buf", "c_pop")
        BY <3>6 DEF ConsLockBuf
      <4>c. CountsMove("c_buf", "c_pop")
        BY <4>1, <3>q, <1>t, CountStep
      <4> QED BY <3>6, <4>c DEF ConsLockBuf
    <3>7. CASE ConsPopRead(c)
      <4>1. ~is_empty
        BY <2>s, <3>7, <3>q DEF StackNeverFails, At, ConsPopRead, Goto
      <4>2. Goto(c, "c_pop", "c_dec")
        BY <3>7, <4>1 DEF ConsPopRead
      <4>c. CountsMove("c_pop", "c_dec")
        BY <4>2, <3>q, <1>t, CountStep
      <4> QED BY <3>7, <4>1, <4>c DEF ConsPopRead, is_empty
    <3>8. CASE ConsPopDrop(c)
      <4>1. Goto(c, "c_dec", "c_unbuf")
        BY <3>8 DEF ConsPopDrop
      <4>c. CountsMove("c_dec", "c_unbuf")
        BY <4>1, <3>q, <1>t, CountStep
      <4> QED BY <3>8, <4>c DEF ConsPopDrop
    <3>9. CASE ConsUnlockBuf(c)
      <4>1. Goto(c, "c_unbuf", "c_empty")
        BY <3>9 DEF ConsUnlockBuf
      <4>c. CountsMove("c_unbuf", "c_empty")
        BY <4>1, <3>q, <1>t, CountStep
      <4> QED BY <3>9, <4>c DEF ConsUnlockBuf
    <3>10. CASE ConsPostEmpty(c)
      <4>1. Goto(c, "c_empty", "c_attr")
        BY <3>10 DEF ConsPostEmpty
      <4>c. CountsMove("c_empty", "c_attr")
        BY <4>1, <3>q, <1>t, CountStep
      <4> QED BY <3>10, <4>c DEF ConsPostEmpty
    <3>11. CASE ConsReadHeight(c)
      <4>1. Goto(c, "c_attr", "c_add")
        BY <3>11 DEF ConsReadHeight
      <4>c. CountsMove("c_attr", "c_add")
        BY <4>1, <3>q, <1>t, CountStep
      <4> QED BY <3>11, <4>c DEF ConsReadHeight
    <3>12. CASE ConsWriteHeight(c)
      <4>1. Goto(c, "c_add", "c_inf")
        BY <3>12 DEF ConsWriteHeight
      <4>c. CountsMove("c_add", "c_inf")
        BY <4>1, <3>q, <1>t, CountStep
      <4> QED BY <3>12, <4>c DEF ConsWriteHeight
    <3>13. CASE ConsInflate(c)
      <4>1. Goto(c, "c_inf", "c_lock")
        BY <3>13 DEF ConsInflate
      <4>c. CountsMove("c_inf", "c_lock")
        BY <4>1, <3>q, <1>t, CountStep
      <4> QED BY <3>13, <4>c DEF ConsInflate
    <3> QED
      BY <2>2, <3>1, <3>2, <3>3, <3>4, <3>5, <3>6, <3>7, <3>8, <3>9, <3>10, <3>11, <3>12, <3>13 DEF Consumer
  <2>3. CASE Parent
    BY <2>3, CountStutter DEF Parent, Reap, Concatenate
  <2>4. CASE UNCHANGED vars
    BY <2>4, CountStutter DEF vars
  <2> QED
    BY <2>1, <2>2, <2>3, <2>4 DEF Next
<1> QED
  BY <1>g, Accounts, PTL

(* A claim is made under mutex_p, so its value cannot change under the     *)
(* producer that read it, nor can the counter pass its limit.              *)
LEMMA ClaimStep == IInv /\ [Next]_vars => ClaimBound'
<1> SUFFICES ASSUME IInv, [Next]_vars PROVE ClaimBound'
  OBVIOUS
<1>t. /\ pc \in [Procs -> Labels] /\ local_counter \in [Producers -> Parts]
      /\ counter_p \in 0 .. NumParts /\ counter_c \in 0 .. NumParts
  BY DEF IInv, TypeOK, Labels
<1>c. ClaimBound /\ NumParts \in Nat
  BY SizeAssumption DEF IInv
<1>o. /\ Cardinality(At(ClaimSection)) <= 1
      /\ Cardinality(At(TakeSection)) <= 1
  BY AtFinite DEF IInv, Exclusion, TypeOK, SemName
<1>d. Producers \cap Consumers = {}
  BY ProcessAssumption
<1>1. ASSUME NEW p \in Producers, Producer(p) PROVE ClaimBound'
  <2> USE <1>t, <1>c, <1>d DEF ClaimBound, Goto, Procs
  <2>1. CASE ProdRead(p)
    BY <2>1 DEF ProdRead
  <2>2. CASE ProdClaim(p)
    <3>1. ASSUME NEW r \in Producers, pc'[r] = "p_incr" PROVE FALSE
      <4>1. r # p /\ pc[r] = "p_incr" /\ pc[p] = "p_incr"
        BY <2>2, <3>1 DEF ProdClaim
      <4> QED
        BY <4>1, <1>o, AtOne DEF ClaimSection
    <3> QED
      BY <2>2, <3>1 DEF ProdClaim
  <2>3. CASE ProdLock(p)
    BY <2>3 DEF ProdLock, prodLocals
  <2>4. CASE ProdQuit(p)
    BY <2>4 DEF ProdQuit, prodLocals
  <2>5. CASE ProdFetch(p)
    BY <2>5 DEF ProdFetch, prodLocals
  <2>6. CASE ProdFetchFails(p)
    BY <2>6 DEF ProdFetchFails, prodLocals
  <2>7. CASE ProdDies(p)
    BY <2>7 DEF ProdDies, prodLocals
  <2>8. CASE ProdWaitEmpty(p)
    BY <2>8 DEF ProdWaitEmpty, prodLocals
  <2>9. CASE ProdLockBuf(p)
    BY <2>9 DEF ProdLockBuf, prodLocals
  <2>10. CASE ProdPushGrow(p)
    BY <2>10 DEF ProdPushGrow, prodLocals
  <2>11. CASE ProdPushStore(p)
    BY <2>11 DEF ProdPushStore, prodLocals
  <2>12. CASE ProdUnlockBuf(p)
    BY <2>12 DEF ProdUnlockBuf, prodLocals
  <2>13. CASE ProdPostFilled(p)
    BY <2>13 DEF ProdPostFilled, prodLocals
  <2> QED
    BY <1>1, <2>1, <2>2, <2>3, <2>4, <2>5, <2>6, <2>7, <2>8, <2>9, <2>10, <2>11, <2>12, <2>13 DEF Producer
<1>2. ASSUME NEW c \in Consumers, Consumer(c) PROVE ClaimBound'
  <2> USE <1>t, <1>c, <1>d DEF ClaimBound, Goto, Procs
  <2>1. CASE ConsTest(c)
    BY <2>1 DEF ConsTest, prodLocals
  <2>2. CASE ConsClaim(c)
    <3>1. ASSUME NEW r \in Consumers, pc'[r] = "c_incr" PROVE FALSE
      <4>1. r # c /\ pc[r] = "c_incr" /\ pc[c] = "c_incr"
        BY <2>2, <3>1 DEF ConsClaim
      <4> QED
        BY <4>1, <1>o, AtOne DEF TakeSection
    <3> QED
      BY <2>2, <3>1 DEF ConsClaim, prodLocals
  <2>3. CASE ConsLock(c)
    BY <2>3 DEF ConsLock, prodLocals
  <2>4. CASE ConsQuit(c)
    BY <2>4 DEF ConsQuit, prodLocals
  <2>5. CASE ConsWaitFilled(c)
    BY <2>5 DEF ConsWaitFilled, prodLocals
  <2>6. CASE ConsLockBuf(c)
    BY <2>6 DEF ConsLockBuf, prodLocals
  <2>7. CASE ConsPopRead(c)
    BY <2>7 DEF ConsPopRead, prodLocals
  <2>8. CASE ConsPopDrop(c)
    BY <2>8 DEF ConsPopDrop, prodLocals
  <2>9. CASE ConsUnlockBuf(c)
    BY <2>9 DEF ConsUnlockBuf, prodLocals
  <2>10. CASE ConsPostEmpty(c)
    BY <2>10 DEF ConsPostEmpty, prodLocals
  <2>11. CASE ConsReadHeight(c)
    BY <2>11 DEF ConsReadHeight, prodLocals
  <2>12. CASE ConsWriteHeight(c)
    BY <2>12 DEF ConsWriteHeight, prodLocals
  <2>13. CASE ConsInflate(c)
    BY <2>13 DEF ConsInflate, prodLocals
  <2> QED
    BY <1>2, <2>1, <2>2, <2>3, <2>4, <2>5, <2>6, <2>7, <2>8, <2>9, <2>10, <2>11, <2>12, <2>13 DEF Consumer
<1>3. CASE Parent
  BY <1>3, <1>c DEF Parent, Reap, Concatenate, prodLocals, ClaimBound
<1>4. CASE UNCHANGED vars
  BY <1>4, <1>c DEF vars, ClaimBound
<1> QED
  BY <1>1, <1>2, <1>3, <1>4 DEF Next

(* The values stay in their types: the index of the stack because nobody   *)
(* pushes to a full stack or pops an empty one, the counters because of    *)
(* the claims' bound.                                                      *)
LEMMA TypeStep == IInv /\ [Next]_vars => TypeOK'
<1> SUFFICES ASSUME IInv, [Next]_vars PROVE TypeOK'
  OBVIOUS
<1> USE SizeAssumption, BoundAssumption
<1>t. TypeOK
  BY DEF IInv
<1>c. ClaimBound
  BY DEF IInv
<1>s. StackNeverFails
  BY RoomAndItems DEF IInv
<1>f. ASSUME NEW q \in Procs, NEW from, NEW to \in Labels, Goto(q, from, to),
             q \in Producers => to \in ProdLabels \cup {"done"},
             q \in Consumers => to \in ConsLabels \cup {"done"}
      PROVE /\ pc' \in [Procs -> ProdLabels \cup ConsLabels \cup {"done"}]
            /\ \A p \in Producers : pc'[p] \in ProdLabels \cup {"done"}
            /\ \A c \in Consumers : pc'[c] \in ConsLabels \cup {"done"}
  BY <1>t, <1>f DEF TypeOK, Goto, Procs, Labels
<1>r. \A i \in Parts : Received(i) \in Bufs /\ Broken(i) \subseteq Bufs
  BY DEF Received, Broken, Bufs, Buf
<1>n. NoBuf \in Bufs /\ (\A b \in Bufs : HeightIn(b) \in Nat)
  BY DEF Bufs, HeightIn
<1>d. Producers \cap Consumers = {}
  BY ProcessAssumption
<1>1. ASSUME NEW p \in Producers, Producer(p) PROVE TypeOK'
  <2>q. p \in Procs /\ pc \in [Procs -> Labels]
    BY <1>t DEF Procs, TypeOK, Labels
  <2>1. CASE ProdLock(p)
    <3>1. Goto(p, "p_lock", "p_test")
      BY <2>1 DEF ProdLock
    <3>2. /\ pc' \in [Procs -> ProdLabels \cup ConsLabels \cup {"done"}]
          /\ \A r \in Producers : pc'[r] \in ProdLabels \cup {"done"}
          /\ \A r \in Consumers : pc'[r] \in ConsLabels \cup {"done"}
      BY <3>1, <1>f, <1>d, <2>q DEF Labels, ProdLabels, ConsLabels
    <3> QED
      BY <2>1, <3>2, <1>t DEF ProdLock, TypeOK, SemWait, SemName, prodLocals, consLocals, stack, image, parent, faults
  <2>2. CASE ProdQuit(p)
    <3>1. Goto(p, "p_test", "done")
      BY <2>2 DEF ProdQuit
    <3>2. /\ pc' \in [Procs -> ProdLabels \cup ConsLabels \cup {"done"}]
          /\ \A r \in Producers : pc'[r] \in ProdLabels \cup {"done"}
          /\ \A r \in Consumers : pc'[r] \in ConsLabels \cup {"done"}
      BY <3>1, <1>f, <1>d, <2>q DEF Labels, ProdLabels, ConsLabels
    <3> QED
      BY <2>2, <3>2, <1>t DEF ProdQuit, TypeOK, SemPost, SemName, prodLocals, consLocals, stack, image, parent, faults
  <2>3. CASE ProdRead(p)
    <3>1. Goto(p, "p_test", "p_incr")
      BY <2>3 DEF ProdRead
    <3>2. /\ pc' \in [Procs -> ProdLabels \cup ConsLabels \cup {"done"}]
          /\ \A r \in Producers : pc'[r] \in ProdLabels \cup {"done"}
          /\ \A r \in Consumers : pc'[r] \in ConsLabels \cup {"done"}
      BY <3>1, <1>f, <1>d, <2>q DEF Labels, ProdLabels, ConsLabels
    <3>3. local_counter' \in [Producers -> Parts]
      BY <2>3, <1>t DEF ProdRead, TypeOK, Parts
    <3> QED
      BY <2>3, <3>2, <3>3, <1>t DEF ProdRead, TypeOK, consLocals, stack, image, parent, faults
  <2>4. CASE ProdClaim(p)
    <3>1. Goto(p, "p_incr", "p_fetch")
      BY <2>4 DEF ProdClaim
    <3>2. /\ pc' \in [Procs -> ProdLabels \cup ConsLabels \cup {"done"}]
          /\ \A r \in Producers : pc'[r] \in ProdLabels \cup {"done"}
          /\ \A r \in Consumers : pc'[r] \in ConsLabels \cup {"done"}
      BY <3>1, <1>f, <1>d, <2>q DEF Labels, ProdLabels, ConsLabels
    <3>3. counter_p < NumParts
      BY <3>1, <1>c DEF ClaimBound, Goto
    <3> QED
      BY <2>4, <3>2, <1>t, <3>3 DEF ProdClaim, TypeOK, SemPost, SemName, prodLocals, consLocals, stack, image, parent, faults
  <2>5. CASE ProdFetch(p)
    <3>1. Goto(p, "p_fetch", "p_empty")
      BY <2>5 DEF ProdFetch
    <3>2. /\ pc' \in [Procs -> ProdLabels \cup ConsLabels \cup {"done"}]
          /\ \A r \in Producers : pc'[r] \in ProdLabels \cup {"done"}
          /\ \A r \in Consumers : pc'[r] \in ConsLabels \cup {"done"}
      BY <3>1, <1>f, <1>d, <2>q DEF Labels, ProdLabels, ConsLabels
    <3>3. p_recv_buf' \in [Producers -> Bufs]
      BY <2>5, <1>t, <1>r DEF ProdFetch, TypeOK
    <3> QED
      BY <2>5, <3>2, <3>3, <1>t DEF ProdFetch, TypeOK, consLocals, stack, image, parent, faults
  <2>6. CASE ProdFetchFails(p)
    <3>1. Goto(p, "p_fetch", "p_empty")
      BY <2>6 DEF ProdFetchFails
    <3>2. /\ pc' \in [Procs -> ProdLabels \cup ConsLabels \cup {"done"}]
          /\ \A r \in Producers : pc'[r] \in ProdLabels \cup {"done"}
          /\ \A r \in Consumers : pc'[r] \in ConsLabels \cup {"done"}
      BY <3>1, <1>f, <1>d, <2>q DEF Labels, ProdLabels, ConsLabels
    <3>3. p_recv_buf' \in [Producers -> Bufs]
      BY <2>6, <1>t, <1>r DEF ProdFetchFails, TypeOK
    <3> QED
      BY <2>6, <3>2, <3>3, <1>t DEF ProdFetchFails, TypeOK, consLocals, stack, image, parent
  <2>7. CASE ProdDies(p)
    <3>1. Goto(p, "p_fetch", "done")
      BY <2>7 DEF ProdDies
    <3>2. /\ pc' \in [Procs -> ProdLabels \cup ConsLabels \cup {"done"}]
          /\ \A r \in Producers : pc'[r] \in ProdLabels \cup {"done"}
          /\ \A r \in Consumers : pc'[r] \in ConsLabels \cup {"done"}
      BY <3>1, <1>f, <1>d, <2>q DEF Labels, ProdLabels, ConsLabels
    <3> QED
      BY <2>7, <3>2, <1>t DEF ProdDies, TypeOK, prodLocals, consLocals, stack, image, parent
  <2>8. CASE ProdWaitEmpty(p)
    <3>1. Goto(p, "p_empty", "p_buf")
      BY <2>8 DEF ProdWaitEmpty
    <3>2. /\ pc' \in [Procs -> ProdLabels \cup ConsLabels \cup {"done"}]
          /\ \A r \in Producers : pc'[r] \in ProdLabels \cup {"done"}
          /\ \A r \in Consumers : pc'[r] \in ConsLabels \cup {"done"}
      BY <3>1, <1>f, <1>d, <2>q DEF Labels, ProdLabels, ConsLabels
    <3> QED
      BY <2>8, <3>2, <1>t DEF ProdWaitEmpty, TypeOK, SemWait, SemName, prodLocals, consLocals, stack, image, parent, faults
  <2>9. CASE ProdLockBuf(p)
    <3>1. Goto(p, "p_buf", "p_push")
      BY <2>9 DEF ProdLockBuf
    <3>2. /\ pc' \in [Procs -> ProdLabels \cup ConsLabels \cup {"done"}]
          /\ \A r \in Producers : pc'[r] \in ProdLabels \cup {"done"}
          /\ \A r \in Consumers : pc'[r] \in ConsLabels \cup {"done"}
      BY <3>1, <1>f, <1>d, <2>q DEF Labels, ProdLabels, ConsLabels
    <3> QED
      BY <2>9, <3>2, <1>t DEF ProdLockBuf, TypeOK, SemWait, SemName, prodLocals, consLocals, stack, image, parent, faults
  <2>10. CASE ProdPushGrow(p)
    <3>s. ~is_full
      BY <1>s, <2>10, <2>q DEF StackNeverFails, At, ProdPushGrow, Goto
    <3>1. Goto(p, "p_push", "p_store")
      BY <2>10, <3>s DEF ProdPushGrow
    <3>2. /\ pc' \in [Procs -> ProdLabels \cup ConsLabels \cup {"done"}]
          /\ \A r \in Producers : pc'[r] \in ProdLabels \cup {"done"}
          /\ \A r \in Consumers : pc'[r] \in ConsLabels \cup {"done"}
      BY <3>1, <1>f, <1>d, <2>q DEF Labels, ProdLabels, ConsLabels
    <3> QED
      BY <2>10, <3>2, <1>t, <3>s DEF ProdPushGrow, TypeOK, prodLocals, consLocals, image, parent, faults, is_full
  <2>11. CASE ProdPushStore(p)
    <3>1. Goto(p, "p_store", "p_unbuf")
      BY <2>11 DEF ProdPushStore
    <3>2. /\ pc' \in [Procs -> ProdLabels \cup ConsLabels \cup {"done"}]
          /\ \A r \in Producers : pc'[r] \in ProdLabels \cup {"done"}
          /\ \A r \in Consumers : pc'[r] \in ConsLabels \cup {"done"}
      BY <3>1, <1>f, <1>d, <2>q DEF Labels, ProdLabels, ConsLabels
    <3>3. items' \in [Slots -> Bufs]
      BY <2>11, <1>t DEF ProdPushStore, TypeOK
    <3> QED
      BY <2>11, <3>2, <3>3, <1>t DEF ProdPushStore, TypeOK, prodLocals, consLocals, image, parent, faults
  <2>12. CASE ProdUnlockBuf(p)
    <3>1. Goto(p, "p_unbuf", "p_filled")
      BY <2>12 DEF ProdUnlockBuf
    <3>2. /\ pc' \in [Procs -> ProdLabels \cup ConsLabels \cup {"done"}]
          /\ \A r \in Producers : pc'[r] \in ProdLabels \cup {"done"}
          /\ \A r \in Consumers : pc'[r] \in ConsLabels \cup {"done"}
      BY <3>1, <1>f, <1>d, <2>q DEF Labels, ProdLabels, ConsLabels
    <3> QED
      BY <2>12, <3>2, <1>t DEF ProdUnlockBuf, TypeOK, SemPost, SemName, prodLocals, consLocals, stack, image, parent, faults
  <2>13. CASE ProdPostFilled(p)
    <3>1. Goto(p, "p_filled", "p_lock")
      BY <2>13 DEF ProdPostFilled
    <3>2. /\ pc' \in [Procs -> ProdLabels \cup ConsLabels \cup {"done"}]
          /\ \A r \in Producers : pc'[r] \in ProdLabels \cup {"done"}
          /\ \A r \in Consumers : pc'[r] \in ConsLabels \cup {"done"}
      BY <3>1, <1>f, <1>d, <2>q DEF Labels, ProdLabels, ConsLabels
    <3>3. p_recv_buf' \in [Producers -> Bufs]
      BY <2>13, <1>t, <1>n DEF ProdPostFilled, TypeOK
    <3> QED
      BY <2>13, <3>2, <3>3, <1>t DEF ProdPostFilled, TypeOK, SemPost, SemName, consLocals, stack, image, parent, faults
  <2> QED
    BY <1>1, <2>1, <2>2, <2>3, <2>4, <2>5, <2>6, <2>7, <2>8, <2>9, <2>10, <2>11, <2>12, <2>13 DEF Producer
<1>2. ASSUME NEW c \in Consumers, Consumer(c) PROVE TypeOK'
  <2>q. c \in Procs /\ pc \in [Procs -> Labels]
    BY <1>t DEF Procs, TypeOK, Labels
  <2>1. CASE ConsLock(c)
    <3>1. Goto(c, "c_lock", "c_test")
      BY <2>1 DEF ConsLock
    <3>2. /\ pc' \in [Procs -> ProdLabels \cup ConsLabels \cup {"done"}]
          /\ \A r \in Producers : pc'[r] \in ProdLabels \cup {"done"}
          /\ \A r \in Consumers : pc'[r] \in ConsLabels \cup {"done"}
      BY <3>1, <1>f, <1>d, <2>q DEF Labels, ProdLabels, ConsLabels
    <3> QED
      BY <2>1, <3>2, <1>t DEF ConsLock, TypeOK, SemWait, SemName, prodLocals, consLocals, stack, image, parent, faults
  <2>2. CASE ConsQuit(c)
    <3>1. Goto(c, "c_test", "done")
      BY <2>2 DEF ConsQuit
    <3>2. /\ pc' \in [Procs -> ProdLabels \cup ConsLabels \cup {"done"}]
          /\ \A r \in Producers : pc'[r] \in ProdLabels \cup {"done"}
          /\ \A r \in Consumers : pc'[r] \in ConsLabels \cup {"done"}
      BY <3>1, <1>f, <1>d, <2>q DEF Labels, ProdLabels, ConsLabels
    <3> QED
      BY <2>2, <3>2, <1>t DEF ConsQuit, TypeOK, SemPost, SemName, prodLocals, consLocals, stack, image, parent, faults
  <2>3. CASE ConsTest(c)
    <3>1. Goto(c, "c_test", "c_incr")
      BY <2>3 DEF ConsTest
    <3>2. /\ pc' \in [Procs -> ProdLabels \cup ConsLabels \cup {"done"}]
          /\ \A r \in Producers : pc'[r] \in ProdLabels \cup {"done"}
          /\ \A r \in Consumers : pc'[r] \in ConsLabels \cup {"done"}
      BY <3>1, <1>f, <1>d, <2>q DEF Labels, ProdLabels, ConsLabels
    <3> QED
      BY <2>3, <3>2, <1>t DEF ConsTest, TypeOK, prodLocals, consLocals, stack, image, parent, faults
  <2>4. CASE ConsClaim(c)
    <3>1. Goto(c, "c_incr", "c_filled")
      BY <2>4 DEF ConsClaim
    <3>2. /\ pc' \in [Procs -> ProdLabels \cup ConsLabels \cup {"done"}]
          /\ \A r \in Producers : pc'[r] \in ProdLabels \cup {"done"}
          /\ \A r \in Consumers : pc'[r] \in ConsLabels \cup {"done"}
      BY <3>1, <1>f, <1>d, <2>q DEF Labels, ProdLabels, ConsLabels
    <3>3. counter_c < NumParts
      BY <3>1, <1>c DEF ClaimBound, Goto
    <3> QED
      BY <2>4, <3>2, <1>t, <3>3 DEF ConsClaim, TypeOK, SemPost, SemName, prodLocals, consLocals, stack, image, parent, faults
  <2>5. CASE ConsWaitFilled(c)
    <3>1. Goto(c, "c_filled", "c_buf")
      BY <2>5 DEF ConsWaitFilled
    <3>2. /\ pc' \in [Procs -> ProdLabels \cup ConsLabels \cup {"done"}]
          /\ \A r \in Producers : pc'[r] \in ProdLabels \cup {"done"}
          /\ \A r \in Consumers : pc'[r] \in ConsLabels \cup {"done"}
      BY <3>1, <1>f, <1>d, <2>q DEF Labels, ProdLabels, ConsLabels
    <3> QED
      BY <2>5, <3>2, <1>t DEF ConsWaitFilled, TypeOK, SemWait, SemName, prodLocals, consLocals, stack, image, parent, faults
  <2>6. CASE ConsLockBuf(c)
    <3>1. Goto(c, "c_buf", "c_pop")
      BY <2>6 DEF ConsLockBuf
    <3>2. /\ pc' \in [Procs -> ProdLabels \cup ConsLabels \cup {"done"}]
          /\ \A r \in Producers : pc'[r] \in ProdLabels \cup {"done"}
          /\ \A r \in Consumers : pc'[r] \in ConsLabels \cup {"done"}
      BY <3>1, <1>f, <1>d, <2>q DEF Labels, ProdLabels, ConsLabels
    <3> QED
      BY <2>6, <3>2, <1>t DEF ConsLockBuf, TypeOK, SemWait, SemName, prodLocals, consLocals, stack, image, parent, faults
  <2>7. CASE ConsPopRead(c)
    <3>s. ~is_empty
      BY <1>s, <2>7, <2>q DEF StackNeverFails, At, ConsPopRead, Goto
    <3>1. Goto(c, "c_pop", "c_dec")
      BY <2>7, <3>s DEF ConsPopRead
    <3>2. /\ pc' \in [Procs -> ProdLabels \cup ConsLabels \cup {"done"}]
          /\ \A r \in Producers : pc'[r] \in ProdLabels \cup {"done"}
          /\ \A r \in Consumers : pc'[r] \in ConsLabels \cup {"done"}
      BY <3>1, <1>f, <1>d, <2>q DEF Labels, ProdLabels, ConsLabels
    <3>3. temp' \in [Consumers -> Bufs]
      <4>1. items[pos] \in Bufs
        BY <1>t, <3>s DEF TypeOK, is_empty, Slots
      <4>2. temp' = [temp EXCEPT ![c] = items[pos]]
        BY <2>7, <3>s DEF ConsPopRead
      <4> QED BY <4>1, <4>2, <1>t DEF TypeOK
    <3> QED
      BY <2>7, <3>2, <3>3, <1>t, <3>s DEF ConsPopRead, TypeOK, prodLocals, stack, image, parent, faults
  <2>8. CASE ConsPopDrop(c)
    <3>1. Goto(c, "c_dec", "c_unbuf")
      BY <2>8 DEF ConsPopDrop
    <3>2. /\ pc' \in [Procs -> ProdLabels \cup ConsLabels \cup {"done"}]
          /\ \A r \in Producers : pc'[r] \in ProdLabels \cup {"done"}
          /\ \A r \in Consumers : pc'[r] \in ConsLabels \cup {"done"}
      BY <3>1, <1>f, <1>d, <2>q DEF Labels, ProdLabels, ConsLabels
    <3>3. pos >= 0
      <4>1. Popping >= 1
        BY <3>1, <2>q, AtFinite DEF Popping, Goto
      <4>2. sem["filled"] \in Nat /\ pos \in Int
        BY <1>t DEF TypeOK, SemName
      <4> QED
        BY <4>1, <4>2, CountTypes, Accounts DEF IInv, Balanced
    <3> QED
      BY <2>8, <3>2, <1>t, <3>3 DEF ConsPopDrop, TypeOK, prodLocals, consLocals, image, parent, faults
  <2>9. CASE ConsUnlockBuf(c)
    <3>1. Goto(c, "c_unbuf", "c_empty")
      BY <2>9 DEF ConsUnlockBuf
    <3>2. /\ pc' \in [Procs -> ProdLabels \cup ConsLabels \cup {"done"}]
          /\ \A r \in Producers : pc'[r] \in ProdLabels \cup {"done"}
          /\ \A r \in Consumers : pc'[r] \in ConsLabels \cup {"done"}
      BY <3>1, <1>f, <1>d, <2>q DEF Labels, ProdLabels, ConsLabels
    <3> QED
      BY <2>9, <3>2, <1>t DEF ConsUnlockBuf, TypeOK, SemPost, SemName, prodLocals, consLocals, stack, image, parent, faults
  <2>10. CASE ConsPostEmpty(c)
    <3>1. Goto(c, "c_empty", "c_attr")
      BY <2>10 DEF ConsPostEmpty
    <3>2. /\ pc' \in [Procs -> ProdLabels \cup ConsLabels \cup {"done"}]
          /\ \A r \in Producers : pc'[r] \in ProdLabels \cup {"done"}
          /\ \A r \in Consumers : pc'[r] \in ConsLabels \cup {"done"}
      BY <3>1, <1>f, <1>d, <2>q DEF Labels, ProdLabels, ConsLabels
    <3> QED
      BY <2>10, <3>2, <1>t DEF ConsPostEmpty, TypeOK, SemPost, SemName, prodLocals, consLocals, stack, image, parent, faults
  <2>11. CASE ConsReadHeight(c)
    <3>1. Goto(c, "c_attr", "c_add")
      BY <2>11 DEF ConsReadHeight
    <3>2. /\ pc' \in [Procs -> ProdLabels \cup ConsLabels \cup {"done"}]
          /\ \A r \in Producers : pc'[r] \in ProdLabels \cup {"done"}
          /\ \A r \in Consumers : pc'[r] \in ConsLabels \cup {"done"}
      BY <3>1, <1>f, <1>d, <2>q DEF Labels, ProdLabels, ConsLabels
    <3>3. img_attr' \in [0 .. 1 -> Nat]
      BY <2>11, <1>t, <1>n DEF ConsReadHeight, TypeOK
    <3> QED
      BY <2>11, <3>2, <3>3, <1>t DEF ConsReadHeight, TypeOK, prodLocals, stack, parent, faults
  <2>12. CASE ConsWriteHeight(c)
    <3>1. Goto(c, "c_add", "c_inf")
      BY <2>12 DEF ConsWriteHeight
    <3>2. /\ pc' \in [Procs -> ProdLabels \cup ConsLabels \cup {"done"}]
          /\ \A r \in Producers : pc'[r] \in ProdLabels \cup {"done"}
          /\ \A r \in Consumers : pc'[r] \in ConsLabels \cup {"done"}
      BY <3>1, <1>f, <1>d, <2>q DEF Labels, ProdLabels, ConsLabels
    <3>3. img_attr' \in [0 .. 1 -> Nat]
      BY <2>12, <1>t, <1>n DEF ConsWriteHeight, TypeOK
    <3> QED
      BY <2>12, <3>2, <3>3, <1>t DEF ConsWriteHeight, TypeOK, prodLocals, stack, parent, faults
  <2>13. CASE ConsInflate(c)
    <3>1. Goto(c, "c_inf", "c_lock")
      BY <2>13 DEF ConsInflate
    <3>2. /\ pc' \in [Procs -> ProdLabels \cup ConsLabels \cup {"done"}]
          /\ \A r \in Producers : pc'[r] \in ProdLabels \cup {"done"}
          /\ \A r \in Consumers : pc'[r] \in ConsLabels \cup {"done"}
      BY <3>1, <1>f, <1>d, <2>q DEF Labels, ProdLabels, ConsLabels
    <3>3. inf' \in [Parts -> BOOLEAN]
      BY <2>13, <1>t DEF ConsInflate, TypeOK
    <3> QED
      BY <2>13, <3>2, <3>3, <1>t, <1>n DEF ConsInflate, TypeOK, prodLocals, stack, parent, faults
  <2> QED
    BY <1>2, <2>1, <2>2, <2>3, <2>4, <2>5, <2>6, <2>7, <2>8, <2>9, <2>10, <2>11, <2>12, <2>13 DEF Consumer
<1>3. CASE Reap
  <2>1. Cardinality(At({"done"})) <= Cardinality(Procs)
    BY AtFinite, FS_Subset DEF At
  <2>2. Cardinality(Procs) \in Nat /\ Cardinality(At({"done"})) \in Nat
    BY AtFinite, FS_CardinalityType
  <2> QED
    BY <1>3, <1>t, <2>1, <2>2 DEF Reap, TypeOK, prodLocals, consLocals, stack, image, faults
<1>4. CASE Concatenate
  BY <1>4, <1>t DEF Concatenate, TypeOK, prodLocals, consLocals, stack, image, faults
<1>5. CASE UNCHANGED vars
  BY <1>5, <1>t DEF vars, TypeOK
<1> QED
  BY <1>1, <1>2, <1>3, <1>4, <1>5 DEF Next, Parent

-----------------------------------------------------------------------------

LEMMA InitIInv == Init => IInv
<1> SUFFICES ASSUME Init PROVE IInv
  OBVIOUS
<1> USE SizeAssumption, BoundAssumption, ProcessAssumption
<1>1. \A q \in Procs : pc[q] \in {"p_lock", "c_lock"}
  BY DEF Init, Procs
<1>2. TypeOK
  <2>1. NoBuf \in Bufs /\ NoImage \in [attr : [0 .. 1 -> Nat], strips : SUBSET Parts, made : BOOLEAN]
    BY DEF Bufs, NoImage
  <2>2. sem \in [SemName -> Nat]
    BY DEF Init, SemName
  <2>3. Cardinality(Procs) \in Nat
    BY AtFinite, FS_CardinalityType
  <2> QED
    BY <2>1, <2>2, <2>3 DEF Init, TypeOK, Procs, Parts, ProdLabels, ConsLabels
<1>3. Balanced
  <2>1. /\ At({"p_buf", "p_push"}) = {} /\ At({"c_unbuf", "c_empty"}) = {}
        /\ At({"p_store", "p_unbuf", "p_filled"}) = {} /\ At({"c_buf", "c_pop", "c_dec"}) = {}
        /\ At(BufSection) = {} /\ At(ClaimSection) = {} /\ At(TakeSection) = {}
    BY <1>1 DEF At, BufSection, ClaimSection, TakeSection
  <2>2. Pushing = 0 /\ Freeing = 0 /\ Posting = 0 /\ Popping = 0
        /\ InBuf = 0 /\ InClaim = 0 /\ InTake = 0
    BY <2>1, FS_EmptySet DEF Pushing, Freeing, Posting, Popping, InBuf, InClaim, InTake
  <2> QED
    BY <2>2 DEF Balanced, Init, SemName
<1>4. ClaimBound
  BY <1>1 DEF ClaimBound, Procs
<1> QED
  BY <1>2, <1>3, <1>4, Accounts DEF IInv

LEMMA IInvHolds == Spec => []IInv
<1>1. IInv /\ [Next]_vars => IInv'
  BY TypeStep, AccountStep, ClaimStep DEF IInv
<1> QED
  BY InitIInv, <1>1, PTL DEF Spec

(* Every variable keeps its type, whatever the children do.                *)
THEOREM TypeCorrect == Spec => []TypeOK
<1>1. IInv => TypeOK
  BY DEF IInv
<1> QED
  BY IInvHolds, <1>1, PTL

(* Every slot of the stack is accounted for by the two counting semaphores *)
(* and the children between their waits and posts.                         *)
THEOREM SlotsAccounted == Spec => []SlotAccounting
<1>1. IInv => SlotAccounting
  BY DEF IInv
<1> QED
  BY IInvHolds, <1>1, PTL

(* The critical sections of mutex_p, mutex_c and buffer_lock hold one      *)
(* child at most.                                                          *)
THEOREM SectionsExclusive == Spec => []Exclusion
<1>1. IInv => Exclusion
  BY DEF IInv
<1> QED
  BY IInvHolds, <1>1, PTL

(* The exits of a push to a full stack and a pop from an empty one, which  *)
(* would leave buffer_lock taken, are never reached.                       *)
THEOREM StackSafe == Spec => []StackNeverFails
<1>1. IInv => StackNeverFails
  BY RoomAndItems DEF IInv
<1> QED
  BY IInvHolds, <1>1, PTL

-----------------------------------------------------------------------------
(* Where the strips are.                                                   *)

(* Labels at which a producer has a strip, has its own claim of it only,   *)
(* and has it in its buffer; labels at which a consumer has none.          *)
Bringing == {"p_incr", "p_fetch", "p_empty", "p_buf", "p_push", "p_store"}
Early == {"p_incr", "p_fetch"}
Carrying == {"p_empty", "p_buf", "p_push", "p_store"}
Waiting == {"c_lock", "c_test", "c_incr", "c_filled", "c_buf", "c_pop", "done"}

(* The top slot is being filled or given up; slot k holds a strip.         *)
Busy == At({"p_store", "c_dec"}) # {}
Used(k) == k \in 0 .. pos /\ (k = pos => ~Busy)

(* The three sets WithProducer, OnStack and WithConsumer and the flag inf  *)
(* have one element in all at most, or none.                               *)
One(W, S, C, b) ==
    /\ \A x, y \in W : x = y
    /\ \A x, y \in S : x = y
    /\ \A x, y \in C : x = y
    /\ W = {} \/ (S = {} /\ C = {} /\ ~b)
    /\ S = {} \/ (C = {} /\ ~b)
    /\ C = {} \/ ~b
None(W, S, C, b) == W = {} /\ S = {} /\ C = {} /\ ~b

(* The sum of Copies is 0 or at most 1 exactly then.                       *)
LEMMA CopiesMean ==
    ASSUME TypeOK, NEW i \in Parts
    PROVE LET none == None(WithProducer(i), OnStack(i), WithConsumer(i), inf[i])
              one == One(WithProducer(i), OnStack(i), WithConsumer(i), inf[i])
          IN (Copies(i) = 0 <=> none) /\ (Copies(i) <= 1 <=> one)
<1> DEFINE W == WithProducer(i)
           S == OnStack(i)
           C == WithConsumer(i)
           n == IF inf[i] THEN 1 ELSE 0
<1>1. IsFiniteSet(W)
  <2>1. W \subseteq Procs
    BY DEF WithProducer, At
  <2> QED BY <2>1, AtFinite, FS_Subset
<1>2. IsFiniteSet(S)
  <2>1. S \subseteq 0 .. pos
    BY DEF OnStack
  <2>2. IsFiniteSet(0 .. pos)
    BY FS_Interval DEF TypeOK
  <2> QED BY <2>1, <2>2, FS_Subset
<1>3. IsFiniteSet(C)
  <2>1. C \subseteq Consumers
    BY DEF WithConsumer
  <2> QED BY <2>1, ProcessAssumption, FS_Subset
<1>4. inf[i] \in BOOLEAN
  BY DEF TypeOK
<1>5. Copies(i) = Cardinality(W) + Cardinality(S) + Cardinality(C) + n
  BY DEF Copies
<1> HIDE DEF W, S, C
<1>6. \A T \in {W, S, C} : /\ Cardinality(T) \in Nat
                           /\ Cardinality(T) = 0 <=> T = {}
                           /\ Cardinality(T) <= 1 <=> \A x, y \in T : x = y
  BY <1>1, <1>2, <1>3, AtMostOneElement
<1>7. n \in {0, 1} /\ (n = 0 <=> ~inf[i])
  BY <1>4
<1> HIDE DEF n
<1> DEFINE w == Cardinality(W)
           s == Cardinality(S)
           c == Cardinality(C)
<1>w. w \in Nat /\ s \in Nat /\ c \in Nat
  BY <1>6
<1>8. Copies(i) = 0 <=> None(W, S, C, inf[i])
  <2>1. None(W, S, C, inf[i]) <=> w = 0 /\ s = 0 /\ c = 0 /\ n = 0
    BY <1>6, <1>7 DEF None
  <2> HIDE DEF w, s, c
  <2>2. w + s + c + n = 0 <=> w = 0 /\ s = 0 /\ c = 0 /\ n = 0
    BY <1>w, <1>7
  <2> QED
    BY <1>5, <2>1, <2>2 DEF w, s, c
<1>9. Copies(i) <= 1 <=> One(W, S, C, inf[i])
  <2>2. One(W, S, C, inf[i]) <=>
           /\ w <= 1 /\ s <= 1 /\ c <= 1
           /\ w = 0 \/ (s = 0 /\ c = 0 /\ n = 0)
           /\ s = 0 \/ (c = 0 /\ n = 0)
           /\ c = 0 \/ n = 0
    BY <1>6, <1>7 DEF One
  <2> HIDE DEF w, s, c
  <2>3. w + s + c + n <= 1 <=>
           /\ w <= 1 /\ s <= 1 /\ c <= 1
           /\ w = 0 \/ (s = 0 /\ c = 0 /\ n = 0)
           /\ s = 0 \/ (c = 0 /\ n = 0)
           /\ c = 0 \/ n = 0
    BY <1>w, <1>7
  <2> QED
    BY <1>5, <2>2, <2>3 DEF w, s, c
<1> QED
  BY <1>8, <1>9 DEF W, S, C

-----------------------------------------------------------------------------
(* The invariant *)

Lonely == \A i \in Parts : One(WithProducer(i), OnStack(i), WithConsumer(i), inf[i])

(* What has not been claimed is nowhere yet, but with the producer that    *)
(* has read the counter and is about to increment it.                      *)
Fresh ==
    /\ \A p \in Producers : pc[p] \in Bringing \ {"p_incr"} => local_counter[p] < counter_p
    /\ \A k \in Slots : Used(k) => items[k].part < counter_p
    /\ \A c \in Consumers : temp[c].part < counter_p
    /\ \A i \in Parts : inf[i] => i < counter_p

(* A buffer is that of its claim, and whole ones say where they belong.    *)
Fits(b) == b.got = "whole" => b.seq = b.part /\ b.part \in Parts
Carried ==
    /\ \A p \in Producers : pc[p] \in Carrying => p_recv_buf[p].part = local_counter[p]
    /\ \A p \in Producers : Fits(p_recv_buf[p])
    /\ \A k \in Slots : Fits(items[k])
    /\ \A c \in Consumers : Fits(temp[c])

(* A consumer has no strip until it pops one.                              *)
Idle == \A c \in Consumers : pc[c] \in Waiting => temp[c] = NoBuf

(* `filled' and what was taken from it are the claims that were pushed.    *)
UnderwayLabels == {"p_fetch", "p_empty", "p_buf", "p_push", "p_store", "p_unbuf", "p_filled"}
Underway == Cardinality(At(UnderwayLabels))
Taking == Cardinality(At({"c_filled"}))
Flow == sem["filled"] + (counter_c - Taking) = counter_p - deaths - Underway

Ends == \A c \in Consumers : pc[c] = "done" => counter_c = NumParts

Made ==
    /\ reaped <= Cardinality(At({"done"}))
    /\ out.made => At({"done"}) = Procs /\ out.strips = {i \in Parts : inf[i]}

(* Strip i is somewhere and nothing of it is missing.                      *)
Sound(i) ==
    \/ \E p \in WithProducer(i) : pc[p] \in Early \/ p_recv_buf[p].got = "whole"
    \/ \E k \in OnStack(i) : items[k].got = "whole"
    \/ \E c \in WithConsumer(i) : temp[c].got = "whole"
    \/ inf[i]
Losses == {i \in 0 .. counter_p - 1 : ~Sound(i)}
LossBound == Cardinality(Losses) <= failures + deaths

CInv == Lonely /\ Fresh /\ Carried /\ Idle /\ Flow /\ Ends /\ Made /\ LossBound

-----------------------------------------------------------------------------
(* What the definitions say of a single producer, slot or consumer.        *)
PlacesMean ==
    \A i \in Parts :
        /\ \A x : x \in WithProducer(i) <=>
                     x \in Producers /\ pc[x] \in Bringing /\ local_counter[x] = i
        /\ \A x : x \in OnStack(i) <=> x \in Slots /\ Used(x) /\ items[x].part = i
        /\ \A x : x \in WithConsumer(i) <=> x \in Consumers /\ temp[x].part = i

LEMMA Places == TypeOK => PlacesMean
<1> SUFFICES ASSUME TypeOK, NEW i \in Parts, NEW x
             PROVE /\ x \in WithProducer(i) <=>
                        x \in Producers /\ pc[x] \in Bringing /\ local_counter[x] = i
                   /\ x \in OnStack(i) <=> x \in Slots /\ Used(x) /\ items[x].part = i
                   /\ x \in WithConsumer(i) <=> x \in Consumers /\ temp[x].part = i
  BY DEF PlacesMean
<1>1. x \in Producers /\ pc[x] \in Bringing <=> x \in At(Bringing)
  BY DEF TypeOK, At, Procs, Bringing, ConsLabels
<1>2. pos \in -1 .. BufSize - 1 /\ BufSize \in Nat
  BY SizeAssumption DEF TypeOK
<1> QED
  BY <1>1, <1>2 DEF WithProducer, OnStack, WithConsumer, Used, Busy, Bringing, Slots

LEMMA BusyMeans == Busy <=> \E q \in Procs : pc[q] \in {"p_store", "c_dec"}
BY DEF Busy, At

(* Whoever is inside the section of buffer_lock is alone there.            *)
LEMMA Alone ==
    ASSUME IInv, NEW q \in Procs, pc[q] \in BufSection, NEW r \in Procs, pc[r] \in BufSection
    PROVE r = q
<1>1. Cardinality(At(BufSection)) <= 1
  BY AtFinite DEF IInv, Exclusion, TypeOK, SemName
<1> QED
  BY <1>1, AtOne

(* The filling and the giving up of a slot, seen from outside: the slots   *)
(* that are used change when the item is stored and when it is read.       *)
LEMMA GrowFacts ==
    ASSUME IInv, NEW p \in Producers, ProdPushGrow(p)
    PROVE /\ Goto(p, "p_push", "p_store")
          /\ \A k \in Slots : Used(k)' <=> Used(k)
<1>q. p \in Procs /\ pc \in [Procs -> Labels] /\ pos \in -1 .. BufSize - 1 /\ BufSize \in Nat
  BY SizeAssumption DEF Procs, IInv, TypeOK, Labels
<1>1. ~is_full
  BY <1>q, RoomAndItems DEF IInv, StackNeverFails, At, ProdPushGrow, Goto
<1>2. Goto(p, "p_push", "p_store") /\ pos' = pos + 1
  BY <1>1 DEF ProdPushGrow
<1>3. ~Busy
  BY <1>2, <1>q, Alone, BusyMeans DEF Goto, BufSection
<1>4. Busy'
  BY <1>2, <1>q DEF Busy, At, Goto
<1> QED
  BY <1>2, <1>3, <1>4, <1>q DEF Used, Slots

LEMMA StoreFacts ==
    ASSUME IInv, NEW p \in Producers, ProdPushStore(p)
    PROVE /\ pos \in Slots /\ ~Used(pos) /\ Used(pos)'
          /\ \A k \in Slots \ {pos} : Used(k)' <=> Used(k)
<1>q. p \in Procs /\ pc \in [Procs -> Labels] /\ pos \in -1 .. BufSize - 1 /\ BufSize \in Nat
  BY SizeAssumption DEF Procs, IInv, TypeOK, Labels
<1>2. Goto(p, "p_store", "p_unbuf") /\ pos' = pos
  BY DEF ProdPushStore
<1>3. Busy
  BY <1>2, <1>q DEF Busy, At, Goto
<1>4. ~Busy'
  <2>1. ASSUME NEW r \in Procs, pc'[r] \in {"p_store", "c_dec"} PROVE FALSE
    <3>1. r # p /\ pc[r] = pc'[r]
      BY <1>2, <1>q, <2>1 DEF Goto
    <3> QED
      BY <3>1, <2>1, <1>2, <1>q, Alone DEF Goto, BufSection
  <2> QED
    BY <2>1 DEF Busy, At
<1>5. pos >= 0
  <2>1. Posting >= 1
    BY <1>2, <1>q, AtFinite DEF Posting, Goto
  <2>2. sem["filled"] \in Nat
    BY DEF IInv, TypeOK, SemName
  <2> QED
    BY <2>1, <2>2, <1>q, CountTypes, Accounts DEF IInv, Balanced
<1> QED
  BY <1>2, <1>3, <1>4, <1>5, <1>q DEF Used, Slots

LEMMA PopFacts ==
    ASSUME IInv, NEW c \in Consumers, ConsPopRead(c)
    PROVE /\ Goto(c, "c_pop", "c_dec") /\ temp' = [temp EXCEPT ![c] = items[pos]]
          /\ pos \in Slots /\ Used(pos) /\ ~Used(pos)'
          /\ \A k \in Slots \ {pos} : Used(k)' <=> Used(k)
<1>q. c \in Procs /\ pc \in [Procs -> Labels] /\ pos \in -1 .. BufSize - 1 /\ BufSize \in Nat
  BY SizeAssumption DEF Procs, IInv, TypeOK, Labels
<1>1. ~is_empty
  BY <1>q, RoomAndItems DEF IInv, StackNeverFails, At, ConsPopRead, Goto
<1>2. Goto(c, "c_pop", "c_dec") /\ temp' = [temp EXCEPT ![c] = items[pos]] /\ pos' = pos
  BY <1>1 DEF ConsPopRead, stack
<1>3. ~Busy
  BY <1>2, <1>q, Alone, BusyMeans DEF Goto, BufSection
<1>4. Busy'
  BY <1>2, <1>q DEF Busy, At, Goto
<1> QED
  BY <1>1, <1>2, <1>3, <1>4, <1>q DEF Used, Slots, is_empty

LEMMA DropFacts ==
    ASSUME IInv, NEW c \in Consumers, ConsPopDrop(c)
    PROVE \A k \in Slots : Used(k)' <=> Used(k)
<1>q. c \in Procs /\ pc \in [Procs -> Labels] /\ pos \in -1 .. BufSize - 1 /\ BufSize \in Nat
  BY SizeAssumption DEF Procs, IInv, TypeOK, Labels
<1>2. Goto(c, "c_dec", "c_unbuf") /\ pos' = pos - 1
  BY DEF ConsPopDrop
<1>3. Busy
  BY <1>2, <1>q DEF Busy, At, Goto
<1>4. ~Busy'
  <2>1. ASSUME NEW r \in Procs, pc'[r] \in {"p_store", "c_dec"} PROVE FALSE
    <3>1. r # c /\ pc[r] = pc'[r]
      BY <1>2, <1>q, <2>1 DEF Goto
    <3> QED
      BY <3>1, <2>1, <1>2, <1>q, Alone DEF Goto, BufSection
  <2> QED
    BY <2>1 DEF Busy, At
<1> QED
  BY <1>2, <1>3, <1>4, <1>q DEF Used, Slots

-----------------------------------------------------------------------------
(* The actions that move no strip and touch none.                          *)
QuietAction ==
    \/ \E p \in Producers : ProdLock(p) \/ ProdQuit(p) \/ ProdWaitEmpty(p) \/ ProdLockBuf(p)
                            \/ ProdUnlockBuf(p) \/ ProdPostFilled(p)
    \/ \E c \in Consumers : ConsLock(c) \/ ConsQuit(c) \/ ConsTest(c) \/ ConsClaim(c)
                            \/ ConsWaitFilled(c) \/ ConsLockBuf(c) \/ ConsUnlockBuf(c)
                            \/ ConsPostEmpty(c) \/ ConsReadHeight(c) \/ ConsWriteHeight(c)
    \/ Reap \/ Concatenate \/ UNCHANGED vars

Quiet ==
    /\ UNCHANGED <<counter_p, pos, items, inf, local_counter, temp, failures, deaths>>
    /\ \A k \in Slots : Used(k)' <=> Used(k)
    /\ \A p \in Producers :
          /\ \A A \in {Bringing, Early, Carrying, {"p_incr"}} : pc'[p] \in A <=> pc[p] \in A
          /\ \/ p_recv_buf'[p] = p_recv_buf[p]
             \/ pc[p] \notin Bringing /\ p_recv_buf'[p] = NoBuf

LEMMA UsedStays ==
    ASSUME IInv, NEW q \in Procs, NEW from, NEW to, Goto(q, from, to), pos' = pos,
           from \in {"p_store", "c_dec"} <=> to \in {"p_store", "c_dec"}
    PROVE \A k \in Slots : Used(k)' <=> Used(k)
<1>1. pc \in [Procs -> Labels]
  BY DEF IInv, TypeOK, Labels
<1>2. \A r \in Procs : pc'[r] \in {"p_store", "c_dec"} <=> pc[r] \in {"p_store", "c_dec"}
  BY <1>1 DEF Goto
<1>3. Busy' <=> Busy
  BY <1>2 DEF Busy, At
<1> QED
  BY <1>3 DEF Used

LEMMA QuietMove ==
    ASSUME IInv, NEW q \in Procs, NEW from, NEW to, Goto(q, from, to), pos' = pos,
           \A A \in {Bringing, Early, Carrying, {"p_incr"}, {"p_store", "c_dec"}} :
               from \in A <=> to \in A
    PROVE /\ \A k \in Slots : Used(k)' <=> Used(k)
          /\ \A p \in Producers : \A A \in {Bringing, Early, Carrying, {"p_incr"}} :
                 pc'[p] \in A <=> pc[p] \in A
<1>1. \A r \in Procs : \A A \in {Bringing, Early, Carrying, {"p_incr"}, {"p_store", "c_dec"}} :
          pc'[r] \in A <=> pc[r] \in A
  <2> SUFFICES ASSUME NEW r \in Procs,
                      NEW A \in {Bringing, Early, Carrying, {"p_incr"}, {"p_store", "c_dec"}}
               PROVE pc'[r] \in A <=> pc[r] \in A
    OBVIOUS
  <2>1. pc \in [Procs -> Labels]
    BY DEF IInv, TypeOK, Labels
  <2>2. r = q \/ pc'[r] = pc[r]
    BY <2>1 DEF Goto
  <2>3. pc[q] = from /\ pc'[q] = to
    BY <2>1 DEF Goto
  <2> QED BY <2>2, <2>3
<1>2. Busy' <=> Busy
  BY <1>1 DEF Busy, At
<1> QED
  BY <1>1, <1>2 DEF Used, Procs

LEMMA QuietStep == ASSUME IInv, QuietAction PROVE Quiet
<1> USE DEF Bringing, Early, Carrying
<1>t. p_recv_buf \in [Producers -> Bufs]
  BY DEF IInv, TypeOK
<1>1. ASSUME NEW p \in Producers,
             ProdLock(p) \/ ProdQuit(p) \/ ProdWaitEmpty(p) \/ ProdLockBuf(p)
                \/ ProdUnlockBuf(p) \/ ProdPostFilled(p)
      PROVE Quiet
  <2>q. p \in Procs
    BY DEF Procs
  <2>1. CASE ProdLock(p)
    <3>1. Goto(p, "p_lock", "p_test") /\ pos' = pos
      BY <2>1 DEF ProdLock, stack
    <3>2. /\ \A k \in Slots : Used(k)' <=> Used(k)
          /\ \A r \in Producers : \A A \in {Bringing, Early, Carrying, {"p_incr"}} :
                 pc'[r] \in A <=> pc[r] \in A
      BY <3>1, <2>q, QuietMove
    <3> QED
      BY <2>1, <3>2 DEF ProdLock, Quiet, prodLocals, consLocals, stack, image, faults
  <2>2. CASE ProdQuit(p)
    <3>1. Goto(p, "p_test", "done") /\ pos' = pos
      BY <2>2 DEF ProdQuit, stack
    <3>2. /\ \A k \in Slots : Used(k)' <=> Used(k)
          /\ \A r \in Producers : \A A \in {Bringing, Early, Carrying, {"p_incr"}} :
                 pc'[r] \in A <=> pc[r] \in A
      BY <3>1, <2>q, QuietMove
    <3> QED
      BY <2>2, <3>2 DEF ProdQuit, Quiet, prodLocals, consLocals, stack, image, faults
  <2>3. CASE ProdWaitEmpty(p)
    <3>1. Goto(p, "p_empty", "p_buf") /\ pos' = pos
      BY <2>3 DEF ProdWaitEmpty, stack
    <3>2. /\ \A k \in Slots : Used(k)' <=> Used(k)
          /\ \A r \in Producers : \A A \in {Bringing, Early, Carrying, {"p_incr"}} :
                 pc'[r] \in A <=> pc[r] \in A
      BY <3>1, <2>q, QuietMove
    <3> QED
      BY <2>3, <3>2 DEF ProdWaitEmpty, Quiet, prodLocals, consLocals, stack, image, faults
  <2>4. CASE ProdLockBuf(p)
    <3>1. Goto(p, "p_buf", "p_push") /\ pos' = pos
      BY <2>4 DEF ProdLockBuf, stack
    <3>2. /\ \A k \in Slots : Used(k)' <=> Used(k)
          /\ \A r \in Producers : \A A \in {Bringing, Early, Carrying, {"p_incr"}} :
                 pc'[r] \in A <=> pc[r] \in A
      BY <3>1, <2>q, QuietMove
    <3> QED
      BY <2>4, <3>2 DEF ProdLockBuf, Quiet, prodLocals, consLocals, stack, image, faults
  <2>5. CASE ProdUnlockBuf(p)
    <3>1. Goto(p, "p_unbuf", "p_filled") /\ pos' = pos
      BY <2>5 DEF ProdUnlockBuf, stack
    <3>2. /\ \A k \in Slots : Used(k)' <=> Used(k)
          /\ \A r \in Producers : \A A \in {Bringing, Early, Carrying, {"p_incr"}} :
                 pc'[r] \in A <=> pc[r] \in A
      BY <3>1, <2>q, QuietMove
    <3> QED
      BY <2>5, <3>2 DEF ProdUnlockBuf, Quiet, prodLocals, consLocals, stack, image, faults
  <2>6. CASE ProdPostFilled(p)
    <3>1. Goto(p, "p_filled", "p_lock") /\ pos' = pos
      BY <2>6 DEF ProdPostFilled, stack
    <3>2. /\ \A k \in Slots : Used(k)' <=> Used(k)
          /\ \A r \in Producers : \A A \in {Bringing, Early, Carrying, {"p_incr"}} :
                 pc'[r] \in A <=> pc[r] \in A
      BY <3>1, <2>q, QuietMove
    <3>3. ASSUME NEW r \in Producers
          PROVE p_recv_buf'[r] = p_recv_buf[r] \/ (pc[r] \notin Bringing /\ p_recv_buf'[r] = NoBuf)
      BY <2>6, <1>t, <3>1 DEF ProdPostFilled, Goto
    <3> QED
      BY <2>6, <3>2, <3>3 DEF ProdPostFilled, Quiet, prodLocals, consLocals, stack, image, faults
  <2> QED
    BY <1>1, <2>1, <2>2, <2>3, <2>4, <2>5, <2>6
<1>2. ASSUME NEW c \in Consumers,
             ConsLock(c) \/ ConsQuit(c) \/ ConsTest(c) \/ ConsClaim(c)
                \/ ConsWaitFilled(c) \/ ConsLockBuf(c) \/ ConsUnlockBuf(c)
                \/ ConsPostEmpty(c) \/ ConsReadHeight(c) \/ ConsWriteHeight(c)
      PROVE Quiet
  <2>q. c \in Procs
    BY DEF Procs
  <2>1. CASE ConsLock(c)
    <3>1. Goto(c, "c_lock", "c_test") /\ pos' = pos
      BY <2>1 DEF ConsLock, stack
    <3>2. /\ \A k \in Slots : Used(k)' <=> Used(k)
          /\ \A r \in Producers : \A A \in {Bringing, Early, Carrying, {"p_incr"}} :
                 pc'[r] \in A <=> pc[r] \in A
      BY <3>1, <2>q, QuietMove
    <3> QED
      BY <2>1, <3>2 DEF ConsLock, Quiet, prodLocals, consLocals, stack, image, faults
  <2>2. CASE ConsQuit(c)
    <3>1. Goto(c, "c_test", "done") /\ pos' = pos
      BY <2>2 DEF ConsQuit, stack
    <3>2. /\ \A k \in Slots : Used(k)' <=> Used(k)
          /\ \A r \in Producers : \A A \in {Bringing, Early, Carrying, {"p_incr"}} :
                 pc'[r] \in A <=> pc[r] \in A
      BY <3>1, <2>q, QuietMove
    <3> QED
      BY <2>2, <3>2 DEF ConsQuit, Quiet, prodLocals, consLocals, stack, image, faults
  <2>3. CASE ConsTest(c)
    <3>1. Goto(c, "c_test", "c_incr") /\ pos' = pos
      BY <2>3 DEF ConsTest, stack
    <3>2. /\ \A k \in Slots : Used(k)' <=> Used(k)
          /\ \A r \in Producers : \A A \in {Bringing, Early, Carrying, {"p_incr"}} :
                 pc'[r] \in A <=> pc[r] \in A
      BY <3>1, <2>q, QuietMove
    <3> QED
      BY <2>3, <3>2 DEF ConsTest, Quiet, prodLocals, consLocals, stack, image, faults
  <2>4. CASE ConsClaim(c)
    <3>1. Goto(c, "c_incr", "c_filled") /\ pos' = pos
      BY <2>4 DEF ConsClaim, stack
    <3>2. /\ \A k \in Slots : Used(k)' <=> Used(k)
          /\ \A r \in Producers : \A A \in {Bringing, Early, Carrying, {"p_incr"}} :
                 pc'[r] \in A <=> pc[r] \in A
      BY <3>1, <2>q, QuietMove
    <3> QED
      BY <2>4, <3>2 DEF ConsClaim, Quiet, prodLocals, consLocals, stack, image, faults
  <2>5. CASE ConsWaitFilled(c)
    <3>1. Goto(c, "c_filled", "c_buf") /\ pos' = pos
      BY <2>5 DEF ConsWaitFilled, stack
    <3>2. /\ \A k \in Slots : Used(k)' <=> Used(k)
          /\ \A r \in Producers : \A A \in {Bringing, Early, Carrying, {"p_incr"}} :
                 pc'[r] \in A <=> pc[r] \in A
      BY <3>1, <2>q, QuietMove
    <3> QED
      BY <2>5, <3>2 DEF ConsWaitFilled, Quiet, prodLocals, consLocals, stack, image, faults
  <2>6. CASE ConsLockBuf(c)
    <3>1. Goto(c, "c_buf", "c_pop") /\ pos' = pos
      BY <2>6 DEF ConsLockBuf, stack
    <3>2. /\ \A k \in Slots : Used(k)' <=> Used(k)
          /\ \A r \in Producers : \A A \in {Bringing, Early, Carrying, {"p_incr"}} :
                 pc'[r] \in A <=> pc[r] \in A
      BY <3>1, <2>q, QuietMove
    <3> QED
      BY <2>6, <3>2 DEF ConsLockBuf, Quiet, prodLocals, consLocals, stack, image, faults
  <2>7. CASE ConsUnlockBuf(c)
    <3>1. Goto(c, "c_unbuf", "c_empty") /\ pos' = pos
      BY <2>7 DEF ConsUnlockBuf, stack
    <3>2. /\ \A k \in Slots : Used(k)' <=> Used(k)
          /\ \A r \in Producers : \A A \in {Bringing, Early, Carrying, {"p_incr"}} :
                 pc'[r] \in A <=> pc[r] \in A
      BY <3>1, <2>q, QuietMove
    <3> QED
      BY <2>7, <3>2 DEF ConsUnlockBuf, Quiet, prodLocals, consLocals, stack, image, faults
  <2>8. CASE ConsPostEmpty(c)
    <3>1. Goto(c, "c_empty", "c_attr") /\ pos' = pos
      BY <2>8 DEF ConsPostEmpty, stack
    <3>2. /\ \A k \in Slots : Used(k)' <=> Used(k)
          /\ \A r \in Producers : \A A \in {Bringing, Early, Carrying, {"p_incr"}} :
                 pc'[r] \in A <=> pc[r] \in A
      BY <3>1, <2>q, QuietMove
    <3> QED
      BY <2>8, <3>2 DEF ConsPostEmpty, Quiet, prodLocals, consLocals, stack, image, faults
  <2>9. CASE ConsReadHeight(c)
    <3>1. Goto(c, "c_attr", "c_add") /\ pos' = pos
      BY <2>9 DEF ConsReadHeight, stack
    <3>2. /\ \A k \in Slots : Used(k)' <=> Used(k)
          /\ \A r \in Producers : \A A \in {Bringing, Early, Carrying, {"p_incr"}} :
                 pc'[r] \in A <=> pc[r] \in A
      BY <3>1, <2>q, QuietMove
    <3> QED
      BY <2>9, <3>2 DEF ConsReadHeight, Quiet, prodLocals, consLocals, stack, image, faults
  <2>10. CASE ConsWriteHeight(c)
    <3>1. Goto(c, "c_add", "c_inf") /\ pos' = pos
      BY <2>10 DEF ConsWriteHeight, stack
    <3>2. /\ \A k \in Slots : Used(k)' <=> Used(k)
          /\ \A r \in Producers : \A A \in {Bringing, Early, Carrying, {"p_incr"}} :
                 pc'[r] \in A <=> pc[r] \in A
      BY <3>1, <2>q, QuietMove
    <3> QED
      BY <2>10, <3>2 DEF ConsWriteHeight, Quiet, prodLocals, consLocals, stack, image, faults
  <2> QED
    BY <1>2, <2>1, <2>2, <2>3, <2>4, <2>5, <2>6, <2>7, <2>8, <2>9, <2>10
<1>3. CASE Reap \/ Concatenate \/ UNCHANGED vars
  <2>1. UNCHANGED <<pc, counter_p, pos, items, inf, local_counter, p_recv_buf, temp, failures, deaths>>
    BY <1>3 DEF Reap, Concatenate, vars, prodLocals, consLocals, stack, image, faults
  <2>2. \A k \in Slots : Used(k)' <=> Used(k)
    BY <2>1 DEF Used, Busy, At
  <2> QED
    BY <2>1, <2>2 DEF Quiet
<1> QED
  BY <1>1, <1>2, <1>3 DEF QuietAction

(* The others: what they do to the strips is said one by one.              *)
LEMMA StepCases ==
    ASSUME [Next]_vars
    PROVE \/ QuietAction
          \/ \E p \in Producers : ProdRead(p) \/ ProdClaim(p) \/ ProdFetch(p) \/ ProdFetchFails(p)
                \/ ProdDies(p) \/ ProdPushGrow(p) \/ ProdPushStore(p)
          \/ \E c \in Consumers : ConsPopRead(c) \/ ConsPopDrop(c) \/ ConsInflate(c)
<1>1. ASSUME NEW p \in Producers, Producer(p)
      PROVE \/ QuietAction
            \/ ProdRead(p) \/ ProdClaim(p) \/ ProdFetch(p) \/ ProdFetchFails(p)
                \/ ProdDies(p) \/ ProdPushGrow(p) \/ ProdPushStore(p)
  BY <1>1 DEF Producer, QuietAction
<1>2. ASSUME NEW c \in Consumers, Consumer(c)
      PROVE QuietAction \/ ConsPopRead(c) \/ ConsPopDrop(c) \/ ConsInflate(c)
  BY <1>2 DEF Consumer, QuietAction
<1>3. CASE Parent \/ UNCHANGED vars
  BY <1>3 DEF Parent, QuietAction
<1> QED
  BY <1>1, <1>2, <1>3 DEF Next

-----------------------------------------------------------------------------
(* All strips stay where they are.                                         *)
Still ==
    /\ UNCHANGED <<local_counter, temp, inf>>
    /\ \A p \in Producers : pc'[p] \in Bringing <=> pc[p] \in Bringing
    /\ \A k \in Slots : (Used(k)' <=> Used(k)) /\ items'[k].part = items[k].part

StripsStay ==
    \A i \in Parts : UNCHANGED <<WithProducer(i), OnStack(i), WithConsumer(i), inf[i]>>

LEMMA StillStays == ASSUME PlacesMean, PlacesMean', Still PROVE StripsStay
<1> SUFFICES ASSUME NEW i \in Parts
             PROVE UNCHANGED <<WithProducer(i), OnStack(i), WithConsumer(i), inf[i]>>
  BY DEF StripsStay
<1>1. \A x : x \in WithProducer(i)' <=> x \in WithProducer(i)
  BY DEF PlacesMean, Still
<1>2. \A x : x \in OnStack(i)' <=> x \in OnStack(i)
  BY DEF PlacesMean, Still
<1>3. \A x : x \in WithConsumer(i)' <=> x \in WithConsumer(i)
  BY DEF PlacesMean, Still
<1>4. inf'[i] = inf[i]
  BY DEF Still
<1>5. /\ WithProducer(i)' = WithProducer(i) /\ OnStack(i)' = OnStack(i)
      /\ WithConsumer(i)' = WithConsumer(i)
  BY <1>1, <1>2, <1>3
<1> QED
  BY <1>4, <1>5

(* The other strips stay where they are.                                   *)
StayBut(j) ==
    \A i \in Parts \ {j} : UNCHANGED <<WithProducer(i), OnStack(i), WithConsumer(i), inf[i]>>

(* A producer reads the counter: a strip that was nowhere is with it.      *)
LEMMA ReadMoves ==
    ASSUME IInv, Fresh, PlacesMean, PlacesMean', NEW p \in Producers, ProdRead(p), NEW j, j = counter_p
    PROVE /\ StayBut(j) /\ j \in Parts
          /\ None(WithProducer(j), OnStack(j), WithConsumer(j), inf[j])
          /\ WithProducer(j)' = {p} /\ OnStack(j)' = {} /\ WithConsumer(j)' = {} /\ ~inf'[j]
<1>q. /\ p \in Procs /\ pc \in [Procs -> Labels] /\ local_counter \in [Producers -> Parts]
      /\ counter_p \in 0 .. NumParts /\ NumParts \in Nat
  BY SizeAssumption DEF Procs, IInv, TypeOK, Labels
<1>1. /\ Goto(p, "p_test", "p_incr") /\ local_counter' = [local_counter EXCEPT ![p] = j]
      /\ counter_p # NumParts /\ UNCHANGED <<counter_p, pos, items, inf, temp>>
  BY DEF ProdRead, stack, image, consLocals
<1>2. j \in Parts
  BY <1>1, <1>q DEF Parts
<1>3. \A r \in Procs : pc[r] \notin ClaimSection \/ r = p
  <2>1. Cardinality(At(ClaimSection)) <= 1
    BY AtFinite DEF IInv, Exclusion, TypeOK, SemName
  <2> QED
    BY <2>1, <1>q, <1>1, AtOne DEF ClaimSection, Goto
<1>4. \A r \in Producers : pc[r] \in Bringing => local_counter[r] < j
  <2>1. ASSUME NEW r \in Producers, pc[r] \in Bringing PROVE pc[r] \in Bringing \ {"p_incr"}
    BY <2>1, <1>3, <1>1 DEF Goto, ClaimSection, Procs, Bringing
  <2> QED
    BY <2>1 DEF Fresh
<1>5. /\ \A r \in Producers : local_counter[r] \in Int
      /\ \A r \in Producers : pc'[r] \in Bringing <=> pc[r] \in Bringing \/ r = p
  BY <1>q, <1>1 DEF Goto, Parts, Bringing, Procs
<1>6. \A k \in Slots : Used(k)' <=> Used(k)
  BY <1>q, <1>1, UsedStays
<1>7. None(WithProducer(j), OnStack(j), WithConsumer(j), inf[j])
  <2>1. WithProducer(j) = {}
    BY <1>2, <1>4, <1>q DEF PlacesMean
  <2>2. OnStack(j) = {}
    BY <1>2, <1>q DEF PlacesMean, Fresh
  <2>3. WithConsumer(j) = {}
    BY <1>2, <1>q DEF PlacesMean, Fresh
  <2>4. ~inf[j]
    BY <1>2, <1>q DEF Fresh
  <2> QED BY <2>1, <2>2, <2>3, <2>4 DEF None
<1>8. ASSUME NEW i \in Parts
      PROVE /\ OnStack(i)' = OnStack(i) /\ WithConsumer(i)' = WithConsumer(i) /\ inf'[i] = inf[i]
            /\ WithProducer(i)' = IF i = j THEN {p} ELSE WithProducer(i)
  <2>1. \A x : x \in OnStack(i)' <=> x \in OnStack(i)
    BY <1>6, <1>1 DEF PlacesMean
  <2>2. \A x : x \in WithConsumer(i)' <=> x \in WithConsumer(i)
    BY <1>1 DEF PlacesMean
  <2>3. \A x : x \in WithProducer(i)' <=> IF i = j THEN x = p ELSE x \in WithProducer(i)
    <3>1. \A x \in Producers \ {p} : local_counter'[x] = local_counter[x]
      BY <1>1, <1>q
    <3>2. local_counter'[p] = j /\ pc[p] \notin Bringing
      BY <1>1, <1>q DEF Goto, Bringing
    <3>3. i = j => \A x \in Producers : ~(pc[x] \in Bringing /\ local_counter[x] = i)
      BY <1>4, <1>5, <1>q
    <3> QED
      BY <1>5, <3>1, <3>2, <3>3 DEF PlacesMean
  <2> QED
    BY <2>1, <2>2, <2>3, <1>1
<1>9. StayBut(j)
  BY <1>8 DEF StayBut
<1> QED
  BY <1>2, <1>7, <1>8, <1>9 DEF None

(* A producer returns: the strip it claimed is nowhere.                    *)
LEMMA DieMoves ==
    ASSUME IInv, PlacesMean, PlacesMean', NEW p \in Producers, ProdDies(p), NEW j, j = local_counter[p]
    PROVE /\ StayBut(j) /\ j \in Parts /\ p \in WithProducer(j)
          /\ WithProducer(j)' = WithProducer(j) \ {p} /\ OnStack(j)' = OnStack(j)
          /\ WithConsumer(j)' = WithConsumer(j) /\ inf'[j] = inf[j]
<1>q. p \in Procs /\ pc \in [Procs -> Labels] /\ local_counter \in [Producers -> Parts]
  BY DEF Procs, IInv, TypeOK, Labels
<1>1. /\ Goto(p, "p_fetch", "done")
      /\ UNCHANGED <<local_counter, pos, items, inf, temp>>
  BY DEF ProdDies, stack, image, consLocals, prodLocals
<1>2. \A r \in Producers : pc'[r] \in Bringing <=> pc[r] \in Bringing /\ r # p
  BY <1>q, <1>1 DEF Goto, Bringing, Procs
<1>3. j \in Parts /\ p \in WithProducer(j)
  BY <1>q, <1>1 DEF Goto, Bringing, PlacesMean
<1>6. \A k \in Slots : Used(k)' <=> Used(k)
  BY <1>q, <1>1, UsedStays
<1>8. ASSUME NEW i \in Parts
      PROVE /\ OnStack(i)' = OnStack(i) /\ WithConsumer(i)' = WithConsumer(i) /\ inf'[i] = inf[i]
            /\ WithProducer(i)' = WithProducer(i) \ {p}
            /\ i # j => WithProducer(i)' = WithProducer(i)
  <2>1. \A x : x \in OnStack(i)' <=> x \in OnStack(i)
    BY <1>6, <1>1 DEF PlacesMean
  <2>2. \A x : x \in WithConsumer(i)' <=> x \in WithConsumer(i)
    BY <1>1 DEF PlacesMean
  <2>3. \A x : x \in WithProducer(i)' <=> x \in WithProducer(i) \ {p}
    BY <1>1, <1>2 DEF PlacesMean
  <2>4. i # j => p \notin WithProducer(i)
    BY DEF PlacesMean
  <2> QED
    BY <2>1, <2>2, <2>3, <2>4, <1>1
<1>9. StayBut(j)
  BY <1>8 DEF StayBut
<1> QED
  BY <1>3, <1>8, <1>9

(* A producer stores its strip in the slot it has made.                    *)
LEMMA StoreMoves ==
    ASSUME IInv, Carried, PlacesMean, PlacesMean', NEW p \in Producers, ProdPushStore(p),
           NEW j, j = local_counter[p]
    PROVE /\ StayBut(j) /\ j \in Parts /\ p \in WithProducer(j)
          /\ WithProducer(j)' = WithProducer(j) \ {p} /\ OnStack(j)' = OnStack(j) \cup {pos}
          /\ WithConsumer(j)' = WithConsumer(j) /\ inf'[j] = inf[j]
          /\ pos \in Slots /\ items' = [items EXCEPT ![pos] = p_recv_buf[p]]
          /\ p_recv_buf[p].part = j
<1>q. /\ p \in Procs /\ pc \in [Procs -> Labels] /\ local_counter \in [Producers -> Parts]
      /\ items \in [Slots -> Bufs]
  BY DEF Procs, IInv, TypeOK, Labels
<1>1. /\ Goto(p, "p_store", "p_unbuf") /\ items' = [items EXCEPT ![pos] = p_recv_buf[p]]
      /\ UNCHANGED <<local_counter, pos, inf, temp>>
  BY DEF ProdPushStore, image, consLocals, prodLocals
<1>2. \A r \in Producers : pc'[r] \in Bringing <=> pc[r] \in Bringing /\ r # p
  BY <1>q, <1>1 DEF Goto, Bringing, Procs
<1>3. j \in Parts /\ p \in WithProducer(j) /\ p_recv_buf[p].part = j
  BY <1>q, <1>1 DEF Goto, Bringing, PlacesMean, Carried, Carrying
<1>4. /\ pos \in Slots /\ ~Used(pos) /\ Used(pos)'
      /\ \A k \in Slots \ {pos} : Used(k)' <=> Used(k)
  BY StoreFacts
<1>5. /\ \A k \in Slots \ {pos} : items'[k] = items[k]
      /\ items'[pos].part = j
  BY <1>1, <1>q, <1>3, <1>4
<1>6. Used(pos)' <=> (\A k \in {pos} : Used(k)')
  BY <1>1 DEF Used
<1>8. ASSUME NEW i \in Parts
      PROVE /\ WithConsumer(i)' = WithConsumer(i) /\ inf'[i] = inf[i]
            /\ WithProducer(i)' = WithProducer(i) \ {p}
            /\ i # j => WithProducer(i)' = WithProducer(i)
            /\ OnStack(i)' = IF i = j THEN OnStack(i) \cup {pos} ELSE OnStack(i)
  <2>1. \A x : x \in OnStack(i)' <=> x \in OnStack(i) \/ (x = pos /\ i = j)
    BY <1>4, <1>5, <1>6 DEF PlacesMean
  <2>2. \A x : x \in WithConsumer(i)' <=> x \in WithConsumer(i)
    BY <1>1 DEF PlacesMean
  <2>3. \A x : x \in WithProducer(i)' <=> x \in WithProducer(i) \ {p}
    BY <1>1, <1>2 DEF PlacesMean
  <2>4. i # j => p \notin WithProducer(i)
    BY DEF PlacesMean
  <2> QED
    BY <2>1, <2>2, <2>3, <2>4, <1>1
<1>9. StayBut(j)
  BY <1>8 DEF StayBut
<1> QED
  BY <1>1, <1>3, <1>4, <1>8, <1>9

(* A consumer takes the strip at the top, if it is one.                    *)
LEMMA PopMoves ==
    ASSUME IInv, Idle, PlacesMean, PlacesMean', NEW c \in Consumers, ConsPopRead(c),
           NEW j, j = items[pos].part
    PROVE /\ StayBut(j) /\ pos \in Slots /\ temp' = [temp EXCEPT ![c] = items[pos]]
          /\ j \in Parts =>
                /\ pos \in OnStack(j)
                /\ WithProducer(j)' = WithProducer(j) /\ OnStack(j)' = OnStack(j) \ {pos}
                /\ WithConsumer(j)' = WithConsumer(j) \cup {c} /\ inf'[j] = inf[j]
<1>q. /\ c \in Procs /\ pc \in [Procs -> Labels] /\ temp \in [Consumers -> Bufs]
      /\ Producers \cap Consumers = {}
  BY ProcessAssumption DEF Procs, IInv, TypeOK, Labels
<1>1. UNCHANGED <<local_counter, pos, items, inf>>
  BY DEF ConsPopRead, stack, image, prodLocals
<1>4. /\ Goto(c, "c_pop", "c_dec") /\ temp' = [temp EXCEPT ![c] = items[pos]]
      /\ pos \in Slots /\ Used(pos) /\ ~Used(pos)'
      /\ \A k \in Slots \ {pos} : Used(k)' <=> Used(k)
  BY PopFacts
<1>2. \A r \in Producers : pc'[r] \in Bringing <=> pc[r] \in Bringing
  BY <1>q, <1>4 DEF Goto, Bringing, Procs
<1>3. temp[c].part = -1
  BY <1>4 DEF Idle, Waiting, Goto, NoBuf
<1>5. \A k \in {pos} : ~Used(k)'
  BY <1>1, <1>4 DEF Used
<1>6. \A d \in Consumers : temp'[d] = IF d = c THEN items[pos] ELSE temp[d]
  BY <1>4, <1>q
<1>8. ASSUME NEW i \in Parts
      PROVE /\ WithProducer(i)' = WithProducer(i) /\ inf'[i] = inf[i]
            /\ OnStack(i)' = OnStack(i) \ {pos}
            /\ i # j => OnStack(i)' = OnStack(i)
            /\ WithConsumer(i)' = IF i = j THEN WithConsumer(i) \cup {c} ELSE WithConsumer(i)
  <2>1. \A x : x \in OnStack(i)' <=> x \in OnStack(i) \ {pos}
    BY <1>4, <1>5, <1>1 DEF PlacesMean
  <2>2. \A x : x \in WithConsumer(i)' <=> x \in WithConsumer(i) \/ (x = c /\ i = j)
    <3>1. i # -1
      BY SizeAssumption DEF Parts
    <3> QED
      BY <3>1, <1>6, <1>3 DEF PlacesMean
  <2>3. \A x : x \in WithProducer(i)' <=> x \in WithProducer(i)
    BY <1>1, <1>2 DEF PlacesMean
  <2>4. i # j => pos \notin OnStack(i)
    BY DEF PlacesMean
  <2> QED
    BY <2>1, <2>2, <2>3, <2>4, <1>1
<1>9. StayBut(j)
  BY <1>8 DEF StayBut
<1>10. j \in Parts => pos \in OnStack(j)
  BY <1>4 DEF PlacesMean
<1> QED
  BY <1>4, <1>8, <1>9, <1>10

(* A consumer inflates its strip, or gives it up if it is not whole.       *)
LEMMA InflateMoves ==
    ASSUME IInv, Carried, PlacesMean, PlacesMean', NEW c \in Consumers, ConsInflate(c),
           NEW j, j = temp[c].part, NEW whole, whole = (temp[c].got = "whole")
    PROVE /\ StayBut(j) /\ (whole => j \in Parts)
          /\ temp' = [temp EXCEPT ![c] = NoBuf]
          /\ j \in Parts =>
                /\ c \in WithConsumer(j)
                /\ WithProducer(j)' = WithProducer(j) /\ OnStack(j)' = OnStack(j)
                /\ WithConsumer(j)' = WithConsumer(j) \ {c} /\ (inf'[j] <=> inf[j] \/ whole)
<1>q. /\ c \in Procs /\ pc \in [Procs -> Labels] /\ temp \in [Consumers -> Bufs]
      /\ inf \in [Parts -> BOOLEAN] /\ Producers \cap Consumers = {}
  BY ProcessAssumption DEF Procs, IInv, TypeOK, Labels
<1>1. /\ UNCHANGED <<local_counter, pos, items>> /\ Goto(c, "c_inf", "c_lock")
      /\ temp' = [temp EXCEPT ![c] = NoBuf]
      /\ inf' = IF temp[c].got = "whole" THEN [inf EXCEPT ![temp[c].seq] = TRUE] ELSE inf
  BY DEF ConsInflate, stack, prodLocals
<1>2. \A r \in Producers : pc'[r] \in Bringing <=> pc[r] \in Bringing
  BY <1>q, <1>1 DEF Goto, Bringing, Procs
<1>3. whole => temp[c].seq = j /\ j \in Parts
  BY DEF Carried, Fits
<1>4. \A k \in Slots : Used(k)' <=> Used(k)
  BY <1>q, <1>1, UsedStays
<1>5. \A i \in Parts : inf'[i] <=> inf[i] \/ (i = j /\ whole)
  BY <1>1, <1>3, <1>q
<1>6. \A d \in Consumers : temp'[d] = IF d = c THEN NoBuf ELSE temp[d]
  BY <1>1, <1>q
<1>7. \A i \in Parts : inf'[i] \in BOOLEAN
  BY <1>1, <1>3, <1>q
<1>8. ASSUME NEW i \in Parts
      PROVE /\ WithProducer(i)' = WithProducer(i) /\ OnStack(i)' = OnStack(i)
            /\ WithConsumer(i)' = WithConsumer(i) \ {c}
            /\ i # j => WithConsumer(i)' = WithConsumer(i)
  <2>1. \A x : x \in OnStack(i)' <=> x \in OnStack(i)
    BY <1>4, <1>1 DEF PlacesMean
  <2>2. \A x : x \in WithConsumer(i)' <=> x \in WithConsumer(i) \ {c}
    <3>1. i # -1 /\ NoBuf.part = -1
      BY SizeAssumption DEF Parts, NoBuf
    <3> QED
      BY <3>1, <1>6 DEF PlacesMean
  <2>3. \A x : x \in WithProducer(i)' <=> x \in WithProducer(i)
    BY <1>1, <1>2 DEF PlacesMean
  <2>4. i # j => c \notin WithConsumer(i)
    BY DEF PlacesMean
  <2> QED
    BY <2>1, <2>2, <2>3, <2>4
<1>9. StayBut(j)
  <2>1. \A i \in Parts \ {j} : inf'[i] = inf[i]
    BY <1>1, <1>3, <1>q
  <2> QED
    BY <1>8, <2>1 DEF StayBut
<1>10. j \in Parts => c \in WithConsumer(j)
  BY DEF PlacesMean
<1> QED
  BY <1>1, <1>3, <1>5, <1>8, <1>9, <1>10

-----------------------------------------------------------------------------
(* The steps that only change what is known of a strip.                    *)
LEMMA StillStep ==
    ASSUME IInv,
           \/ Quiet
           \/ \E p \in Producers : ProdClaim(p) \/ ProdFetch(p) \/ ProdFetchFails(p) \/ ProdPushGrow(p)
           \/ \E c \in Consumers : ConsPopDrop(c)
    PROVE Still
<1>t. pc \in [Procs -> Labels] /\ Producers \cap Consumers = {}
  BY ProcessAssumption DEF IInv, TypeOK, Labels
<1>1. CASE Quiet
  BY <1>1 DEF Quiet, Still
<1>2. ASSUME NEW p \in Producers, NEW from, NEW to, Goto(p, from, to), from \in Bringing, to \in Bringing
      PROVE \A r \in Producers : pc'[r] \in Bringing <=> pc[r] \in Bringing
  BY <1>2, <1>t DEF Goto, Procs
<1>3. ASSUME NEW p \in Producers, ProdClaim(p) \/ ProdFetch(p) \/ ProdFetchFails(p)
      PROVE Still
  <2>1. \E from, to \in Early \cup {"p_empty"} : Goto(p, from, to)
    BY <1>3 DEF ProdClaim, ProdFetch, ProdFetchFails, Early
  <2>2. \A r \in Producers : pc'[r] \in Bringing <=> pc[r] \in Bringing
    BY <2>1, <1>2 DEF Early, Bringing
  <2>3. UNCHANGED <<local_counter, temp, inf, pos, items>>
    BY <1>3 DEF ProdClaim, ProdFetch, ProdFetchFails, prodLocals, consLocals, stack, image
  <2>4. Busy' <=> Busy
    <3>1. \A r \in Procs : pc'[r] \in {"p_store", "c_dec"} <=> pc[r] \in {"p_store", "c_dec"}
      BY <2>1, <1>t DEF Goto, Early
    <3> QED BY <3>1 DEF Busy, At
  <2> QED
    BY <2>2, <2>3, <2>4 DEF Still, Used
<1>4. ASSUME NEW p \in Producers, ProdPushGrow(p) PROVE Still
  <2>1. /\ Goto(p, "p_push", "p_store")
        /\ \A k \in Slots : Used(k)' <=> Used(k)
    BY <1>4, GrowFacts
  <2>2. \A r \in Producers : pc'[r] \in Bringing <=> pc[r] \in Bringing
    BY <2>1, <1>2 DEF Bringing
  <2> QED
    BY <1>4, <2>1, <2>2 DEF Still, ProdPushGrow, prodLocals, consLocals, image
<1>5. ASSUME NEW c \in Consumers, ConsPopDrop(c) PROVE Still
  <2>1. \A k \in Slots : Used(k)' <=> Used(k)
    BY <1>5, DropFacts
  <2>2. \A r \in Producers : pc'[r] \in Bringing <=> pc[r] \in Bringing
    BY <1>5, <1>t DEF ConsPopDrop, Goto, Procs
  <2> QED
    BY <1>5, <2>1, <2>2 DEF Still, ConsPopDrop, prodLocals, consLocals, image
<1> QED
  BY <1>1, <1>3, <1>4, <1>5

LEMMA LonelyBut ==
    ASSUME Lonely, NEW j, StayBut(j),
           j \in Parts => One(WithProducer(j)', OnStack(j)', WithConsumer(j)', inf'[j])
    PROVE Lonely'
<1>1. ASSUME NEW i \in Parts
      PROVE One(WithProducer(i)', OnStack(i)', WithConsumer(i)', inf'[i])
  <2>1. CASE i = j
    BY <2>1
  <2>2. CASE i # j
    <3>1. /\ WithProducer(i)' = WithProducer(i) /\ OnStack(i)' = OnStack(i)
          /\ WithConsumer(i)' = WithConsumer(i) /\ inf'[i] = inf[i]
      BY <2>2 DEF StayBut
    <3>2. One(WithProducer(i), OnStack(i), WithConsumer(i), inf[i])
      BY DEF Lonely
    <3> QED BY <3>1, <3>2
  <2> QED BY <2>1, <2>2
<1> QED
  BY <1>1 DEF Lonely

LEMMA OneMoves ==
    ASSUME NEW W, NEW S, NEW C, NEW b, One(W, S, C, b), NEW x
    PROVE /\ One(W \ {x}, S, C, b)
          /\ x \in W => \A y : One(W \ {x}, S \cup {y}, C, b)
          /\ x \in S => \A y : One(W, S \ {x}, C \cup {y}, b)
          /\ x \in C => One(W, S, C \ {x}, TRUE)
          /\ One(W, S, C \ {x}, b)
<1>1. One(W \ {x}, S, C, b) /\ One(W, S, C \ {x}, b)
  BY DEF One
<1>2. ASSUME x \in W, NEW y PROVE One(W \ {x}, S \cup {y}, C, b)
  <2>1. W \ {x} = {} /\ S = {} /\ C = {} /\ ~b
    BY <1>2 DEF One
  <2> QED BY <2>1 DEF One
<1>3. ASSUME x \in S, NEW y PROVE One(W, S \ {x}, C \cup {y}, b)
  <2>1. S \ {x} = {} /\ W = {} /\ C = {} /\ ~b
    BY <1>3 DEF One
  <2> QED BY <2>1 DEF One
<1>4. ASSUME x \in C PROVE One(W, S, C \ {x}, TRUE)
  <2>1. C \ {x} = {} /\ W = {} /\ S = {}
    BY <1>4 DEF One
  <2> QED BY <2>1 DEF One
<1> QED
  BY <1>1, <1>2, <1>3, <1>4

(* No step puts a strip in a second place.                                 *)
LEMMA LonelyStep ==
    ASSUME IInv, PlacesMean, PlacesMean', Lonely, Fresh, Carried, Idle, [Next]_vars
    PROVE Lonely'
<1>l. ASSUME NEW j \in Parts PROVE One(WithProducer(j), OnStack(j), WithConsumer(j), inf[j])
  BY DEF Lonely
<1>s. CASE Still
  <2>1. StripsStay
    BY <1>s, StillStays
  <2>2. StayBut(-1)
    BY <2>1 DEF StripsStay, StayBut
  <2>3. -1 \notin Parts
    BY SizeAssumption DEF Parts
  <2> QED BY <2>2, <2>3, LonelyBut
<1>1. ASSUME NEW p \in Producers, ProdRead(p), NEW j, j = counter_p PROVE Lonely'
  <2>1. /\ StayBut(j) /\ j \in Parts
        /\ WithProducer(j)' = {p} /\ OnStack(j)' = {} /\ WithConsumer(j)' = {} /\ ~inf'[j]
    BY <1>1, ReadMoves
  <2>2. One(WithProducer(j)', OnStack(j)', WithConsumer(j)', inf'[j])
    BY <2>1 DEF One
  <2> QED
    BY <2>1, <2>2, LonelyBut
<1>2. ASSUME NEW p \in Producers, ProdDies(p), NEW j, j = local_counter[p] PROVE Lonely'
  <2>1. /\ StayBut(j) /\ j \in Parts
        /\ WithProducer(j)' = WithProducer(j) \ {p} /\ OnStack(j)' = OnStack(j)
        /\ WithConsumer(j)' = WithConsumer(j) /\ inf'[j] = inf[j]
    BY <1>2, DieMoves
  <2>2. ASSUME j \in Parts PROVE One(WithProducer(j)', OnStack(j)', WithConsumer(j)', inf'[j])
    <3>1. One(WithProducer(j) \ {p}, OnStack(j), WithConsumer(j), inf[j])
      BY <2>1, <2>2, <1>l, OneMoves
    <3> QED
      BY <2>1, <2>2, <3>1
  <2> QED
    BY <2>1, <2>2, LonelyBut
<1>3. ASSUME NEW p \in Producers, ProdPushStore(p), NEW j, j = local_counter[p] PROVE Lonely'
  <2>1. /\ StayBut(j) /\ j \in Parts /\ p \in WithProducer(j)
        /\ WithProducer(j)' = WithProducer(j) \ {p} /\ OnStack(j)' = OnStack(j) \cup {pos}
        /\ WithConsumer(j)' = WithConsumer(j) /\ inf'[j] = inf[j]
    BY <1>3, StoreMoves
  <2>2. ASSUME j \in Parts PROVE One(WithProducer(j)', OnStack(j)', WithConsumer(j)', inf'[j])
    <3>1. One(WithProducer(j) \ {p}, OnStack(j) \cup {pos}, WithConsumer(j), inf[j])
      BY <2>1, <2>2, <1>l, OneMoves
    <3> QED
      BY <2>1, <2>2, <3>1
  <2> QED
    BY <2>1, <2>2, LonelyBut
<1>4. ASSUME NEW c \in Consumers, ConsPopRead(c), NEW j, j = items[pos].part PROVE Lonely'
  <2>1. /\ StayBut(j)
        /\ j \in Parts =>
                /\ pos \in OnStack(j)
                /\ WithProducer(j)' = WithProducer(j) /\ OnStack(j)' = OnStack(j) \ {pos}
                /\ WithConsumer(j)' = WithConsumer(j) \cup {c} /\ inf'[j] = inf[j]
    BY <1>4, PopMoves
  <2>2. ASSUME j \in Parts PROVE One(WithProducer(j)', OnStack(j)', WithConsumer(j)', inf'[j])
    <3>1. One(WithProducer(j), OnStack(j) \ {pos}, WithConsumer(j) \cup {c}, inf[j])
      BY <2>1, <2>2, <1>l, OneMoves
    <3> QED
      BY <2>1, <2>2, <3>1
  <2> QED
    BY <2>1, <2>2, LonelyBut
<1>5. ASSUME NEW c \in Consumers, ConsInflate(c), NEW j, j = temp[c].part,
             NEW whole, whole = (temp[c].got = "whole")
      PROVE Lonely'
  <2>1. /\ StayBut(j)
        /\ j \in Parts =>
                /\ c \in WithConsumer(j)
                /\ WithProducer(j)' = WithProducer(j) /\ OnStack(j)' = OnStack(j)
                /\ WithConsumer(j)' = WithConsumer(j) \ {c} /\ (inf'[j] <=> inf[j] \/ whole)
    BY <1>5, InflateMoves
  <2>2. ASSUME j \in Parts PROVE One(WithProducer(j)', OnStack(j)', WithConsumer(j)', inf'[j])
    <3>1. /\ One(WithProducer(j), OnStack(j), WithConsumer(j) \ {c}, TRUE)
          /\ One(WithProducer(j), OnStack(j), WithConsumer(j) \ {c}, inf[j])
      BY <2>1, <2>2, <1>l, OneMoves
    <3> QED
      BY <2>1, <2>2, <3>1 DEF One
  <2> QED
    BY <2>1, <2>2, LonelyBut
<1> QED
  BY <1>s, <1>1, <1>2, <1>3, <1>4, <1>5, StillStep, StepCases, QuietStep

-----------------------------------------------------------------------------
(* No strip is anywhere before a producer has claimed it.                  *)
LEMMA FreshStep ==
    ASSUME IInv, PlacesMean, Fresh, Carried, Idle, [Next]_vars
    PROVE Fresh'
<1>t. /\ pc \in [Procs -> Labels] /\ local_counter \in [Producers -> Parts]
      /\ counter_p \in Nat /\ items \in [Slots -> Bufs] /\ temp \in [Consumers -> Bufs]
      /\ Producers \cap Consumers = {}
  BY ProcessAssumption DEF IInv, TypeOK, Labels
<1>f. /\ \A p \in Producers : pc[p] \in Bringing \ {"p_incr"} => local_counter[p] < counter_p
      /\ \A k \in Slots : Used(k) => items[k].part < counter_p
      /\ \A c \in Consumers : temp[c].part < counter_p
      /\ \A i \in Parts : inf[i] => i < counter_p
  BY DEF Fresh
<1>0. CASE Quiet
  BY <1>0, <1>f DEF Quiet, Fresh
<1>1. ASSUME NEW p \in Producers, ProdRead(p) PROVE Fresh'
  <2>1. /\ Goto(p, "p_test", "p_incr") /\ UNCHANGED <<counter_p, pos, items, temp, inf>>
        /\ local_counter' = [local_counter EXCEPT ![p] = counter_p]
    BY <1>1 DEF ProdRead, stack, consLocals, image
  <2>2. \A k \in Slots : Used(k)' <=> Used(k)
    BY <2>1, UsedStays DEF Procs
  <2>3. ASSUME NEW r \in Producers, pc'[r] \in Bringing \ {"p_incr"}
        PROVE local_counter'[r] < counter_p'
    BY <2>1, <2>3, <1>f, <1>t DEF Goto, Procs
  <2> QED
    BY <2>1, <2>2, <2>3, <1>f DEF Fresh
<1>2. ASSUME NEW p \in Producers, ProdClaim(p) PROVE Fresh'
  <2>1. /\ Goto(p, "p_incr", "p_fetch") /\ UNCHANGED <<pos, items, temp, inf, local_counter>>
        /\ counter_p' = counter_p + 1
    BY <1>2 DEF ProdClaim, stack, consLocals, prodLocals, image
  <2>2. \A k \in Slots : Used(k)' <=> Used(k)
    BY <2>1, UsedStays DEF Procs
  <2>3. local_counter[p] = counter_p
    BY <2>1 DEF IInv, ClaimBound, Goto
  <2>4. ASSUME NEW r \in Producers, pc'[r] \in Bringing \ {"p_incr"}
        PROVE local_counter'[r] < counter_p'
    <3>1. local_counter[r] \in Int
      BY <1>t DEF Parts
    <3> QED BY <2>1, <2>3, <2>4, <3>1, <1>f, <1>t DEF Goto, Procs
  <2>5. \A x \in Int : x < counter_p => x < counter_p'
    BY <2>1, <1>t
  <2>6. \A b \in Bufs : b.part \in Int
    BY DEF Bufs, Buf, NoBuf, Parts
  <2>7. \A i \in Parts : i \in Int
    BY DEF Parts
  <2> QED
    BY <2>1, <2>2, <2>4, <2>5, <2>6, <2>7, <1>f, <1>t DEF Fresh
<1>3. ASSUME NEW p \in Producers, ProdFetch(p) \/ ProdFetchFails(p) PROVE Fresh'
  <2>1. /\ Goto(p, "p_fetch", "p_empty")
        /\ UNCHANGED <<counter_p, pos, items, temp, inf, local_counter>>
    BY <1>3 DEF ProdFetch, ProdFetchFails, stack, consLocals, image
  <2>2. \A k \in Slots : Used(k)' <=> Used(k)
    BY <2>1, UsedStays DEF Procs
  <2>3. \A r \in Producers : pc'[r] \in Bringing \ {"p_incr"} => pc[r] \in Bringing \ {"p_incr"}
    BY <2>1, <1>t DEF Goto, Procs, Bringing
  <2> QED
    BY <2>1, <2>2, <2>3, <1>f DEF Fresh
<1>4. ASSUME NEW p \in Producers, ProdDies(p) PROVE Fresh'
  <2>1. /\ Goto(p, "p_fetch", "done")
        /\ UNCHANGED <<counter_p, pos, items, temp, inf, local_counter>>
    BY <1>4 DEF ProdDies, stack, consLocals, prodLocals, image
  <2>2. \A k \in Slots : Used(k)' <=> Used(k)
    BY <2>1, UsedStays DEF Procs
  <2>3. \A r \in Producers : pc'[r] \in Bringing \ {"p_incr"} => pc[r] \in Bringing \ {"p_incr"}
    BY <2>1, <1>t DEF Goto, Procs, Bringing
  <2> QED
    BY <2>1, <2>2, <2>3, <1>f DEF Fresh
<1>5. ASSUME NEW p \in Producers, ProdPushGrow(p) PROVE Fresh'
  <2>1. /\ Goto(p, "p_push", "p_store") /\ \A k \in Slots : Used(k)' <=> Used(k)
    BY <1>5, GrowFacts
  <2>2. UNCHANGED <<counter_p, items, temp, inf, local_counter>>
    BY <1>5 DEF ProdPushGrow, consLocals, prodLocals, image
  <2>3. \A r \in Producers : pc'[r] \in Bringing \ {"p_incr"} => pc[r] \in Bringing \ {"p_incr"}
    BY <2>1, <1>t DEF Goto, Procs, Bringing
  <2> QED
    BY <2>1, <2>2, <2>3, <1>f DEF Fresh
<1>6. ASSUME NEW p \in Producers, ProdPushStore(p) PROVE Fresh'
  <2>1. /\ Goto(p, "p_store", "p_unbuf") /\ UNCHANGED <<counter_p, pos, temp, inf, local_counter>>
        /\ items' = [items EXCEPT ![pos] = p_recv_buf[p]]
    BY <1>6 DEF ProdPushStore, consLocals, prodLocals, image
  <2>2. pos \in Slots /\ \A k \in Slots \ {pos} : Used(k)' <=> Used(k)
    BY <1>6, StoreFacts
  <2>3. p_recv_buf[p].part < counter_p
    BY <2>1, <1>f DEF Carried, Carrying, Bringing, Goto
  <2>4. \A r \in Producers : pc'[r] \in Bringing \ {"p_incr"} => pc[r] \in Bringing \ {"p_incr"}
    BY <2>1, <1>t DEF Goto, Procs, Bringing
  <2>5. \A k \in Slots : items'[k] = IF k = pos THEN p_recv_buf[p] ELSE items[k]
    BY <2>1, <1>t
  <2> QED
    BY <2>1, <2>2, <2>3, <2>4, <2>5, <1>f DEF Fresh
<1>7. ASSUME NEW c \in Consumers, ConsPopRead(c) PROVE Fresh'
  <2>1. /\ Goto(c, "c_pop", "c_dec") /\ temp' = [temp EXCEPT ![c] = items[pos]]
        /\ pos \in Slots /\ Used(pos) /\ ~Used(pos)'
        /\ \A k \in Slots \ {pos} : Used(k)' <=> Used(k)
    BY <1>7, PopFacts
  <2>2. UNCHANGED <<counter_p, pos, items, inf, local_counter>>
    BY <1>7 DEF ConsPopRead, prodLocals, stack, image
  <2>3. \A k \in Slots : Used(k)' => Used(k)
    BY <2>1
  <2>4. \A d \in Consumers : temp'[d].part < counter_p
    BY <2>1, <1>f, <1>t
  <2>5. \A r \in Producers : pc'[r] = pc[r]
    BY <2>1, <1>t DEF Goto, Procs
  <2> QED
    BY <2>2, <2>3, <2>4, <2>5, <1>f DEF Fresh
<1>8. ASSUME NEW c \in Consumers, ConsPopDrop(c) PROVE Fresh'
  <2>1. \A k \in Slots : Used(k)' <=> Used(k)
    BY <1>8, DropFacts
  <2>2. UNCHANGED <<counter_p, items, temp, inf, local_counter>>
    BY <1>8 DEF ConsPopDrop, prodLocals, consLocals, image
  <2>3. \A r \in Producers : pc'[r] = pc[r]
    BY <1>8, <1>t DEF ConsPopDrop, Goto, Procs
  <2> QED
    BY <2>1, <2>2, <2>3, <1>f DEF Fresh
<1>9. ASSUME NEW c \in Consumers, ConsInflate(c) PROVE Fresh'
  <2>1. /\ Goto(c, "c_inf", "c_lock") /\ UNCHANGED <<counter_p, pos, items, local_counter>>
        /\ temp' = [temp EXCEPT ![c] = NoBuf]
        /\ inf' = IF temp[c].got = "whole" THEN [inf EXCEPT ![temp[c].seq] = TRUE] ELSE inf
    BY <1>9 DEF ConsInflate, prodLocals, stack
  <2>2. \A k \in Slots : Used(k)' <=> Used(k)
    BY <2>1, UsedStays DEF Procs
  <2>3. \A r \in Producers : pc'[r] = pc[r]
    BY <2>1, <1>t DEF Goto, Procs
  <2>4. \A d \in Consumers : temp'[d].part < counter_p
    <3>1. NoBuf.part < counter_p
      BY <1>t DEF NoBuf
    <3> QED BY <2>1, <3>1, <1>f, <1>t
  <2>5. \A i \in Parts : inf'[i] => i < counter_p
    <3>1. temp[c].got = "whole" => temp[c].seq < counter_p
      BY <1>f DEF Carried, Fits
    <3>2. inf \in [Parts -> BOOLEAN]
      BY DEF IInv, TypeOK
    <3> QED BY <2>1, <3>1, <3>2, <1>f
  <2> QED
    BY <2>1, <2>2, <2>3, <2>4, <2>5, <1>f DEF Fresh
<1> QED
  BY <1>0, <1>1, <1>2, <1>3, <1>4, <1>5, <1>6, <1>7, <1>8, <1>9, StepCases, QuietStep

(* A strip keeps its buffer.                                               *)
LEMMA CarriedStep ==
    ASSUME IInv, Carried, [Next]_vars
    PROVE Carried'
<1>t. /\ pc \in [Procs -> Labels] /\ local_counter \in [Producers -> Parts]
      /\ items \in [Slots -> Bufs] /\ temp \in [Consumers -> Bufs] /\ p_recv_buf \in [Producers -> Bufs]
      /\ Producers \cap Consumers = {}
  BY ProcessAssumption DEF IInv, TypeOK, Labels
<1>f. /\ \A p \in Producers : pc[p] \in Carrying => p_recv_buf[p].part = local_counter[p]
      /\ \A p \in Producers : Fits(p_recv_buf[p])
      /\ \A k \in Slots : Fits(items[k])
      /\ \A c \in Consumers : Fits(temp[c])
  BY DEF Carried
<1>n. Fits(NoBuf)
  BY DEF Fits, NoBuf
<1>0. CASE Quiet
  <2>1. \A p \in Producers : pc'[p] \in Carrying => pc[p] \in Carrying /\ p_recv_buf'[p] = p_recv_buf[p]
    BY <1>0 DEF Quiet, Carrying, Bringing
  <2>2. \A p \in Producers : Fits(p_recv_buf'[p])
    BY <1>0, <1>n, <1>f DEF Quiet
  <2>3. UNCHANGED <<local_counter, items, temp>>
    BY <1>0 DEF Quiet
  <2> QED
    BY <2>1, <2>2, <2>3, <1>f DEF Carried
<1>1. ASSUME NEW p \in Producers, ProdRead(p) \/ ProdClaim(p) \/ ProdDies(p) PROVE Carried'
  <2>1. /\ \A r \in Producers : pc'[r] \in Carrying => pc[r] \in Carrying /\ r # p
        /\ UNCHANGED <<items, temp, p_recv_buf>>
        /\ \A r \in Producers \ {p} : local_counter'[r] = local_counter[r]
    BY <1>1, <1>t DEF ProdRead, ProdClaim, ProdDies, Goto, Procs, Carrying, stack, consLocals, prodLocals
  <2> QED
    BY <2>1, <1>f DEF Carried
<1>2. ASSUME NEW p \in Producers, ProdFetch(p) \/ ProdFetchFails(p) PROVE Carried'
  <2>1. PICK b \in Broken(local_counter[p]) \cup {Received(local_counter[p])} :
           /\ Goto(p, "p_fetch", "p_empty") /\ UNCHANGED <<items, temp, local_counter>>
           /\ p_recv_buf' = [p_recv_buf EXCEPT ![p] = b]
    BY <1>2 DEF ProdFetch, ProdFetchFails, stack, consLocals
  <2>2. b.part = local_counter[p] /\ Fits(b)
    BY <1>t DEF Broken, Received, Fits
  <2>3. \A r \in Producers : p_recv_buf'[r] = IF r = p THEN b ELSE p_recv_buf[r]
    BY <2>1, <1>t
  <2>4. \A r \in Producers : pc'[r] \in Carrying => pc[r] \in Carrying \/ r = p
    BY <2>1, <1>t DEF Goto, Procs
  <2> QED
    BY <2>1, <2>2, <2>3, <2>4, <1>f DEF Carried
<1>3. ASSUME NEW p \in Producers, ProdPushGrow(p) PROVE Carried'
  <2>1. Goto(p, "p_push", "p_store")
    BY <1>3, GrowFacts
  <2>2. \A r \in Producers : pc'[r] \in Carrying <=> pc[r] \in Carrying
    BY <2>1, <1>t DEF Goto, Procs, Carrying
  <2>3. UNCHANGED <<items, temp, local_counter, p_recv_buf>>
    BY <1>3 DEF ProdPushGrow, consLocals, prodLocals
  <2> QED
    BY <2>2, <2>3, <1>f DEF Carried
<1>4. ASSUME NEW p \in Producers, ProdPushStore(p) PROVE Carried'
  <2>1. /\ Goto(p, "p_store", "p_unbuf") /\ UNCHANGED <<temp, local_counter, p_recv_buf>>
        /\ items' = [items EXCEPT ![pos] = p_recv_buf[p]]
    BY <1>4 DEF ProdPushStore, consLocals, prodLocals
  <2>2. \A r \in Producers : pc'[r] \in Carrying => pc[r] \in Carrying
    BY <2>1, <1>t DEF Goto, Procs, Carrying
  <2>3. \A k \in Slots : items'[k] \in {p_recv_buf[p], items[k]}
    BY <2>1, <1>t
  <2>4. \A k \in Slots : Fits(items'[k])
    BY <2>3, <1>f
  <2> QED
    BY <2>1, <2>2, <2>4, <1>f DEF Carried
<1>5. ASSUME NEW c \in Consumers, ConsPopRead(c) \/ ConsPopDrop(c) \/ ConsInflate(c) PROVE Carried'
  <2>1. /\ \A r \in Producers : pc'[r] = pc[r]
        /\ UNCHANGED <<items, local_counter, p_recv_buf>>
    BY <1>5, <1>t DEF ConsPopRead, ConsPopDrop, ConsInflate, Goto, Procs, prodLocals, stack
  <2>2. \A d \in Consumers : Fits(temp'[d])
    <3>1. CASE ConsPopRead(c)
      <4>1. temp' = [temp EXCEPT ![c] = items[pos]] /\ pos \in Slots
        BY <3>1, PopFacts
      <4>2. \A d \in Consumers : temp'[d] \in {temp[d], items[pos]}
        BY <4>1, <1>t
      <4> QED BY <4>1, <4>2, <1>f
    <3>2. CASE ConsPopDrop(c) \/ ConsInflate(c)
      <4>1. \A d \in Consumers : temp'[d] \in {temp[d], NoBuf}
        BY <3>2, <1>t DEF ConsPopDrop, ConsInflate, consLocals
      <4> QED BY <4>1, <1>f, <1>n
    <3> QED BY <1>5, <3>1, <3>2
  <2> QED
    BY <2>1, <2>2, <1>f DEF Carried
<1> QED
  BY <1>0, <1>1, <1>2, <1>3, <1>4, <1>5, StepCases, QuietStep

-----------------------------------------------------------------------------
(* What is in the place of a strip is whole, or may become it.             *)
Hale(p) == pc[p] \in Early \/ p_recv_buf[p].got = "whole"

LEMMA SoundBut ==
    ASSUME PlacesMean, NEW j, StayBut(j),
           \A p \in Producers : pc[p] \in Bringing /\ local_counter[p] # j /\ Hale(p) => Hale(p)',
           \A k \in Slots : Used(k) /\ items[k].part # j => items'[k].got = items[k].got,
           \A c \in Consumers : temp[c].part # -1 /\ temp[c].part # j => temp'[c].got = temp[c].got
    PROVE \A i \in Parts \ {j} : Sound(i) => Sound(i)'
<1> SUFFICES ASSUME NEW i \in Parts \ {j}, Sound(i) PROVE Sound(i)'
  OBVIOUS
<1>1. /\ WithProducer(i)' = WithProducer(i) /\ OnStack(i)' = OnStack(i)
      /\ WithConsumer(i)' = WithConsumer(i) /\ inf'[i] = inf[i]
  BY DEF StayBut
<1>2. CASE \E p \in WithProducer(i) : Hale(p)
  <2>1. PICK p \in WithProducer(i) : Hale(p)
    BY <1>2
  <2>2. p \in Producers /\ pc[p] \in Bringing /\ local_counter[p] = i
    BY <2>1 DEF PlacesMean
  <2>3. p \in WithProducer(i)' /\ Hale(p)'
    BY <2>1, <2>2, <1>1
  <2> QED BY <2>3 DEF Sound, Hale
<1>3. CASE \E k \in OnStack(i) : items[k].got = "whole"
  <2>1. PICK k \in OnStack(i) : items[k].got = "whole"
    BY <1>3
  <2>2. k \in Slots /\ Used(k) /\ items[k].part = i
    BY <2>1 DEF PlacesMean
  <2>3. k \in OnStack(i)' /\ items'[k].got = "whole"
    BY <2>1, <2>2, <1>1
  <2> QED BY <2>3 DEF Sound
<1>4. CASE \E c \in WithConsumer(i) : temp[c].got = "whole"
  <2>1. PICK c \in WithConsumer(i) : temp[c].got = "whole"
    BY <1>4
  <2>2. c \in Consumers /\ temp[c].part = i /\ i # -1
    BY <2>1, SizeAssumption DEF PlacesMean, Parts
  <2>3. c \in WithConsumer(i)' /\ temp'[c].got = "whole"
    BY <2>1, <2>2, <1>1
  <2> QED BY <2>3 DEF Sound
<1>5. CASE inf[i]
  BY <1>5, <1>1 DEF Sound
<1> QED
  BY <1>2, <1>3, <1>4, <1>5 DEF Sound, Hale

(* The losses are finitely many, and a step adds one to them only if it    *)
(* also counts a failed transfer or a lost child.                          *)
LEMMA LossesFinite ==
    ASSUME IInv PROVE IsFiniteSet(Losses) /\ Cardinality(Losses) \in Nat
<1>1. IsFiniteSet(0 .. counter_p - 1)
  BY FS_Interval, SizeAssumption DEF IInv, TypeOK
<1>2. Losses \subseteq 0 .. counter_p - 1
  BY DEF Losses
<1> QED
  BY <1>1, <1>2, FS_Subset, FS_CardinalityType

LEMMA NoNewLoss ==
    ASSUME IInv, LossBound, Losses' \subseteq Losses, UNCHANGED faults
    PROVE LossBound'
<1>1. Cardinality(Losses') <= Cardinality(Losses) /\ Cardinality(Losses') \in Nat
  BY LossesFinite, FS_Subset, FS_CardinalityType
<1>2. failures \in Nat /\ deaths \in Nat /\ Cardinality(Losses) \in Nat
  BY LossesFinite, BoundAssumption DEF IInv, TypeOK
<1> QED
  BY <1>1, <1>2 DEF LossBound, faults

LEMMA OneNewLoss ==
    ASSUME IInv, LossBound, NEW j, Losses' \subseteq Losses \cup {j},
           failures' + deaths' = failures + deaths + 1
    PROVE LossBound'
<1>1. IsFiniteSet(Losses \cup {j}) /\ Cardinality(Losses \cup {j}) <= Cardinality(Losses) + 1
  BY LossesFinite, FS_AddElement
<1>2. Cardinality(Losses \cup {j}) \in Nat /\ Cardinality(Losses) \in Nat
  BY <1>1, LossesFinite, FS_CardinalityType
<1>3. Cardinality(Losses') <= Cardinality(Losses \cup {j}) /\ Cardinality(Losses') \in Nat
  BY <1>1, FS_Subset, FS_CardinalityType
<1>4. failures \in Nat /\ deaths \in Nat
  BY BoundAssumption DEF IInv, TypeOK
<1>5. Cardinality(Losses) <= failures + deaths
  BY DEF LossBound
<1>6. Cardinality(Losses') <= failures' + deaths'
  BY <1>1, <1>2, <1>3, <1>4, <1>5
<1> QED
  BY <1>6 DEF LossBound

LEMMA LossStep ==
    ASSUME IInv, PlacesMean, PlacesMean', Lonely, Fresh, Carried, Idle, LossBound, [Next]_vars
    PROVE LossBound'
<1>t. /\ pc \in [Procs -> Labels] /\ local_counter \in [Producers -> Parts]
      /\ counter_p \in 0 .. NumParts /\ items \in [Slots -> Bufs] /\ temp \in [Consumers -> Bufs]
      /\ p_recv_buf \in [Producers -> Bufs] /\ NumParts \in Nat
      /\ Producers \cap Consumers = {}
  BY ProcessAssumption, SizeAssumption DEF IInv, TypeOK, Labels
<1>m. -1 \notin Parts
  BY SizeAssumption DEF Parts
<1>r. \A i \in 0 .. counter_p - 1 : i \in Parts
  BY <1>t DEF Parts
<1>s. ASSUME Still,
             \A p \in Producers : pc[p] \in Bringing /\ Hale(p) => Hale(p)',
             \A k \in Slots : Used(k) => items'[k].got = items[k].got
      PROVE \A i \in Parts : Sound(i) => Sound(i)'
  <2>1. StripsStay /\ temp' = temp
    BY <1>s, StillStays DEF Still
  <2>2. StayBut(-1)
    BY <2>1 DEF StripsStay, StayBut
  <2>3. \A i \in Parts \ {-1} : Sound(i) => Sound(i)'
    BY <1>s, <2>1, <2>2, SoundBut
  <2> QED BY <2>3, <1>m
<1>k. ASSUME counter_p' = counter_p, NEW j, \A i \in Parts \ {j} : Sound(i) => Sound(i)'
      PROVE Losses' \subseteq Losses \cup {j}
  BY <1>k, <1>r DEF Losses
<1>l. ASSUME counter_p' = counter_p, \A i \in Parts : Sound(i) => Sound(i)'
      PROVE Losses' \subseteq Losses
  BY <1>l, <1>r DEF Losses
<1>0. CASE Quiet
  <2>1. Still /\ counter_p' = counter_p /\ UNCHANGED faults
    BY <1>0, StillStep DEF Quiet, faults
  <2>2. /\ \A p \in Producers : pc[p] \in Bringing /\ Hale(p) => Hale(p)'
        /\ \A k \in Slots : Used(k) => items'[k].got = items[k].got
    BY <1>0 DEF Quiet, Hale
  <2> QED
    BY <2>1, <2>2, <1>s, <1>l, NoNewLoss
<1>1. ASSUME NEW p \in Producers, ProdRead(p), NEW j, j = counter_p PROVE LossBound'
  <2>1. StayBut(j)
    BY <1>1, ReadMoves
  <2>2. /\ Goto(p, "p_test", "p_incr") /\ UNCHANGED <<p_recv_buf, items, temp, counter_p, faults>>
    BY <1>1 DEF ProdRead, stack, consLocals
  <2>3. \A r \in Producers : pc[r] \in Bringing /\ Hale(r) => Hale(r)'
    BY <2>2, <1>t DEF Hale, Goto, Bringing, Early, Procs
  <2>4. \A i \in Parts \ {j} : Sound(i) => Sound(i)'
    BY <2>1, <2>2, <2>3, SoundBut
  <2>5. \A i \in 0 .. counter_p - 1 : i \in Parts \ {j}
    BY <1>1, <1>t, <1>r
  <2>6. Losses' \subseteq Losses
    BY <2>2, <2>4, <2>5 DEF Losses
  <2> QED
    BY <2>2, <2>6, NoNewLoss
<1>2. ASSUME NEW p \in Producers, ProdClaim(p), NEW j, j = counter_p PROVE LossBound'
  <2>1. /\ Goto(p, "p_incr", "p_fetch") /\ counter_p' = counter_p + 1
        /\ UNCHANGED <<p_recv_buf, items, temp, local_counter, faults>>
    BY <1>2 DEF ProdClaim, stack, consLocals, prodLocals
  <2>2. Still
    BY <1>2, StillStep
  <2>3. \A r \in Producers : pc[r] \in Bringing /\ Hale(r) => Hale(r)'
    BY <2>1, <1>t DEF Hale, Goto, Bringing, Early, Procs
  <2>4. \A i \in Parts : Sound(i) => Sound(i)'
    BY <2>1, <2>2, <2>3, <1>s
  <2>5. local_counter[p] = j /\ j \in Parts
    BY <1>2, <2>1, <1>t DEF IInv, ClaimBound, Goto, Parts
  <2>6. p \in WithProducer(j)' /\ pc'[p] \in Early
    BY <2>1, <2>5, <1>t DEF PlacesMean, Goto, Bringing, Early, Procs
  <2>7. Sound(j)'
    BY <2>6 DEF Sound
  <2>8. \A i \in 0 .. counter_p' - 1 : i = j \/ i \in 0 .. counter_p - 1
    BY <1>2, <2>1, <1>t
  <2>9. Losses' \subseteq Losses
    BY <2>4, <2>7, <2>8, <1>r DEF Losses
  <2> QED
    BY <2>1, <2>9, NoNewLoss
<1>3. ASSUME NEW p \in Producers, ProdFetch(p) PROVE LossBound'
  <2>1. /\ Goto(p, "p_fetch", "p_empty") /\ UNCHANGED <<items, temp, counter_p, faults>>
        /\ p_recv_buf' = [p_recv_buf EXCEPT ![p] = Received(local_counter[p])]
    BY <1>3 DEF ProdFetch, stack, consLocals
  <2>2. Still
    BY <1>3, StillStep
  <2>3. p_recv_buf'[p].got = "whole" /\ \A r \in Producers \ {p} : Hale(r) => Hale(r)'
    BY <2>1, <1>t DEF Hale, Goto, Procs, Received
  <2>4. \A r \in Producers : pc[r] \in Bringing /\ Hale(r) => Hale(r)'
    BY <2>3 DEF Hale
  <2> QED
    BY <2>1, <2>2, <2>4, <1>s, <1>l, NoNewLoss
<1>4. ASSUME NEW p \in Producers, ProdFetchFails(p), NEW j, j = local_counter[p] PROVE LossBound'
  <2>1. PICK b \in Broken(local_counter[p]) :
           /\ Goto(p, "p_fetch", "p_empty") /\ UNCHANGED <<items, temp, counter_p, deaths, local_counter>>
           /\ p_recv_buf' = [p_recv_buf EXCEPT ![p] = b] /\ failures' = failures + 1
    BY <1>4 DEF ProdFetchFails, stack, consLocals
  <2>2. Still
    BY <1>4, StillStep
  <2>3. StayBut(j)
    BY <2>2, StillStays DEF StripsStay, StayBut
  <2>4. \A r \in Producers \ {p} : Hale(r) => Hale(r)'
    BY <2>1, <1>t DEF Hale, Goto, Procs
  <2>5. \A i \in Parts \ {j} : Sound(i) => Sound(i)'
    BY <2>1, <2>3, <2>4, <1>4, SoundBut
  <2>6. failures' + deaths' = failures + deaths + 1
    BY <2>1, BoundAssumption DEF IInv, TypeOK
  <2>7. Losses' \subseteq Losses \cup {j}
    BY <2>1, <2>5, <1>k
  <2> QED
    BY <2>6, <2>7, OneNewLoss
<1>5. ASSUME NEW p \in Producers, ProdDies(p), NEW j, j = local_counter[p] PROVE LossBound'
  <2>1. /\ Goto(p, "p_fetch", "done") /\ UNCHANGED <<items, temp, counter_p, failures, p_recv_buf>>
        /\ deaths' = deaths + 1
    BY <1>5 DEF ProdDies, stack, consLocals, prodLocals
  <2>3. StayBut(j)
    BY <1>5, DieMoves
  <2>4. \A r \in Producers \ {p} : Hale(r) => Hale(r)'
    BY <2>1, <1>t DEF Hale, Goto, Procs
  <2>5. \A i \in Parts \ {j} : Sound(i) => Sound(i)'
    BY <2>1, <2>3, <2>4, <1>5, SoundBut
  <2>6. failures' + deaths' = failures + deaths + 1
    BY <2>1, BoundAssumption DEF IInv, TypeOK
  <2>7. Losses' \subseteq Losses \cup {j}
    BY <2>1, <2>5, <1>k
  <2> QED
    BY <2>6, <2>7, OneNewLoss
<1>6. ASSUME NEW p \in Producers, ProdPushGrow(p) PROVE LossBound'
  <2>1. /\ Goto(p, "p_push", "p_store") /\ UNCHANGED <<items, temp, counter_p, faults, p_recv_buf>>
    BY <1>6, GrowFacts DEF ProdPushGrow, consLocals, prodLocals
  <2>2. Still
    BY <1>6, StillStep
  <2>3. \A r \in Producers : pc[r] \in Bringing /\ Hale(r) => Hale(r)'
    BY <2>1, <1>t DEF Hale, Goto, Early, Procs
  <2> QED
    BY <2>1, <2>2, <2>3, <1>s, <1>l, NoNewLoss
<1>7. ASSUME NEW p \in Producers, ProdPushStore(p), NEW j, j = local_counter[p] PROVE LossBound'
  <2>1. /\ Goto(p, "p_store", "p_unbuf") /\ UNCHANGED <<temp, counter_p, faults, p_recv_buf>>
    BY <1>7 DEF ProdPushStore, consLocals, prodLocals
  <2>2. /\ StayBut(j) /\ j \in Parts /\ p \in WithProducer(j)
        /\ OnStack(j)' = OnStack(j) \cup {pos}
        /\ pos \in Slots /\ items' = [items EXCEPT ![pos] = p_recv_buf[p]]
    BY <1>7, StoreMoves
  <2>3. \A r \in Producers \ {p} : Hale(r) => Hale(r)'
    BY <2>1, <1>t DEF Hale, Goto, Procs
  <2>4. ~Used(pos)
    BY <1>7, StoreFacts
  <2>5. \A k \in Slots : Used(k) => items'[k].got = items[k].got
    BY <2>2, <2>4, <1>t
  <2>6. \A i \in Parts \ {j} : Sound(i) => Sound(i)'
    BY <2>1, <2>2, <2>3, <2>5, <1>7, SoundBut
  <2>7. Sound(j) => Sound(j)'
    <3>1. /\ \A q \in WithProducer(j) : q = p
          /\ OnStack(j) = {} /\ WithConsumer(j) = {} /\ ~inf[j]
      BY <2>2 DEF Lonely, One
    <3>2. pc[p] \notin Early
      BY <2>1 DEF Goto, Early
    <3>3. Sound(j) => p_recv_buf[p].got = "whole"
      BY <3>1, <3>2 DEF Sound
    <3>4. items'[pos] = p_recv_buf[p]
      BY <2>2, <1>t
    <3> QED
      BY <3>3, <3>4, <2>2 DEF Sound
  <2>8. \A i \in Parts : Sound(i) => Sound(i)'
    BY <2>6, <2>7
  <2> QED
    BY <2>1, <2>8, <1>l, NoNewLoss
<1>8. ASSUME NEW c \in Consumers, ConsPopRead(c), NEW j, j = items[pos].part PROVE LossBound'
  <2>1. UNCHANGED <<items, counter_p, faults, p_recv_buf>>
    BY <1>8 DEF ConsPopRead, prodLocals, stack
  <2>2. /\ StayBut(j) /\ pos \in Slots /\ temp' = [temp EXCEPT ![c] = items[pos]]
        /\ j \in Parts => pos \in OnStack(j) /\ WithConsumer(j)' = WithConsumer(j) \cup {c}
    BY <1>8, PopMoves
  <2>3. Goto(c, "c_pop", "c_dec")
    BY <1>8, PopFacts
  <2>4. \A r \in Producers : Hale(r) => Hale(r)'
    BY <2>1, <2>3, <1>t DEF Hale, Goto, Procs
  <2>5. \A d \in Consumers : temp[d].part # -1 => temp'[d] = temp[d]
    <3>1. temp[c].part = -1
      BY <2>3 DEF Idle, Waiting, Goto, NoBuf
    <3> QED BY <3>1, <2>2, <1>t
  <2>6. \A i \in Parts \ {j} : Sound(i) => Sound(i)'
    BY <2>1, <2>2, <2>4, <2>5, SoundBut
  <2>7. ASSUME j \in Parts, Sound(j) PROVE Sound(j)'
    <3>1. /\ \A k \in OnStack(j) : k = pos
          /\ WithProducer(j) = {} /\ WithConsumer(j) = {} /\ ~inf[j]
      BY <2>2, <2>7 DEF Lonely, One
    <3>2. items[pos].got = "whole"
      BY <3>1, <2>7 DEF Sound
    <3>3. temp'[c].got = "whole"
      BY <2>2, <3>2, <1>t
    <3> QED
      BY <2>2, <2>7, <3>3 DEF Sound
  <2>8. \A i \in Parts : Sound(i) => Sound(i)'
    BY <2>6, <2>7
  <2> QED
    BY <2>1, <2>8, <1>l, NoNewLoss
<1>9. ASSUME NEW c \in Consumers, ConsPopDrop(c) PROVE LossBound'
  <2>1. Goto(c, "c_dec", "c_unbuf") /\ UNCHANGED <<items, counter_p, faults, p_recv_buf>>
    BY <1>9 DEF ConsPopDrop, prodLocals
  <2>2. Still
    BY <1>9, StillStep
  <2>3. \A r \in Producers : Hale(r) => Hale(r)'
    BY <2>1, <1>t DEF Hale, Goto, Procs
  <2> QED
    BY <2>1, <2>2, <2>3, <1>s, <1>l, NoNewLoss
<1>10. ASSUME NEW c \in Consumers, ConsInflate(c), NEW j, j = temp[c].part,
              NEW whole, whole = (temp[c].got = "whole")
       PROVE LossBound'
  <2>1. Goto(c, "c_inf", "c_lock") /\ UNCHANGED <<items, counter_p, faults, p_recv_buf>>
    BY <1>10 DEF ConsInflate, prodLocals, stack
  <2>2. /\ StayBut(j) /\ temp' = [temp EXCEPT ![c] = NoBuf]
        /\ j \in Parts => c \in WithConsumer(j) /\ (inf'[j] <=> inf[j] \/ whole)
    BY <1>10, InflateMoves
  <2>3. \A r \in Producers : Hale(r) => Hale(r)'
    BY <2>1, <1>t DEF Hale, Goto, Procs
  <2>4. \A d \in Consumers : temp[d].part # j => temp'[d] = temp[d]
    BY <2>2, <1>10, <1>t
  <2>5. \A i \in Parts \ {j} : Sound(i) => Sound(i)'
    BY <2>1, <2>2, <2>3, <2>4, SoundBut
  <2>6. ASSUME j \in Parts, Sound(j) PROVE Sound(j)'
    <3>1. /\ \A d \in WithConsumer(j) : d = c
          /\ WithProducer(j) = {} /\ OnStack(j) = {} /\ ~inf[j]
      BY <2>2, <2>6 DEF Lonely, One
    <3>2. temp[c].got = "whole"
      BY <3>1, <2>6 DEF Sound
    <3> QED
      BY <2>2, <2>6, <3>2, <1>10 DEF Sound
  <2>7. \A i \in Parts : Sound(i) => Sound(i)'
    BY <2>5, <2>6
  <2> QED
    BY <2>1, <2>7, <1>l, NoNewLoss
<1> QED
  BY <1>0, <1>1, <1>2, <1>3, <1>4, <1>5, <1>6, <1>7, <1>8, <1>9, <1>10, StepCases, QuietStep

-----------------------------------------------------------------------------
(* What a step of one child leaves alone.                                  *)
LEMMA ProducerMoves ==
    ASSUME IInv, NEW p \in Producers, Producer(p)
    PROVE /\ UNCHANGED <<temp, counter_c, parent>> /\ \A c \in Consumers : pc'[c] = pc[c]
          /\ pc[p] # "done" /\ \A q \in Procs \ {p} : pc'[q] = pc[q]
<1>1. pc \in [Procs -> Labels] /\ Producers \cap Consumers = {} /\ p \in Procs
  BY ProcessAssumption DEF IInv, TypeOK, Labels, Procs
<1>2. \E from \in Labels \ {"done"}, to \in Labels : Goto(p, from, to)
  BY DEF Producer, ProdLock, ProdQuit, ProdRead, ProdClaim, ProdFetch, ProdFetchFails, ProdDies, ProdWaitEmpty, ProdLockBuf, ProdPushGrow, ProdPushStore, ProdUnlockBuf, ProdPostFilled, Labels, ProdLabels
<1>3. UNCHANGED <<temp, counter_c, parent>>
  BY DEF Producer, ProdLock, ProdQuit, ProdRead, ProdClaim, ProdFetch, ProdFetchFails, ProdDies, ProdWaitEmpty, ProdLockBuf, ProdPushGrow, ProdPushStore, ProdUnlockBuf, ProdPostFilled, consLocals, parent
<1> QED
  BY <1>1, <1>2, <1>3 DEF Goto, Procs

LEMMA ConsumerMoves ==
    ASSUME IInv, NEW c \in Consumers, Consumer(c)
    PROVE /\ UNCHANGED <<counter_p, deaths, parent>>
          /\ pc[c] # "done" /\ \A q \in Procs \ {c} : pc'[q] = pc[q]
<1>1. pc \in [Procs -> Labels] /\ c \in Procs
  BY DEF IInv, TypeOK, Labels, Procs
<1>2. \E from \in Labels \ {"done"}, to \in Labels : Goto(c, from, to)
  BY DEF Consumer, ConsLock, ConsQuit, ConsTest, ConsClaim, ConsWaitFilled, ConsLockBuf, ConsPopRead, ConsPopDrop, ConsUnlockBuf, ConsPostEmpty, ConsReadHeight, ConsWriteHeight, ConsInflate, Labels, ConsLabels
<1>3. UNCHANGED <<counter_p, deaths, parent>>
  BY DEF Consumer, ConsLock, ConsQuit, ConsTest, ConsClaim, ConsWaitFilled, ConsLockBuf, ConsPopRead, ConsPopDrop, ConsUnlockBuf, ConsPostEmpty, ConsReadHeight, ConsWriteHeight, ConsInflate, faults, parent
<1> QED
  BY <1>1, <1>2, <1>3 DEF Goto

LEMMA ParentMoves ==
    ASSUME Parent \/ UNCHANGED vars
    PROVE UNCHANGED <<sem, pc, temp, counter_p, counter_c, deaths, inf>>
BY DEF Parent, Reap, Concatenate, vars, consLocals, faults, image

(* A consumer has no strip until it pops one.                              *)
LEMMA IdleStep == ASSUME IInv, Idle, [Next]_vars PROVE Idle'
<1>t. pc \in [Procs -> Labels] /\ temp \in [Consumers -> Bufs]
  BY DEF IInv, TypeOK, Labels
<1>1. ASSUME NEW p \in Producers, Producer(p) PROVE Idle'
  BY <1>1, ProducerMoves DEF Idle
<1>2. ASSUME NEW c \in Consumers, Consumer(c) PROVE Idle'
  <2>1. \A d \in Consumers \ {c} : pc'[d] = pc[d]
    BY <1>2, ConsumerMoves DEF Procs
  <2>2. /\ \A d \in Consumers \ {c} : temp'[d] = temp[d]
        /\ pc'[c] \in Waiting => temp'[c] = NoBuf
    <3>1. CASE ConsPopRead(c)
      BY <3>1, PopFacts, <1>t DEF Goto, Waiting, Procs
    <3>2. CASE ConsInflate(c)
      BY <3>2, <1>t DEF ConsInflate
    <3>3. CASE temp' = temp /\ (pc'[c] \in Waiting => pc[c] \in Waiting)
      BY <3>3 DEF Idle
    <3>4. \/ ConsPopRead(c) \/ ConsInflate(c)
          \/ temp' = temp /\ (pc'[c] \in Waiting => pc[c] \in Waiting)
      <4> USE <1>t DEF Goto, Procs, Waiting, consLocals
      <4>1. CASE ConsLock(c)
        BY <4>1 DEF ConsLock
      <4>2. CASE ConsQuit(c)
        BY <4>2 DEF ConsQuit
      <4>3. CASE ConsTest(c)
        BY <4>3 DEF ConsTest
      <4>4. CASE ConsClaim(c)
        BY <4>4 DEF ConsClaim
      <4>5. CASE ConsWaitFilled(c)
        BY <4>5 DEF ConsWaitFilled
      <4>6. CASE ConsLockBuf(c)
        BY <4>6 DEF ConsLockBuf
      <4>7. CASE ConsPopDrop(c)
        BY <4>7 DEF ConsPopDrop
      <4>8. CASE ConsUnlockBuf(c)
        BY <4>8 DEF ConsUnlockBuf
      <4>9. CASE ConsPostEmpty(c)
        BY <4>9 DEF ConsPostEmpty
      <4>10. CASE ConsReadHeight(c)
        BY <4>10 DEF ConsReadHeight
      <4>11. CASE ConsWriteHeight(c)
        BY <4>11 DEF ConsWriteHeight
      <4> QED
        BY <1>2, <4>1, <4>2, <4>3, <4>4, <4>5, <4>6, <4>7, <4>8, <4>9, <4>10, <4>11 DEF Consumer
    <3> QED
      BY <3>1, <3>2, <3>3, <3>4
  <2> QED
    BY <2>1, <2>2 DEF Idle
<1>3. CASE Parent \/ UNCHANGED vars
  BY <1>3, ParentMoves DEF Idle
<1> QED
  BY <1>1, <1>2, <1>3 DEF Next

(* A consumer ends only when all strips have been taken.                   *)
LEMMA EndsStep == ASSUME IInv, Ends, [Next]_vars PROVE Ends'
<1>t. pc \in [Procs -> Labels]
  BY DEF IInv, TypeOK, Labels
<1>1. ASSUME NEW p \in Producers, Producer(p) PROVE Ends'
  BY <1>1, ProducerMoves DEF Ends
<1>2. ASSUME NEW c \in Consumers, Consumer(c) PROVE Ends'
  <2>1. \A d \in Consumers \ {c} : pc'[d] = pc[d]
    BY <1>2, ConsumerMoves DEF Procs
  <2>2. CASE ConsClaim(c)
    <3>1. counter_c < NumParts /\ counter_c \in Int /\ NumParts \in Int
      BY <2>2, SizeAssumption DEF IInv, TypeOK, ClaimBound, ConsClaim, Goto
    <3>2. \A d \in Consumers : pc[d] # "done"
      BY <3>1 DEF Ends
    <3>3. pc'[c] = "c_filled"
      BY <2>2, <1>t DEF ConsClaim, Goto, Procs
    <3> QED BY <2>1, <3>2, <3>3 DEF Ends
  <2>3. CASE ConsQuit(c)
    BY <2>1, <2>3 DEF ConsQuit, Ends
  <2>4. CASE ConsPopRead(c)
    <3>1. pc'[c] = "c_dec" /\ counter_c' = counter_c
      BY <2>4, PopFacts, <1>t DEF Goto, Procs, ConsPopRead
    <3> QED BY <2>1, <3>1 DEF Ends
  <2>5. CASE counter_c' = counter_c /\ pc'[c] # "done"
    BY <2>1, <2>5 DEF Ends
  <2>6. \/ ConsClaim(c) \/ ConsQuit(c) \/ ConsPopRead(c)
        \/ counter_c' = counter_c /\ pc'[c] # "done"
    BY <1>2, <1>t DEF Consumer, Goto, Procs, ConsLock, ConsTest, ConsWaitFilled, ConsLockBuf, ConsPopDrop, ConsUnlockBuf, ConsPostEmpty, ConsReadHeight, ConsWriteHeight, ConsInflate
  <2> QED
    BY <2>2, <2>3, <2>4, <2>5, <2>6
<1>3. CASE Parent \/ UNCHANGED vars
  BY <1>3, ParentMoves DEF Ends
<1> QED
  BY <1>1, <1>2, <1>3 DEF Next

(* `filled' goes up when a strip claimed and pushed is announced, and down *)
(* when a consumer takes one.                                              *)
FlowMove(from, to) ==
    /\ Underway' = Underway - In(from, UnderwayLabels) + In(to, UnderwayLabels)
    /\ Taking' = Taking - In(from, {"c_filled"}) + In(to, {"c_filled"})

LEMMA FlowCount ==
    ASSUME IInv, NEW q \in Procs, NEW from, NEW to, Goto(q, from, to)
    PROVE FlowMove(from, to)
<1>1. pc[q] = from /\ pc'[q] = to /\ \A r \in Procs \ {q} : pc'[r] = pc[r]
  BY DEF IInv, TypeOK, Goto
<1> QED
  BY <1>1, AtStep DEF FlowMove, Underway, Taking

LEMMA FlowStep == ASSUME IInv, Flow, [Next]_vars PROVE Flow'
<1>t. /\ sem \in [SemName -> Nat] /\ counter_p \in Nat /\ counter_c \in Nat /\ deaths \in Nat
      /\ Underway \in Nat /\ Taking \in Nat
  BY AtFinite, SizeAssumption, BoundAssumption DEF IInv, TypeOK, Underway, Taking
<1> USE <1>t DEF Flow, FlowMove, In, UnderwayLabels, SemWait, SemPost, SemName
<1>1. ASSUME NEW p \in Producers, Producer(p) PROVE Flow'
  <2>q. p \in Procs
    BY DEF Procs
  <2>1. CASE ProdLock(p)
    <3>1. FlowMove("p_lock", "p_test")
      BY <2>1, <2>q, FlowCount DEF ProdLock
    <3> QED BY <2>1, <3>1 DEF ProdLock, faults
  <2>2. CASE ProdQuit(p)
    <3>1. FlowMove("p_test", "done")
      BY <2>2, <2>q, FlowCount DEF ProdQuit
    <3> QED BY <2>2, <3>1 DEF ProdQuit, faults
  <2>3. CASE ProdRead(p)
    <3>1. FlowMove("p_test", "p_incr")
      BY <2>3, <2>q, FlowCount DEF ProdRead
    <3> QED BY <2>3, <3>1 DEF ProdRead, faults
  <2>4. CASE ProdClaim(p)
    <3>1. FlowMove("p_incr", "p_fetch")
      BY <2>4, <2>q, FlowCount DEF ProdClaim
    <3> QED BY <2>4, <3>1 DEF ProdClaim, faults
  <2>5. CASE ProdFetch(p)
    <3>1. FlowMove("p_fetch", "p_empty")
      BY <2>5, <2>q, FlowCount DEF ProdFetch
    <3> QED BY <2>5, <3>1 DEF ProdFetch, faults
  <2>6. CASE ProdFetchFails(p)
    <3>1. FlowMove("p_fetch", "p_empty")
      BY <2>6, <2>q, FlowCount DEF ProdFetchFails
    <3> QED BY <2>6, <3>1 DEF ProdFetchFails, faults
  <2>7. CASE ProdDies(p)
    <3>1. FlowMove("p_fetch", "done")
      BY <2>7, <2>q, FlowCount DEF ProdDies
    <3> QED BY <2>7, <3>1 DEF ProdDies, faults
  <2>8. CASE ProdWaitEmpty(p)
    <3>1. FlowMove("p_empty", "p_buf")
      BY <2>8, <2>q, FlowCount DEF ProdWaitEmpty
    <3> QED BY <2>8, <3>1 DEF ProdWaitEmpty, faults
  <2>9. CASE ProdLockBuf(p)
    <3>1. FlowMove("p_buf", "p_push")
      BY <2>9, <2>q, FlowCount DEF ProdLockBuf
    <3> QED BY <2>9, <3>1 DEF ProdLockBuf, faults
  <2>10. CASE ProdPushGrow(p)
    <3>1. Goto(p, "p_push", "p_store")
      BY <2>10, GrowFacts
    <3>2. FlowMove("p_push", "p_store")
      BY <3>1, <2>q, FlowCount
    <3> QED BY <2>10, <3>2 DEF ProdPushGrow, faults
  <2>11. CASE ProdPushStore(p)
    <3>1. FlowMove("p_store", "p_unbuf")
      BY <2>11, <2>q, FlowCount DEF ProdPushStore
    <3> QED BY <2>11, <3>1 DEF ProdPushStore, faults
  <2>12. CASE ProdUnlockBuf(p)
    <3>1. FlowMove("p_unbuf", "p_filled")
      BY <2>12, <2>q, FlowCount DEF ProdUnlockBuf
    <3> QED BY <2>12, <3>1 DEF ProdUnlockBuf, faults
  <2>13. CASE ProdPostFilled(p)
    <3>1. FlowMove("p_filled", "p_lock")
      BY <2>13, <2>q, FlowCount DEF ProdPostFilled
    <3>2. sem'["filled"] = sem["filled"] + 1 /\ UNCHANGED <<counter_p, counter_c, deaths>>
      BY <2>13 DEF ProdPostFilled, faults
    <3>3. Underway' = Underway - 1 /\ Taking' = Taking
      BY <3>1
    <3> QED BY <3>2, <3>3
  <2> QED
    BY <1>1, <2>1, <2>2, <2>3, <2>4, <2>5, <2>6, <2>7, <2>8, <2>9, <2>10, <2>11, <2>12, <2>13 DEF Producer
<1>2. ASSUME NEW c \in Consumers, Consumer(c) PROVE Flow'
  <2>q. c \in Procs
    BY DEF Procs
  <2>1. CASE ConsLock(c)
    <3>1. FlowMove("c_lock", "c_test")
      BY <2>1, <2>q, FlowCount DEF ConsLock
    <3> QED BY <2>1, <3>1 DEF ConsLock, faults
  <2>2. CASE ConsQuit(c)
    <3>1. FlowMove("c_test", "done")
      BY <2>2, <2>q, FlowCount DEF ConsQuit
    <3> QED BY <2>2, <3>1 DEF ConsQuit, faults
  <2>3. CASE ConsTest(c)
    <3>1. FlowMove("c_test", "c_incr")
      BY <2>3, <2>q, FlowCount DEF ConsTest
    <3> QED BY <2>3, <3>1 DEF ConsTest, faults
  <2>4. CASE ConsClaim(c)
    <3>1. FlowMove("c_incr", "c_filled")
      BY <2>4, <2>q, FlowCount DEF ConsClaim
    <3> QED BY <2>4, <3>1 DEF ConsClaim, faults
  <2>5. CASE ConsWaitFilled(c)
    <3>1. FlowMove("c_filled", "c_buf")
      BY <2>5, <2>q, FlowCount DEF ConsWaitFilled
    <3> QED BY <2>5, <3>1 DEF ConsWaitFilled, faults
  <2>6. CASE ConsLockBuf(c)
    <3>1. FlowMove("c_buf", "c_pop")
      BY <2>6, <2>q, FlowCount DEF ConsLockBuf
    <3> QED BY <2>6, <3>1 DEF ConsLockBuf, faults
  <2>7. CASE ConsPopRead(c)
    <3>1. Goto(c, "c_pop", "c_dec")
      BY <2>7, PopFacts
    <3>2. FlowMove("c_pop", "c_dec")
      BY <3>1, <2>q, FlowCount
    <3> QED BY <2>7, <3>2 DEF ConsPopRead, faults
  <2>8. CASE ConsPopDrop(c)
    <3>1. FlowMove("c_dec", "c_unbuf")
      BY <2>8, <2>q, FlowCount DEF ConsPopDrop
    <3> QED BY <2>8, <3>1 DEF ConsPopDrop, faults
  <2>9. CASE ConsUnlockBuf(c)
    <3>1. FlowMove("c_unbuf", "c_empty")
      BY <2>9, <2>q, FlowCount DEF ConsUnlockBuf
    <3> QED BY <2>9, <3>1 DEF ConsUnlockBuf, faults
  <2>10. CASE ConsPostEmpty(c)
    <3>1. FlowMove("c_empty", "c_attr")
      BY <2>10, <2>q, FlowCount DEF ConsPostEmpty
    <3> QED BY <2>10, <3>1 DEF ConsPostEmpty, faults
  <2>11. CASE ConsReadHeight(c)
    <3>1. FlowMove("c_attr", "c_add")
      BY <2>11, <2>q, FlowCount DEF ConsReadHeight
    <3> QED BY <2>11, <3>1 DEF ConsReadHeight, faults
  <2>12. CASE ConsWriteHeight(c)
    <3>1. FlowMove("c_add", "c_inf")
      BY <2>12, <2>q, FlowCount DEF ConsWriteHeight
    <3> QED BY <2>12, <3>1 DEF ConsWriteHeight, faults
  <2>13. CASE ConsInflate(c)
    <3>1. FlowMove("c_inf", "c_lock")
      BY <2>13, <2>q, FlowCount DEF ConsInflate
    <3> QED BY <2>13, <3>1 DEF ConsInflate, faults
  <2> QED
    BY <1>2, <2>1, <2>2, <2>3, <2>4, <2>5, <2>6, <2>7, <2>8, <2>9, <2>10, <2>11, <2>12, <2>13 DEF Consumer
<1>3. CASE Parent \/ UNCHANGED vars
  <2>1. UNCHANGED <<sem, pc, counter_p, counter_c, deaths>>
    BY <1>3, ParentMoves
  <2>2. UNCHANGED <<Underway, Taking>>
    BY <2>1 DEF Underway, Taking, At
  <2> QED
    BY <2>1, <2>2
<1> QED
  BY <1>1, <1>2, <1>3 DEF Next

(* The parent has waited for no more children than have ended; when it     *)
(* goes on, none is left to change what it reads.                          *)
LEMMA MadeStep == ASSUME IInv, Made, [Next]_vars PROVE Made'
<1> DEFINE Done == At({"done"})
<1>f. Cardinality(Done) \in Nat /\ IsFiniteSet(Procs) /\ Cardinality(Procs) \in Nat
  BY AtFinite, FS_CardinalityType
<1>t. /\ Cardinality(Done) \in Nat /\ reaped \in Int /\ IsFiniteSet(Procs)
      /\ pc \in [Procs -> Labels] /\ Cardinality(Procs) \in Nat
  BY <1>f DEF IInv, TypeOK, Labels
<1>1. ASSUME NEW q \in Procs, pc[q] # "done", \A r \in Procs \ {q} : pc'[r] = pc[r], UNCHANGED parent
      PROVE Made'
  <2>1. Cardinality(Done') = Cardinality(Done) - In(pc[q], {"done"}) + In(pc'[q], {"done"})
    BY <1>1, AtStep
  <2>2. In(pc[q], {"done"}) = 0 /\ In(pc'[q], {"done"}) \in {0, 1}
    BY <1>1 DEF In
  <2> HIDE DEF Done
  <2>3. Cardinality(Done) <= Cardinality(Done')
    BY <2>1, <2>2, <1>t
  <2>4. Done # Procs
    BY <1>1 DEF Done, At
  <2>5. reaped' <= Cardinality(Done') /\ ~out'.made
    <3>1. Cardinality(Done') \in Nat
      BY <2>1, <2>2, <1>t
    <3> QED
      BY <2>3, <2>4, <3>1, <1>1, <1>t DEF Made, Done, parent
  <2> QED
    BY <2>5 DEF Made, Done
<1>2. ASSUME NEW p \in Producers, Producer(p) PROVE Made'
  BY <1>2, <1>1, ProducerMoves DEF Procs
<1>3. ASSUME NEW c \in Consumers, Consumer(c) PROVE Made'
  BY <1>3, <1>1, ConsumerMoves DEF Procs
<1>4. CASE Reap
  <2>1. At({"done"})' = At({"done"}) /\ UNCHANGED <<inf, out>> /\ reaped' <= Cardinality(At({"done"}))
    BY <1>4, <1>t DEF Reap, image, At
  <2> QED
    BY <2>1 DEF Made
<1>5. CASE Concatenate
  <2>1. At({"done"})' = At({"done"}) /\ UNCHANGED <<inf, reaped>>
    BY <1>5 DEF Concatenate, image, At
  <2>2. Done \subseteq Procs /\ Cardinality(Done) = Cardinality(Procs)
    <3>1. Done \subseteq Procs
      BY DEF At
    <3>2. Cardinality(Done) <= Cardinality(Procs)
      BY <3>1, <1>t, FS_Subset
    <3>3. Cardinality(Procs) <= Cardinality(Done)
      BY <1>5 DEF Concatenate, Made
    <3> HIDE DEF Done
    <3> QED BY <3>1, <3>2, <3>3, <1>t
  <2>3. Done = Procs
    BY <2>2, <1>t, FS_Subset
  <2>4. out'.strips = {i \in Parts : inf[i]}
    BY <1>5 DEF Concatenate
  <2> QED
    BY <2>1, <2>3, <2>4 DEF Made
<1>6. CASE UNCHANGED vars
  BY <1>6 DEF vars, Made, At
<1> QED
  BY <1>2, <1>3, <1>4, <1>5, <1>6 DEF Next, Parent

-----------------------------------------------------------------------------

LEMMA InitCInv == ASSUME Init, IInv PROVE CInv
<1> USE SizeAssumption, BoundAssumption
<1>1. \A q \in Procs : pc[q] \in {"p_lock", "c_lock"}
  BY DEF Init, Procs
<1>2. /\ \A p \in Producers : pc[p] \notin Bringing
      /\ \A c \in Consumers : temp[c] = NoBuf
      /\ \A k \in Slots : items[k] = NoBuf /\ ~Used(k)
      /\ \A i \in Parts : ~inf[i]
  BY <1>1 DEF Init, Procs, Bringing, Used, Slots
<1>3. NoBuf.part = -1 /\ Fits(NoBuf) /\ -1 \notin Parts
  BY DEF NoBuf, Fits, Parts
<1>4. Lonely
  <2>1. PlacesMean
    BY Places DEF IInv
  <2>2. ASSUME NEW i \in Parts PROVE One(WithProducer(i), OnStack(i), WithConsumer(i), inf[i])
    <3>1. WithProducer(i) = {} /\ OnStack(i) = {} /\ WithConsumer(i) = {} /\ ~inf[i]
      BY <2>1, <1>2, <1>3 DEF PlacesMean
    <3> QED BY <3>1 DEF One
  <2> QED BY <2>2 DEF Lonely
<1>5. Fresh
  BY <1>2, <1>3 DEF Fresh, Init
<1>6. Carried
  BY <1>1, <1>2, <1>3 DEF Carried, Init, Procs, Carrying
<1>7. Idle
  BY <1>2 DEF Idle
<1>8. Flow
  <2>1. At(UnderwayLabels) = {} /\ At({"c_filled"}) = {}
    BY <1>1 DEF At, UnderwayLabels
  <2>2. Underway = 0 /\ Taking = 0
    BY <2>1, FS_EmptySet DEF Underway, Taking
  <2> QED BY <2>2 DEF Flow, Init, SemName
<1>9. Ends
  BY <1>1 DEF Ends, Procs
<1>10. Made
  BY AtFinite DEF Made, Init, NoImage
<1>11. LossBound
  <2>1. Losses = {}
    BY DEF Losses, Init
  <2>2. Cardinality(Losses) = 0
    BY <2>1, FS_EmptySet
  <2> QED BY <2>2 DEF LossBound, Init
<1> QED
  BY <1>4, <1>5, <1>6, <1>7, <1>8, <1>9, <1>10, <1>11 DEF CInv

LEMMA CInvHolds == Spec => [](IInv /\ CInv)
<1>1. Init => IInv /\ CInv
  BY InitIInv, InitCInv
<1>2. IInv /\ PlacesMean /\ PlacesMean' /\ CInv /\ [Next]_vars => CInv'
  BY LonelyStep, FreshStep, CarriedStep, IdleStep, FlowStep, EndsStep, MadeStep, LossStep DEF CInv
<1>3. IInv => PlacesMean
  BY Places DEF IInv
<1> QED
  BY IInvHolds, <1>1, <1>2, <1>3, PTL DEF Spec

(* A strip that is nowhere is one of the losses.                           *)
LEMMA GoneIsLost ==
    ASSUME IInv, NEW i \in Parts, Copies(i) = 0
    PROVE ~Sound(i)
<1>1. None(WithProducer(i), OnStack(i), WithConsumer(i), inf[i])
  BY CopiesMean DEF IInv
<1> QED
  BY <1>1 DEF None, Sound

(* No interleaving puts a strip in two places, and no more strips are      *)
(* missing than transfers failed and children were lost.                   *)
THEOREM OneCopyOfEach == Spec => []OneCopy
<1>1. ASSUME IInv, CInv PROVE OneCopy
  <2>1. \A i \in Parts : Copies(i) <= 1
    BY <1>1, CopiesMean DEF IInv, CInv, Lonely
  <2>2. {i \in 0 .. counter_p - 1 : Copies(i) = 0} \subseteq Losses
    <3>1. \A i \in 0 .. counter_p - 1 : i \in Parts
      BY <1>1, SizeAssumption DEF IInv, TypeOK, Parts
    <3> QED BY <1>1, <3>1, GoneIsLost DEF Losses
  <2>3. Cardinality({i \in 0 .. counter_p - 1 : Copies(i) = 0}) <= Cardinality(Losses)
    BY <1>1, <2>2, LossesFinite, FS_Subset
  <2>4. Cardinality({i \in 0 .. counter_p - 1 : Copies(i) = 0}) \in Nat /\ Cardinality(Losses) \in Nat
    BY <1>1, <2>2, LossesFinite, FS_Subset, FS_CardinalityType
  <2>5. failures \in Nat /\ deaths \in Nat /\ Cardinality(Losses) <= failures + deaths
    BY <1>1, BoundAssumption DEF IInv, TypeOK, CInv, LossBound
  <2>6. Cardinality({i \in 0 .. counter_p - 1 : Copies(i) = 0}) <= failures + deaths
    BY <2>3, <2>4, <2>5
  <2> QED
    BY <2>1, <2>6 DEF OneCopy
<1> QED
  BY CInvHolds, <1>1, PTL

(* When all children have ended, a consumer among them, every claim has    *)
(* been pushed and popped.                                                 *)
AllDone ==
    /\ counter_p = NumParts /\ counter_c = NumParts /\ deaths = 0 /\ pos = -1
    /\ sem = [s \in SemName |-> CASE s = "empty" -> BufSize
                                  [] s = "filled" -> 0
                                  [] OTHER -> 1]
    /\ \A i \in Parts : WithProducer(i) = {} /\ OnStack(i) = {} /\ WithConsumer(i) = {}

LEMMA AllEnded ==
    ASSUME IInv, CInv, Consumers # {}, At({"done"}) = Procs
    PROVE AllDone
<1>1. \A q \in Procs : pc[q] = "done"
  BY DEF At
<1>2. counter_c = NumParts
  BY <1>1 DEF CInv, Ends, Procs
<1>3. /\ Pushing = 0 /\ Freeing = 0 /\ Posting = 0 /\ Popping = 0
      /\ InBuf = 0 /\ InClaim = 0 /\ InTake = 0 /\ Underway = 0 /\ Taking = 0
  <2>1. /\ At({"p_buf", "p_push"}) = {} /\ At({"c_unbuf", "c_empty"}) = {}
        /\ At({"p_store", "p_unbuf", "p_filled"}) = {} /\ At({"c_buf", "c_pop", "c_dec"}) = {}
        /\ At(BufSection) = {} /\ At(ClaimSection) = {} /\ At(TakeSection) = {}
        /\ At(UnderwayLabels) = {} /\ At({"c_filled"}) = {}
    BY <1>1 DEF At, BufSection, ClaimSection, TakeSection, UnderwayLabels
  <2> QED
    BY <2>1, FS_EmptySet DEF Pushing, Freeing, Posting, Popping, InBuf, InClaim, InTake, Underway, Taking
<1>t. /\ sem \in [SemName -> Nat] /\ counter_p \in 0 .. NumParts /\ deaths \in Nat /\ NumParts \in Nat
      /\ pos \in Int /\ BufSize \in Nat
  BY SizeAssumption, BoundAssumption DEF IInv, TypeOK
<1>4. Balanced /\ Flow
  BY Accounts DEF IInv, CInv
<1>5. sem["filled"] = 0 /\ counter_p = NumParts /\ deaths = 0
  BY <1>2, <1>3, <1>4, <1>t DEF Flow, SemName
<1>6. /\ pos = -1 /\ sem["empty"] = BufSize
      /\ sem["buffer_lock"] = 1 /\ sem["mutex_p"] = 1 /\ sem["mutex_c"] = 1
  BY <1>3, <1>4, <1>5, <1>t DEF Balanced, SemName
<1>7. sem = [s \in SemName |-> CASE s = "empty" -> BufSize
                                 [] s = "filled" -> 0
                                 [] OTHER -> 1]
  BY <1>5, <1>6, <1>t DEF SemName
<1>8. \A i \in Parts : WithProducer(i) = {} /\ OnStack(i) = {} /\ WithConsumer(i) = {}
  <2>1. PlacesMean
    BY Places DEF IInv
  <2>2. \A c \in Consumers : temp[c].part = -1
    BY <1>1 DEF CInv, Idle, Waiting, Procs, NoBuf
  <2>3. -1 \notin Parts
    BY SizeAssumption DEF Parts
  <2>4. \A p \in Producers : pc[p] \notin Bringing
    BY <1>1 DEF Procs, Bringing
  <2>5. \A k : ~Used(k)
    BY <1>6 DEF Used
  <2> QED
    BY <2>1, <2>2, <2>3, <2>4, <2>5 DEF PlacesMean
<1> QED
  BY <1>2, <1>5, <1>6, <1>7, <1>8 DEF AllDone

(* Among several children the parent reaps whichever ends first, and yet   *)
(* what it reads is final, what it destroys is at rest, and no more strips *)
(* are missing than transfers failed.  Without a consumer it would not be: *)
(* paster2 takes the number of consumers from its arguments as it is.      *)
THEOREM ParentIsLast == Consumers # {} => (Spec => []ParentWaitsForAll)
<1> SUFFICES ASSUME Consumers # {} PROVE Spec => []ParentWaitsForAll
  OBVIOUS
<1>1. ASSUME IInv, CInv PROVE ParentWaitsForAll
  <2> SUFFICES ASSUME out.made
               PROVE /\ At({"done"}) = Procs
                     /\ AllDone
                     /\ Cardinality(Parts \ out.strips) <= failures
    BY DEF ParentWaitsForAll, AllDone
  <2>1. At({"done"}) = Procs /\ out.strips = {i \in Parts : inf[i]}
    BY <1>1 DEF CInv, Made
  <2>2. AllDone
    BY <1>1, <2>1, AllEnded
  <2>3. Parts \ out.strips \subseteq Losses
    <3>1. ASSUME NEW i \in Parts, ~inf[i] PROVE ~Sound(i)
      BY <2>2, <3>1 DEF AllDone, Sound
    <3>2. Parts = 0 .. counter_p - 1
      BY <2>2 DEF AllDone, Parts
    <3> QED BY <2>1, <3>1, <3>2 DEF Losses
  <2>4. Cardinality(Parts \ out.strips) <= Cardinality(Losses) /\ Cardinality(Parts \ out.strips) \in Nat
    BY <1>1, <2>3, LossesFinite, FS_Subset, FS_CardinalityType
  <2>5. Cardinality(Losses) <= failures /\ Cardinality(Losses) \in Nat /\ failures \in Nat
    BY <1>1, <2>2, LossesFinite, BoundAssumption DEF AllDone, CInv, LossBound, IInv, TypeOK
  <2> QED
    BY <2>1, <2>2, <2>4, <2>5
<1> QED
  BY CInvHolds, <1>1, PTL

-----------------------------------------------------------------------------
(* The strip assembly that paster2 implements: what is lost is nowhere.    *)
Gone == {i \in 0 .. counter_p - 1 : Copies(i) = 0}

NowhereMeans ==
    \A i \in Parts :
        Copies(i) = 0 <=> None(WithProducer(i), OnStack(i), WithConsumer(i), inf[i])

LEMMA Nowhere == TypeOK => NowhereMeans
BY CopiesMean DEF NowhereMeans

(* A step that moves one strip at most changes what is said of that one.   *)
LEMMA GoneBut ==
    ASSUME IInv, NowhereMeans, NowhereMeans', NEW j, StayBut(j), counter_p' = counter_p
    PROVE \A i \in 0 .. counter_p - 1 : i # j => (i \in Gone' <=> i \in Gone)
<1> SUFFICES ASSUME NEW i \in 0 .. counter_p - 1, i # j PROVE i \in Gone' <=> i \in Gone
  OBVIOUS
<1>1. i \in Parts
  BY SizeAssumption DEF IInv, TypeOK, Parts
<1>2. /\ WithProducer(i)' = WithProducer(i) /\ OnStack(i)' = OnStack(i)
      /\ WithConsumer(i)' = WithConsumer(i) /\ inf'[i] = inf[i]
  BY <1>1 DEF StayBut
<1>3. (Copies(i) = 0)' <=> Copies(i) = 0
  BY <1>1, <1>2 DEF NowhereMeans, None
<1> QED
  BY <1>3 DEF Gone

Pasted == {i \in Parts : inf[i]}

LEMMA StillSame ==
    ASSUME IInv, PlacesMean, PlacesMean', NowhereMeans, NowhereMeans', Still, counter_p' = counter_p
    PROVE Gone' = Gone /\ Pasted' = Pasted
<1>1. StripsStay
  BY StillStays
<1>2. StayBut(-1)
  BY <1>1 DEF StripsStay, StayBut
<1>3. \A i \in 0 .. counter_p - 1 : i \in Gone' <=> i \in Gone
  BY <1>2, GoneBut
<1>4. Gone' \subseteq 0 .. counter_p - 1 /\ Gone \subseteq 0 .. counter_p - 1
  BY DEF Gone
<1>5. Pasted' = Pasted
  BY DEF Pasted, Still
<1> QED
  BY <1>3, <1>4, <1>5

LEMMA AbstractStep ==
    ASSUME IInv, CInv, PlacesMean, PlacesMean', NowhereMeans, NowhereMeans', Consumers # {}, [Next]_vars
    PROVE [Abstract!Next]_(Abstract!vars)
<1>t. /\ counter_p \in 0 .. NumParts /\ NumParts \in Nat /\ local_counter \in [Producers -> Parts]
      /\ temp \in [Consumers -> Bufs] /\ inf \in [Parts -> BOOLEAN] /\ pc \in [Procs -> Labels]
  BY SizeAssumption DEF IInv, TypeOK, Labels
<1>c. /\ Lonely /\ Fresh /\ Carried /\ Idle
      /\ out.made => At({"done"}) = Procs
  BY DEF CInv, Made
<1>r. Gone \subseteq Parts /\ Gone \subseteq 0 .. counter_p - 1
  BY <1>t DEF Gone, Parts
<1>s. ASSUME Gone' = Gone, Pasted' = Pasted, out' = out PROVE UNCHANGED Abstract!vars
  BY <1>s DEF Abstract!vars, Gone, Pasted
<1>l. ASSUME NEW i \in Parts, i \notin Gone, i \notin Pasted, ~out.made,
             Gone' = Gone \cup {i}, Pasted' = Pasted, out' = out
      PROVE Abstract!Next
  <2>1. Abstract!Lose(i)
    BY <1>l DEF Abstract!Lose, Gone, Pasted
  <2> QED BY <2>1 DEF Abstract!Next, Abstract!Parts, Parts
<1>p. ASSUME NEW i \in Parts, i \notin Gone, i \notin Pasted, ~out.made,
             Pasted' = Pasted \cup {i}, Gone' = Gone, out' = out
      PROVE Abstract!Next
  <2>1. Abstract!Paste(i)
    BY <1>p DEF Abstract!Paste, Gone, Pasted
  <2> QED BY <2>1 DEF Abstract!Next, Abstract!Parts, Parts
<1>a. ASSUME NEW q \in Procs, pc[q] # "done" PROVE ~out.made
  BY <1>a, <1>c DEF At
<1>0. CASE Quiet
  <2>1. Gone' = Gone /\ Pasted' = Pasted
    BY <1>0, StillStep, StillSame DEF Quiet
  <2>2. CASE out' = out
    BY <2>1, <2>2, <1>s
  <2>3. CASE Concatenate
    <3>1. At({"done"}) = Procs
      <4>1. Made'
        BY MadeStep DEF CInv
      <4> QED
        BY <2>3, <4>1 DEF Made, Concatenate, At
    <3>2. AllDone
      BY <3>1, AllEnded
    <3>3. Pasted \cup Gone = Parts
      <4>1. Parts = 0 .. counter_p - 1
        BY <3>2 DEF AllDone, Parts
      <4>2. \A i \in Parts : ~inf[i] => Copies(i) = 0
        BY <3>2 DEF AllDone, NowhereMeans, None
      <4> QED BY <4>1, <4>2 DEF Pasted, Gone
    <3>4. out'.strips = Pasted /\ out'.made = TRUE /\ ~out.made
      BY <2>3 DEF Concatenate, Pasted
    <3>5. Abstract!Finish
      BY <2>1, <3>3, <3>4 DEF Abstract!Finish, Abstract!Parts, Parts, Gone, Pasted
    <3> QED BY <3>5 DEF Abstract!Next
  <2>4. out' = out \/ Concatenate
    <3>1. ASSUME NEW p \in Producers, Producer(p) PROVE out' = out
      BY <3>1, ProducerMoves DEF parent
    <3>2. ASSUME NEW c \in Consumers, Consumer(c) PROVE out' = out
      BY <3>2, ConsumerMoves DEF parent
    <3> QED
      BY <3>1, <3>2 DEF Next, Parent, Reap, vars
  <2> QED
    BY <2>2, <2>3, <2>4
<1>1. ASSUME NEW p \in Producers, ProdRead(p), NEW j, j = counter_p PROVE UNCHANGED Abstract!vars
  <2>1. StayBut(j) /\ j \in Parts /\ ~inf[j] /\ ~inf'[j]
    BY <1>1, <1>c, ReadMoves DEF None
  <2>2. counter_p' = counter_p /\ out' = out /\ inf' = inf
    BY <1>1 DEF ProdRead, parent, image
  <2>3. \A i \in 0 .. counter_p - 1 : i # j
    BY <1>1, <1>t
  <2>4. \A i \in 0 .. counter_p - 1 : i \in Gone' <=> i \in Gone
    BY <2>1, <2>2, <2>3, GoneBut
  <2>5. Gone' \subseteq 0 .. counter_p - 1
    BY <2>2 DEF Gone
  <2>6. Gone' = Gone
    <3>1. \A i : i \in Gone' <=> i \in Gone
      BY <2>4, <2>5, <1>r
    <3> QED BY <3>1
  <2>7. Pasted' = Pasted
    BY <2>2 DEF Pasted
  <2> QED
    BY <2>2, <2>6, <2>7, <1>s
<1>2. ASSUME NEW p \in Producers, ProdClaim(p), NEW j, j = counter_p PROVE UNCHANGED Abstract!vars
  <2>1. Goto(p, "p_incr", "p_fetch") /\ counter_p' = counter_p + 1 /\ UNCHANGED <<local_counter, out>>
    BY <1>2 DEF ProdClaim, prodLocals, parent
  <2>2. StripsStay /\ inf' = inf
    BY <1>2, StillStep, StillStays DEF Still
  <2>3. j \in Parts /\ local_counter[p] = j
    BY <1>2, <2>1, <1>t DEF IInv, ClaimBound, Goto, Parts
  <2>4. p \in WithProducer(j)'
    BY <2>1, <2>3, <1>t DEF PlacesMean, Goto, Bringing, Procs
  <2>5. ~(Copies(j) = 0)'
    BY <2>3, <2>4 DEF NowhereMeans, None
  <2>6. ASSUME NEW i \in Parts PROVE (Copies(i) = 0)' <=> Copies(i) = 0
    BY <2>2 DEF StripsStay, NowhereMeans, None
  <2>7. 0 .. counter_p' - 1 = (0 .. counter_p - 1) \cup {j} /\ 0 .. counter_p' - 1 \subseteq Parts
    BY <1>2, <2>1, <2>3, <1>t DEF Parts
  <2>8. \A i : i \in Gone' <=> i \in Gone
    BY <2>5, <2>6, <2>7 DEF Gone
  <2>9. Gone' = Gone
    BY <2>8
  <2>10. Pasted' = Pasted
    BY <2>2 DEF Pasted
  <2> QED
    BY <2>1, <2>9, <2>10, <1>s
<1>3. ASSUME \/ \E p \in Producers : ProdFetch(p) \/ ProdFetchFails(p) \/ ProdPushGrow(p)
             \/ \E c \in Consumers : ConsPopDrop(c)
      PROVE UNCHANGED Abstract!vars
  <2>1. counter_p' = counter_p /\ out' = out
    BY <1>3 DEF ProdFetch, ProdFetchFails, ProdPushGrow, ConsPopDrop, parent
  <2>2. Still
    BY <1>3, StillStep
  <2> QED
    BY <2>1, <2>2, StillSame, <1>s
<1>m. ASSUME NEW j, StayBut(j), counter_p' = counter_p, UNCHANGED <<inf, out>>,
             j \in Parts => ~(Copies(j) = 0) /\ ~(Copies(j) = 0)'
      PROVE UNCHANGED Abstract!vars
  <2>1. \A i \in 0 .. counter_p - 1 : i # j => (i \in Gone' <=> i \in Gone)
    BY <1>m, GoneBut
  <2>2. Gone' \subseteq 0 .. counter_p - 1
    BY <1>m DEF Gone
  <2>3. j \notin Gone /\ j \notin Gone'
    <3>1. j \in 0 .. counter_p - 1 => j \in Parts
      BY <1>t DEF Parts
    <3> QED BY <3>1, <1>m DEF Gone
  <2>4. Gone' = Gone
    <3>1. \A i : i \in Gone' <=> i \in Gone
      BY <2>1, <2>2, <2>3, <1>r
    <3> QED BY <3>1
  <2>5. Pasted' = Pasted
    BY <1>m DEF Pasted
  <2> QED
    BY <1>m, <2>4, <2>5, <1>s
<1>4. ASSUME NEW p \in Producers, ProdPushStore(p), NEW j, j = local_counter[p] PROVE UNCHANGED Abstract!vars
  <2>1. /\ StayBut(j) /\ j \in Parts /\ p \in WithProducer(j) /\ OnStack(j)' = OnStack(j) \cup {pos}
    BY <1>4, <1>c, StoreMoves
  <2>2. UNCHANGED <<counter_p, inf, out>>
    BY <1>4 DEF ProdPushStore, image, parent
  <2>3. ~(Copies(j) = 0) /\ ~(Copies(j) = 0)'
    BY <2>1 DEF NowhereMeans, None
  <2> QED
    BY <2>1, <2>2, <2>3, <1>m
<1>5. ASSUME NEW c \in Consumers, ConsPopRead(c), NEW j, j = items[pos].part PROVE UNCHANGED Abstract!vars
  <2>1. /\ StayBut(j)
        /\ j \in Parts => pos \in OnStack(j) /\ WithConsumer(j)' = WithConsumer(j) \cup {c}
    BY <1>5, <1>c, PopMoves
  <2>2. UNCHANGED <<counter_p, inf, out>>
    BY <1>5 DEF ConsPopRead, image, parent
  <2>3. j \in Parts => ~(Copies(j) = 0) /\ ~(Copies(j) = 0)'
    BY <2>1 DEF NowhereMeans, None
  <2> QED
    BY <2>1, <2>2, <2>3, <1>m
(* A child that returns after its claim loses the strip it claimed.        *)
<1>6. ASSUME NEW p \in Producers, ProdDies(p), NEW j, j = local_counter[p] PROVE Abstract!Next
  <2>1. /\ StayBut(j) /\ j \in Parts /\ p \in WithProducer(j)
        /\ WithProducer(j)' = WithProducer(j) \ {p} /\ OnStack(j)' = OnStack(j)
        /\ WithConsumer(j)' = WithConsumer(j) /\ inf'[j] = inf[j]
    BY <1>6, DieMoves
  <2>2. Goto(p, "p_fetch", "done") /\ UNCHANGED <<counter_p, inf, out>>
    BY <1>6 DEF ProdDies, image, parent
  <2>3. One(WithProducer(j), OnStack(j), WithConsumer(j), inf[j])
    BY <2>1, <1>c DEF Lonely
  <2>4. /\ WithProducer(j) \ {p} = {} /\ OnStack(j) = {} /\ WithConsumer(j) = {} /\ ~inf[j]
    BY <2>1, <2>3 DEF One
  <2>5. ~(Copies(j) = 0) /\ (Copies(j) = 0)'
    <3>1. None(WithProducer(j)', OnStack(j)', WithConsumer(j)', inf'[j])
      BY <2>1, <2>4 DEF None
    <3>2. ~None(WithProducer(j), OnStack(j), WithConsumer(j), inf[j])
      BY <2>1 DEF None
    <3> QED
      BY <2>1, <3>1, <3>2 DEF NowhereMeans
  <2>6. j \in 0 .. counter_p - 1
    <3>1. j < counter_p
      BY <1>6, <2>2, <1>c DEF Fresh, Bringing, Goto
    <3> QED BY <2>1, <3>1, <1>t DEF Parts
  <2>7. \A i \in 0 .. counter_p - 1 : i # j => (i \in Gone' <=> i \in Gone)
    BY <2>1, <2>2, GoneBut
  <2>8. j \notin Gone /\ j \in Gone'
    BY <2>5, <2>6, <2>2 DEF Gone
  <2>9. Gone' \subseteq 0 .. counter_p - 1
    BY <2>2 DEF Gone
  <2>10. Gone' = Gone \cup {j}
    <3>1. \A i : i \in Gone' <=> i \in Gone \/ i = j
      BY <2>6, <2>7, <2>8, <2>9, <1>r
    <3> QED BY <3>1
  <2>11. Pasted' = Pasted /\ j \notin Pasted
    BY <2>2, <2>4 DEF Pasted
  <2>12. ~out.made
    BY <2>2, <1>a DEF Goto, Procs
  <2> QED
    BY <2>1, <2>2, <2>8, <2>10, <2>11, <2>12, <1>l
(* A consumer pastes a whole strip and gives up any other.                 *)
<1>7. ASSUME NEW c \in Consumers, ConsInflate(c), NEW j, j = temp[c].part,
             NEW whole, whole = (temp[c].got = "whole")
      PROVE [Abstract!Next]_(Abstract!vars)
  <2>1. /\ StayBut(j) /\ (whole => j \in Parts)
        /\ j \in Parts =>
                /\ c \in WithConsumer(j)
                /\ WithProducer(j)' = WithProducer(j) /\ OnStack(j)' = OnStack(j)
                /\ WithConsumer(j)' = WithConsumer(j) \ {c} /\ (inf'[j] <=> inf[j] \/ whole)
    BY <1>7, <1>c, InflateMoves
  <2>2. Goto(c, "c_inf", "c_lock") /\ UNCHANGED <<counter_p, out>>
    BY <1>7 DEF ConsInflate, parent
  <2>3. ~out.made
    BY <2>2, <1>a DEF Goto, Procs
  <2>4. \A i \in Parts \ {j} : inf'[i] <=> inf[i]
    BY <2>1 DEF StayBut
  <2>5. \A i \in 0 .. counter_p - 1 : i # j => (i \in Gone' <=> i \in Gone)
    BY <2>1, <2>2, GoneBut
  <2>6. Gone' \subseteq 0 .. counter_p - 1
    BY <2>2 DEF Gone
  <2>7. CASE j \notin Parts
    <3>1. j \notin 0 .. counter_p - 1
      BY <2>7, <1>t DEF Parts
    <3>2. Gone' = Gone
      <4>1. \A i : i \in Gone' <=> i \in Gone
        BY <2>5, <2>6, <3>1, <1>r
      <4> QED BY <4>1
    <3>3. Pasted' = Pasted
      BY <2>4, <2>7 DEF Pasted
    <3> QED BY <2>2, <3>2, <3>3, <1>s
  <2>8. CASE j \in Parts
    <3>1. One(WithProducer(j), OnStack(j), WithConsumer(j), inf[j])
      BY <2>8, <1>c DEF Lonely
    <3>2. /\ WithConsumer(j) \ {c} = {} /\ WithProducer(j) = {} /\ OnStack(j) = {} /\ ~inf[j]
      BY <2>1, <2>8, <3>1 DEF One
    <3>3. j \in 0 .. counter_p - 1
      <4>1. j < counter_p
        BY <1>7, <1>c DEF Fresh
      <4> QED BY <2>8, <4>1, <1>t DEF Parts
    <3>4. ~(Copies(j) = 0) /\ ((Copies(j) = 0)' <=> ~whole)
      <4>1. ~None(WithProducer(j), OnStack(j), WithConsumer(j), inf[j])
        BY <2>1, <2>8 DEF None
      <4>2. None(WithProducer(j)', OnStack(j)', WithConsumer(j)', inf'[j]) <=> ~whole
        BY <2>1, <2>8, <3>2 DEF None
      <4> QED
        BY <2>8, <4>1, <4>2 DEF NowhereMeans
    <3>5. j \notin Gone /\ (j \in Gone' <=> ~whole)
      BY <3>3, <3>4, <2>2 DEF Gone
    <3>6. j \notin Pasted /\ \A i \in Parts : i \in Pasted' <=> i \in Pasted \/ (i = j /\ whole)
      BY <2>1, <2>4, <2>8, <3>2 DEF Pasted
    <3>7. CASE whole
      <4>1. Gone' = Gone
        <5>1. \A i : i \in Gone' <=> i \in Gone
          BY <2>5, <2>6, <3>5, <3>7, <1>r
        <5> QED BY <5>1
      <4>2. Pasted' = Pasted \cup {j}
        BY <3>6, <3>7, <2>8 DEF Pasted
      <4> QED
        BY <2>2, <2>3, <2>8, <3>5, <3>6, <4>1, <4>2, <1>p
    <3>8. CASE ~whole
      <4>1. Gone' = Gone \cup {j}
        <5>1. \A i : i \in Gone' <=> i \in Gone \/ i = j
          BY <2>5, <2>6, <3>3, <3>5, <3>8, <1>r
        <5> QED BY <5>1
      <4>2. Pasted' = Pasted
        BY <3>6, <3>8 DEF Pasted
      <4> QED
        BY <2>2, <2>3, <2>8, <3>5, <3>6, <4>1, <4>2, <1>l
    <3> QED BY <3>7, <3>8, <1>7
  <2> QED BY <2>7, <2>8
<1> QED
  BY <1>0, <1>1, <1>2, <1>3, <1>4, <1>5, <1>6, <1>7, StepCases, QuietStep

LEMMA AbstractInit == Init => Abstract!Init
BY DEF Init, NoImage, Abstract!Init

(* Whatever transfers fail and whichever children return early, paster2    *)
(* pastes each strip at most once, none it has lost, and writes the image  *)
(* of exactly the strips in place when the fate of all is known.           *)
THEOREM Implements == Consumers # {} => (Spec => AssemblesSafely)
<1> SUFFICES ASSUME Consumers # {} PROVE Spec => Abstract!Safe
  BY DEF AssemblesSafely
<1>1. IInv /\ CInv /\ PlacesMean /\ PlacesMean' /\ NowhereMeans /\ NowhereMeans' /\ [Next]_vars
        => [Abstract!Next]_(Abstract!vars)
  BY AbstractStep
<1>2. IInv => PlacesMean /\ NowhereMeans
  BY Places, Nowhere DEF IInv
<1> QED
  BY AbstractInit, CInvHolds, <1>1, <1>2, PTL DEF Spec, Abstract!Safe
=============================================================================
