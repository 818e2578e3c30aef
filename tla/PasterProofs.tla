---------------------------- MODULE PasterProofs ----------------------------
(***************************************************************************)
(* paster for every number of threads and of strips and for all failures:  *)
(* the mutex excludes, the counter is exact, the image is complete, and    *)
(* paster implements the strip assembly.                                   *)
(***************************************************************************)
EXTENDS Paster, TLAPS, FiniteSetTheorems

-----------------------------------------------------------------------------
(* The inductive invariant *)

(* Between the look and the store nobody else stores.                      *)
StoreReady == \A th \in Threads : pc[th] = "store" => IsNew(seq[th])

(* A thread has an error code when it is done, and then only.              *)
Returned == \A th \in Threads : pc[th] = "done" <=> error_code[th] # Unset

(* main joins the threads in their order and returns after the last.       *)
Joined == /\ \A th \in 0 .. joined - 1 : pc[th] = "done"
          /\ status # Unset => joined = thread_count

IInv == TypeOK /\ Exclusion /\ StoreReady /\ Returned /\ Joined
        /\ CounterExact /\ ImageComplete

LEMMA InitIInv == Init => IInv
<1> SUFFICES ASSUME Init PROVE IInv
  OBVIOUS
<1> USE DEF Init
<1>1. TypeOK
  BY SizeAssumption DEF TypeOK, Threads, Parts, Free, Unset, Announced, Labels
<1>2. Exclusion
  BY DEF Exclusion, Section, Threads, Free, Unset
<1>3. StoreReady /\ Returned
  BY DEF StoreReady, Returned, Unset
<1>4. Joined
  BY SizeAssumption DEF Joined, Unset
<1>5. Kept = {}
  BY DEF Kept, Parts, Unset
<1>6. CounterExact
  BY <1>5, FS_EmptySet DEF CounterExact, At
<1>7. ImageComplete
  BY DEF ImageComplete, Unset
<1> QED
  BY <1>1, <1>2, <1>3, <1>4, <1>6, <1>7 DEF IInv

-----------------------------------------------------------------------------
(* The kept strips *)

LEMMA KeptBound ==
    /\ IsFiniteSet(Kept) /\ Cardinality(Kept) \in Nat
    /\ Cardinality(Kept) <= NumParts
    /\ Cardinality(Kept) = NumParts => Kept = Parts
<1>1. IsFiniteSet(Parts) /\ Cardinality(Parts) = NumParts
  BY SizeAssumption, FS_Interval DEF Parts
<1>2. Kept \in SUBSET Parts
  BY DEF Kept
<1> QED
  BY <1>1, <1>2, FS_Subset, FS_CardinalityType

(* Each action, by what it does to the shared strips.                      *)
LEMMA StoreAdds ==
    ASSUME TypeOK, NEW th \in Threads, Store(th), IsNew(seq[th])
    PROVE /\ seq[th] \in Parts \ Kept
          /\ Kept' = Kept \cup {seq[th]}
          /\ Cardinality(Kept') = Cardinality(Kept) + 1
<1>1. seq[th] \in Parts \ Kept
  BY DEF IsNew, Kept, Unset, Parts
<1>2. Kept' = Kept \cup {seq[th]}
  BY <1>1 DEF Store, Kept, TypeOK
<1> QED
  BY <1>1, <1>2, KeptBound, FS_AddElement

(* Kept changes by Store only.                                             *)
LEMMA KeptSame ==
    ASSUME UNCHANGED horizontal_strips PROVE Kept' = Kept
BY DEF Kept

-----------------------------------------------------------------------------
LEMMA TypeStep == ASSUME IInv, [Next]_vars PROVE TypeOK'
<1> USE DEF Goto, Return, Acquire, Release, strips, main, faults
<1>0. TypeOK /\ joined \in 0 .. thread_count /\ thread_count \in Nat
  BY SizeAssumption DEF IInv, TypeOK
<1>1. CASE UNCHANGED vars
  BY <1>0, <1>1 DEF TypeOK, vars
<1>2. CASE Join
  BY <1>0, <1>2 DEF TypeOK, Join
<1>3. CASE ReportError
  <2>1. status' \in {Unset, 0, 2, 3, 4, 5}
    BY <1>0, <1>3 DEF TypeOK, ReportError
  <2> QED
    BY <1>0, <1>3, <2>1 DEF TypeOK, ReportError
<1>4. CASE CatPng
  BY <1>0, <1>4 DEF TypeOK, CatPng, Kept
<1>5. ASSUME NEW th \in Threads, Thread(th) PROVE TypeOK'
  <2>1. CASE Lock(th) \/ InitBuf(th) \/ Relock(th) \/ Check(th) \/ Unlock(th)
    BY <1>0, <2>1 DEF TypeOK, Lock, InitBuf, Relock, Check, Unlock, Labels, Announced
  <2>2. CASE NoMemory(th)
    BY <1>0, <2>2 DEF TypeOK, NoMemory, Labels
  <2>3. CASE CurlError(th)
    BY <1>0, <2>3 DEF TypeOK, CurlError, Labels
  <2>4. CASE \E n \in Announced : Fetch(th, n)
    BY <1>0, <2>4 DEF TypeOK, Fetch, Labels
  <2>5. CASE Store(th)
    <3>1. seq[th] \in Parts
      BY <2>5 DEF IInv, StoreReady, IsNew, Store
    <3> QED
      BY <1>0, <2>5, <3>1 DEF TypeOK, Store, Labels
  <2>6. CASE Count(th)
    <3>1. At({"count"}) # {}
      BY <2>6 DEF Count, At
    <3>2. counter + 1 \in 0 .. NumParts
      BY <1>0, <3>1, KeptBound, SizeAssumption DEF IInv, CounterExact, TypeOK
    <3> QED
      BY <1>0, <2>6, <3>2 DEF TypeOK, Count, Labels
  <2>7. CASE Test(th)
    BY <1>0, <2>7 DEF TypeOK, Test, Labels
  <2> QED
    BY <1>5, <2>1, <2>2, <2>3, <2>4, <2>5, <2>6, <2>7 DEF Thread
<1> QED
  BY <1>1, <1>2, <1>3, <1>4, <1>5 DEF Next, Main

-----------------------------------------------------------------------------
(* The mutex: a thread that moves, and those that do not.                  *)
LEMMA ExclusionStep == ASSUME IInv, [Next]_vars PROVE Exclusion'
<1> USE DEF Exclusion, Section, Goto, Return, Acquire, Release, strips, main, faults
<1>0. /\ Exclusion /\ pc \in [Threads -> Labels] /\ Free \notin Threads
      /\ error_code \in [Threads -> {Unset, 0, 2, 3, 4, 5}] /\ Unset = -1
      /\ \A q \in Threads : pc[q] = "done" <=> error_code[q] # Unset
  BY DEF IInv, TypeOK, Returned, Threads, Free, Unset
<1>1. CASE UNCHANGED vars
  BY <1>0, <1>1 DEF vars
<1>2. CASE Main
  BY <1>0, <1>2 DEF Main, Join, ReportError, CatPng
<1>3. ASSUME NEW th \in Threads, Thread(th) PROVE Exclusion'
  <2>1. CASE Lock(th) \/ Relock(th)
    BY <1>0, <2>1 DEF Lock, Relock
  <2>2. CASE InitBuf(th) \/ Unlock(th)
    BY <1>0, <2>2 DEF InitBuf, Unlock
  <2>3. CASE NoMemory(th)
    BY <1>0, <2>3 DEF NoMemory
  <2>4. CASE CurlError(th)
    BY <1>0, <2>4 DEF CurlError
  <2>5. CASE \E n \in Announced : Fetch(th, n)
    BY <1>0, <2>5 DEF Fetch
  <2>6. CASE Check(th) \/ Store(th) \/ Count(th)
    BY <1>0, <2>6 DEF Check, Store, Count
  <2>7. CASE Test(th)
    BY <1>0, <2>7 DEF Test
  <2> QED
    BY <1>3, <2>1, <2>2, <2>3, <2>4, <2>5, <2>6, <2>7 DEF Thread
<1> QED
  BY <1>1, <1>2, <1>3 DEF Next

(* Two threads in the section would both hold the mutex.                   *)
LEMMA OneInside ==
    ASSUME Exclusion, NEW q \in Threads, NEW r \in Threads,
           pc[q] \in Section, pc[r] \in Section
    PROVE q = r
BY DEF Exclusion

LEMMA ReadyStep == ASSUME IInv, [Next]_vars PROVE StoreReady'
<1> USE DEF StoreReady, Goto, Return, strips, main, faults
<1>0. /\ StoreReady /\ pc \in [Threads -> Labels] /\ seq \in [Threads -> Announced]
      /\ horizontal_strips \in [Parts -> Parts \cup {Unset}] /\ Exclusion
  BY DEF IInv, TypeOK
<1>1. CASE UNCHANGED vars
  BY <1>0, <1>1 DEF vars, IsNew
<1>2. CASE Main
  BY <1>0, <1>2 DEF Main, Join, ReportError, CatPng, IsNew
<1>3. ASSUME NEW th \in Threads, Thread(th) PROVE StoreReady'
  <2>1. CASE Lock(th) \/ InitBuf(th) \/ Relock(th) \/ Count(th) \/ Unlock(th)
    BY <1>0, <2>1 DEF Lock, InitBuf, Relock, Count, Unlock, IsNew
  <2>2. CASE NoMemory(th) \/ CurlError(th) \/ Test(th)
    BY <1>0, <2>2 DEF NoMemory, CurlError, Test, IsNew
  <2>3. CASE \E n \in Announced : Fetch(th, n)
    BY <1>0, <2>3 DEF Fetch, IsNew
  <2>4. CASE Check(th)
    BY <1>0, <2>4 DEF Check, IsNew
  <2>5. CASE Store(th)
    <3>1. \A q \in Threads \ {th} : pc[q] # "store"
      BY <1>0, <2>5, OneInside DEF Store, Section
    <3> QED
      BY <1>0, <2>5, <3>1 DEF Store
  <2> QED
    BY <1>3, <2>1, <2>2, <2>3, <2>4, <2>5 DEF Thread
<1> QED
  BY <1>1, <1>2, <1>3 DEF Next

-----------------------------------------------------------------------------
(* Threads that are done stay so, with the code they returned.             *)
LEMMA ReturnStep == ASSUME IInv, [Next]_vars PROVE Returned' /\ Joined'
<1> USE DEF Goto, Return, strips, main, faults
<1>0. /\ Returned /\ Joined /\ pc \in [Threads -> Labels]
      /\ error_code \in [Threads -> {Unset, 0, 2, 3, 4, 5}] /\ Unset = -1
      /\ joined \in 0 .. thread_count /\ thread_count \in Nat
  BY SizeAssumption DEF IInv, TypeOK, Unset
<1>a. 0 .. joined - 1 \subseteq Threads
  BY <1>0 DEF Threads
<1>1. CASE UNCHANGED vars
  BY <1>0, <1>1 DEF vars, Returned, Joined
<1>2. CASE Join
  BY <1>0, <1>2 DEF Join, Returned, Joined
<1>3. CASE ReportError \/ CatPng
  BY <1>0, <1>3 DEF ReportError, CatPng, Returned, Joined
<1>4. ASSUME NEW th \in Threads, Thread(th) PROVE Returned' /\ Joined'
  <2>1. pc[th] # "done" /\ \A q \in Threads \ {th} : pc'[q] = pc[q]
    BY <1>0, <1>4 DEF Thread, Lock, InitBuf, NoMemory, CurlError, Fetch, Relock,
                      Check, Store, Count, Unlock, Test
  <2>2. UNCHANGED <<joined, status>>
    BY <1>4 DEF Thread, Lock, InitBuf, NoMemory, CurlError, Fetch, Relock,
                Check, Store, Count, Unlock, Test
  <2>3. Joined'
    BY <1>0, <1>a, <2>1, <2>2 DEF Joined
  <2>4. Returned'
    <3>1. CASE Lock(th) \/ InitBuf(th) \/ Relock(th) \/ Count(th) \/ Unlock(th)
               \/ Store(th) \/ Check(th)
      BY <1>0, <3>1 DEF Lock, InitBuf, Relock, Count, Unlock, Store, Check, Returned
    <3>2. CASE \E n \in Announced : Fetch(th, n)
      BY <1>0, <3>2 DEF Fetch, Returned
    <3>3. CASE NoMemory(th) \/ CurlError(th) \/ Test(th)
      BY <1>0, <3>3 DEF NoMemory, CurlError, Test, Returned
    <3> QED
      BY <1>4, <3>1, <3>2, <3>3 DEF Thread
  <2> QED
    BY <2>3, <2>4
<1> QED
  BY <1>1, <1>2, <1>3, <1>4 DEF Next, Main

-----------------------------------------------------------------------------
(* Store is ahead of the counter by one, Count brings it up to date.       *)
LEMMA CountStep == ASSUME IInv, [Next]_vars PROVE CounterExact'
<1> USE DEF Goto, Return, strips, main, faults
<1>0. /\ CounterExact /\ pc \in [Threads -> Labels] /\ counter \in Nat
      /\ Cardinality(Kept) \in Nat /\ Exclusion
  BY KeptBound DEF IInv, TypeOK
<1>a. ASSUME UNCHANGED <<horizontal_strips, counter>>,
             At({"count"})' = At({"count"})
      PROVE CounterExact'
  BY <1>0, <1>a, KeptSame DEF CounterExact
<1>1. CASE UNCHANGED vars
  BY <1>a, <1>1 DEF vars, At
<1>2. CASE Main
  BY <1>a, <1>2 DEF Main, Join, ReportError, CatPng, At
<1>3. ASSUME NEW th \in Threads, Thread(th) PROVE CounterExact'
  <2>1. CASE Lock(th) \/ InitBuf(th) \/ Relock(th) \/ Unlock(th) \/ Check(th)
    BY <1>0, <1>a, <2>1 DEF Lock, InitBuf, Relock, Unlock, Check, At
  <2>2. CASE NoMemory(th) \/ CurlError(th) \/ Test(th)
    BY <1>0, <1>a, <2>2 DEF NoMemory, CurlError, Test, At
  <2>3. CASE \E n \in Announced : Fetch(th, n)
    BY <1>0, <1>a, <2>3 DEF Fetch, At
  <2>4. CASE Store(th)
    <3>1. At({"count"}) = {}
      BY <1>0, <2>4, OneInside DEF Store, Section, At
    <3>2. At({"count"})' # {}
      BY <1>0, <2>4 DEF Store, At
    <3>3. Cardinality(Kept') = Cardinality(Kept) + 1
      BY <2>4, StoreAdds DEF IInv, StoreReady, Store
    <3> QED
      BY <1>0, <2>4, <3>1, <3>2, <3>3 DEF Store, CounterExact
  <2>5. CASE Count(th)
    <3>1. At({"count"}) # {}
      BY <2>5 DEF Count, At
    <3>2. At({"count"})' = {}
      BY <1>0, <2>5, OneInside DEF Count, Section, At
    <3>3. Kept' = Kept
      BY <2>5, KeptSame DEF Count
    <3> QED
      BY <1>0, <2>5, <3>1, <3>2, <3>3 DEF Count, CounterExact
  <2> QED
    BY <1>3, <2>1, <2>2, <2>3, <2>4, <2>5 DEF Thread
<1> QED
  BY <1>1, <1>2, <1>3 DEF Next

-----------------------------------------------------------------------------
(* A counter that has reached NumParts means that all are kept, whether    *)
(* another thread is about to count or not.                                *)
LEMMA AllCounted ==
    ASSUME IInv, counter >= NumParts PROVE Kept = Parts
<1>1. counter \in Nat /\ NumParts \in Nat
  BY SizeAssumption DEF IInv, TypeOK
<1>2. Cardinality(Kept) >= counter
  BY <1>1 DEF IInv, CounterExact
<1> QED
  BY <1>1, <1>2, KeptBound

LEMMA KeptGrows == ASSUME IInv, [Next]_vars PROVE Kept \subseteq Kept' /\ Kept' \subseteq Parts
<1>1. ASSUME NEW th \in Threads, Store(th)
      PROVE  Kept \subseteq Kept' /\ Kept' \subseteq Parts
  <2>1. TypeOK /\ IsNew(seq[th])
    BY <1>1 DEF IInv, StoreReady, Store, Goto
  <2> QED
    BY <1>1, <2>1, StoreAdds DEF Kept
<1>2. CASE UNCHANGED horizontal_strips
  BY <1>2, KeptSame DEF Kept
<1> QED
  BY <1>1, <1>2 DEF Next, Main, Join, ReportError, CatPng, vars, Thread, Lock, InitBuf,
     NoMemory, CurlError, Fetch, Relock, Check, Count, Unlock, Test, strips

LEMMA ImageStep == ASSUME IInv, [Next]_vars PROVE ImageComplete'
<1> USE DEF Goto, Return, strips, main, faults
<1>0. /\ ImageComplete /\ Returned /\ Joined /\ pc \in [Threads -> Labels]
      /\ error_code \in [Threads -> {Unset, 0, 2, 3, 4, 5}] /\ Unset = -1
  BY DEF IInv, TypeOK, Unset
<1>a. Kept = Parts => Kept' = Parts
  BY KeptGrows
<1>1. CASE UNCHANGED vars
  BY <1>0, <1>a, <1>1 DEF vars, ImageComplete
<1>2. CASE Join
  BY <1>0, <1>a, <1>2 DEF Join, ImageComplete
<1>3. CASE ReportError
  <2>1. PICK q \in Threads : error_code[q] # 0 /\ status' = error_code[q]
    BY <1>3 DEF ReportError
  <2>2. error_code[q] # Unset
    BY <1>0, <1>3, SizeAssumption DEF ReportError, Joined, Returned, Threads
  <2> QED
    BY <1>0, <1>a, <1>3, <2>1, <2>2 DEF ReportError, ImageComplete
<1>4. CASE CatPng
  <2>1. 0 \in Threads
    BY SizeAssumption DEF Threads
  <2>2. Kept = Parts
    BY <1>0, <1>4, <2>1 DEF CatPng, ImageComplete
  <2> QED
    BY <1>0, <1>a, <1>4, <2>2 DEF CatPng, ImageComplete
<1>5. ASSUME NEW th \in Threads, Thread(th) PROVE ImageComplete'
  <2>1. UNCHANGED <<out, status>>
    BY <1>5 DEF Thread, Lock, InitBuf, NoMemory, CurlError, Fetch, Relock,
                Check, Store, Count, Unlock, Test
  <2>2. \A q \in Threads : error_code[q] # Unset => error_code'[q] = error_code[q]
    BY <1>0, <1>5 DEF Returned, Thread, Lock, InitBuf, NoMemory, CurlError, Fetch, Relock,
                Check, Store, Count, Unlock, Test
  <2>3. ASSUME NEW q \in Threads, error_code'[q] = 0 PROVE Kept' = Parts
    <3>1. CASE error_code[q] = 0
      BY <1>0, <1>a, <3>1 DEF ImageComplete
    <3>2. CASE error_code[q] # 0
      <4>1. Test(q) /\ counter >= NumParts
        BY <1>0, <1>5, <2>3, <3>2 DEF Thread, Lock, InitBuf, NoMemory, CurlError, Fetch,
           Relock, Check, Store, Count, Unlock, Test
      <4> QED
        BY <1>a, <4>1, AllCounted
    <3> QED
      BY <3>1, <3>2
  <2> QED
    BY <1>0, <2>1, <2>2, <2>3 DEF ImageComplete
<1> QED
  BY <1>1, <1>2, <1>3, <1>4, <1>5 DEF Next, Main

-----------------------------------------------------------------------------
LEMMA Invariance == Spec => []IInv
<1>1. IInv /\ [Next]_vars => IInv'
  BY TypeStep, ExclusionStep, ReadyStep, ReturnStep, CountStep, ImageStep DEF IInv
<1> QED
  BY InitIInv, <1>1, PTL DEF Spec

(* Every variable keeps its type; in particular the counter never passes   *)
(* the number of strips, although lines 166-170 do not bound it.           *)
THEOREM TypeCorrect == Spec => []TypeOK
BY Invariance, PTL DEF IInv

(* The mutex is held exactly by the thread in the section, or for ever by  *)
(* one that returned from line 132.                                        *)
THEOREM MutexHeld == Spec => []Exclusion
BY Invariance, PTL DEF IInv

(* No strip is counted twice or forgotten (lines 166-170).                 *)
THEOREM CounterIsExact == Spec => []CounterExact
BY Invariance, PTL DEF IInv

(* The unlocked read at line 177 ends no thread too early, and main writes *)
(* all strips or nothing (lines 87-108).                                   *)
THEOREM ImageIsComplete == Spec => []ImageComplete
BY Invariance, PTL DEF IInv

-----------------------------------------------------------------------------
(* Implementation of StripAssembly *)

LEMMA AbstractInit == Init => Abstract!Init
<1> SUFFICES ASSUME Init PROVE Abstract!Init
  OBVIOUS
<1>1. Kept = {}
  BY DEF Init, Kept, Parts, Unset
<1> QED
  BY <1>1 DEF Init, Abstract!Init

LEMMA AbstractStep == ASSUME IInv, [Next]_vars PROVE [Abstract!Next]_(Abstract!vars)
<1> USE DEF Goto, Return, strips, main, faults
<1>1. CASE \E th \in Threads : Store(th)
  <2>1. PICK th \in Threads : Store(th)
    BY <1>1
  <2>2. seq[th] \in Parts \ Kept /\ Kept' = Kept \cup {seq[th]}
    BY <2>1, StoreAdds DEF IInv, StoreReady, Store
  <2>3. out.made = FALSE
    <3>1. pc[th] # "done" /\ joined \in 0 .. thread_count
      BY <2>1 DEF Store, IInv, TypeOK
    <3>2. joined # thread_count
      BY <3>1 DEF IInv, Joined, Threads
    <3> QED
      BY <3>2 DEF IInv, Joined, ImageComplete, TypeOK, Unset
  <2>4. UNCHANGED out
    BY <2>1 DEF Store
  <2>5. Abstract!Paste(seq[th])
    BY <2>2, <2>3, <2>4 DEF Abstract!Paste
  <2>6. seq[th] \in Abstract!Parts
    BY <2>2 DEF Abstract!Parts, Parts
  <2> QED
    BY <2>5, <2>6 DEF Abstract!Next
<1>2. CASE CatPng
  <2>1. 0 \in Threads
    BY SizeAssumption DEF Threads
  <2>2. Kept = Parts /\ Kept' = Kept
    BY <1>2, <2>1, KeptSame DEF CatPng, IInv, ImageComplete
  <2>3. out.made = FALSE
    BY <1>2 DEF CatPng, IInv, ImageComplete, TypeOK, Unset
  <2>4. Abstract!Finish
    BY <1>2, <2>2, <2>3 DEF CatPng, Abstract!Finish, Abstract!Parts, Parts
  <2> QED
    BY <2>4 DEF Abstract!Next
<1>3. CASE UNCHANGED <<horizontal_strips, out>>
  BY <1>3, KeptSame DEF Abstract!vars
<1> QED
  BY <1>1, <1>2, <1>3 DEF Next, Main, Join, ReportError, vars, Thread, Lock, InitBuf,
     NoMemory, CurlError, Fetch, Relock, Check, Count, Unlock, Test

(* Whatever fails, paster pastes each strip at most once, none after the   *)
(* image is written, and writes it only when it is complete.               *)
THEOREM Implements == Spec => AssemblesSafely
<1>1. IInv /\ [Next]_vars => [Abstract!Next]_(Abstract!vars)
  BY AbstractStep
<1> QED
  BY AbstractInit, Invariance, <1>1, PTL DEF Spec, AssemblesSafely, Abstract!Safe
=============================================================================
