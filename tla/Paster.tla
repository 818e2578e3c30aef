------------------------------- MODULE Paster -------------------------------
(***************************************************************************)
(* src/proj2/paster.c: threads ask a server again and again for a strip of *)
(* an image; the server answers with any strip it likes.  A strip that is  *)
(* new is kept and counted under one mutex, and the threads stop when the  *)
(* counter, which they read without the mutex, says that all are there.    *)
(* main joins the threads and concatenates the strips.                     *)
(*                                                                         *)
(* Of a strip only the number matters that its header announces (seq).     *)
(* horizontal_strips[i] is -1 until strip i is kept.  The states begin     *)
(* where main has created the threads, line 78.                            *)
(*                                                                         *)
(* A definition named Bug... is not part of the model: it is a variant of  *)
(* the definition that follows it, with a mistake that some property has   *)
(* to notice when it is put in that definition's place.                    *)
(***************************************************************************)
EXTENDS Integers, FiniteSets

CONSTANTS thread_count,  \* option -t
          NumParts,      \* strips of the image, image_strip_count
          MaxFailures,   \* bound: errors that curl reports
          MaxNoMemory    \* bound: malloc returns NULL

ASSUME SizeAssumption == thread_count \in Nat \ {0} /\ NumParts \in Nat \ {0}
ASSUME BoundAssumption == MaxFailures \in Nat /\ MaxNoMemory \in Nat

Threads == 0 .. thread_count - 1
Parts == 0 .. NumParts - 1
Free == -1      \* the mutex is held by nobody
Unset == -1     \* a number that was not announced, a code not returned yet

(* The header may be missing from an answer, or name a strip that the      *)
(* image does not have.                                                    *)
Announced == Parts \cup {Unset, NumParts}

VARIABLES
    lock,               \* the thread that holds the mutex
    horizontal_strips, counter,
    pc,                 \* the statement each thread is about to run
    seq,                \* the number in a thread's recv_buf
    error_code,         \* what each thread returned
    joined,             \* threads that main has joined
    out,                \* what catpng is given, once it runs
    status,             \* what main returned
    failures, nomemory  \* how often the environment let a thread down

vars == <<lock, horizontal_strips, counter, pc, seq, error_code, joined, out,
          status, failures, nomemory>>

Labels == {"lock", "init", "fetch", "relock", "check", "store", "count",
           "unlock", "test", "done"}

Init ==
    /\ lock = Free
    /\ horizontal_strips = [i \in Parts |-> Unset] /\ counter = 0
    /\ pc = [th \in Threads |-> "lock"]
    /\ seq = [th \in Threads |-> Unset]
    /\ error_code = [th \in Threads |-> Unset]
    /\ joined = 0 /\ status = Unset
    /\ out = [strips |-> {}, made |-> FALSE]
    /\ failures = 0 /\ nomemory = 0

Goto(th, from, to) == pc[th] = from /\ pc' = [pc EXCEPT ![th] = to]

Return(th, from, code) ==
    Goto(th, from, "done") /\ error_code' = [error_code EXCEPT ![th] = code]

Acquire(th) == lock = Free /\ lock' = th
Release == lock' = Free

strips == <<horizontal_strips, counter>>
main == <<joined, out, status>>
faults == <<failures, nomemory>>

-----------------------------------------------------------------------------
(* curl_operation, lines 119-182 *)

Lock(th) ==
    /\ Goto(th, "lock", "init") /\ Acquire(th)
    /\ UNCHANGED <<strips, seq, error_code, main, faults>>

InitBuf(th) ==
    /\ Goto(th, "init", "fetch") /\ Release
    /\ seq' = [seq EXCEPT ![th] = Unset]
    /\ UNCHANGED <<strips, error_code, main, faults>>

(* The thread returns from between lock and unlock.                        *)
NoMemory(th) ==
    /\ nomemory < MaxNoMemory /\ nomemory' = nomemory + 1
    /\ Return(th, "init", 2)
    /\ UNCHANGED <<lock, strips, seq, main, failures>>

(* curl_global_init, curl_easy_init or curl_easy_perform fails.            *)
CurlError(th) ==
    /\ failures < MaxFailures /\ failures' = failures + 1
    /\ \E code \in {3, 4, 5} : Return(th, "fetch", code)
    /\ UNCHANGED <<lock, strips, seq, main, nomemory>>

Fetch(th, n) ==
    /\ Goto(th, "fetch", "relock")
    /\ seq' = [seq EXCEPT ![th] = n]
    /\ UNCHANGED <<lock, strips, error_code, main, faults>>

\* planted bug: no pthread_mutex_lock
BugRelock(th) ==
    /\ Goto(th, "relock", "check")
    /\ UNCHANGED <<lock, strips, seq, error_code, main, faults>>

Relock(th) ==
    /\ Goto(th, "relock", "check") /\ Acquire(th)
    /\ UNCHANGED <<strips, seq, error_code, main, faults>>

(* For seq = -1 the code looks in front of the array; no build puts a word *)
(* there that is -1 (it is padding, or a part of another global that is    *)
(* never negative), so the answer is dropped.                              *)
IsNew(n) == n \in Parts /\ horizontal_strips[n] = Unset

\* planted bug: a strip that is there already is kept again
BugCheck(th) ==
    /\ Goto(th, "check", IF seq[th] \in Parts THEN "store" ELSE "unlock")
    /\ UNCHANGED <<lock, strips, seq, error_code, main, faults>>

Check(th) ==
    /\ Goto(th, "check", IF IsNew(seq[th]) THEN "store" ELSE "unlock")
    /\ UNCHANGED <<lock, strips, seq, error_code, main, faults>>

Store(th) ==
    /\ Goto(th, "store", "count")
    /\ horizontal_strips' = [horizontal_strips EXCEPT ![seq[th]] = seq[th]]
    /\ UNCHANGED <<lock, counter, seq, error_code, main, faults>>

Count(th) ==
    /\ Goto(th, "count", "unlock")
    /\ counter' = counter + 1
    /\ UNCHANGED <<lock, horizontal_strips, seq, error_code, main, faults>>

Unlock(th) ==
    /\ Goto(th, "unlock", "test") /\ Release
    /\ UNCHANGED <<strips, seq, error_code, main, faults>>

\* planted bug: the loop ends one strip too early
BugTest(th) ==
    /\ IF counter >= NumParts - 1
       THEN Return(th, "test", 0)
       ELSE Goto(th, "test", "lock") /\ UNCHANGED error_code
    /\ UNCHANGED <<lock, strips, seq, main, faults>>

\* planted bug: the loop ends one strip too late
BugTestLate(th) ==
    /\ IF counter > NumParts
       THEN Return(th, "test", 0)
       ELSE Goto(th, "test", "lock") /\ UNCHANGED error_code
    /\ UNCHANGED <<lock, strips, seq, main, faults>>

(* The counter is read after the mutex was given back.                     *)
Test(th) ==
    /\ IF counter >= NumParts
       THEN Return(th, "test", 0)
       ELSE Goto(th, "test", "lock") /\ UNCHANGED error_code
    /\ UNCHANGED <<lock, strips, seq, main, faults>>

Thread(th) ==
    \/ Lock(th) \/ InitBuf(th) \/ NoMemory(th) \/ CurlError(th)
    \/ \E n \in Announced : Fetch(th, n)
    \/ Relock(th) \/ Check(th) \/ Store(th) \/ Count(th) \/ Unlock(th) \/ Test(th)

-----------------------------------------------------------------------------
(* main, lines 79-117 *)

Kept == {i \in Parts : horizontal_strips[i] = i}

Join ==
    /\ joined < thread_count /\ pc[joined] = "done"
    /\ joined' = joined + 1
    /\ UNCHANGED <<lock, strips, pc, seq, error_code, out, status, faults>>

(* The first thread that has an error decides what main returns.           *)
ReportError ==
    /\ joined = thread_count /\ status = Unset
    /\ \E th \in Threads :
          /\ error_code[th] # 0 /\ \A q \in 0 .. th - 1 : error_code[q] = 0
          /\ status' = error_code[th]
    /\ UNCHANGED <<lock, strips, pc, seq, error_code, joined, out, faults>>

\* planted bug: the errors are not looked at
BugCatPng ==
    /\ joined = thread_count /\ status = Unset
    /\ out' = [strips |-> Kept, made |-> TRUE] /\ status' = 0
    /\ UNCHANGED <<lock, strips, pc, seq, error_code, joined, faults>>

CatPng ==
    /\ joined = thread_count /\ status = Unset
    /\ \A th \in Threads : error_code[th] = 0
    /\ out' = [strips |-> Kept, made |-> TRUE] /\ status' = 0
    /\ UNCHANGED <<lock, strips, pc, seq, error_code, joined, faults>>

Main == Join \/ ReportError \/ CatPng

Next == Main \/ \E th \in Threads : Thread(th)

(* The scheduler runs every thread that can run, the mutex may go to any   *)
(* thread that waits for it.  The server picks strips at random: as long   *)
(* as the threads ask, it hands out every strip again and again.           *)
Fairness == /\ WF_vars(Main)
            /\ \A th \in Threads : WF_vars(Thread(th))
            /\ \A n \in Parts : SF_vars(\E th \in Threads : Fetch(th, n))

Spec == Init /\ [][Next]_vars
FairSpec == Spec /\ Fairness

-----------------------------------------------------------------------------
(* Properties *)

At(A) == {th \in Threads : pc[th] \in A}

(* Every variable stays within the values the code can give it.            *)
TypeOK ==
    /\ lock \in Threads \cup {Free}
    /\ horizontal_strips \in [Parts -> Parts \cup {Unset}]
    /\ counter \in 0 .. NumParts
    /\ pc \in [Threads -> Labels]
    /\ seq \in [Threads -> Announced]
    /\ error_code \in [Threads -> {Unset, 0, 2, 3, 4, 5}]
    /\ joined \in 0 .. thread_count
    /\ out \in [strips : SUBSET Parts, made : BOOLEAN]
    /\ status \in {Unset, 0, 2, 3, 4, 5}
    /\ failures \in Nat /\ nomemory \in Nat

Section == {"init", "check", "store", "count", "unlock"}

(* The mutex is held by the one thread that is between a lock and an       *)
(* unlock, or by a thread that found no memory (line 132), for ever.       *)
Exclusion ==
    \A th \in Threads : lock = th <=> \/ pc[th] \in Section
                                      \/ error_code[th] = 2

(* The counter is the number of strips kept, or one behind while a thread  *)
(* is between lines 168 and 169: no strip is counted twice or forgotten,   *)
(* whichever threads bring it at the same time.                            *)
CounterExact ==
    Cardinality(Kept) = counter + (IF At({"count"}) = {} THEN 0 ELSE 1)

(* The unlocked read at line 177 never lets a thread end before all the    *)
(* strips are there; main concatenates all of them or nothing, and nothing *)
(* only if some thread failed.                                             *)
ImageComplete ==
    /\ \A th \in Threads : error_code[th] = 0 => Kept = Parts
    /\ out.made <=> status = 0
    /\ out.made => out.strips = Parts
    /\ status \notin {Unset, 0} => \E th \in Threads : error_code[th] = status

(* paster is a strip assembly that loses nothing: each strip is put in its *)
(* place once, none after the image was written, whatever fails.           *)
Abstract == INSTANCE StripAssembly WITH
                pasted <- Kept, lost <- {},
                image <- out.strips, written <- out.made
AssemblesSafely == Abstract!Safe

(* If nothing fails every thread comes to its end and the image is         *)
(* written, although the server answers with strips that are there already *)
(* as often as it likes before it sends a new one.                         *)
NothingFails == failures = 0 /\ nomemory = 0
Finishes == []NothingFails => <>out.made

(* A thread that found no memory is reported: main ends with its error, as *)
(* lines 92-94 say ("unable to malloc buffer for recv_buf").               *)
NoMemoryReported == \A th \in Threads : error_code[th] = 2 ~> status # Unset
=============================================================================
