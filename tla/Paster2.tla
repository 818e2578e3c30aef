------------------------------ MODULE Paster2 ------------------------------
(***************************************************************************)
(* src/proj3/paster2.c: producer processes fetch the strips of an image,   *)
(* consumer processes inflate them, and a stack in shared memory           *)
(* (src/proj3/shm_stack.c) hands the strips over.  Five POSIX semaphores   *)
(* guard the two claim counters and the stack.  The parent waits for all   *)
(* its children and concatenates the strips.                               *)
(*                                                                         *)
(* One action is one statement that touches shared memory.  A received     *)
(* strip is the slot of `def' it was written to (part), the number its     *)
(* header announced (seq) and how much of the body arrived (got).          *)
(*                                                                         *)
(* A definition named Bug... is not part of the model: it is a variant of  *)
(* the definition that follows it, with a mistake that some property has   *)
(* to notice when it is put in that definition's place.                    *)
(***************************************************************************)
EXTENDS Integers, FiniteSets

CONSTANTS Producers, Consumers,  \* the children, prod_cnt and cons_cnt of them
          BufSize,               \* slots of the stack, buf_size
          NumParts,              \* strips of the image, 50 in the code
          MaxFailures,           \* bound: transfers that curl reports failed
          MaxDeaths              \* bound: producers that return after a claim

ASSUME ProcessAssumption == /\ IsFiniteSet(Producers)
                            /\ IsFiniteSet(Consumers)
                            /\ Producers \cap Consumers = {}
ASSUME SizeAssumption == BufSize \in Nat \ {0} /\ NumParts \in Nat \ {0}
ASSUME BoundAssumption == MaxFailures \in Nat /\ MaxDeaths \in Nat

Procs == Producers \cup Consumers
Parts == 0 .. NumParts - 1
Slots == 0 .. BufSize - 1
SemName == {"mutex_p", "mutex_c", "empty", "filled", "buffer_lock"}

Buf == [part : Parts, seq : Parts \cup {-1}, got : {"none", "head", "whole"}]
NoBuf == [part |-> -1, seq |-> 0, got |-> "none"]   \* a zeroed RECV_BUF

ProdLabels == {"p_lock", "p_test", "p_incr", "p_fetch", "p_empty", "p_buf",
               "p_push", "p_store", "p_unbuf", "p_filled"}
ConsLabels == {"c_lock", "c_test", "c_incr", "c_filled", "c_buf", "c_pop",
               "c_dec", "c_unbuf", "c_empty", "c_attr", "c_add", "c_inf"}

VARIABLES
    sem,             \* the values of the semaphores
    counter_p,       \* parts claimed by producers (shared)
    counter_c,       \* parts claimed by consumers (shared)
    pos, items,      \* the shared stack: index of its top, and its slots
    img_attr,        \* img_attr[0] the width, img_attr[1] the summed height
    inf,             \* inf[i]: the whole of strip i has been inflated
    pc,              \* the statement each child is about to run
    local_counter,   \* a producer's claim
    p_recv_buf,      \* a producer's buffer
    temp,            \* a consumer's buffer
    reg,             \* the height a consumer has loaded for its +=
    reaped,          \* children the parent has waited for
    out,             \* what catpng is given, once it runs
    failures, deaths \* how often the environment let a transfer, a child down

vars == <<sem, counter_p, counter_c, pos, items, img_attr, inf, pc,
          local_counter, p_recv_buf, temp, reg, reaped, out, failures, deaths>>

NoImage == [attr |-> [i \in 0 .. 1 |-> 0], strips |-> {}, made |-> FALSE]

Init ==
    /\ sem = [s \in SemName |-> CASE s = "empty" -> BufSize
                                  [] s = "filled" -> 0
                                  [] OTHER -> 1]
    /\ counter_p = 0 /\ counter_c = 0
    /\ pos = -1 /\ items = [k \in Slots |-> NoBuf]
    /\ img_attr = [i \in 0 .. 1 |-> 0]
    /\ inf = [i \in Parts |-> FALSE]
    /\ pc = [q \in Procs |-> IF q \in Producers THEN "p_lock" ELSE "c_lock"]
    /\ local_counter = [p \in Producers |-> 0]
    /\ p_recv_buf = [p \in Producers |-> NoBuf]
    /\ temp = [c \in Consumers |-> NoBuf]
    /\ reg = [c \in Consumers |-> 0]
    /\ reaped = 0 /\ out = NoImage
    /\ failures = 0 /\ deaths = 0

-----------------------------------------------------------------------------
(* Helpers *)

SemWait(s) == sem[s] > 0 /\ sem' = [sem EXCEPT ![s] = @ - 1]
SemPost(s) == sem' = [sem EXCEPT ![s] = @ + 1]

Goto(q, from, to) == pc[q] = from /\ pc' = [pc EXCEPT ![q] = to]

(* The children that stand at one of the labels of A.                      *)
At(A) == {q \in Procs : pc[q] \in A}

is_full == pos = BufSize - 1
is_empty == pos = -1

(* What a transfer may leave in the buffer that recv_buf_init reset: the   *)
(* whole strip, or, when curl fails, nothing at all, the fragment header   *)
(* alone, or the header and the beginning of the body.                     *)
Received(i) == [part |-> i, seq |-> i, got |-> "whole"]
Broken(i) == {[part |-> i, seq |-> -1, got |-> "none"],
              [part |-> i, seq |-> i, got |-> "none"],
              [part |-> i, seq |-> i, got |-> "head"]}

(* The height found at its place in the IHDR; 0 when it never arrived.     *)
HeightIn(b) == IF b.got = "none" THEN 0 ELSE 1

prodLocals == <<local_counter, p_recv_buf>>
consLocals == <<temp, reg>>
stack == <<pos, items>>
image == <<img_attr, inf>>
parent == <<reaped, out>>
faults == <<failures, deaths>>

-----------------------------------------------------------------------------
(* A producer, lines 114-200 *)

\* planted bug: no sem_wait(mutex_p)
BugProdLock(p) == Goto(p, "p_lock", "p_test") /\ UNCHANGED <<sem, counter_p, counter_c, prodLocals, consLocals, stack, image, parent, faults>>

ProdLock(p) ==
    /\ Goto(p, "p_lock", "p_test") /\ SemWait("mutex_p")
    /\ UNCHANGED <<counter_p, counter_c, prodLocals, consLocals, stack, image, parent, faults>>

\* planted bug: break without sem_post(mutex_p)
BugProdQuit(p) ==
    /\ counter_p = NumParts /\ Goto(p, "p_test", "done")
    /\ UNCHANGED <<sem, counter_p, counter_c, prodLocals, consLocals, stack, image, parent, faults>>

ProdQuit(p) ==
    /\ counter_p = NumParts
    /\ Goto(p, "p_test", "done") /\ SemPost("mutex_p")
    /\ UNCHANGED <<counter_p, counter_c, prodLocals, consLocals, stack, image, parent, faults>>

\* planted bug: the claim is not bounded
BugProdRead(p) ==
    /\ Goto(p, "p_test", "p_incr")
    /\ local_counter' = [local_counter EXCEPT ![p] = counter_p]
    /\ UNCHANGED <<sem, counter_p, counter_c, p_recv_buf, consLocals, stack, image, parent, faults>>

ProdRead(p) ==
    /\ counter_p # NumParts
    /\ Goto(p, "p_test", "p_incr")
    /\ local_counter' = [local_counter EXCEPT ![p] = counter_p]
    /\ UNCHANGED <<sem, counter_p, counter_c, p_recv_buf, consLocals, stack, image, parent, faults>>

ProdClaim(p) ==
    /\ Goto(p, "p_incr", "p_fetch") /\ SemPost("mutex_p")
    /\ counter_p' = counter_p + 1
    /\ UNCHANGED <<counter_c, prodLocals, consLocals, stack, image, parent, faults>>

(* curl_easy_perform; a failed transfer is only reported, then pushed too. *)
ProdFetch(p) ==
    /\ Goto(p, "p_fetch", "p_empty")
    /\ p_recv_buf' = [p_recv_buf EXCEPT ![p] = Received(local_counter[p])]
    /\ UNCHANGED <<sem, counter_p, counter_c, local_counter, consLocals, stack, image, parent, faults>>

ProdFetchFails(p) ==
    /\ failures < MaxFailures /\ failures' = failures + 1
    /\ Goto(p, "p_fetch", "p_empty")
    /\ \E b \in Broken(local_counter[p]) : p_recv_buf' = [p_recv_buf EXCEPT ![p] = b]
    /\ UNCHANGED <<sem, counter_p, counter_c, local_counter, consLocals, stack, image, parent, deaths>>

(* curl_easy_init gives NULL: the child returns, its claim is never pushed. *)
ProdDies(p) ==
    /\ deaths < MaxDeaths /\ deaths' = deaths + 1
    /\ Goto(p, "p_fetch", "done")
    /\ UNCHANGED <<sem, counter_p, counter_c, prodLocals, consLocals, stack, image, parent, failures>>

\* planted bug: no sem_wait(empty)
BugProdWaitEmpty(p) == Goto(p, "p_empty", "p_buf") /\ UNCHANGED <<sem, counter_p, counter_c, prodLocals, consLocals, stack, image, parent, faults>>

ProdWaitEmpty(p) ==
    /\ Goto(p, "p_empty", "p_buf") /\ SemWait("empty")
    /\ UNCHANGED <<counter_p, counter_c, prodLocals, consLocals, stack, image, parent, faults>>

ProdLockBuf(p) ==
    /\ Goto(p, "p_buf", "p_push") /\ SemWait("buffer_lock")
    /\ UNCHANGED <<counter_p, counter_c, prodLocals, consLocals, stack, image, parent, faults>>

(* push: a full stack makes the child exit with buffer_lock held.          *)
ProdPushGrow(p) ==
    /\ IF is_full
       THEN Goto(p, "p_push", "done") /\ UNCHANGED pos
       ELSE Goto(p, "p_push", "p_store") /\ pos' = pos + 1
    /\ UNCHANGED <<sem, counter_p, counter_c, prodLocals, consLocals, items, image, parent, faults>>

ProdPushStore(p) ==
    /\ Goto(p, "p_store", "p_unbuf")
    /\ items' = [items EXCEPT ![pos] = p_recv_buf[p]]
    /\ UNCHANGED <<sem, counter_p, counter_c, prodLocals, consLocals, pos, image, parent, faults>>

ProdUnlockBuf(p) ==
    /\ Goto(p, "p_unbuf", "p_filled") /\ SemPost("buffer_lock")
    /\ UNCHANGED <<counter_p, counter_c, prodLocals, consLocals, stack, image, parent, faults>>

(* p_recv_buf is local to the loop's body: the next round has a new one.   *)
ProdPostFilled(p) ==
    /\ Goto(p, "p_filled", "p_lock") /\ SemPost("filled")
    /\ p_recv_buf' = [p_recv_buf EXCEPT ![p] = NoBuf]
    /\ UNCHANGED <<counter_p, counter_c, local_counter, consLocals, stack, image, parent, faults>>

Producer(p) ==
    \/ ProdLock(p) \/ ProdQuit(p) \/ ProdRead(p) \/ ProdClaim(p)
    \/ ProdFetch(p) \/ ProdFetchFails(p) \/ ProdDies(p)
    \/ ProdWaitEmpty(p) \/ ProdLockBuf(p) \/ ProdPushGrow(p) \/ ProdPushStore(p)
    \/ ProdUnlockBuf(p) \/ ProdPostFilled(p)

-----------------------------------------------------------------------------
(* A consumer, lines 220-270 *)

ConsLock(c) ==
    /\ Goto(c, "c_lock", "c_test") /\ SemWait("mutex_c")
    /\ UNCHANGED <<counter_p, counter_c, prodLocals, consLocals, stack, image, parent, faults>>

ConsQuit(c) ==
    /\ counter_c = NumParts
    /\ Goto(c, "c_test", "done") /\ SemPost("mutex_c")
    /\ UNCHANGED <<counter_p, counter_c, prodLocals, consLocals, stack, image, parent, faults>>

ConsTest(c) ==
    /\ counter_c # NumParts
    /\ Goto(c, "c_test", "c_incr")
    /\ UNCHANGED <<sem, counter_p, counter_c, prodLocals, consLocals, stack, image, parent, faults>>

ConsClaim(c) ==
    /\ Goto(c, "c_incr", "c_filled") /\ SemPost("mutex_c")
    /\ counter_c' = counter_c + 1
    /\ UNCHANGED <<counter_p, prodLocals, consLocals, stack, image, parent, faults>>

ConsWaitFilled(c) ==
    /\ Goto(c, "c_filled", "c_buf") /\ SemWait("filled")
    /\ UNCHANGED <<counter_p, counter_c, prodLocals, consLocals, stack, image, parent, faults>>

ConsLockBuf(c) ==
    /\ Goto(c, "c_buf", "c_pop") /\ SemWait("buffer_lock")
    /\ UNCHANGED <<counter_p, counter_c, prodLocals, consLocals, stack, image, parent, faults>>

(* pop: an empty stack makes the child exit with buffer_lock held.         *)
ConsPopRead(c) ==
    /\ IF is_empty
       THEN Goto(c, "c_pop", "done") /\ UNCHANGED temp
       ELSE Goto(c, "c_pop", "c_dec") /\ temp' = [temp EXCEPT ![c] = items[pos]]
    /\ UNCHANGED <<sem, counter_p, counter_c, prodLocals, reg, stack, image, parent, faults>>

ConsPopDrop(c) ==
    /\ Goto(c, "c_dec", "c_unbuf")
    /\ pos' = pos - 1
    /\ UNCHANGED <<sem, counter_p, counter_c, prodLocals, consLocals, items, image, parent, faults>>

ConsUnlockBuf(c) ==
    /\ Goto(c, "c_unbuf", "c_empty") /\ SemPost("buffer_lock")
    /\ UNCHANGED <<counter_p, counter_c, prodLocals, consLocals, stack, image, parent, faults>>

\* planted bug: the wrong semaphore is posted
BugConsPostEmpty(c) ==
    /\ Goto(c, "c_empty", "c_attr") /\ SemPost("filled")
    /\ UNCHANGED <<counter_p, counter_c, prodLocals, consLocals, stack, image, parent, faults>>

ConsPostEmpty(c) ==
    /\ Goto(c, "c_empty", "c_attr") /\ SemPost("empty")
    /\ UNCHANGED <<counter_p, counter_c, prodLocals, consLocals, stack, image, parent, faults>>

(* The strip with seq 0 brings the width; img_attr[1] is loaded for the +=, *)
(* which no semaphore guards.                                              *)
ConsReadHeight(c) ==
    /\ Goto(c, "c_attr", "c_add")
    /\ img_attr' = IF temp[c].seq = 0
                   THEN [img_attr EXCEPT ![0] = HeightIn(temp[c])]
                   ELSE img_attr
    /\ reg' = [reg EXCEPT ![c] = img_attr[1]]
    /\ UNCHANGED <<sem, counter_p, counter_c, prodLocals, temp, stack, inf, parent, faults>>

ConsWriteHeight(c) ==
    /\ Goto(c, "c_add", "c_inf")
    /\ img_attr' = [img_attr EXCEPT ![1] = reg[c] + HeightIn(temp[c])]
    /\ reg' = [reg EXCEPT ![c] = 0]
    /\ UNCHANGED <<sem, counter_p, counter_c, prodLocals, temp, stack, inf, parent, faults>>

(* mem_inf into the strip's own place; of a broken strip only a part, or   *)
(* nothing, is inflated, and the error is only reported.                   *)
ConsInflate(c) ==
    /\ Goto(c, "c_inf", "c_lock")
    /\ inf' = IF temp[c].got = "whole" THEN [inf EXCEPT ![temp[c].seq] = TRUE] ELSE inf
    /\ temp' = [temp EXCEPT ![c] = NoBuf]
    /\ UNCHANGED <<sem, counter_p, counter_c, prodLocals, reg, stack, img_attr, parent, faults>>

Consumer(c) ==
    \/ ConsLock(c) \/ ConsQuit(c) \/ ConsTest(c) \/ ConsClaim(c)
    \/ ConsWaitFilled(c) \/ ConsLockBuf(c) \/ ConsPopRead(c) \/ ConsPopDrop(c)
    \/ ConsUnlockBuf(c) \/ ConsPostEmpty(c)
    \/ ConsReadHeight(c) \/ ConsWriteHeight(c) \/ ConsInflate(c)

-----------------------------------------------------------------------------
(* The parent, lines 278-337: one wait for each child it forked, then the  *)
(* strips are concatenated and the semaphores destroyed.                   *)

Reap ==
    /\ reaped < Cardinality(At({"done"}))
    /\ reaped' = reaped + 1
    /\ UNCHANGED <<sem, counter_p, counter_c, pc, prodLocals, consLocals, stack, image, out, faults>>

\* planted bug: only prod_cnt waits
BugConcatenate ==
    /\ reaped = Cardinality(Producers) /\ ~out.made
    /\ out' = [attr |-> img_attr, strips |-> {i \in Parts : inf[i]}, made |-> TRUE]
    /\ UNCHANGED <<sem, counter_p, counter_c, pc, prodLocals, consLocals, stack, image, reaped, faults>>

Concatenate ==
    /\ reaped = Cardinality(Procs) /\ ~out.made
    /\ out' = [attr |-> img_attr, strips |-> {i \in Parts : inf[i]}, made |-> TRUE]
    /\ UNCHANGED <<sem, counter_p, counter_c, pc, prodLocals, consLocals, stack, image, reaped, faults>>

Parent == Reap \/ Concatenate

Next == Parent \/ (\E p \in Producers : Producer(p)) \/ (\E c \in Consumers : Consumer(c))

(* The kernel runs every process that can run.  A semaphore may be handed  *)
(* to any waiter, so no strong fairness is asked for.                      *)
Fairness == /\ WF_vars(Parent)
            /\ \A p \in Producers : WF_vars(Producer(p))
            /\ \A c \in Consumers : WF_vars(Consumer(c))

Spec == Init /\ [][Next]_vars
FairSpec == Spec /\ Fairness

-----------------------------------------------------------------------------
(* Properties *)

Bufs == Buf \cup {NoBuf}

(* Every variable stays within the values the code can give it.            *)
TypeOK ==
    /\ sem \in [SemName -> Nat]
    /\ counter_p \in 0 .. NumParts /\ counter_c \in 0 .. NumParts
    /\ pos \in -1 .. BufSize - 1
    /\ items \in [Slots -> Bufs]
    /\ img_attr \in [0 .. 1 -> Nat]
    /\ inf \in [Parts -> BOOLEAN]
    /\ pc \in [Procs -> ProdLabels \cup ConsLabels \cup {"done"}]
    /\ \A p \in Producers : pc[p] \in ProdLabels \cup {"done"}
    /\ \A c \in Consumers : pc[c] \in ConsLabels \cup {"done"}
    /\ local_counter \in [Producers -> Parts]
    /\ p_recv_buf \in [Producers -> Bufs]
    /\ temp \in [Consumers -> Bufs]
    /\ reg \in [Consumers -> Nat]
    /\ reaped \in 0 .. Cardinality(Procs)
    /\ out \in [attr : [0 .. 1 -> Nat], strips : SUBSET Parts, made : BOOLEAN]
    /\ failures \in 0 .. MaxFailures /\ deaths \in 0 .. MaxDeaths

(* Each slot of the stack is accounted for at every moment: `empty' counts *)
(* the free ones no producer has been promised and none a consumer is      *)
(* about to give back, `filled' the used ones no consumer has been         *)
(* promised.  This is what the waits and posts of lines 183-193 and        *)
(* 233-248 are for.                                                        *)
EmptyAccounting ==
    sem["empty"] + Cardinality(At({"p_buf", "p_push"})) + (pos + 1)
                 + Cardinality(At({"c_unbuf", "c_empty"})) = BufSize
FilledAccounting ==
    sem["filled"] + Cardinality(At({"p_store", "p_unbuf", "p_filled"}))
                  + Cardinality(At({"c_buf", "c_pop", "c_dec"})) = pos + 1
SlotAccounting == EmptyAccounting /\ FilledAccounting

(* Whoever calls push finds room and whoever calls pop finds an item, so   *)
(* the exits at lines 189 and 241, which would leave buffer_lock taken for *)
(* ever, are never reached.                                                *)
StackNeverFails ==
    /\ At({"p_push"}) # {} => ~is_full
    /\ At({"c_pop"}) # {} => ~is_empty

BufSection == {"p_push", "p_store", "p_unbuf", "c_pop", "c_dec", "c_unbuf"}
ClaimSection == {"p_test", "p_incr"}
TakeSection == {"c_test", "c_incr"}

(* Each critical section holds at most one child, and its semaphore is 0   *)
(* exactly while somebody is inside.                                       *)
Exclusion ==
    /\ sem["buffer_lock"] + Cardinality(At(BufSection)) = 1
    /\ sem["mutex_p"] + Cardinality(At(ClaimSection)) = 1
    /\ sem["mutex_c"] + Cardinality(At(TakeSection)) = 1

(* The places where strip i can be: with the producer that claimed it, on  *)
(* the stack (not the slot that is being filled or given up), with the     *)
(* consumer that popped it, or inflated.                                   *)
WithProducer(i) ==
    {p \in At({"p_incr", "p_fetch", "p_empty", "p_buf", "p_push", "p_store"}) :
        local_counter[p] = i}
OnStack(i) ==
    {k \in 0 .. pos : /\ items[k].part = i
                      /\ k = pos => At({"p_store", "c_dec"}) = {}}
WithConsumer(i) == {c \in Consumers : temp[c].part = i}
Copies(i) == Cardinality(WithProducer(i)) + Cardinality(OnStack(i))
             + Cardinality(WithConsumer(i)) + (IF inf[i] THEN 1 ELSE 0)

(* No interleaving makes two children work on one strip, overwrites a      *)
(* strip on the stack or pops it twice; and a claimed strip that is        *)
(* nowhere is one that curl or a child's early return lost.                *)
OneCopy ==
    /\ \A i \in Parts : Copies(i) <= 1
    /\ Cardinality({i \in 0 .. counter_p - 1 : Copies(i) = 0}) <= failures + deaths

(* wait() at lines 278-281 takes whichever child ends first, yet the       *)
(* parent goes on only when every child is done, every strip was claimed,  *)
(* pushed and popped, nobody is left in a critical section, and the        *)
(* semaphores it is about to destroy are as sem_init made them.  If a      *)
(* producer died after its claim this never happens: the last consumer     *)
(* waits on `filled' for ever and no image is written at all.              *)
ParentWaitsForAll ==
    out.made =>
        /\ At({"done"}) = Procs
        /\ counter_p = NumParts /\ counter_c = NumParts
        /\ deaths = 0
        /\ pos = -1
        /\ sem = [s \in SemName |-> CASE s = "empty" -> BufSize
                                      [] s = "filled" -> 0
                                      [] OTHER -> 1]
        /\ Cardinality(Parts \ out.strips) <= failures

(* The height given to catpng is the sum of the strips' heights, as the    *)
(* report of the project says ("all.png: 400 x 300").                      *)
HeightExact == out.made => out.attr[1] = NumParts

(* When no child dies paster2 is a strip assembly, whatever transfers fail *)
(* and however the children interleave: each strip is put in its place     *)
(* exactly once or is one whose transfer failed, every child ends, and the *)
(* image is written and made of all the strips in place.                   *)
Abstract == INSTANCE StripAssembly WITH
                pasted <- {i \in Parts : inf[i]},
                lost <- {i \in 0 .. counter_p - 1 : Copies(i) = 0},
                image <- out.strips,
                written <- out.made
Assembles == Abstract!Spec

(* And when children die it is one too, as far as it goes.                 *)
AssemblesSafely == Abstract!Safe
=============================================================================
