------------------------------ MODULE Findpng2 ------------------------------
(***************************************************************************)
(* src/proj4/findpng2.c with lab_png.h and pthread_stack.c: a crawler of   *)
(* several threads.  They share a stack of URLs to visit (frontier), a     *)
(* hash table of URLs ever found (table, and dp for the log), a stack of   *)
(* PNG URLs (png), the counters waiting_thread and image_counter, three    *)
(* mutexes and one condition variable.                                     *)
(*                                                                         *)
(* An action is one step under a lock, or the acquisition of a lock.  The  *)
(* web is given by the constants; a transfer may fail.                     *)
(*                                                                         *)
(* A definition named Bug... is not part of the model: it is a variant of  *)
(* the definition that follows it, with a mistake that some property has   *)
(* to notice when it is put in that definition's place.                    *)
(***************************************************************************)
EXTENDS Integers, Sequences, FiniteSets

CONSTANTS Threads,      \* the crawling threads, t of them
          m,            \* images wanted
          StackSize,    \* capacity of the stacks, 1000 in the code
          Urls, Seed, Links, Redirect,  \* the web, as in Crawl
          Kind,         \* Kind[u]: what is served at u: "html", "png", "other"
          MaxFailures,  \* bound: transfers that curl reports failed
          MaxSpurious   \* bound: spurious wakeups of pthread_cond_wait

ASSUME ThreadAssumption == IsFiniteSet(Threads) /\ Threads # {}
ASSUME WebAssumption == /\ Seed \in Urls
                        /\ Links \in [Urls -> Seq(Urls)]
                        /\ Redirect \in [Urls -> Urls]
                        /\ Kind \in [Urls -> {"html", "png", "other"}]
ASSUME SizeAssumption == m \in Nat \ {0} /\ StackSize \in Nat \ {0}
ASSUME BoundAssumption == MaxFailures \in Nat /\ MaxSpurious \in Nat

t == Cardinality(Threads)
Mutex == {"stack_mutex", "hashmap_mutex", "png_mutex"}
Free == "free"    \* a mutex that no thread holds
ASSUME FreeAssumption == Free \notin Threads

VARIABLES
    owner,           \* owner[x]: the thread that holds mutex x
    frontier,        \* URLs to visit, the top of the stack last
    table, dp,       \* URLs ever found: the hash table and the log
    png,             \* URLs of images, the top of the stack last
    waiting_thread, image_counter,
    pc,              \* the statement each thread is about to run
    url,             \* the URL a thread has popped
    todo,            \* the links of its page a thread has not looked at yet
    png_urls,        \* the lines main writes to png_urls.txt
    log,             \* the URLs main writes to the log of option -v
    written, logged, \* main has written them
    failures, spurious

vars == <<owner, frontier, table, dp, png, waiting_thread, image_counter, pc,
          url, todo, png_urls, log, written, logged, failures, spurious>>

Labels == {"top", "look", "asleep", "relock", "recheck", "fetch", "link",
           "find", "enter", "push", "pushing", "signal", "png", "count",
           "close", "check", "left", "ended"}

(* create_stack, push and pop: a push to a full stack changes nothing and  *)
(* its -1 is looked at for the seed alone.                                 *)
EmptyStack == <<>>
IsFull(s) == Len(s) = StackSize
Pushed(s, u) == IF IsFull(s) THEN s ELSE Append(s, u)
Front(s) == SubSeq(s, 1, Len(s) - 1)

(* main up to pthread_create: the seed is entered, logged and pushed.      *)
InitMarks == table = {Seed} /\ dp = <<Seed>>
InitStacks == frontier = Pushed(EmptyStack, Seed) /\ png = EmptyStack
InitThreads ==
    /\ pc = [th \in Threads |-> "top"]
    /\ url = [th \in Threads |-> Seed]
    /\ todo = [th \in Threads |-> <<>>]

Init ==
    /\ owner = [x \in Mutex |-> Free]
    /\ waiting_thread = 1 /\ image_counter = 0
    /\ InitMarks /\ InitStacks /\ InitThreads
    /\ png_urls = <<>> /\ log = <<>> /\ written = FALSE /\ logged = FALSE
    /\ failures = 0 /\ spurious = 0

-----------------------------------------------------------------------------
(* Helpers *)

Goto(th, from, to) == pc[th] = from /\ pc' = [pc EXCEPT ![th] = to]

Lock(th, x) == owner[x] = Free /\ owner' = [owner EXCEPT ![x] = th]
Unlock(th, x) == owner' = [owner EXCEPT ![x] = Free]

Asleep == {th \in Threads : pc[th] = "asleep"}

\* planted bug: the frontier may still have work
BugWorkLeft == waiting_thread >= t \/ m <= image_counter

\* planted bug: an image too many
BugPastM == (frontier = <<>> /\ waiting_thread >= t) \/ m < image_counter

(* "nothing to pop & every thing is waiting or counter is met", the test   *)
(* of lines 40 and 86                                                      *)
CrawlIsOver == \/ frontier = <<>> /\ waiting_thread >= t
               \/ m <= image_counter

stacks == <<frontier, png>>
marks == <<table, dp>>
counters == <<waiting_thread, image_counter>>
main == <<png_urls, log, written, logged>>
faults == <<failures, spurious>>

-----------------------------------------------------------------------------
(* Lines 31-53: take a URL from the frontier, or sleep until there is one. *)

LockFrontier(th) ==
    /\ Goto(th, "top", "look") /\ Lock(th, "stack_mutex")
    /\ UNCHANGED <<stacks, marks, counters, url, todo, main, faults>>

(* pthread_cond_wait gives the mutex back and sleeps in one step.          *)
Wait(th) ==
    /\ frontier = <<>>
    /\ Goto(th, "look", "asleep") /\ Unlock(th, "stack_mutex")
    /\ waiting_thread' = waiting_thread + 1
    /\ UNCHANGED <<stacks, marks, image_counter, url, todo, main, faults>>

Relock(th) ==
    /\ Goto(th, "relock", "recheck") /\ Lock(th, "stack_mutex")
    /\ UNCHANGED <<stacks, marks, counters, url, todo, main, faults>>

\* planted bug: return with the mutex held
BugLeave(th) ==
    /\ CrawlIsOver
    /\ Goto(th, "recheck", "left")
    /\ UNCHANGED <<owner, stacks, marks, counters, url, todo, main, faults>>

Leave(th) ==
    /\ CrawlIsOver
    /\ Goto(th, "recheck", "left") /\ Unlock(th, "stack_mutex")
    /\ UNCHANGED <<stacks, marks, counters, url, todo, main, faults>>

\* planted bug: the thread is not taken off the count
BugLookAgain(th) ==
    /\ ~CrawlIsOver
    /\ Goto(th, "recheck", "look")
    /\ UNCHANGED <<owner, stacks, marks, counters, url, todo, main, faults>>

LookAgain(th) ==
    /\ ~CrawlIsOver
    /\ Goto(th, "recheck", "look")
    /\ waiting_thread' = waiting_thread - 1
    /\ UNCHANGED <<owner, stacks, marks, image_counter, url, todo, main, faults>>

\* planted bug: a thread that never waited is taken off the count too
BugPop(th) ==
    /\ frontier # <<>>
    /\ Goto(th, "look", "fetch") /\ Unlock(th, "stack_mutex")
    /\ url' = [url EXCEPT ![th] = frontier[Len(frontier)]]
    /\ frontier' = Front(frontier)
    /\ waiting_thread' = waiting_thread - 1
    /\ UNCHANGED <<png, marks, image_counter, todo, main, faults>>

Pop(th) ==
    /\ frontier # <<>>
    /\ Goto(th, "look", "fetch") /\ Unlock(th, "stack_mutex")
    /\ url' = [url EXCEPT ![th] = frontier[Len(frontier)]]
    /\ frontier' = Front(frontier)
    /\ UNCHANGED <<png, marks, counters, todo, main, faults>>

-----------------------------------------------------------------------------
(* Lines 55-84: the transfer and process_data.                             *)

(* The page that is processed is the one the redirections end at.          *)
Fetch(th) ==
    LET u == Redirect[url[th]] IN
    /\ CASE Kind[u] = "html" -> /\ Goto(th, "fetch", "link")
                                /\ todo' = [todo EXCEPT ![th] = Links[u]]
         [] Kind[u] = "png" -> Goto(th, "fetch", "png") /\ UNCHANGED todo
         [] OTHER -> Goto(th, "fetch", "close") /\ UNCHANGED todo
    /\ UNCHANGED <<owner, stacks, marks, counters, url, main, faults>>

(* continue: the next URL, without the test at the end of the loop         *)
FetchFails(th) ==
    /\ failures < MaxFailures /\ failures' = failures + 1
    /\ Goto(th, "fetch", "top")
    /\ UNCHANGED <<owner, stacks, marks, counters, url, todo, main, spurious>>

(* find_http, one link at a time *)
LockTable(th) ==
    /\ todo[th] # <<>>
    /\ Goto(th, "link", "find") /\ Lock(th, "hashmap_mutex")
    /\ UNCHANGED <<stacks, marks, counters, url, todo, main, faults>>

NoMoreLinks(th) ==
    /\ todo[th] = <<>>
    /\ Goto(th, "link", "close")
    /\ UNCHANGED <<owner, stacks, marks, counters, url, todo, main, faults>>

Known(th) ==
    /\ Goto(th, "find", "link") /\ Unlock(th, "hashmap_mutex")
    /\ Head(todo[th]) \in table
    /\ todo' = [todo EXCEPT ![th] = Tail(@)]
    /\ UNCHANGED <<stacks, marks, counters, url, main, faults>>

\* planted bug: hash_counter is not advanced, the next line is overwritten
BugEnter(th) ==
    /\ Goto(th, "enter", "push") /\ Unlock(th, "hashmap_mutex")
    /\ table' = table \cup {Head(todo[th])}
    /\ dp' = [dp EXCEPT ![Len(dp)] = Head(todo[th])]
    /\ UNCHANGED <<stacks, counters, url, todo, main, faults>>

\* planted bug: the mutex is given back between FIND and ENTER
BugUnknown(th) ==
    /\ Goto(th, "find", "enter") /\ Unlock(th, "hashmap_mutex")
    /\ Head(todo[th]) \notin table
    /\ UNCHANGED <<stacks, marks, counters, url, todo, main, faults>>

Unknown(th) ==
    /\ Goto(th, "find", "enter")
    /\ Head(todo[th]) \notin table
    /\ UNCHANGED <<owner, stacks, marks, counters, url, todo, main, faults>>

Enter(th) ==
    /\ Goto(th, "enter", "push") /\ Unlock(th, "hashmap_mutex")
    /\ table' = table \cup {Head(todo[th])}
    /\ dp' = Append(dp, Head(todo[th]))
    /\ UNCHANGED <<stacks, counters, url, todo, main, faults>>

LockPush(th) ==
    /\ Goto(th, "push", "pushing") /\ Lock(th, "stack_mutex")
    /\ UNCHANGED <<stacks, marks, counters, url, todo, main, faults>>

PushUrl(th) ==
    /\ Goto(th, "pushing", "signal") /\ Unlock(th, "stack_mutex")
    /\ frontier' = Pushed(frontier, Head(todo[th]))
    /\ UNCHANGED <<png, marks, counters, url, todo, main, faults>>

(* pthread_cond_signal wakes one sleeper if there is one.                  *)
Signal(th) ==
    /\ pc[th] = "signal"
    /\ IF Asleep = {}
       THEN pc' = [pc EXCEPT ![th] = "link"]
       ELSE \E s \in Asleep : pc' = [pc EXCEPT ![th] = "link", ![s] = "relock"]
    /\ todo' = [todo EXCEPT ![th] = Tail(@)]
    /\ UNCHANGED <<owner, stacks, marks, counters, url, main, faults>>

(* process_png *)
LockPng(th) ==
    /\ Goto(th, "png", "count") /\ Lock(th, "png_mutex")
    /\ UNCHANGED <<stacks, marks, counters, url, todo, main, faults>>

CountPng(th) ==
    /\ Goto(th, "count", "close") /\ Unlock(th, "png_mutex")
    /\ png' = Pushed(png, Redirect[url[th]])
    /\ image_counter' = image_counter + 1
    /\ UNCHANGED <<frontier, marks, waiting_thread, url, todo, main, faults>>

-----------------------------------------------------------------------------
(* Lines 85-94: the end of the loop's body.                                *)

LockCheck(th) ==
    /\ Goto(th, "close", "check") /\ Lock(th, "stack_mutex")
    /\ UNCHANGED <<stacks, marks, counters, url, todo, main, faults>>

(* pthread_cond_broadcast wakes every sleeper.                             *)
Break(th) ==
    /\ pc[th] = "check" /\ CrawlIsOver
    /\ pc' = [q \in Threads |-> IF q = th THEN "ended"
                                ELSE IF q \in Asleep THEN "relock" ELSE pc[q]]
    /\ Unlock(th, "stack_mutex")
    /\ UNCHANGED <<stacks, marks, counters, url, todo, main, faults>>

GoOn(th) ==
    /\ ~CrawlIsOver
    /\ Goto(th, "check", "top") /\ Unlock(th, "stack_mutex")
    /\ UNCHANGED <<stacks, marks, counters, url, todo, main, faults>>

-----------------------------------------------------------------------------

(* pthread_cond_wait may return without a signal.                          *)
Spurious(th) ==
    /\ spurious < MaxSpurious /\ spurious' = spurious + 1
    /\ Goto(th, "asleep", "relock")
    /\ UNCHANGED <<owner, stacks, marks, counters, url, todo, main, failures>>

\* planted bug: no join
BugWritePngUrls ==
    /\ ~written /\ written' = TRUE
    /\ LET n == IF Len(png) < m THEN Len(png) ELSE m IN
       png_urls' = [k \in 1 .. n |-> png[Len(png) + 1 - k]]
    /\ UNCHANGED <<owner, stacks, marks, counters, pc, url, todo, log, logged, faults>>

(* main, lines 209-228: join every thread, then pop at most m images.      *)
WritePngUrls ==
    /\ ~written /\ written' = TRUE
    /\ \A th \in Threads : pc[th] \in {"left", "ended"}
    /\ LET n == IF Len(png) < m THEN Len(png) ELSE m IN
       png_urls' = [k \in 1 .. n |-> png[Len(png) + 1 - k]]
    /\ UNCHANGED <<owner, stacks, marks, counters, pc, url, todo, log, logged, faults>>

(* Lines 240-259: the log, hash_counter lines of it.                       *)
WriteLog ==
    /\ written /\ ~logged /\ logged' = TRUE
    /\ log' = dp
    /\ UNCHANGED <<owner, stacks, marks, counters, pc, url, todo, png_urls, written, faults>>

Step(th) ==
    \/ LockFrontier(th) \/ Wait(th) \/ Relock(th) \/ Leave(th) \/ LookAgain(th) \/ Pop(th)
    \/ Fetch(th) \/ FetchFails(th)
    \/ LockTable(th) \/ NoMoreLinks(th) \/ Known(th) \/ Unknown(th) \/ Enter(th)
    \/ LockPush(th) \/ PushUrl(th) \/ Signal(th)
    \/ LockPng(th) \/ CountPng(th)
    \/ LockCheck(th) \/ Break(th) \/ GoOn(th)

Next == WritePngUrls \/ WriteLog \/ \E th \in Threads : Step(th) \/ Spurious(th)

(* The scheduler runs every thread that can run; nobody promises a         *)
(* spurious wakeup.                                                        *)
Fairness == WF_vars(WritePngUrls) /\ WF_vars(WriteLog) /\ \A th \in Threads : WF_vars(Step(th))

Spec == Init /\ [][Next]_vars
FairSpec == Spec /\ Fairness

-----------------------------------------------------------------------------
(* Properties *)

At(A) == {th \in Threads : pc[th] \in A}
Elems(s) == {s[k] : k \in DOMAIN s}

(* Every variable stays within the values the code can give it.            *)
TypeOK ==
    /\ owner \in [Mutex -> Threads \cup {Free}]
    /\ frontier \in Seq(Urls) /\ dp \in Seq(Urls) /\ png \in Seq(Urls)
    /\ table \subseteq Urls
    /\ waiting_thread \in Nat /\ image_counter \in Nat
    /\ pc \in [Threads -> Labels]
    /\ url \in [Threads -> Urls]
    /\ todo \in [Threads -> Seq(Urls)]
    /\ png_urls \in Seq(Urls) /\ log \in Seq(Urls)
    /\ written \in BOOLEAN /\ logged \in BOOLEAN
    /\ failures \in 0 .. MaxFailures /\ spurious \in 0 .. MaxSpurious

(* waiting_thread is one more than the threads between lines 38 and 48,    *)
(* and those that left by line 46, where it is not taken back.  The tests  *)
(* at lines 40 and 86 rest on this.                                        *)
WaitAccounting ==
    waiting_thread = 1 + Cardinality(At({"asleep", "relock", "recheck", "left"}))

(* However many threads find images at once, at most one image per other   *)
(* thread is found after the m-th.                                         *)
Overshoot == image_counter <= m - 1 + t

(* While the counter is not met, no URL is left on the frontier by threads *)
(* that all sleep or have gone: no wakeup is lost, although line 180 of    *)
(* lab_png.h signals without the mutex.                                    *)
NoStrandedWork ==
    (frontier # <<>> /\ image_counter < m) =>
        At(Labels \ {"asleep", "left", "ended"}) # {}

(* What main writes is what was asked for: m lines or every image there    *)
(* is, each line an image of a page that was visited.  If fewer than m     *)
(* were found every page in the table has been fetched: nothing is left    *)
(* on the frontier.                                                        *)
OutputComplete ==
    written => /\ Len(png_urls) = (IF image_counter < m THEN image_counter ELSE m)
               /\ Elems(png_urls) \subseteq {u \in {Redirect[v] : v \in table} : Kind[u] = "png"}
               /\ image_counter < m => frontier = <<>>

(* The log has one line for each URL of the table and none twice ("no      *)
(* duplicate urls visited"): FIND and ENTER are one step for the other     *)
(* threads, and nothing is entered once main writes.                       *)
LogExact ==
    /\ \A j, k \in DOMAIN dp : dp[j] = dp[k] => j = k
    /\ logged => log = dp /\ Elems(log) = table

(* A URL that is on the frontier, or on its way there, has a line of dp of *)
(* its own.  dp and the frontier both have 1000 entries, and nothing looks *)
(* whether dp is full: a push can be refused only after dp was overrun.    *)
PushRoom ==
    Len(frontier) + Cardinality(At({"push", "pushing"})) <= Len(dp)

(* png_urls.txt names no image twice ("detected no duplicates").           *)
NoDuplicatePng == \A j, k \in DOMAIN png_urls : png_urls[j] = png_urls[k] => j = k

(* All threads end and main writes its file.                               *)
Termination == <>written

(* Even if the program hangs, the crawl itself is finished: sooner or      *)
(* later every thread sleeps or has ended, and stays so.                   *)
CrawlSettles == <>[](At({"asleep", "left", "ended"}) = Threads)

(* findpng2 implements the abstract crawl.  A URL that is in the table and *)
(* not yet pushed is pending; a page is active until its last link was     *)
(* followed or its image counted.                                          *)
Abstract == INSTANCE Crawl WITH
    seen <- table,
    pending <- Elems(frontier) \cup {Head(todo[th]) : th \in At({"push", "pushing"})},
    active <- {url[th] : th \in At({"fetch", "link", "find", "enter", "push",
                                    "pushing", "signal", "png", "count"})},
    images <- image_counter,
    finished <- written,
    M <- m
Crawls == Abstract!Spec
=============================================================================
