------------------------------ MODULE Findpng3 ------------------------------
(***************************************************************************)
(* src/proj5/findpng3.c with lab_png.h and pthread_stack.c: the crawler of *)
(* findpng2 in one thread.  In each round up to t transfers are started,   *)
(* curl's multi interface drives them all until none is running, and then  *)
(* their results are processed one after the other.                        *)
(*                                                                         *)
(* What curl does (how far a transfer gets in one call, in which order the *)
(* transfers end and which of them fail) is left open; the program counter *)
(* of the thread is pc.                                                    *)
(*                                                                         *)
(* A definition named Bug... is not part of the model: it is a variant of  *)
(* the definition that follows it, with a mistake that some property has   *)
(* to notice when it is put in that definition's place.                    *)
(***************************************************************************)
EXTENDS Integers, Sequences, FiniteSets

CONSTANTS t,            \* transfers of a round
          m,            \* images wanted
          StackSize,    \* capacity of the stacks, 1000 in the code
          Urls, Seed, Links, Redirect,  \* the web, as in Crawl
          Kind,         \* Kind[u]: what is served at u: "html", "png", "other"
          MaxFailures,  \* bound: transfers that curl reports failed
          MaxWaitErrors \* bound: errors of curl_multi_wait

ASSUME WebAssumption == /\ Seed \in Urls
                        /\ Links \in [Urls -> Seq(Urls)]
                        /\ Redirect \in [Urls -> Urls]
                        /\ Kind \in [Urls -> {"html", "png", "other"}]
ASSUME SizeAssumption == t \in Nat \ {0} /\ m \in Nat \ {0} /\ StackSize \in Nat \ {0}
ASSUME BoundAssumption == MaxFailures \in Nat /\ MaxWaitErrors \in Nat

VARIABLES
    frontier,        \* URLs to visit, the top of the stack last
    table, dp,       \* URLs ever found: the hash table and the log
    png,             \* URLs of images, the top of the stack last
    image_counter,
    pc,              \* the statement the thread is about to run
    cm,              \* transfers added to the multi handle and running
    messages,        \* transfers that are over, with their results
    still_running,   \* what curl_multi_perform last said
    eh,              \* the transfer whose message was read
    todo,            \* the links of its page not looked at yet
    png_urls,        \* the lines main writes to png_urls.txt
    failures, waiterrors

vars == <<frontier, table, dp, png, image_counter, pc, cm, messages,
          still_running, eh, todo, png_urls, failures, waiterrors>>

Labels == {"fill", "perform", "wait", "again", "read", "link", "written"}

Init ==
    /\ frontier = <<Seed>> /\ table = {Seed} /\ dp = <<Seed>>
    /\ png = <<>> /\ image_counter = 0
    /\ pc = "fill" /\ cm = {} /\ messages = <<>> /\ still_running = 0
    /\ eh = Seed /\ todo = <<>>
    /\ png_urls = <<>> /\ failures = 0 /\ waiterrors = 0

-----------------------------------------------------------------------------
(* Helpers *)

Goto(from, to) == pc = from /\ pc' = to

Lesser(j, k) == IF j < k THEN j ELSE k

(* The top n items of a stack, and what is below them.                     *)
Top(s, n) == {s[k] : k \in Len(s) - n + 1 .. Len(s)}
Below(s, n) == SubSeq(s, 1, Len(s) - n)

(* push ignores an item that finds the stack full                          *)
Pushed(s, u) == IF Len(s) < StackSize THEN Append(s, u) ELSE s

(* The sequences in which the members of S can follow each other.          *)
Orders(S) == {s \in [1 .. Cardinality(S) -> S] : {s[k] : k \in DOMAIN s} = S}

marks == <<table, dp>>
images == <<png, image_counter>>
multi == <<cm, messages, still_running>>
page == <<eh, todo>>
faults == <<failures, waiterrors>>

-----------------------------------------------------------------------------
(* Lines 32-56: pop up to t URLs and start their transfers.                *)

\* planted bug: the whole frontier is popped
BugFill ==
    /\ Goto("fill", "perform")
    /\ cm' = Top(frontier, Len(frontier)) /\ frontier' = <<>>
    /\ UNCHANGED <<marks, images, messages, still_running, page, png_urls, faults>>

Fill ==
    /\ Goto("fill", "perform")
    /\ LET n == Lesser(t, Len(frontier)) IN
       cm' = Top(frontier, n) /\ frontier' = Below(frontier, n)
    /\ UNCHANGED <<marks, images, messages, still_running, page, png_urls, faults>>

(* curl_multi_perform, lines 58 and 76: some transfers come to an end, the *)
(* others are reported as running.  A transfer that fails is only removed. *)
Perform(from, to) ==
    /\ pc = from
    /\ \E over \in SUBSET cm : \E order \in Orders(over), bad \in SUBSET over :
          /\ failures' = failures + Cardinality(bad) /\ failures' <= MaxFailures
          /\ cm' = cm \ over /\ still_running' = Cardinality(cm')
          /\ messages' = messages \o
                [k \in DOMAIN order |-> [url |-> order[k], ok |-> order[k] \notin bad]]
    /\ pc' = to
    /\ UNCHANGED <<frontier, marks, images, page, png_urls, waiterrors>>

PerformFirst == Perform("perform", "wait")

\* planted bug: if for while
BugPerformAgain == Perform("again", "read")

PerformAgain == Perform("again", IF still_running' # 0 THEN "wait" ELSE "read")

WaitOk ==
    /\ Goto("wait", "again")
    /\ UNCHANGED <<frontier, marks, images, multi, page, png_urls, faults>>

(* continue: the condition of the loop is tested, nothing is performed     *)
WaitError ==
    /\ waiterrors < MaxWaitErrors /\ waiterrors' = waiterrors + 1
    /\ Goto("wait", IF still_running # 0 THEN "wait" ELSE "read")
    /\ UNCHANGED <<frontier, marks, images, multi, page, png_urls, failures>>

-----------------------------------------------------------------------------
(* Lines 86-119 with process_data: the messages of the round.              *)

ReadFailed ==
    /\ pc = "read" /\ messages # <<>> /\ ~Head(messages).ok
    /\ messages' = Tail(messages)
    /\ UNCHANGED <<frontier, marks, images, pc, cm, still_running, page, png_urls, faults>>

ReadPage ==
    /\ messages # <<>> /\ Head(messages).ok
    /\ Kind[Redirect[Head(messages).url]] = "html"
    /\ Goto("read", "link")
    /\ messages' = Tail(messages)
    /\ eh' = Head(messages).url /\ todo' = Links[Redirect[Head(messages).url]]
    /\ UNCHANGED <<frontier, marks, images, cm, still_running, png_urls, faults>>

ReadPng ==
    /\ pc = "read" /\ messages # <<>> /\ Head(messages).ok
    /\ Kind[Redirect[Head(messages).url]] = "png"
    /\ messages' = Tail(messages)
    /\ png' = Pushed(png, Redirect[Head(messages).url])
    /\ image_counter' = image_counter + 1
    /\ UNCHANGED <<frontier, marks, pc, cm, still_running, page, png_urls, faults>>

ReadOther ==
    /\ pc = "read" /\ messages # <<>> /\ Head(messages).ok
    /\ Kind[Redirect[Head(messages).url]] = "other"
    /\ messages' = Tail(messages)
    /\ UNCHANGED <<frontier, marks, images, pc, cm, still_running, page, png_urls, faults>>

(* find_http *)
KnownLink ==
    /\ pc = "link" /\ todo # <<>> /\ Head(todo) \in table
    /\ todo' = Tail(todo)
    /\ UNCHANGED <<frontier, marks, images, pc, multi, eh, png_urls, faults>>

\* planted bug: a link is logged without being entered
BugNewLink ==
    /\ pc = "link" /\ todo # <<>> /\ Head(todo) \notin table
    /\ dp' = Append(dp, Head(todo))
    /\ frontier' = Pushed(frontier, Head(todo))
    /\ todo' = Tail(todo)
    /\ UNCHANGED <<table, images, pc, multi, eh, png_urls, faults>>

NewLink ==
    /\ pc = "link" /\ todo # <<>> /\ Head(todo) \notin table
    /\ table' = table \cup {Head(todo)} /\ dp' = Append(dp, Head(todo))
    /\ frontier' = Pushed(frontier, Head(todo))
    /\ todo' = Tail(todo)
    /\ UNCHANGED <<images, pc, multi, eh, png_urls, faults>>

LastLink ==
    /\ todo = <<>> /\ Goto("link", "read")
    /\ UNCHANGED <<frontier, marks, images, multi, page, png_urls, faults>>

-----------------------------------------------------------------------------
(* Lines 121-124, and main's lines 234-246                                 *)

\* planted bug: an image too many
BugPastM == image_counter > m \/ frontier = <<>>

\* planted bug: an empty frontier is no reason to stop
BugNeverEmpty == image_counter >= m

CrawlIsOver == image_counter >= m \/ frontier = <<>>

GoOn ==
    /\ messages = <<>> /\ ~CrawlIsOver
    /\ Goto("read", "fill")
    /\ UNCHANGED <<frontier, marks, images, multi, page, png_urls, faults>>

\* planted bug: a round that brought an image ends the crawl
BugFinish ==
    /\ messages = <<>> /\ (image_counter > 0 \/ frontier = <<>>)
    /\ Goto("read", "written")
    /\ png_urls' = [k \in 1 .. Lesser(m, Len(png)) |-> png[Len(png) + 1 - k]]
    /\ UNCHANGED <<frontier, marks, images, multi, page, faults>>

Finish ==
    /\ messages = <<>> /\ CrawlIsOver
    /\ Goto("read", "written")
    /\ png_urls' = [k \in 1 .. Lesser(m, Len(png)) |-> png[Len(png) + 1 - k]]
    /\ UNCHANGED <<frontier, marks, images, multi, page, faults>>

Next ==
    \/ Fill \/ PerformFirst \/ WaitOk \/ WaitError \/ PerformAgain
    \/ ReadFailed \/ ReadPage \/ ReadPng \/ ReadOther
    \/ KnownLink \/ NewLink \/ LastLink
    \/ GoOn \/ Finish

(* The thread runs, and a transfer that is driven again and again ends.    *)
Fairness == WF_vars(Next) /\ SF_vars(PerformAgain /\ cm' # cm)

Spec == Init /\ [][Next]_vars
FairSpec == Spec /\ Fairness

-----------------------------------------------------------------------------
(* Properties *)

Elems(s) == {s[k] : k \in DOMAIN s}
MessageUrls == {messages[k].url : k \in DOMAIN messages}

(* Every variable stays within the values the code can give it.            *)
TypeOK ==
    /\ frontier \in Seq(Urls) /\ dp \in Seq(Urls) /\ png \in Seq(Urls)
    /\ table \subseteq Urls /\ image_counter \in Nat
    /\ pc \in Labels
    /\ cm \subseteq Urls /\ still_running \in 0 .. t
    /\ messages \in Seq([url : Urls, ok : BOOLEAN])
    /\ eh \in Urls /\ todo \in Seq(Urls)
    /\ png_urls \in Seq(Urls)
    /\ failures \in 0 .. MaxFailures /\ waiterrors \in 0 .. MaxWaitErrors

(* No transfer outlives its round: when results are read and when the next *)
(* round is filled nothing is running, although errors of curl_multi_wait  *)
(* may skip the call that would bring still_running up to date.            *)
RoundsComplete ==
    /\ pc \in {"read", "link", "fill", "written"} => cm = {}
    /\ pc \in {"fill", "written"} => messages = <<>>
    /\ pc # "perform" => still_running = Cardinality(cm)

(* At most t - 1 images are found after the m-th one, all in its round.    *)
Overshoot == image_counter <= m - 1 + t

(* A URL is at one place only: waiting, running, over, or processed; what  *)
(* was found and is nowhere has been processed or failed for good.         *)
FetchedOnce ==
    /\ \A j, k \in DOMAIN dp : dp[j] = dp[k] => j = k
    /\ \A j, k \in DOMAIN frontier : frontier[j] = frontier[k] => j = k
    /\ Elems(frontier) \cap (cm \cup MessageUrls) = {}
    /\ cm \cap MessageUrls = {}

(* main writes m lines or all the images there are, and fewer than m only  *)
(* when nothing was left to visit.                                         *)
OutputComplete ==
    pc = "written" =>
        /\ Len(png_urls) = Lesser(m, image_counter)
        /\ image_counter < m => frontier = <<>>

(* findpng3 implements the abstract crawl.                                 *)
Abstract == INSTANCE Crawl WITH
    seen <- table,
    pending <- Elems(frontier),
    active <- cm \cup MessageUrls \cup (IF pc = "link" THEN {eh} ELSE {}),
    images <- image_counter,
    finished <- pc = "written",
    M <- m
Crawls == Abstract!Spec

(* The crawl ends and its result is written, unless curl_multi_wait fails  *)
(* for ever.                                                               *)
Termination == <>(pc = "written")
=============================================================================
