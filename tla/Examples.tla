------------------------------ MODULE Examples ------------------------------
(***************************************************************************)
(* The small programs of the starter directories, which show fork, shared  *)
(* memory, semaphores and libcurl's callbacks, and the part of paster,     *)
(* paster2, findpng2 and findpng3 that fetches one body into a buffer.     *)
(*                                                                         *)
(* A program is a record: the calls its main process and its child make,   *)
(* in order, which of them may fail without ending the process, and its    *)
(* callbacks.  One of the programs is run; an action is one call, a piece  *)
(* that libcurl delivers, or a failure.  Messages are two units long, so   *)
(* that half a message can be seen.                                        *)
(***************************************************************************)
EXTENDS Receive, FiniteSets, SequencesExt

CONSTANTS BUF_SIZE,      \* size of a receive buffer
          Slot,          \* paster2's room for a body, 10000 in the code
          STACK_SIZE,    \* of shm_struct
          BodyLengths,   \* how long the answers of the server are
          MaxFaults      \* bound: calls that fail

Procs == {"main", "child1", "child2"}
Segments == {"buf", "sems", "heap"}   \* heap is malloc's, for one process

-----------------------------------------------------------------------------
(* The callbacks of each copy: what happens when the buffer is full,       *)
(* whether the header is looked at, and where the buffer lies.             *)

Callbacks(full, header, space) == [full |-> full, header |-> header, space |-> space]

Proj2Callbacks == Callbacks("grow", TRUE, "heap")
Proj3Callbacks == Callbacks("abort", TRUE, "buf")
Proj4Callbacks == Callbacks("grow", TRUE, "heap")
Proj5Callbacks == Callbacks("grow", TRUE, "heap")
WriteCbCallbacks == Callbacks("grow", FALSE, "heap")
HeaderCbCallbacks == Callbacks("grow", TRUE, "heap")
XmlCallbacks == Callbacks("grow", TRUE, "heap")
IPCCallbacks == Callbacks("abort", TRUE, "buf")
TwoProcCallbacks == Callbacks("abort", TRUE, "buf")
NoCallbacks == Callbacks("none", FALSE, "buf")

(* Without a download: the program makes no use of a receive buffer.       *)
Program(main, child, ignores) ==
    [main |-> main, child |-> child, ignores |-> ignores, cb |-> NoCallbacks]
Download(main, child, ignores, cb) ==
    [main |-> main, child |-> child, ignores |-> ignores, cb |-> cb]

-----------------------------------------------------------------------------
(* The programs.  An ignored shmget or shmat is looked at by "check".      *)

(* sems[0] and sems[1] begin with v0 and v1.                               *)
SemSimple(v0, v1) == Program(
    <<<<"shmget", "buf">>, <<"shmget", "sems">>, <<"check">>,
      <<"shmat", "buf">>, <<"shmat", "sems">>, <<"check">>,
      <<"clear", "buf">>, <<"sem_init", 0, v0>>, <<"sem_init", 1, v1>>, <<"fork", "child1">>,
      <<"sem_wait", 1>>, <<"read", "buf">>, <<"sem_post", 0>>,
      <<"shmdt", "buf">>, <<"rmid", "buf">>, <<"shmdt", "sems">>,
      <<"waitpid", "child1">>, <<"rmid", "sems">>, <<"sem_destroy">>>>,
    <<<<"sem_wait", 0>>, <<"write", "buf">>, <<"write", "buf">>, <<"sem_post", 1>>,
      <<"shmdt", "buf">>, <<"shmdt", "sems">>>>,
    {"shmget", "shmat"})

\* planted bug: main and the child wait for each other
BugSemSimpleWaits == SemSimple(0, 0)

sem_simple == SemSimple(1, 0)

(* Nobody looks at what shmget returned; shmat then fails in both.         *)
shm_simple == Program(
    <<<<"shmget", "buf">>, <<"fork", "child1">>, <<"shmat", "buf">>,
      <<"waitpid", "child1">>, <<"read", "buf">>, <<"shmdt", "buf">>, <<"rmid", "buf">>>>,
    <<<<"shmat", "buf">>, <<"clear", "buf">>, <<"write", "buf">>, <<"write", "buf">>,
      <<"shmdt", "buf">>>>,
    {"shmget"})

(* test_local with a stack of its own, then test_shm.                      *)
test_local == <<<<"create_stack", "heap">>, <<"push_all", "heap">>, <<"pop_all", "heap">>,
                <<"destroy_stack", "heap">>>>
test_shm == <<<<"shmget", "buf">>, <<"fork", "child1">>, <<"shmat", "buf">>,
              <<"waitpid", "child1">>, <<"pop_all", "buf">>, <<"shmdt", "buf">>>>
PushingChild == <<<<"shmat", "buf">>, <<"init_shm_stack", "buf">>, <<"push_all", "buf">>,
                  <<"shmdt", "buf">>>>

shm_struct == Program(test_local \o test_shm \o <<<<"rmid", "buf">>>>, PushingChild, {})

\* planted bug: one child is not waited for
BugForkN == Program(
    <<<<"fork", "child1">>, <<"fork", "child2">>, <<"waitpid", "child1">>>>,
    <<<<"work">>>>, {"waitpid"})

forkN == Program(
    <<<<"fork", "child1">>, <<"fork", "child2">>,
      <<"waitpid", "child1">>, <<"waitpid", "child2">>>>,
    <<<<"work">>>>, {"waitpid"})

zombie == Program(<<<<"fork", "child1">>, <<"work">>>>, <<<<"work">>>>, {})

Fetch == <<<<"recv_buf_init">>, <<"curl_easy_init">>, <<"perform">>>>

main_write_callback == Download(Fetch \o <<<<"write_file">>, <<"cleanup">>>>, <<>>,
    {"recv_buf_init", "perform", "write_file"}, WriteCbCallbacks)
main_write_header_cb == Download(Fetch \o <<<<"write_file">>, <<"cleanup">>>>, <<>>,
    {"recv_buf_init", "perform", "write_file"}, HeaderCbCallbacks)
cURL_IPC == Download(
    <<<<"shmget", "buf">>, <<"shmat", "buf">>>> \o Fetch
        \o <<<<"write_file">>, <<"shmdt", "buf">>, <<"rmid", "buf">>>>, <<>>,
    {"shmat", "perform", "write_file"}, IPCCallbacks)

(* main writes what its child has downloaded, after the steps of between.  *)
TwoProc(between, after) == Download(
    <<<<"shmget", "buf">>, <<"shmat", "buf">>, <<"recv_buf_init">>, <<"fork", "child1">>>>
        \o between \o <<<<"write_file">>>> \o after
        \o <<<<"shmdt", "buf">>, <<"rmid", "buf">>>>,
    <<<<"curl_easy_init">>, <<"perform">>, <<"shmdt", "buf">>>>,
    {"shmat", "perform", "write_file"}, TwoProcCallbacks)

\* planted bug: main writes the file before the child is done
BugMain2proc == TwoProc(<<>>, <<<<"waitpid", "child1">>>>)

main_2proc == TwoProc(<<<<"waitpid", "child1">>>>, <<>>)

(* These three make the buffer and the handle in easy_handle_init.         *)
Visit == <<<<"easy_handle_init">>, <<"perform">>, <<"process_data">>, <<"cleanup">>>>

curl_xml == Download(Visit, <<>>, {"process_data"}, XmlCallbacks)
findpng2 == Download(Visit, <<>>, {}, Proj4Callbacks)
findpng3 == Download(Visit, <<>>, {"easy_handle_init"}, Proj5Callbacks)

paster == Download(Fetch \o <<<<"hand_on">>>>, <<>>, {}, Proj2Callbacks)
paster2 == Download(<<<<"shmget", "buf">>, <<"shmat", "buf">>>> \o Fetch \o <<<<"hand_on">>>>,
    <<>>, {"perform"}, Proj3Callbacks)

Programs == [sem_simple |-> sem_simple, shm_simple |-> shm_simple, shm_struct |-> shm_struct,
             forkN |-> forkN, zombie |-> zombie,
             main_write_callback |-> main_write_callback,
             main_write_header_cb |-> main_write_header_cb,
             cURL_IPC |-> cURL_IPC, main_2proc |-> main_2proc, curl_xml |-> curl_xml,
             paster |-> paster, paster2 |-> paster2,
             findpng2 |-> findpng2, findpng3 |-> findpng3]

(* What the server may serve, and what process_data makes something of:    *)
(* only curl_xml writes a body of another type.                            *)
Kinds == {"html", "png", "other", "refused", "untyped"}
Processed(prog) == IF prog = "curl_xml" THEN {"html", "png", "other"} ELSE {"html", "png"}

VARIABLES
    program,       \* the program that runs
    todo,          \* the calls each process has to make yet
    life,          \* "unborn", "runs", "exited", "failed" or "astray"
    reaped,        \* the children that were waited for
    seg,           \* each segment: "none", "there", or "removed"
    attached,      \* the segments of each process
    failed,        \* the calls of each process that failed and were ignored
    sem, text,     \* the semaphores, the units of the message that are written
    stack, got,    \* the stacks, what was read or popped
    body, kind,    \* the answer of the server
    sent,          \* how much of it has come
    recv_buf,
    made,          \* the file, or what is handed on
    faults

vars == <<program, todo, life, reaped, seg, attached, failed, sem, text, stack, got,
          body, kind, sent, recv_buf, made, faults>>

NoStack == [ready |-> FALSE, items |-> <<>>]
Nothing == [there |-> FALSE, data |-> <<>>]

Init ==
    /\ program \in DOMAIN Programs
    /\ todo = [p \in Procs |-> IF p = "main" THEN Programs[program].main ELSE <<>>]
    /\ life = [p \in Procs |-> IF p = "main" THEN "runs" ELSE "unborn"]
    /\ reaped = {}
    /\ seg = [s \in Segments |-> "none"] /\ attached = [p \in Procs |-> {}]
    /\ failed = [p \in Procs |-> {}]
    /\ sem = [k \in {0, 1} |-> 0] /\ text = 0
    /\ stack = [s \in Segments |-> NoStack] /\ got = <<>>
    /\ \E n \in IF Programs[program].cb = NoCallbacks THEN {0} ELSE BodyLengths :
          body = [k \in 1 .. n |-> k]
    /\ kind \in IF \E k \in DOMAIN Programs[program].main :
                       Programs[program].main[k] = <<"process_data">> THEN Kinds ELSE {"png"}
    /\ sent = 0 /\ recv_buf = Zeroed /\ made = Nothing /\ faults = 0

-----------------------------------------------------------------------------
(* What a call needs, and what becomes of a process.                       *)

Space == Programs[program].cb.space
Ignored(op) == op \in Programs[program].ignores
Op(p) == Head(todo[p])[1]
Arg(p) == Head(todo[p])[2]

(* The memory that the next call of p uses.                                *)
Touched(p) ==
    CASE Op(p) \in {"sem_init", "sem_wait", "sem_post"} -> {"sems"}
      [] Op(p) \in {"clear", "write", "read", "init_shm_stack", "push_all", "pop_all"} -> {Arg(p)}
      [] Op(p) \in {"write_file", "hand_on", "process_data", "cleanup"} -> {Space}
      [] Op(p) = "perform" /\ "easy_handle_init" \notin failed[p] -> {Space}
      [] Op(p) = "recv_buf_init" -> {Space} \ {"heap"}
      [] OTHER -> {}

(* Memory that is not there, or a stack that nobody initialised.           *)
Wild(p) == \/ ~(Touched(p) \subseteq attached[p])
           \/ Op(p) = "pop_all" /\ ~stack[Arg(p)].ready

Calls(p, op) == life[p] = "runs" /\ todo[p] # <<>> /\ Op(p) = op /\ ~Wild(p)
Advance(p) == todo' = [todo EXCEPT ![p] = Tail(@)]

(* return, exit or abort: the kernel detaches the segments.                *)
Over(p, how) == /\ life' = [life EXCEPT ![p] = how]
                /\ todo' = [todo EXCEPT ![p] = <<>>]
                /\ attached' = [attached EXCEPT ![p] = {}]

process == <<life, attached, reaped>>
memory == <<sem, text, stack, got>>
answer == <<body, kind>>
download == <<sent, recv_buf, made>>

-----------------------------------------------------------------------------
(* Processes                                                               *)

Exit(p) ==
    /\ life[p] = "runs" /\ todo[p] = <<>>
    /\ Over(p, "exited")
    /\ UNCHANGED <<program, reaped, seg, failed, memory, answer, download, faults>>

(* A process that uses memory that is not there may do anything from here. *)
GoesAstray(p) ==
    /\ life[p] = "runs" /\ todo[p] # <<>> /\ Wild(p)
    /\ Over(p, "astray")
    /\ UNCHANGED <<program, reaped, seg, failed, memory, answer, download, faults>>

(* A call that failed: the process ends, or takes no notice.               *)
Fails(p, op) ==
    \/ /\ ~Ignored(op) /\ Over(p, "failed")
       /\ UNCHANGED failed
    \/ /\ Ignored(op) /\ Advance(p)
       /\ failed' = [failed EXCEPT ![p] = @ \cup {op}]
       /\ UNCHANGED <<life, attached>>

(* The system or the server lets a call fail; sem_wait may be interrupted. *)
Fallible == {"shmget", "shmat", "sem_wait", "fork", "create_stack", "recv_buf_init",
             "curl_easy_init", "easy_handle_init", "perform", "write_file"}
Fault(p) ==
    /\ faults < MaxFaults /\ faults' = faults + 1
    /\ \E op \in Fallible \cup {"process_data"} :
          /\ Calls(p, op) /\ Fails(p, op)
          /\ op = "recv_buf_init" => Space = "heap"
          /\ op = "process_data" => Ignored(op)
    /\ UNCHANGED <<program, reaped, seg, memory, answer, download>>

Check(p) ==
    /\ Calls(p, "check")
    /\ IF failed[p] = {} THEN Advance(p) /\ UNCHANGED <<life, attached>> ELSE Over(p, "failed")
    /\ UNCHANGED <<program, reaped, seg, failed, memory, answer, download, faults>>

(* A child has what its parent has attached.                               *)
Fork(p) ==
    /\ Calls(p, "fork")
    /\ life' = [life EXCEPT ![Arg(p)] = "runs"]
    /\ todo' = [todo EXCEPT ![p] = Tail(@), ![Arg(p)] = Programs[program].child]
    /\ attached' = [attached EXCEPT ![Arg(p)] = attached[p]]
    /\ UNCHANGED <<program, reaped, seg, failed, memory, answer, download, faults>>

Waitpid(p) ==
    /\ Calls(p, "waitpid") /\ life[Arg(p)] \notin {"unborn", "runs"}
    /\ reaped' = reaped \cup {Arg(p)} /\ Advance(p)
    /\ UNCHANGED <<program, life, seg, attached, failed, memory, answer, download, faults>>

(* printf, sleep, and sem_destroy, which does nothing in glibc.            *)
Work(p) ==
    /\ Calls(p, "work") \/ Calls(p, "sem_destroy")
    /\ Advance(p)
    /\ UNCHANGED <<program, process, seg, failed, memory, answer, download, faults>>

-----------------------------------------------------------------------------
(* Shared memory and semaphores                                            *)

Shmget(p) ==
    /\ Calls(p, "shmget") /\ Advance(p)
    /\ seg' = [seg EXCEPT ![Arg(p)] = "there"]
    /\ UNCHANGED <<program, process, failed, memory, answer, download, faults>>

Shmat(p) ==
    /\ Calls(p, "shmat") /\ seg[Arg(p)] = "there" /\ Advance(p)
    /\ attached' = [attached EXCEPT ![p] = @ \cup {Arg(p)}]
    /\ UNCHANGED <<program, life, reaped, seg, failed, memory, answer, download, faults>>

(* There is no such segment, since shmget failed and nobody looked.        *)
ShmatFails(p) ==
    /\ Calls(p, "shmat") /\ seg[Arg(p)] # "there" /\ Over(p, "failed")
    /\ UNCHANGED <<program, reaped, seg, failed, memory, answer, download, faults>>

Shmdt(p) ==
    /\ Calls(p, "shmdt") /\ Advance(p)
    /\ attached' = [attached EXCEPT ![p] = @ \ {Arg(p)}]
    /\ UNCHANGED <<program, life, reaped, seg, failed, memory, answer, download, faults>>

(* shmctl with IPC_RMID; who is attached stays so.                         *)
Shmctl(p) ==
    /\ Calls(p, "rmid") /\ Advance(p)
    /\ seg' = [seg EXCEPT ![Arg(p)] = "removed"]
    /\ UNCHANGED <<program, process, failed, memory, answer, download, faults>>

SemInit(p) ==
    /\ Calls(p, "sem_init") /\ Advance(p)
    /\ sem' = [sem EXCEPT ![Arg(p)] = Head(todo[p])[3]]
    /\ UNCHANGED <<program, process, seg, failed, text, stack, got, answer, download, faults>>

SemWait(p) ==
    /\ Calls(p, "sem_wait") /\ Advance(p)
    /\ sem[Arg(p)] > 0 /\ sem' = [sem EXCEPT ![Arg(p)] = @ - 1]
    /\ UNCHANGED <<program, process, seg, failed, text, stack, got, answer, download, faults>>

SemPost(p) ==
    /\ Calls(p, "sem_post") /\ Advance(p)
    /\ sem' = [sem EXCEPT ![Arg(p)] = @ + 1]
    /\ UNCHANGED <<program, process, seg, failed, text, stack, got, answer, download, faults>>

(* memset, a half of sprintf, and the printf of what lies there.           *)
Message(p) ==
    /\ \/ Calls(p, "clear") /\ text' = 0 /\ UNCHANGED got
       \/ Calls(p, "write") /\ text' = text + 1 /\ UNCHANGED got
       \/ Calls(p, "read") /\ got' = <<text>> /\ UNCHANGED text
    /\ Advance(p)
    /\ UNCHANGED <<program, process, seg, failed, sem, stack, answer, download, faults>>

-----------------------------------------------------------------------------
(* The stack of shm_stack.c                                                *)

Empty == [ready |-> TRUE, items |-> <<>>]
is_full(s) == Len(stack[s].items) = STACK_SIZE
is_empty(s) == stack[s].items = <<>>

create_stack(p) ==
    /\ Calls(p, "create_stack") /\ Advance(p)
    /\ attached' = [attached EXCEPT ![p] = @ \cup {"heap"}]
    /\ stack' = [stack EXCEPT !["heap"] = Empty]
    /\ UNCHANGED <<program, life, reaped, seg, failed, sem, text, got, answer, download, faults>>

destroy_stack(p) ==
    /\ Calls(p, "destroy_stack") /\ Advance(p)
    /\ attached' = [attached EXCEPT ![p] = @ \ {"heap"}]
    /\ UNCHANGED <<program, life, reaped, seg, failed, memory, answer, download, faults>>

init_shm_stack(p) ==
    /\ Calls(p, "init_shm_stack") /\ Advance(p)
    /\ stack' = [stack EXCEPT ![Arg(p)] = Empty]
    /\ UNCHANGED <<program, process, seg, failed, sem, text, got, answer, download, faults>>

(* The i-th item is start - i; the loop ends at the first push refused.    *)
push_all(p) ==
    /\ Calls(p, "push_all")
    /\ IF is_full(Arg(p))
       THEN Advance(p) /\ UNCHANGED stack
       ELSE /\ stack' = [stack EXCEPT ![Arg(p)].items = Append(@, -Len(@))]
            /\ UNCHANGED todo
    /\ UNCHANGED <<program, process, seg, failed, sem, text, got, answer, download, faults>>

pop_all(p) ==
    /\ Calls(p, "pop_all")
    /\ IF is_empty(Arg(p))
       THEN Advance(p) /\ UNCHANGED <<stack, got>>
       ELSE /\ got' = Append(got, Last(stack[Arg(p)].items))
            /\ stack' = [stack EXCEPT ![Arg(p)].items = Front(@)]
            /\ UNCHANGED todo
    /\ UNCHANGED <<program, process, seg, failed, sem, text, answer, download, faults>>

-----------------------------------------------------------------------------
(* A download                                                              *)

(* What is really there: malloc'ed, the segment's, or a slot of def.       *)
Room == IF program = "paster2" THEN Slot ELSE BUF_SIZE
Owned(p) == attached' = [attached EXCEPT ![p] = IF Space = "heap" THEN @ \cup {"heap"} ELSE @]

RecvBufInit(p) ==
    /\ Calls(p, "recv_buf_init") /\ Advance(p)
    /\ recv_buf' = recv_buf_init(BUF_SIZE, Room) /\ Owned(p)
    /\ UNCHANGED <<program, life, reaped, seg, failed, memory, answer, sent, made, faults>>

CurlEasyInit(p) ==
    /\ Calls(p, "curl_easy_init") /\ Advance(p)
    /\ UNCHANGED <<program, process, seg, failed, memory, answer, download, faults>>

easy_handle_init(p) ==
    /\ Calls(p, "easy_handle_init") /\ Advance(p)
    /\ recv_buf' = recv_buf_init(BUF_SIZE, Room) /\ Owned(p)
    /\ UNCHANGED <<program, life, reaped, seg, failed, memory, answer, sent, made, faults>>

(* The buffer is there and the handle is not; findpng3 does not look.      *)
NoHandle(p) ==
    /\ faults < MaxFaults /\ faults' = faults + 1
    /\ Calls(p, "easy_handle_init") /\ Ignored("easy_handle_init") /\ Advance(p)
    /\ recv_buf' = recv_buf_init(BUF_SIZE, Room) /\ Owned(p)
    /\ failed' = [failed EXCEPT ![p] = @ \cup {"easy_handle_init"}]
    /\ UNCHANGED <<program, life, reaped, seg, memory, answer, sent, made>>

(* Without a handle no transfer runs and none is reported.                 *)
NoTransfer(p) ==
    /\ Calls(p, "perform") /\ "easy_handle_init" \in failed[p]
    /\ todo' = [todo EXCEPT ![p] = Tail(Tail(@))]
    /\ UNCHANGED <<program, process, seg, failed, memory, answer, download, faults>>

Transfers(p) == Calls(p, "perform") /\ "easy_handle_init" \notin failed[p]

(* An answer may lack the header with the fragment's number.               *)
Header(p) ==
    /\ Transfers(p) /\ sent = 0 /\ Programs[program].cb.header
    /\ recv_buf' = header_cb_curl(recv_buf, 0)
    /\ UNCHANGED <<program, todo, process, seg, failed, memory, answer, sent, made, faults>>

Piece(p, n) ==
    LET piece == SubSeq(body, sent + 1, sent + n) IN
    /\ Transfers(p) /\ sent + n <= Len(body)
    /\ Programs[program].cb.full = "grow" \/ Fits(recv_buf, piece)
    /\ recv_buf' = write_cb_curl3(recv_buf, piece) /\ sent' = sent + n
    /\ UNCHANGED <<program, todo, process, seg, failed, memory, answer, made, faults>>

(* "User buffer is too small, abort..."                                    *)
PieceAborts(p, n) ==
    /\ Transfers(p) /\ sent + n <= Len(body)
    /\ Programs[program].cb.full = "abort" /\ ~Fits(recv_buf, SubSeq(body, sent + 1, sent + n))
    /\ Over(p, "failed")
    /\ UNCHANGED <<program, reaped, seg, failed, memory, answer, download, faults>>

TransferDone(p) ==
    /\ Transfers(p) /\ sent = Len(body) /\ Advance(p)
    /\ UNCHANGED <<program, process, seg, failed, memory, answer, download, faults>>

(* fopen, fwrite, fclose; or the rest of the program takes the data.       *)
Make(p) ==
    /\ Calls(p, "write_file") \/ Calls(p, "hand_on")
    /\ made' = [there |-> TRUE, data |-> recv_buf.data] /\ Advance(p)
    /\ UNCHANGED <<program, process, seg, failed, memory, answer, sent, recv_buf, faults>>

process_data(p) ==
    /\ Calls(p, "process_data") /\ Advance(p)
    /\ made' = IF kind \in Processed(program)
               THEN [there |-> TRUE, data |-> recv_buf.data] ELSE made
    /\ UNCHANGED <<program, process, seg, failed, memory, answer, sent, recv_buf, faults>>

cleanup(p) ==
    /\ Calls(p, "cleanup") /\ Advance(p)
    /\ attached' = [attached EXCEPT ![p] = @ \ {"heap"}]
    /\ recv_buf' = [recv_buf EXCEPT !.data = <<>>, !.max_size = 0, !.room = 0]
    /\ UNCHANGED <<program, life, reaped, seg, failed, memory, answer, sent, made, faults>>

-----------------------------------------------------------------------------

Step(p) ==
    \/ Exit(p) \/ GoesAstray(p) \/ Check(p) \/ Fork(p) \/ Waitpid(p) \/ Work(p)
    \/ Shmget(p) \/ Shmat(p) \/ ShmatFails(p) \/ Shmdt(p) \/ Shmctl(p)
    \/ SemInit(p) \/ SemWait(p) \/ SemPost(p) \/ Message(p)
    \/ create_stack(p) \/ destroy_stack(p) \/ init_shm_stack(p) \/ push_all(p) \/ pop_all(p)
    \/ RecvBufInit(p) \/ CurlEasyInit(p) \/ easy_handle_init(p) \/ NoTransfer(p)
    \/ Header(p) \/ (\E n \in 1 .. Len(body) : Piece(p, n) \/ PieceAborts(p, n))
    \/ TransferDone(p) \/ Make(p) \/ process_data(p) \/ cleanup(p)

Next == \E p \in Procs : Step(p) \/ Fault(p) \/ NoHandle(p)

(* The scheduler runs every process that can run.                          *)
Fairness == \A p \in Procs : WF_vars(Step(p))

Spec == Init /\ [][Next]_vars
FairSpec == Spec /\ Fairness

-----------------------------------------------------------------------------
(* Properties *)

(* Every variable stays within the values the code can give it.            *)
TypeOK ==
    /\ program \in DOMAIN Programs
    /\ life \in [Procs -> {"unborn", "runs", "exited", "failed", "astray"}]
    /\ reaped \subseteq Procs
    /\ seg \in [Segments -> {"none", "there", "removed"}]
    /\ attached \in [Procs -> SUBSET Segments]
    /\ sem \in [{0, 1} -> {0, 1}] /\ text \in 0 .. 2
    /\ \A s \in Segments : Len(stack[s].items) <= STACK_SIZE
    /\ sent \in 0 .. Len(body) /\ faults \in 0 .. MaxFaults

NobodyFailed == \A p \in Procs : failed[p] = {} /\ life[p] \notin {"failed", "astray"}

(* No process uses memory before it is attached or allocated, or after it  *)
(* was given back, unless a call failed that nobody looked at, or a child  *)
(* died whose work its parent relies on.                                   *)
NoWildAccess == \A p \in Procs : life[p] = "astray" =>
                    \E q \in Procs : failed[q] # {} \/ life[q] = "failed"

Downward(n) == [k \in 1 .. n |-> k - n]

(* What one process reads in shared memory is what the other has finished: *)
(* the whole message, the whole stack from its top down.                   *)
HandedOver ==
    NobodyFailed =>
        /\ program \in {"sem_simple", "shm_simple"} => got \in {<<>>, <<2>>}
        /\ (program = "shm_struct" /\ life["main"] = "exited") =>
              got = Downward(STACK_SIZE) \o Downward(STACK_SIZE)

(* What a program makes of a download is the answer as far as it came, in  *)
(* its order, and the whole of it if nothing failed; curl_xml and the      *)
(* crawlers make nothing of an answer that was cut off or refused.         *)
FileWhole ==
    made.there =>
        /\ IsPrefix(made.data, body)
        /\ NobodyFailed => made.data = body
        /\ program \in {"curl_xml", "findpng2", "findpng3", "paster"} =>
              made.data = body /\ kind \in Processed(program)

(* No segment outlives a program whose main comes to its end.              *)
SegmentsRemoved == (life["main"] = "exited" /\ program # "paster2") =>
                       \A s \in Segments : seg[s] # "there"

(* main waits for every child it made, but for that of zombie, which is    *)
(* there to show what happens then.                                        *)
AllReaped == (life["main"] = "exited" /\ program # "zombie") =>
                 \A p \in Procs \ {"main"} : life[p] = "unborn" \/ p \in reaped

(* The write callback never writes behind the memory of its buffer, not    *)
(* even the terminating 0; paster2's alone believes in a size that its     *)
(* slots do not have.                                                      *)
InBounds == InRoom(recv_buf) \/ (program = "paster2" /\ Len(body) >= Slot)

(* main comes to an end, whatever fails, unless the child of sem_simple    *)
(* dies before it has posted.                                              *)
MainEnds == <>(life["main"] # "runs" \/ (program = "sem_simple" /\ life["child1"] = "failed"))
=============================================================================
