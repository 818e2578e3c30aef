------------------------------ MODULE Programs ------------------------------
(***************************************************************************)
(* The programs that are run by themselves: pastersingle, the CRC, findpng *)
(* and the small programs.  Every behaviour is of one of them; what        *)
(* belongs to the others stays as it is in an initial state of theirs.     *)
(***************************************************************************)
EXTENDS PasterSingle

CONSTANTS Slot, STACK_SIZE, BodyLengths, MaxFaults,   \* of Examples
          Width, Byte, Poly, MaxLen,                  \* of Crc
          Root, Dirs, Files, Holds, Content,          \* of Findpng
          Limits, MaxUnreadable

VARIABLES
    runs,     \* "pastersingle", "crc", "findpng", or "example"
    program, todo, life, reaped, seg, attached, failed, sem, text, stack, got,
    body, kind, came, its_buf, made, faults,
    crc_table, crc_table_computed, buf, c, n, crcs,
    descriptors, unreadable, calls, open, printed, result

example == <<program, todo, life, reaped, seg, attached, failed, sem, text, stack, got,
             body, kind, came, its_buf, made, faults>>
checksum == <<crc_table, crc_table_computed, buf, c, n, crcs>>
search == <<descriptors, unreadable, calls, open, printed, result>>

X == INSTANCE Examples WITH sent <- came, recv_buf <- its_buf
K == INSTANCE Crc
F == INSTANCE Findpng

(* What findpng is given is a tree, what the CRC divides by is a           *)
(* polynomial as that of crc.c, and the sizes of the small programs and    *)
(* of their answers are numbers.                                           *)
ASSUME TreeAssumption == F!IsTree
ASSUME CodeAssumption == K!IsCode
ASSUME ExampleAssumption == /\ Slot \in Nat /\ STACK_SIZE \in Nat
                            /\ BodyLengths \subseteq Nat /\ MaxFaults \in Nat

ProgramsInit ==
    /\ runs \in {"pastersingle", "crc", "findpng", "example"}
    /\ Init /\ K!Init /\ F!Init /\ X!Init
    /\ runs # "findpng" => unreadable = {} /\ descriptors = CHOOSE l \in Limits : TRUE
    /\ runs # "example" => program = "zombie"

ProgramsNext ==
    \/ runs = "pastersingle" /\ Next /\ UNCHANGED <<runs, example, checksum, search>>
    \/ runs = "crc" /\ K!Next /\ UNCHANGED <<runs, vars, example, search>>
    \/ runs = "findpng" /\ F!Next /\ UNCHANGED <<runs, vars, example, checksum>>
    \/ runs = "example" /\ X!Next /\ UNCHANGED <<runs, vars, checksum, search>>

(* The fairness of pastersingle and of the small programs, when they run.  *)
ProgramsFairness ==
    /\ WF_vars(runs = "pastersingle" /\ Next)
    /\ \A i \in Parts : SF_vars(runs = "pastersingle" /\ Reset(i))
    /\ \A p \in X!Procs : WF_example(runs = "example" /\ X!Step(p))

ProgramsSpec == ProgramsInit /\ [][ProgramsNext]_<<runs, vars, example, checksum, search>>
                             /\ ProgramsFairness

-----------------------------------------------------------------------------
(* What the programs promise, by subject.                                  *)

(* The variables of all of them keep their types, and findpng has no more  *)
(* open than it may.                                                       *)
TypesOK == TypeOK /\ K!TypeOK /\ F!TypeOK /\ X!TypeOK

(* image_buffer is not overrun, by what is copied into it or read by       *)
(* catpng; the write callbacks stay in their buffers, but for paster2's    *)
(* with an answer longer than its slot; nobody uses memory that is not     *)
(* attached or allocated before a call has failed.                         *)
MemorySafe == InImageBuffer /\ X!InBounds /\ X!NoWildAccess

(* Crc: the table-driven CRC is the CRC by bits, and it tells buffers that *)
(* differ in a burst.                                                      *)
ChecksumSound == K!ChecksumSound

(* Findpng: the counts of the recursive calls are what was printed, every  *)
(* PNG is found unless the search is given up, and that has a cause.       *)
SearchComplete == F!SearchComplete

(* Examples: what one process reads is what the other has finished, and    *)
(* what is made of a download is the answer as far as it came.             *)
Delivered == X!HandedOver /\ X!FileWhole

(* Examples: a main that comes to its end has removed its segments and     *)
(* waited for its children.                                                *)
NothingLeftBehind == X!SegmentsRemoved /\ X!AllReaped

(* pastersingle ends, unless mem_inf overruns a buffer, and so does main   *)
(* of every small program, unless sem_simple waits for a child that died.  *)
ProgramsEnd ==
    /\ runs = "pastersingle" => Finishes
    /\ runs = "example" => X!MainEnds
=============================================================================
