------------------------------- MODULE Findpng -------------------------------
(***************************************************************************)
(* src/proj1/findpng.c: search_dir walks a directory tree and prints the   *)
(* path of each regular file whose name ends in .png and whose first word  *)
(* has PNG behind its first byte.  A call of search_dir is a frame of      *)
(* calls; the files it opens are never closed.                             *)
(*                                                                         *)
(* A definition named Bug... is a mistaken variant of the one after it.    *)
(***************************************************************************)
EXTENDS Integers, Sequences, FiniteSets

CONSTANTS Root, Dirs, Files,
          Holds,        \* Holds[d]: the directories and files in d
          Content,      \* Content[f]: see below
          Limits,       \* how many descriptors a process may be allowed, besides stdio
          MaxUnreadable \* bound: directories and files without permission

(* What a file is to findpng:                                              *)
(*   "png"    named .png, its first word says PNG                          *)
(*   "text"   named .png, its first word says something else               *)
(*   "blank"  named .png, it has no word                                   *)
(*   "skip"   not a regular file, or of another name                       *)
Kinds == {"png", "text", "blank", "skip"}

(* readdir gives . and .. too, which are passed over, and links are not    *)
(* followed, so everything lies in one directory, below Root.              *)
IsTree ==
    /\ IsFiniteSet(Dirs) /\ IsFiniteSet(Files) /\ Dirs \cap Files = {} /\ Root \in Dirs
    /\ Holds \in [Dirs -> SUBSET ((Dirs \ {Root}) \cup Files)]
    /\ \A d, e \in Dirs : d # e => Holds[d] \cap Holds[e] = {}
    /\ \A S \in SUBSET Dirs :
          Root \in S /\ (\A d \in S : Holds[d] \cap Dirs \subseteq S) => S = Dirs
    /\ Files \subseteq UNION {Holds[d] : d \in Dirs}
    /\ Content \in [Files -> Kinds]
    /\ Limits \subseteq Nat \ {0}

VARIABLES
    descriptors,  \* how many it is allowed
    unreadable,   \* what findpng has no permission to open
    calls,        \* the calls of search_dir, the innermost last
    open,         \* the files that were opened
    printed,      \* the paths that were printed
    result        \* "searching", "done", or "exit"

world == <<descriptors, unreadable>>
vars == <<world, calls, open, printed, result>>

InUse == Cardinality(open) + Len(calls)
CanOpen(x) == x \notin unreadable /\ InUse < descriptors
Call(d) == [dir |-> d, left |-> Holds[d], png_count |-> 0]
This == calls[Len(calls)]

(* main, with opendir of the directory it is given.                        *)
Init ==
    /\ descriptors \in Limits
    /\ unreadable \in {U \in SUBSET (Dirs \cup Files) : Cardinality(U) <= MaxUnreadable}
    /\ open = {} /\ printed = <<>>
    /\ IF Root \in unreadable THEN calls = <<>> /\ result = "exit"
                              ELSE calls = <<Call(Root)>> /\ result = "searching"

Searching == result = "searching"
Taken(x) == [This EXCEPT !.left = @ \ {x}]

GivesUp == result' = "exit" /\ UNCHANGED <<world, calls, open, printed>>

(* readdir yields a directory: search_dir calls itself.                    *)
search_dir(d) ==
    /\ Searching /\ d \in This.left
    /\ CanOpen(d)
    /\ calls' = Append([calls EXCEPT ![Len(calls)] = Taken(d)], Call(d))
    /\ UNCHANGED <<world, open, printed, result>>

opendirFails(d) == Searching /\ d \in This.left /\ ~CanOpen(d) /\ GivesUp

Skip(f) ==
    /\ Searching /\ f \in This.left /\ Content[f] = "skip"
    /\ calls' = [calls EXCEPT ![Len(calls)] = Taken(f)]
    /\ UNCHANGED <<world, open, printed, result>>

(* fscanf leaves signature alone when the file has no word, and so it is   *)
(* what the stack of the process has there: of an earlier file, maybe.     *)
is_png(f) == CASE Content[f] = "png" -> {TRUE} [] Content[f] = "text" -> {FALSE}
               [] Content[f] = "blank" -> BOOLEAN

Look(f) ==
    /\ Searching /\ f \in This.left /\ Content[f] # "skip"
    /\ CanOpen(f) /\ open' = open \cup {f}
    /\ \E yes \in is_png(f) :
          /\ calls' = [calls EXCEPT ![Len(calls)] =
                          [Taken(f) EXCEPT !.png_count = @ + IF yes THEN 1 ELSE 0]]
          /\ printed' = IF yes THEN Append(printed, f) ELSE printed
    /\ UNCHANGED <<world, result>>

fopenFails(f) ==
    /\ Searching /\ f \in This.left /\ Content[f] # "skip" /\ ~CanOpen(f)
    /\ GivesUp

\* planted bug: the count of the subdirectory takes the place of the caller's
BugReturn ==
    /\ Searching /\ Len(calls) > 1 /\ This.left = {}
    /\ LET caller == Len(calls) - 1 IN
       calls' = [SubSeq(calls, 1, caller) EXCEPT ![caller].png_count = This.png_count]
    /\ UNCHANGED <<world, open, printed, result>>

(* closedir, and the caller adds the count.                                *)
Return ==
    /\ Searching /\ Len(calls) > 1 /\ This.left = {}
    /\ LET caller == Len(calls) - 1 IN
       calls' = [SubSeq(calls, 1, caller) EXCEPT ![caller].png_count = @ + This.png_count]
    /\ UNCHANGED <<world, open, printed, result>>

(* main says "No PNG file found" if the count is 0.                        *)
Done ==
    /\ Searching /\ Len(calls) = 1 /\ This.left = {}
    /\ result' = "done"
    /\ UNCHANGED <<world, calls, open, printed>>

Next ==
    \/ \E d \in Dirs : search_dir(d) \/ opendirFails(d)
    \/ \E f \in Files : Skip(f) \/ Look(f) \/ fopenFails(f)
    \/ Return \/ Done

Spec == Init /\ [][Next]_vars

-----------------------------------------------------------------------------
(* Properties *)

Of(kinds) == {f \in Files : Content[f] \in kinds}
Printed == {printed[k] : k \in DOMAIN printed}
Counts == LET sum[k \in 0 .. Len(calls)] == IF k = 0 THEN 0 ELSE sum[k - 1] + calls[k].png_count
          IN sum[Len(calls)]

(* Every variable stays within the values the code can give it; no more is *)
(* open than a process may have.                                           *)
TypeOK ==
    /\ unreadable \subseteq Dirs \cup Files
    /\ \A k \in DOMAIN calls : /\ calls[k].dir \in Dirs
                               /\ calls[k].left \subseteq Holds[calls[k].dir]
                               /\ calls[k].png_count \in 0 .. Cardinality(Files)
    /\ open \subseteq Files /\ InUse <= descriptors
    /\ result \in {"searching", "done", "exit"}

(* What the calls of search_dir have counted between them is what was      *)
(* printed, so main says that there is no PNG only if none was printed.    *)
CountsAgree == Counts = Len(printed)

(* A search that comes to its end has printed every PNG of the tree once,  *)
(* whatever the order of the directories, and nothing else that has a      *)
(* word in it.                                                             *)
AllFound ==
    result = "done" =>
        /\ Of({"png"}) \subseteq Printed /\ Printed \subseteq Of({"png", "blank"})
        /\ Len(printed) = Cardinality(Printed)

(* A search is given up only for something that may not be opened, or in a *)
(* tree with more .png files and directories than there are descriptors:   *)
(* the files count although they were read and done with.                  *)
GivenUpForCause ==
    result = "exit" =>
        \/ unreadable # {}
        \/ Cardinality(Of({"png", "text", "blank"})) + Cardinality(Dirs) > descriptors

(* findpng in one: the counts of the recursive calls are what was printed, *)
(* every PNG is found unless the search is given up, and that has a cause. *)
SearchComplete == CountsAgree /\ AllFound /\ GivenUpForCause
=============================================================================
