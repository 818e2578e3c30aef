---------------------------- MODULE StripAssembly ----------------------------
(***************************************************************************)
(* What paster and paster2 promise to whoever runs them: the image is put  *)
(* together from NumParts strips that arrive in any order, each is pasted  *)
(* at its own place exactly once or was lost on the way, and all.png is    *)
(* written once, of exactly the strips in place, when the fate of every    *)
(* strip is known.  How the strips are fetched and by how many threads or  *)
(* processes is left to the modules that implement this one.               *)
(***************************************************************************)
EXTENDS Integers

CONSTANT NumParts      \* at least one

VARIABLES pasted,    \* the strips that are in place
          lost,      \* the strips that will never be
          image,     \* what all.png is made of
          written    \* all.png has been written
vars == <<pasted, lost, image, written>>

Parts == 0 .. NumParts - 1

Init == pasted = {} /\ lost = {} /\ image = {} /\ written = FALSE

Paste(i) ==
    /\ i \notin pasted \cup lost /\ ~written
    /\ pasted' = pasted \cup {i}
    /\ UNCHANGED <<lost, image, written>>

Lose(i) ==
    /\ i \notin pasted \cup lost /\ ~written
    /\ lost' = lost \cup {i}
    /\ UNCHANGED <<pasted, image, written>>

Finish ==
    /\ pasted \cup lost = Parts /\ ~written
    /\ image' = pasted /\ written' = TRUE
    /\ UNCHANGED <<pasted, lost>>

Next == Finish \/ \E i \in Parts : Paste(i) \/ Lose(i)

Safe == Init /\ [][Next]_vars

(* Every strip arrives or is lost sooner or later, and then the image is   *)
(* written.                                                                *)
Spec == Safe /\ WF_vars(Next)
=============================================================================
