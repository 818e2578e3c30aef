-------------------------------- MODULE Crawl --------------------------------
(***************************************************************************)
(* What findpng2 and findpng3 promise: starting at Seed every page that is *)
(* found is fetched at most once, pages are found only as links of pages   *)
(* that were fetched, and the crawl ends when nothing is left to fetch or  *)
(* M images were found.  Threads, locks and stacks are left to the modules *)
(* that implement this one.                                                *)
(***************************************************************************)
EXTENDS Integers, Sequences

CONSTANTS Urls,      \* the addresses of the web
          Seed,      \* the address the crawl starts at
          Links,     \* Links[u]: the addresses page u links to, in order
          Redirect,  \* Redirect[u]: the address that u ends at
          M          \* images wanted

VARIABLES seen,      \* addresses ever found
          pending,   \* found and not fetched yet
          active,    \* being fetched or processed
          images,    \* images found so far
          finished   \* the crawl is over
vars == <<seen, pending, active, images, finished>>

LinksOf(u) == {Links[Redirect[u]][k] : k \in DOMAIN Links[Redirect[u]]}

Init == /\ seen = {Seed} /\ pending = {Seed} /\ active = {}
        /\ images = 0 /\ finished = FALSE

Start(S) == /\ S # {} /\ S \subseteq pending /\ ~finished
            /\ pending' = pending \ S /\ active' = active \cup S
            /\ UNCHANGED <<seen, images, finished>>

Discover(u) == /\ u \notin seen
               /\ \E v \in active : u \in LinksOf(v)
               /\ seen' = seen \cup {u} /\ pending' = pending \cup {u}
               /\ UNCHANGED <<active, images, finished>>

(* A page that is done has brought one image or none.                      *)
Retire(u) == /\ u \in active
             /\ active' = active \ {u}
             /\ images' \in {images, images + 1}
             /\ UNCHANGED <<seen, pending, finished>>

Finish == /\ ~finished /\ active = {}
          /\ pending = {} \/ images >= M
          /\ finished' = TRUE
          /\ UNCHANGED <<seen, pending, active, images>>

Next == Finish \/ (\E S \in SUBSET Urls : Start(S)) \/ \E u \in Urls : Discover(u) \/ Retire(u)
Spec == Init /\ [][Next]_vars
=============================================================================
