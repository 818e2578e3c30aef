----------------------------- MODULE Paster2MC -----------------------------
(* Small instances of Paster2 for TLC.                                     *)
EXTENDS Paster2, TLC

CONSTANTS p1, p2, c1, c2

TwoProducers == {p1, p2}
TwoConsumers == {c1, c2}

(* Children of one kind run the same code and are never compared.          *)
Interchangeable == Permutations(Producers) \cup Permutations(Consumers)
=============================================================================
