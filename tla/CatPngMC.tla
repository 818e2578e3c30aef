------------------------------ MODULE CatPngMC ------------------------------
(* Small instances of CatPng for TLC: a CHUNK is one row of the pictures.  *)
EXTENDS CatPng

(* A sound picture of one row and three of two rows: one broken after its  *)
(* first row, one whose checksum is wrong, one that ends inside its second *)
(* row.  And two whose data are longer than their one row: one that comes  *)
(* out to the end, and one that breaks before more than the row is copied. *)
SixPictures ==
    {[width |-> 1, height |-> 1, flaw |-> "sound", at |-> 6],
     [width |-> 1, height |-> 1, flaw |-> "broken", at |-> 7]} \cup
    {[width |-> 1, height |-> 1, flaw |-> "sound", at |-> 5],
     [width |-> 1, height |-> 2, flaw |-> "broken", at |-> 6],
     [width |-> 1, height |-> 2, flaw |-> "broken", at |-> 10],
     [width |-> 1, height |-> 2, flaw |-> "short", at |-> 7]}
=============================================================================
