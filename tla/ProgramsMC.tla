----------------------------- MODULE ProgramsMC -----------------------------
(* One instance of Programs for TLC, with findpng on a tree of three       *)
(* directories.                                                            *)
EXTENDS Programs

(* r holds d and two files, d holds e and a file, e holds two files.       *)
TreeHolds == [r |-> {"d", "f1", "f2"}, d |-> {"e", "f3"}, e |-> {"f4", "f5"}]
TreeContent == [f1 |-> "png", f2 |-> "skip", f3 |-> "blank", f4 |-> "png", f5 |-> "text"]
TreeDirs == DOMAIN TreeHolds
TreeFiles == DOMAIN TreeContent
=============================================================================
