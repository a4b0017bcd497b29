--------------------------- MODULE MCDepotHandle ---------------------------
(* Three handles in two processes.                                         *)
EXTENDS DepotHandle

TwoAndOne == [h \in Handles |-> IF h = "c" THEN "q" ELSE "p"]

=============================================================================
