------------------------------ MODULE MCDepot ------------------------------
(* Small instances of Depot.                                               *)
EXTENDS DepotInv, TLC

\* An empty directory under another one.
TinyHash  == {"t", "u"}
TinyTrees == {"t", "u"}
TinyKids  == "t" :> {} @@ "u" :> {"t"}

\* A tree, and a record "r" that is no tree: a ref may hold either.
RecHash  == {"t", "r"}
RecTrees == {"t"}
RecKids  == "t" :> {}

=============================================================================
