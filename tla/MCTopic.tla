------------------------------ MODULE MCTopic -------------------------------
(* One topic kept here, one followed.                                      *)
EXTENDS Topic, TLC

CONSTANTS x1, x2, t1, t2

Interchangeable == Permutations({x1, x2}) \cup Permutations({t1, t2})

=============================================================================
