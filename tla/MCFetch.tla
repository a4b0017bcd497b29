------------------------------ MODULE MCFetch ------------------------------
(* Instances of Fetch.  Root s has the blob b both itself and through its  *)
(* subdirectory r, which is a root of its own.  What a walk reads and      *)
(* verifies are the directory objects of TreeCodec; two names there have   *)
(* the same hash, in the last slot of a table for two.                     *)
EXTENDS Fetch, TreeCodec

SharedHash  == {"s", "r", "b"}
SharedTrees == {"s", "r"}
SharedKids  == [h \in SharedTrees |-> IF h = "s" THEN <<"b", "r">> ELSE <<"b">>]

Colliding == [n \in {1, 2, 3} |-> IF n = 3 THEN 3 ELSE 14]

Obj(h, k) == [hash |-> h, kind |-> k]

\* A full bundle, one without the blob, and one with a forged htree.
SomeBundles == {
    [objs |-> <<Obj("b", "plain"), Obj("r", "htree"), Obj("s", "plain")>>, root |-> "s"],
    [objs |-> <<Obj("s", "plain"), Obj("r", "plain")>>, root |-> None],
    [objs |-> <<Obj("s", "plain"), Obj("r", "fake"), Obj("b", "plain")>>, root |-> "s"]}

\* A behaviour either is one of the depot or tries one input of TreeCodec.
MCInit == Init /\ Tries
MCNext == tried = NotTried /\ Next /\ UNCHANGED tried
MCSpec == MCInit /\ [][MCNext]_<<vars, tried>>
MCFairSpec == MCSpec /\ Fairness

=============================================================================
