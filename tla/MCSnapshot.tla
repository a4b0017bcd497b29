----------------------------- MODULE MCSnapshot -----------------------------
(* Two names, two levels, one byte of quota.                               *)
EXTENDS Snapshot

Alphabetical == <<"f", "g">>
DataSize == [d \in Data |-> IF d = Empty THEN 0 ELSE 1]

UserRW == {<<"u", "R">>, <<"u", "W">>}
WriteOnly == {{<<"u", "W">>}}
Owner == [uid |-> 1, admin |-> FALSE, group |-> FALSE]
Admin == [uid |-> 0, admin |-> TRUE, group |-> FALSE]
Both == {Owner, Admin}
OnlyOwner == {Owner}
AtRootAndBelow == {<<>>, <<"g">>}

=============================================================================
