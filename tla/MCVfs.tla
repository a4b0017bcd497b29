------------------------------- MODULE MCVfs -------------------------------
(* Small filesystems: an administrator, an owner and a group member.       *)
EXTENDS Vfs, Paths, TLC

CONSTANTS n1, n2

NameSymmetry == Permutations({n1, n2})

\* The last call does not decide what may happen next.
Lasting == <<nodes, usage, listVars, tried>>

\* A behaviour either is one of the filesystem or tries one input of Paths.
MCInit == Init /\ Tries
MCNext == tried = NotTried /\ Next /\ UNCHANGED tried
MCSpec == MCInit /\ [][MCNext]_<<vars, tried>>

DataSize == [d \in Data |-> CASE d = "e" -> 0 [] d = "x" -> 1 [] OTHER -> 2]

UserRW == {<<"u", "R">>, <<"u", "W">>}
Shared == UserRW \cup {<<"g", "R">>, <<"o", "R">>}

Admin  == [uid |-> 0, admin |-> TRUE, group |-> FALSE]
Owner  == [uid |-> 1, admin |-> FALSE, group |-> FALSE]
Member == [uid |-> 2, admin |-> FALSE, group |-> TRUE]
OneAdmin == {Admin}
ThreeUsers == {Owner, Member, Admin}
ChmodModes == {{<<"g", "W">>}}
NoModes == {}
NoListers == {}

=============================================================================
