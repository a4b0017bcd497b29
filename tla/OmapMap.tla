------------------------------ MODULE OmapMap ------------------------------
(***************************************************************************)
(* What cas-omap.h promises: a map from numeric ids to hashes, of which    *)
(* snapshots are stored and can be loaded again at any later time.  A call *)
(* that fails changes nothing, but for a load, which gives up the old map  *)
(* before it has the new one.                                              *)
(***************************************************************************)
EXTENDS Integers, FiniteSets

CONSTANTS Ids, Hash, Zero

VARIABLES map,    \* the hash of every id, Zero for an unmapped one
          snaps,  \* the maps that were stored
          call    \* the last call, with its arguments and its result

NoneMapped == [i \in Ids |-> Zero]

Mapped == {i \in Ids : map[i] # Zero}

Init == map = NoneMapped /\ snaps = {} /\ call = <<"new">>

Get(i) == call' = <<"get", i, map[i]>> /\ UNCHANGED <<map, snaps>>
Put(i, h) ==
    call' = <<"put", i, h>> /\ map' = [map EXCEPT ![i] = h] /\ UNCHANGED snaps
Del(i) ==
    /\ call' = <<"del", i, map[i] # Zero>>
    /\ map' = [map EXCEPT ![i] = Zero] /\ UNCHANGED snaps
Foreach(n) ==
    /\ call' = <<"foreach", n, {i \in Mapped : Cardinality({j \in Mapped : j < i}) < n}>>
    /\ UNCHANGED <<map, snaps>>
Clear == call' = <<"clear">> /\ map' = NoneMapped /\ UNCHANGED snaps
Store == call' = <<"store", map>> /\ snaps' = snaps \cup {map} /\ UNCHANGED map
Load(m) == call' = <<"load", m>> /\ map' = m /\ UNCHANGED snaps
Fail == call' = <<"fail">> /\ UNCHANGED <<map, snaps>>
LoadFail == call' = <<"load_fail">> /\ map' = NoneMapped /\ UNCHANGED snaps

Next ==
    \/ \E i \in Ids, h \in Hash : Put(i, h)
    \/ \E i \in Ids : Get(i) \/ Del(i)
    \/ \E m \in snaps : Load(m)
    \/ \E n \in 1..Cardinality(Ids) : Foreach(n)
    \/ Clear \/ Store \/ Fail \/ LoadFail

Spec == Init /\ [][Next]_<<map, snaps, call>>

=============================================================================
