---------------------------- MODULE DepotProofs ----------------------------
(***************************************************************************)
(* Proofs about Depot for every set of objects, refs and comments.         *)
(***************************************************************************)
EXTENDS DepotInv, DepotHandle, TLAPS

-----------------------------------------------------------------------------
(* Reachability.                                                           *)

\* The roots are reachable.
LEMMA ReachRoots ==
    ASSUME NEW R \in SUBSET Hash, NEW P
    PROVE  R \subseteq Reach(R, P) /\ Reach(R, P) \subseteq Hash
BY DEF Reach

\* Reach is closed under the entries of trees that are present.
LEMMA ReachClosed ==
    ASSUME NEW R \in SUBSET Hash, NEW P, NEW t \in Reach(R, P),
           t \in Trees, t \in P
    PROVE  Kids[t] \subseteq Reach(R, P)
<1>1. \A k \in Kids[t] : k \in Hash
  BY ObjectAssumption
<1>2. ASSUME NEW k \in Kids[t], NEW S \in SUBSET Hash, R \subseteq S, Closed(S, P)
      PROVE  k \in S
  <2>1. t \in S
    BY <1>2 DEF Reach
  <2>2. QED
    BY <2>1, <1>2 DEF Closed
<1>3. QED
  BY <1>1, <1>2 DEF Reach

\* ... and the least such set.
LEMMA ReachLeast ==
    ASSUME NEW R \in SUBSET Hash, NEW P, NEW S \in SUBSET Hash,
           R \subseteq S, Closed(S, P)
    PROVE  Reach(R, P) \subseteq S
BY DEF Reach

\* A tree is in its own closure, and closures contain the closures of
\* their members' entries.
LEMMA ClosureFacts ==
    ASSUME NEW r \in Hash
    PROVE  /\ r \in Closure(r)
           /\ Closure(r) \subseteq Hash
           /\ \A t \in Closure(r) : t \in Trees => Kids[t] \subseteq Closure(r)
<1>1. {r} \in SUBSET Hash
  OBVIOUS
<1>2. QED
  BY <1>1, ReachRoots, ReachClosed DEF Closure

\* The closure of an object is the object and the closures of its entries.
LEMMA ClosureStep ==
    ASSUME NEW h \in Hash, NEW S \in SUBSET Hash, h \in S,
           h \in Trees => \A k \in Kids[h] : Closure(k) \subseteq S
    PROVE  Closure(h) \subseteq S
<1> DEFINE C == {x \in S : x = h \/ (h \in Trees /\ \E k \in Kids[h] : x \in Closure(k))}
<1>1. {h} \subseteq C /\ C \in SUBSET Hash
  OBVIOUS
<1>2. \A k \in Hash : k \in Closure(k) /\ \A t \in Closure(k) : t \in Trees => Kids[t] \subseteq Closure(k)
  BY ClosureFacts
<1>3. h \in Trees => \A k \in Kids[h] : k \in Hash
  BY ObjectAssumption
<1>4. ASSUME NEW t \in C, t \in Trees, NEW x \in Kids[t]
      PROVE  x \in C
  <2>1. CASE t = h
    BY <2>1, <1>2, <1>3, <1>4
  <2>2. CASE t # h
    <3>1. PICK k \in Kids[h] : h \in Trees /\ t \in Closure(k)
      BY <2>2, <1>4
    <3>2. k \in Hash
      BY <3>1, <1>3
    <3>3. x \in Closure(k)
      BY <3>1, <3>2, <1>2, <1>4
    <3>4. QED
      BY <3>1, <3>3
  <2>3. QED
    BY <2>1, <2>2
<1>5. Closed(C, Trees)
  BY <1>4 DEF Closed
<1>6. Closure(h) \subseteq C
  <2>1. {h} \in SUBSET Hash /\ {h} \subseteq C /\ C \in SUBSET Hash
    BY <1>1
  <2>2. QED
    BY ONLY <2>1, <1>5, ReachLeast DEF Closure
<1>7. QED
  BY <1>6

\* Marking from a set of roots marks the whole closure of a complete one.
LEMMA MarkComplete ==
    ASSUME NEW R \in SUBSET Hash, NEW P, NEW r \in R, Closure(r) \subseteq P
    PROVE  Closure(r) \subseteq Reach(R, P)
<1> DEFINE C == Closure(r) \cap Reach(R, P)
<1>1. r \in Hash /\ {r} \in SUBSET Hash
  OBVIOUS
<1>2. C \in SUBSET Hash /\ {r} \subseteq C
  BY <1>1, ClosureFacts, ReachRoots
<1>3. ASSUME NEW t \in C, t \in Trees
      PROVE  Kids[t] \subseteq C
  <2>1. Kids[t] \subseteq Closure(r)
    BY <1>1, <1>3, ClosureFacts
  <2>2. Kids[t] \subseteq Reach(R, P)
    BY <1>3, ReachClosed
  <2>3. QED
    BY <2>1, <2>2
<1>4. Closed(C, Trees)
  BY <1>3 DEF Closed
<1>5. Closure(r) \subseteq C
  BY ONLY <1>1, <1>2, <1>4, ReachLeast DEF Closure
<1>6. QED
  BY <1>5

-----------------------------------------------------------------------------
(* Logs.                                                                   *)

\* What log_read reports are hashes.
LEMMA ReadableHash ==
    ASSUME NEW l \in Seq(Line)
    PROVE  Readable(l) \subseteq Hash
<1>1. \A i \in 1..Len(l) : l[i] \in Line
  OBVIOUS
<1>2. \A i \in 1..Len(l) : l[i].hash \in Hash
  BY <1>1 DEF Line
<1>3. QED
  BY <1>2 DEF Readable

\* A log is split into its lines ahead of a torn tail and the tail.
LEMMA CountFacts ==
    ASSUME NEW l \in Seq(Line)
    PROVE  /\ Count(l) \in Nat /\ Count(l) <= Len(l)
           /\ SubSeq(l, 1, Count(l)) \in Seq(Line)
           /\ TornEnd(l) => l[Len(l)] \in Line
<1>1. Len(l) \in Nat /\ \A i \in 1..Len(l) : l[i] \in Line
  OBVIOUS
<1>2. Count(l) \in Nat /\ Count(l) <= Len(l)
  BY <1>1 DEF Count, TornEnd
<1>3. SubSeq(l, 1, Count(l)) \in Seq(Line)
  BY <1>1, <1>2
<1>4. TornEnd(l) => l[Len(l)] \in Line
  BY <1>1 DEF TornEnd
<1>5. QED
  BY <1>2, <1>3, <1>4

\* Every outcome of an append is a log.
LEMMA AppendedType ==
    ASSUME NEW l \in Seq(Line), NEW h \in Hash, NEW c, NEW m \in Appended(l, h, c)
    PROVE  m \in Seq(Line)
<1>1. PICK k \in AppendForms(l, c) :
          m = SubSeq(l, 1, Count(l)) \o <<[hash |-> AppendOwner(l, h), form |-> k]>>
                  \o AppendRest(h, c)
  BY DEF Appended
<1>2. SubSeq(l, 1, Count(l)) \in Seq(Line)
  BY CountFacts
<1>3. AppendOwner(l, h) \in Hash
  BY CountFacts DEF AppendOwner, Line
<1>4. [hash |-> AppendOwner(l, h), form |-> k] \in Line
  BY <1>3 DEF Line, Forms, AppendForms
<1>5. [hash |-> h, form |-> "bad"] \in Line
  BY DEF Line, Forms
<1>6. AppendRest(h, c) \in Seq(Line)
  BY <1>5 DEF AppendRest
<1>7. QED
  BY <1>1, <1>2, <1>4, <1>6

\* So is the outcome of a torn one.
LEMMA AppendedTornType ==
    ASSUME NEW l \in Seq(Line), NEW h \in Hash
    PROVE  AppendedTorn(l, h) \in Seq(Line)
<1>1. [hash |-> h, form |-> "torn"] \in Line
  BY DEF Line, Forms
<1>2. QED
  BY <1>1 DEF AppendedTorn

\* log_truncate keeps lines of the log.
LEMMA SurvivorsType ==
    ASSUME NEW l \in Seq(Line), NEW m \in Survivors(l)
    PROVE  /\ m \in Seq(Line)
           /\ \A i \in 1..Len(m) : \E j \in 1..Len(l) : m[i] = l[j]
<1>1. PICK n \in 1..(Count(l) - 1) : \E g \in [1..n -> 1..Count(l)] :
          m = [i \in 1..n |-> l[g[i]]]
  <2>1. PICK n \in 1..(Count(l) - 1) : m \in {[i \in 1..n |-> l[e[i]]] : e \in KeepMaps(l, n)}
    BY DEF Survivors
  <2>2. QED
    BY <2>1 DEF KeepMaps
<1>0. PICK g \in [1..n -> 1..Count(l)] : m = [i \in 1..n |-> l[g[i]]]
  BY <1>1
<1>2. Count(l) \in Nat /\ Count(l) <= Len(l)
  BY DEF Count, TornEnd
<1>3. n \in Nat
  BY <1>2
<1>4. \A i \in 1..n : g[i] \in 1..Len(l) /\ l[g[i]] \in Line
  BY <1>0, <1>2, <1>3
<1>5. m \in Seq(Line) /\ Len(m) = n
  BY <1>0, <1>3, <1>4
<1>6. QED
  BY <1>0, <1>4, <1>5

\* Appending to a log without torn tail adds at most the new hash to what
\* log_read reports, and hides nothing.
LEMMA AppendedReadable ==
    ASSUME NEW l \in Seq(Line), Parsable(l), NEW h \in Hash, NEW c,
           NEW m \in Appended(l, h, c)
    PROVE  /\ Parsable(m)
           /\ Readable(l) \subseteq Readable(m)
           /\ Readable(m) \subseteq Readable(l) \cup {h}
<1> DEFINE extra == AppendRest(h, c)
<1>1. ~ TornEnd(l) /\ Count(l) = Len(l) /\ SubSeq(l, 1, Count(l)) = l
  BY DEF Parsable, TornEnd, Count
<1>2. PICK k \in {"bad", "whole"} : m = l \o <<[hash |-> h, form |-> k]>> \o extra
  BY <1>1 DEF Appended, AppendForms, AppendOwner
<1>3. /\ Len(l) \in Nat
      /\ Len(m) \in {Len(l) + 1, Len(l) + 2}
      /\ \A i \in 1..Len(l) : m[i] = l[i]
      /\ m[Len(l) + 1] = [hash |-> h, form |-> k]
      /\ Len(m) = Len(l) + 2 => m[Len(l) + 2] = [hash |-> h, form |-> "bad"]
  <2>1. CASE c = "multi"
    BY <2>1, <1>2 DEF AppendRest
  <2>2. CASE c # "multi"
    BY <2>2, <1>2 DEF AppendRest
  <2>3. QED
    BY <2>1, <2>2
<1>4. Parsable(m)
  BY <1>3 DEF Parsable
<1>5. Readable(l) \subseteq Readable(m)
  BY <1>3 DEF Readable
<1>6. Readable(m) \subseteq Readable(l) \cup {h}
  <2>1. ASSUME NEW x \in Readable(m)
        PROVE  x \in Readable(l) \cup {h}
    <3>1. PICK j \in 1..Len(m) : x = m[j].hash /\ \A i \in 1..j : m[i].form = "whole"
      BY <2>1 DEF Readable
    <3>2. CASE j \in 1..Len(l)
      <4>1. x = l[j].hash /\ \A i \in 1..j : l[i].form = "whole"
        BY <1>3, <3>1, <3>2
      <4>2. QED
        BY <4>1, <3>2 DEF Readable
    <3>3. CASE j \notin 1..Len(l)
      BY <1>3, <3>1, <3>3
    <3>4. QED
      BY <3>2, <3>3
  <2>2. QED
    BY <2>1
<1>7. QED
  BY <1>4, <1>5, <1>6

\* A prune of a log without bad lines reports a part of what it reported.
LEMMA SurvivorsReadable ==
    ASSUME NEW l \in Seq(Line), Parsable(l), NEW m \in Survivors(l),
           \A i \in 1..Len(l) : l[i].form # "bad"
    PROVE  Parsable(m) /\ Readable(m) \subseteq Readable(l)
<1>1. \A i \in 1..Len(l) : l[i].form = "whole"
  BY DEF Parsable
<1>2. m \in Seq(Line) /\ \A i \in 1..Len(m) : \E j \in 1..Len(l) : m[i] = l[j]
  BY SurvivorsType
<1>3. \A i \in 1..Len(m) : m[i].form = "whole"
  BY <1>1, <1>2
<1>4. Parsable(m)
  BY <1>3 DEF Parsable
<1>5. \A j \in 1..Len(l) : l[j].hash \in Readable(l)
  BY <1>1 DEF Readable
<1>6. Readable(m) \subseteq Readable(l)
  <2>1. \A x \in Readable(m) : \E i \in 1..Len(m) : x = m[i].hash
    BY DEF Readable
  <2>2. QED
    BY <2>1, <1>2, <1>5
<1>7. QED
  BY <1>4, <1>6

-----------------------------------------------------------------------------
(* Type correctness, for every choice of faults.                           *)

\* An empty depot is well typed.
LEMMA TypeInit == Init => TypeOK
<1>1. <<>> \in Seq(Line)
  OBVIOUS
<1>2. QED
  BY <1>1 DEF Init, TypeOK

\* Every step, faults included, keeps the types.
LEMMA TypeStep == TypeOK /\ [Next]_vars => TypeOK'
<1> SUFFICES ASSUME TypeOK, [Next]_vars
             PROVE  TypeOK'
  OBVIOUS
<1> USE DEF objVars, refVars, wVars, mVars
<1>0. <<>> \in Seq(Line)
  OBVIOUS
<1>1. ASSUME NEW f \in Refs, NEW g \in Goals, Begin(f, g)
      PROVE  TypeOK'
  BY <1>1, ObjectAssumption DEF TypeOK, Begin
<1>2. ASSUME NEW h \in Hash, PutDedup(h)
      PROVE  TypeOK'
  BY <1>2 DEF TypeOK, PutDedup, Puttable
<1>3. ASSUME NEW h \in Hash, PutRename(h)
      PROVE  TypeOK'
  BY <1>3 DEF TypeOK, PutRename, Puttable
<1>4. ASSUME NEW m \in Modes, NEW b \in BOOLEAN, GcBegin(m, b)
      PROVE  TypeOK'
  BY <1>4, InputAssumption DEF TypeOK, GcBegin
<1>5. ASSUME NEW f \in Refs, MarkFail(f)
      PROVE  TypeOK'
  BY <1>5, <1>0 DEF TypeOK, MarkFail, MaintEnd
<1>6. ASSUME NEW h \in Hash, SweepOne(h)
      PROVE  TypeOK'
  BY <1>6 DEF TypeOK, SweepOne
<1>7. ASSUME NEW h \in Hash, ReclaimOne(h)
      PROVE  TypeOK'
  BY <1>7 DEF TypeOK, ReclaimOne
<1>8. ASSUME NEW h \in Hash, Age(h)
      PROVE  TypeOK'
  BY <1>8 DEF TypeOK, Age
<1>9. CASE PutSync
  BY <1>9 DEF TypeOK, PutSync
<1>10. CASE PutFail
  BY <1>10 DEF TypeOK, PutFail, WriterEnd
<1>11. CASE CommitLock
  BY <1>11 DEF TypeOK, CommitLock
<1>12. CASE PrevLink
  BY <1>12 DEF TypeOK, PrevLink
<1>13. CASE RootRename
  BY <1>13 DEF TypeOK, RootRename
<1>14. CASE RootFail
  BY <1>14 DEF TypeOK, RootFail, Unlock, WriterEnd
<1>15. CASE CommitSync
  BY <1>15 DEF TypeOK, CommitSync, SyncRefs, Absent, Unlock, WriterEnd
<1>16. CASE TruncRename
  BY <1>16 DEF TypeOK, TruncRename
<1>17. CASE TruncFail
  BY <1>17, <1>0 DEF TypeOK, TruncFail, Unlock, MaintEnd
<1>18. CASE TruncSync
  BY <1>18, <1>0 DEF TypeOK, TruncSync, SyncRefs, Absent, Unlock, MaintEnd
<1>19. CASE MarkDone
  BY <1>19 DEF TypeOK, MarkDone
<1>20. CASE SweepBegin
  BY <1>20 DEF TypeOK, SweepBegin
<1>21. CASE SweepDone
  BY <1>21, <1>0 DEF TypeOK, SweepDone, MaintEnd
<1>22. CASE Collect
  BY <1>22 DEF TypeOK, Collect, Collected
<1>23. CASE PackRename
  BY <1>23 DEF TypeOK, PackRename
<1>24. CASE PackFail
  BY <1>24, <1>0 DEF TypeOK, PackFail, MaintEnd
<1>25. CASE PackSync
  BY <1>25 DEF TypeOK, PackSync
<1>26. CASE PackDone
  BY <1>26, <1>0 DEF TypeOK, PackDone, MaintEnd
<1>27. CASE Reload
  BY <1>27 DEF TypeOK, Reload
<1>28. CASE ReclaimDone
  BY <1>28, <1>0 DEF TypeOK, ReclaimDone, MaintEnd
<1>29. CASE PackBegin
  BY <1>29 DEF TypeOK, PackBegin
<1>30. CASE ReclaimBegin
  BY <1>30 DEF TypeOK, ReclaimBegin
<1>31. CASE ProcessDies
  BY <1>31, <1>0 DEF TypeOK, ProcessDies, Restart, WriterEnd, MaintEnd
<1>32. ASSUME NEW c \in Comments, LogAppend(c)
      PROVE  TypeOK'
  <2>1. PICK l \in Appended(log[wref], wgoal, c) : log' = [log EXCEPT ![wref] = l]
    BY <1>32 DEF LogAppend
  <2>2. wref \in Refs /\ wgoal \in Hash /\ log[wref] \in Seq(Line)
    BY <1>32 DEF TypeOK, LogAppend
  <2>3. l \in Seq(Line)
    BY <2>1, <2>2, AppendedType
  <2>4. QED
    BY <1>32, <2>1, <2>2, <2>3 DEF TypeOK, LogAppend, SyncLog
<1>33. CASE LogAppendFail
  <2>1. wref \in Refs /\ wgoal \in Hash /\ log[wref] \in Seq(Line)
    BY <1>33 DEF TypeOK, LogAppendFail
  <2>2. AppendedTorn(log[wref], wgoal) \in Seq(Line)
    BY <2>1, AppendedTornType
  <2>3. log' \in [Refs -> Seq(Line)]
    BY <1>33, <2>1, <2>2 DEF TypeOK, LogAppendFail
  <2>4. QED
    BY <1>33, <2>1, <2>3 DEF TypeOK, LogAppendFail, SyncLog, Unlock, WriterEnd
<1>34. CASE TruncRead
  <2>1. mlog' \in Seq(Line)
    BY <1>34, SurvivorsType DEF TypeOK, TruncRead
  <2>2. QED
    BY <1>34, <2>1 DEF TypeOK, TruncRead
<1>35. ASSUME NEW f \in Refs, MarkRef(f)
      PROVE  TypeOK'
  <2>1. Readable(log[f]) \in SUBSET Hash
    BY ReadableHash DEF TypeOK
  <2>2. Reach(Readable(log[f]), View) \subseteq Hash
    BY <2>1, ReachRoots
  <2>3. QED
    BY <1>35, <2>2 DEF TypeOK, MarkRef
<1>36. CASE PowerLoss
  <2>1. log' \in [Refs -> Seq(Line)]
    <3>1. PICK L \in SUBSET Refs :
              LET kept == [f \in Refs |-> IF f \in L THEN log[f] ELSE logD[f]] IN
              \/ log' = kept
              \/ /\ wpc = "append"
                 /\ log' = [kept EXCEPT ![wref] = AppendedTorn(@, wgoal)]
      BY <1>36 DEF PowerLoss
    <3> DEFINE kept == [f \in Refs |-> IF f \in L THEN log[f] ELSE logD[f]]
    <3>2. kept \in [Refs -> Seq(Line)]
      BY DEF TypeOK
    <3>3. wpc = "append" => AppendedTorn(kept[wref], wgoal) \in Seq(Line)
      BY <3>2, AppendedTornType DEF TypeOK
    <3>4. QED
      BY <3>1, <3>2, <3>3
  <2>2. /\ root' \in [Refs -> Hash \cup {None}]
        /\ prev' \in [Refs -> Hash \cup {None}]
    BY <1>36 DEF PowerLoss, TypeOK
  <2>3. loose' \subseteq Hash /\ pack' \subseteq Hash
    BY <1>36 DEF PowerLoss, TypeOK
  <2>4. QED
    BY <1>36, <1>0, <2>1, <2>2, <2>3 DEF PowerLoss, Absent, TypeOK, Restart, WriterEnd, MaintEnd
<1>37. CASE UNCHANGED vars
  BY <1>37 DEF TypeOK, vars
<1>38. ASSUME NEW f \in Refs, TruncBegin(f)
      PROVE  TypeOK'
  BY <1>38 DEF TypeOK, TruncBegin
<1>39. CASE TruncNothing \/ TruncRefused
  BY <1>39, <1>0 DEF TypeOK, TruncNothing, TruncRefused, MaintEnd
<1>40. QED
  BY <1>1, <1>2, <1>3, <1>4, <1>5, <1>6, <1>7, <1>8, <1>9, <1>10,
     <1>11, <1>12, <1>13, <1>14, <1>15, <1>16, <1>17, <1>18, <1>19, <1>20,
     <1>21, <1>22, <1>23, <1>24, <1>25, <1>26, <1>27, <1>28, <1>29, <1>30,
     <1>31, <1>32, <1>33, <1>34, <1>35, <1>36, <1>37, <1>38, <1>39
  DEF Next, WriterStep, MaintStep, Call, Environment

\* In every reachable state the variables have their types: in particular a
\* thread inside a commit or a prune has a ref and an object to work on.
THEOREM TypeCorrect == Spec => []TypeOK
<1>1. QED
  BY TypeInit, TypeStep, PTL DEF Spec

-----------------------------------------------------------------------------
(* Preservation of the invariant, action by action.  The conjuncts an      *)
(* action disturbs have steps of their own.                                *)

\* A new session has put nothing yet, and does not start during a collection.
LEMMA StepBegin ==
    ASSUME IInv, Serial, NEW f \in Refs, NEW g \in Goals, Begin(f, g)
    PROVE  IInv'
<1> USE DEF objVars, refVars, wVars, mVars, Begin
<1>1. TypeOK /\ TypeOK'
  BY TypeStep DEF IInv, Next, WriterStep, MaintStep, Call, Environment
<1>2. RootsInv' /\ MarkInv'
  BY <1>1 DEF IInv, TypeOK, Serial, RootsInv, Prot, Held, Safe, View, MarkInv, GcRunning, ModeInv
<1>3. WriterInv' /\ DiskInv'
  BY <1>1 DEF IInv, TypeOK, Serial, WriterInv, Committing, Held, Safe, View, MarkInv, GcRunning, DiskInv, PackInv
<1>4. RefInv' /\ LogInv'
  BY <1>1 DEF IInv, TypeOK, Serial, RefInv, WriterInv, Committing, LogInv, Pruning, Truncating, ModeInv
<1>5. ModeInv' /\ PackInv' /\ TodoInv'
  BY <1>1 DEF IInv, TypeOK, Serial, ModeInv, Pruning, Truncating, GcRunning, PackInv, TodoInv
<1>6. QED
  BY <1>1, <1>2, <1>3, <1>4, <1>5 DEF IInv

\* A put that finds its object: what is visible outside a collection is also
\* safe, so the object's closure is held.
LEMMA StepPutDedup ==
    ASSUME IInv, Serial, NEW h \in Hash, PutDedup(h)
    PROVE  IInv'
<1> USE DEF objVars, refVars, wVars, mVars, PutDedup, Puttable
<1>1. TypeOK /\ TypeOK'
  BY TypeStep DEF IInv, Next, WriterStep, MaintStep, Call, Environment
<1>2. WriterInv'
  <2>1. h \in Held /\ Held \subseteq Hash
    BY <1>1 DEF IInv, TypeOK, Serial, Held, Safe, View, DiskInv, PackInv, MarkInv, GcRunning
  <2>2. Closure(h) \subseteq Held
    BY <1>1, <2>1, ClosureStep, ObjectAssumption DEF IInv, TypeOK, WriterInv
  <2>3. QED
    BY <1>1, <2>2 DEF IInv, TypeOK, WriterInv, Committing, Held, Safe, View
<1>3. RootsInv' /\ MarkInv'
  BY <1>1 DEF IInv, TypeOK, Serial, RootsInv, Prot, Held, Safe, View, MarkInv, GcRunning, ModeInv
<1>4. DiskInv'
  BY <1>1 DEF IInv, TypeOK, Serial, DiskInv
<1>5. RefInv' /\ LogInv'
  BY <1>1 DEF IInv, TypeOK, Serial, RefInv, WriterInv, Committing, LogInv, Pruning, Truncating, ModeInv
<1>6. ModeInv' /\ PackInv' /\ TodoInv'
  BY <1>1 DEF IInv, TypeOK, Serial, ModeInv, Pruning, Truncating, GcRunning, PackInv, TodoInv
<1>7. QED
  BY <1>1, <1>2, <1>3, <1>4, <1>5, <1>6 DEF IInv

\* A put before its directory sync promises nothing but the visible file.
LEMMA StepPutRename ==
    ASSUME IInv, Serial, NEW h \in Hash, PutRename(h)
    PROVE  IInv'
<1> USE DEF objVars, refVars, wVars, mVars, PutRename, Puttable
<1>1. TypeOK /\ TypeOK'
  BY TypeStep DEF IInv, Next, WriterStep, MaintStep, Call, Environment
<1>2. RootsInv' /\ MarkInv'
  BY <1>1 DEF IInv, TypeOK, Serial, RootsInv, Prot, Held, Safe, View, MarkInv, GcRunning, ModeInv
<1>3. WriterInv' /\ DiskInv'
  BY <1>1 DEF IInv, TypeOK, Serial, WriterInv, Committing, Held, Safe, View, MarkInv, GcRunning, DiskInv, PackInv
<1>4. RefInv' /\ LogInv'
  BY <1>1 DEF IInv, TypeOK, Serial, RefInv, WriterInv, Committing, LogInv, Pruning, Truncating, ModeInv
<1>5. ModeInv' /\ PackInv' /\ TodoInv'
  BY <1>1 DEF IInv, TypeOK, Serial, ModeInv, Pruning, Truncating, GcRunning, PackInv, TodoInv
<1>6. QED
  BY <1>1, <1>2, <1>3, <1>4, <1>5 DEF IInv

\* After the sync the object, and with it its closure, is held.
LEMMA StepPutSync ==
    ASSUME IInv, Serial, PutSync
    PROVE  IInv'
<1> USE DEF objVars, refVars, wVars, mVars, PutSync
<1>1. TypeOK /\ TypeOK'
  BY TypeStep DEF IInv, Next, WriterStep, MaintStep, Call, Environment
<1>2. WriterInv'
  <2>1. Held \subseteq Held' /\ wobj \in Held' /\ Held' \subseteq Hash
    BY <1>1 DEF IInv, TypeOK, WriterInv, Held, Safe, View
  <2>2. \A h \in whave : Closure(h) \subseteq Held'
    BY <2>1 DEF IInv, WriterInv
  <2>3. Closure(wobj) \subseteq Held'
    BY <1>1, <2>1, <2>2, ClosureStep DEF IInv, TypeOK, WriterInv
  <2>4. QED
    BY <1>1, <2>2, <2>3 DEF IInv, TypeOK, WriterInv, Committing
<1>3. RootsInv' /\ MarkInv'
  BY <1>1 DEF IInv, TypeOK, Serial, RootsInv, Prot, Held, Safe, View, MarkInv, GcRunning, ModeInv
<1>4. DiskInv'
  BY <1>1 DEF IInv, TypeOK, Serial, DiskInv
<1>5. RefInv' /\ LogInv'
  BY <1>1 DEF IInv, TypeOK, Serial, RefInv, WriterInv, Committing, LogInv, Pruning, Truncating, ModeInv
<1>6. ModeInv' /\ PackInv' /\ TodoInv'
  BY <1>1 DEF IInv, TypeOK, Serial, ModeInv, Pruning, Truncating, GcRunning, PackInv, TodoInv
<1>7. QED
  BY <1>1, <1>2, <1>3, <1>4, <1>5, <1>6 DEF IInv

\* A failed put drops the session's claims.
LEMMA StepPutFail ==
    ASSUME IInv, Serial, PutFail
    PROVE  IInv'
<1> USE DEF objVars, refVars, wVars, mVars, PutFail, WriterEnd
<1>1. TypeOK /\ TypeOK'
  BY TypeStep DEF IInv, Next, WriterStep, MaintStep, Call, Environment
<1>2. RootsInv' /\ MarkInv'
  BY <1>1 DEF IInv, TypeOK, Serial, RootsInv, Prot, Held, Safe, View, MarkInv, GcRunning, ModeInv
<1>3. WriterInv' /\ DiskInv'
  BY <1>1 DEF IInv, TypeOK, Serial, WriterInv, Committing, Held, Safe, View, MarkInv, GcRunning, DiskInv, PackInv
<1>4. RefInv' /\ LogInv'
  BY <1>1 DEF IInv, TypeOK, Serial, RefInv, WriterInv, Committing, LogInv, Pruning, Truncating, ModeInv
<1>5. ModeInv' /\ PackInv' /\ TodoInv'
  BY <1>1 DEF IInv, TypeOK, Serial, ModeInv, Pruning, Truncating, GcRunning, PackInv, TodoInv
<1>6. QED
  BY <1>1, <1>2, <1>3, <1>4, <1>5 DEF IInv

\* The commit takes a free lock, so no prune is using it.
LEMMA StepCommitLock ==
    ASSUME IInv, Serial, CommitLock
    PROVE  IInv'
<1> USE DEF objVars, refVars, wVars, mVars, CommitLock
<1>1. TypeOK /\ TypeOK'
  BY TypeStep DEF IInv, Next, WriterStep, MaintStep, Call, Environment
<1>2. LogInv'
  BY <1>1, ObjectAssumption DEF IInv, TypeOK, LogInv, Truncating
<1>3. RootsInv' /\ MarkInv'
  BY <1>1 DEF IInv, TypeOK, Serial, RootsInv, Prot, Held, Safe, View, MarkInv, GcRunning, ModeInv
<1>4. WriterInv' /\ DiskInv'
  BY <1>1 DEF IInv, TypeOK, Serial, WriterInv, Committing, Held, Safe, View, MarkInv, GcRunning, DiskInv, PackInv
<1>5. RefInv'
  BY <1>1 DEF IInv, TypeOK, Serial, RefInv, WriterInv, Committing
<1>6. ModeInv' /\ PackInv' /\ TodoInv'
  BY <1>1 DEF IInv, TypeOK, Serial, ModeInv, Pruning, Truncating, GcRunning, PackInv, TodoInv
<1>7. QED
  BY <1>1, <1>2, <1>3, <1>4, <1>5, <1>6 DEF IInv

\* The new line names a tree that the writer put, the only one it can make
\* readable.
LEMMA StepLogAppend ==
    ASSUME IInv, Serial, NEW c \in Comments, LogAppend(c)
    PROVE  IInv'
<1> USE DEF objVars, refVars, wVars, mVars, LogAppend, SyncLog
<1>1. TypeOK /\ TypeOK'
  BY TypeStep DEF IInv, Next, WriterStep, MaintStep, Call, Environment
<1>2. \E l : /\ log' = [log EXCEPT ![wref] = l]
             /\ wref \in Refs
             /\ Parsable(l) /\ Readable(log[wref]) \subseteq Readable(l)
             /\ Readable(l) \subseteq Readable(log[wref]) \cup {wgoal}
  <2>1. PICK l \in Appended(log[wref], wgoal, c) : log' = [log EXCEPT ![wref] = l]
    OBVIOUS
  <2>2. wref \in Refs /\ wgoal \in Hash /\ log[wref] \in Seq(Line) /\ Parsable(log[wref])
    BY <1>1 DEF IInv, TypeOK, LogInv
  <2>3. /\ Parsable(l) /\ Readable(log[wref]) \subseteq Readable(l)
        /\ Readable(l) \subseteq Readable(log[wref]) \cup {wgoal}
    BY <2>1, <2>2, AppendedReadable
  <2>4. QED
    BY <2>1, <2>2, <2>3
<1>3. RootsInv'
  <2>1. \A f \in Refs : /\ Readable(log'[f]) \subseteq Readable(log[f]) \cup (IF f = wref THEN {wgoal} ELSE {})
                        /\ Readable(logD'[f]) \subseteq Readable(logD[f]) \cup Readable(log'[f])
    BY <1>1, <1>2 DEF IInv, TypeOK
  <2>2. Closure(wgoal) \subseteq Held
    BY DEF IInv, WriterInv, Committing
  <2>3. \A f \in Refs : \A r \in Prot(f)' : r \in Prot(f) \/ r = wgoal
    BY <2>1 DEF Prot
  <2>4. Held' = Held
    BY DEF Held, Safe, View
  <2>5. QED
    BY <2>2, <2>3, <2>4 DEF IInv, RootsInv
<1>4. LogInv'
  <2>1. \A f \in Refs : /\ Parsable(log'[f]) /\ Parsable(logD'[f])
                        /\ Readable(log[f]) \subseteq Readable(log'[f])
                        /\ logD'[f] = logD[f] \/ logD'[f] = log'[f]
    BY <1>1, <1>2 DEF IInv, TypeOK, LogInv
  <2>2. Truncating => wref # mref
    BY DEF IInv, WriterInv, LogInv, Committing
  <2>3. Truncating => log'[mref] = log[mref]
    BY <1>1, <1>2, <2>2 DEF TypeOK, Truncating
  <2>4. ASSUME mpc' # "tsync", NEW f \in Refs
        PROVE  Readable(logD'[f]) \subseteq Readable(log'[f])
    <3>1. Readable(logD[f]) \subseteq Readable(log[f])
      BY <2>4 DEF IInv, LogInv
    <3>2. QED
      BY <2>1, <3>1
  <2>5. Truncating' => Truncating /\ lock'[mref'] = "m"
    BY DEF IInv, LogInv, Truncating
  <2>6. mpc' = "trename" => Parsable(mlog') /\ Readable(mlog') \subseteq Readable(log'[mref'])
    BY <2>3 DEF IInv, LogInv, Truncating
  <2>7. QED
    BY <2>1, <2>4, <2>5, <2>6 DEF LogInv, Truncating
<1>5. MarkInv'
  BY <1>1 DEF IInv, TypeOK, Serial, MarkInv, GcRunning, Prot, ModeInv
<1>6. WriterInv' /\ DiskInv'
  BY <1>1 DEF IInv, TypeOK, Serial, WriterInv, Committing, Held, Safe, View, MarkInv, GcRunning, DiskInv, PackInv
<1>7. RefInv'
  BY <1>1 DEF IInv, TypeOK, Serial, RefInv, WriterInv, Committing
<1>8. ModeInv' /\ PackInv' /\ TodoInv'
  BY <1>1 DEF IInv, TypeOK, Serial, ModeInv, Pruning, Truncating, GcRunning, PackInv, TodoInv
<1>9. QED
  BY <1>1, <1>3, <1>4, <1>5, <1>6, <1>7, <1>8 DEF IInv

\* A failed append leaves the log alone when appends are not torn.
LEMMA StepLogAppendFail ==
    ASSUME IInv, Serial, LogAppendFail
    PROVE  IInv'
<1> USE DEF objVars, refVars, wVars, mVars, LogAppendFail, SyncLog, Unlock, WriterEnd
<1>1. TypeOK /\ TypeOK'
  BY TypeStep DEF IInv, Next, WriterStep, MaintStep, Call, Environment
<1>2. RootsInv' /\ MarkInv'
  BY <1>1 DEF IInv, TypeOK, Serial, RootsInv, Prot, Held, Safe, View, MarkInv, GcRunning, ModeInv
<1>3. WriterInv' /\ DiskInv'
  BY <1>1 DEF IInv, TypeOK, Serial, WriterInv, Committing, Held, Safe, View, MarkInv, GcRunning, DiskInv, PackInv
<1>4. RefInv' /\ LogInv'
  <2>1. /\ log' = log /\ UNCHANGED <<mpc, mref, mlog>> /\ wref \in Refs /\ lock[wref] = "w"
        /\ \A f \in Refs : logD'[f] = logD[f] \/ logD'[f] = log[f]
    BY <1>1 DEF IInv, TypeOK, Serial, WriterInv, Committing
  <2>2. Truncating => mref # wref /\ mref \in Refs
    BY <1>1, <2>1 DEF IInv, TypeOK, LogInv, Truncating
  <2>3. LogInv'
    BY <1>1, <2>1, <2>2 DEF IInv, TypeOK, LogInv, Truncating
  <2>4. RefInv'
    BY <1>1 DEF IInv, TypeOK, RefInv, WriterInv, Committing
  <2>5. QED
    BY <2>3, <2>4
<1>5. ModeInv' /\ PackInv' /\ TodoInv'
  BY <1>1 DEF IInv, TypeOK, Serial, ModeInv, Pruning, Truncating, GcRunning, PackInv, TodoInv
<1>6. QED
  BY <1>1, <1>2, <1>3, <1>4, <1>5 DEF IInv

\* .prev takes the old root, which is on disk already.
LEMMA StepPrevLink ==
    ASSUME IInv, Serial, PrevLink
    PROVE  IInv'
<1> USE DEF objVars, refVars, wVars, mVars, PrevLink
<1>1. TypeOK /\ TypeOK'
  BY TypeStep DEF IInv, Next, WriterStep, MaintStep, Call, Environment
<1>2. RootsInv' /\ MarkInv'
  BY <1>1 DEF IInv, TypeOK, Serial, RootsInv, Prot, Held, Safe, View, MarkInv, GcRunning, ModeInv
<1>3. WriterInv' /\ DiskInv'
  BY <1>1 DEF IInv, TypeOK, Serial, WriterInv, Committing, Held, Safe, View, MarkInv, GcRunning, DiskInv, PackInv
<1>4. RefInv' /\ LogInv'
  BY <1>1 DEF IInv, TypeOK, Serial, RefInv, WriterInv, Committing, LogInv, Pruning, Truncating, ModeInv
<1>5. ModeInv' /\ PackInv' /\ TodoInv'
  BY <1>1 DEF IInv, TypeOK, Serial, ModeInv, Pruning, Truncating, GcRunning, PackInv, TodoInv
<1>6. QED
  BY <1>1, <1>2, <1>3, <1>4, <1>5 DEF IInv

\* The new root is the tree the writer put.
LEMMA StepRootRename ==
    ASSUME IInv, Serial, RootRename
    PROVE  IInv'
<1> USE DEF objVars, refVars, wVars, mVars, RootRename
<1>1. TypeOK /\ TypeOK'
  BY TypeStep DEF IInv, Next, WriterStep, MaintStep, Call, Environment
<1>2. RootsInv'
  <2>1. Closure(wgoal) \subseteq Held
    BY DEF IInv, WriterInv, Committing
  <2>2. \A f \in Refs : root'[f] = root[f] \/ root'[f] = wgoal
    BY <1>1 DEF TypeOK
  <2>3. QED
    BY <1>1, <2>1, <2>2 DEF IInv, RootsInv, Prot, Held, Safe, View
<1>3. RefInv'
  BY <1>1, ObjectAssumption DEF IInv, TypeOK, RefInv, WriterInv, Committing
<1>4. MarkInv'
  BY <1>1 DEF IInv, TypeOK, Serial, MarkInv, GcRunning, Prot, ModeInv
<1>5. WriterInv' /\ DiskInv'
  BY <1>1 DEF IInv, TypeOK, Serial, WriterInv, Committing, Held, Safe, View, MarkInv, GcRunning, DiskInv, PackInv
<1>6. LogInv'
  BY <1>1 DEF IInv, TypeOK, Serial, LogInv, Pruning, Truncating, ModeInv, WriterInv, Committing
<1>7. ModeInv' /\ PackInv' /\ TodoInv'
  BY <1>1 DEF IInv, TypeOK, Serial, ModeInv, Pruning, Truncating, GcRunning, PackInv, TodoInv
<1>8. QED
  BY <1>1, <1>2, <1>3, <1>4, <1>5, <1>6, <1>7 DEF IInv

\* A failed rename leaves a log entry without a root behind.
LEMMA StepRootFail ==
    ASSUME IInv, Serial, RootFail
    PROVE  IInv'
<1> USE DEF objVars, refVars, wVars, mVars, RootFail, Unlock, WriterEnd
<1>1. TypeOK /\ TypeOK'
  BY TypeStep DEF IInv, Next, WriterStep, MaintStep, Call, Environment
<1>2. RootsInv' /\ MarkInv'
  BY <1>1 DEF IInv, TypeOK, Serial, RootsInv, Prot, Held, Safe, View, MarkInv, GcRunning, ModeInv
<1>3. WriterInv' /\ DiskInv'
  BY <1>1 DEF IInv, TypeOK, Serial, WriterInv, Committing, Held, Safe, View, MarkInv, GcRunning, DiskInv, PackInv
<1>4. RefInv' /\ LogInv'
  BY <1>1 DEF IInv, TypeOK, Serial, RefInv, WriterInv, Committing, LogInv, Pruning, Truncating, ModeInv
<1>5. ModeInv' /\ PackInv' /\ TodoInv'
  BY <1>1 DEF IInv, TypeOK, Serial, ModeInv, Pruning, Truncating, GcRunning, PackInv, TodoInv
<1>6. QED
  BY <1>1, <1>2, <1>3, <1>4, <1>5 DEF IInv

\* The sync makes the visible refs the durable ones.
LEMMA StepCommitSync ==
    ASSUME IInv, Serial, CommitSync
    PROVE  IInv'
<1> USE DEF objVars, refVars, wVars, mVars, CommitSync, SyncRefs, Absent, Unlock, WriterEnd
<1>1. TypeOK /\ TypeOK'
  BY TypeStep DEF IInv, Next, WriterStep, MaintStep, Call, Environment
<1>2. RootsInv' /\ MarkInv'
  BY <1>1 DEF IInv, TypeOK, Serial, RootsInv, Prot, Held, Safe, View, MarkInv, GcRunning, ModeInv
<1>3. WriterInv' /\ DiskInv'
  BY <1>1 DEF IInv, TypeOK, Serial, WriterInv, Committing, Held, Safe, View, MarkInv, GcRunning, DiskInv, PackInv
<1>4. RefInv' /\ LogInv'
  BY <1>1 DEF IInv, TypeOK, Serial, RefInv, WriterInv, Committing, LogInv, Pruning, Truncating, ModeInv
<1>5. ModeInv' /\ PackInv' /\ TodoInv'
  BY <1>1 DEF IInv, TypeOK, Serial, ModeInv, Pruning, Truncating, GcRunning, PackInv, TodoInv
<1>6. QED
  BY <1>1, <1>2, <1>3, <1>4, <1>5 DEF IInv

\* A prune that waits for its lock, or gives up, touches nothing.
LEMMA StepTruncWait ==
    ASSUME IInv, Serial, TruncNothing \/ TruncRefused \/ \E f \in Refs : TruncBegin(f)
    PROVE  IInv'
<1> USE DEF objVars, refVars, wVars, mVars, TruncBegin, TruncNothing, TruncRefused, MaintEnd
<1>1. TypeOK /\ TypeOK'
  BY TypeStep DEF IInv, Next, WriterStep, MaintStep, Call, Environment
<1>2. /\ UNCHANGED <<objVars, refVars, lock, wVars>> /\ ~ GcRunning' /\ ~ Truncating'
      /\ mpc' \in {"idle", "tlock"} /\ ~ Truncating /\ mpc # "psync"
      /\ mmode' = IF mpc' = "idle" THEN "none" ELSE "trunc"
      /\ mmode # "gcpack"
  BY DEF IInv, ModeInv, GcRunning, Truncating, Pruning
<1>3. RootsInv' /\ MarkInv'
  BY <1>2 DEF IInv, RootsInv, Prot, Held, Safe, View, MarkInv
<1>4. WriterInv' /\ DiskInv' /\ RefInv'
  BY <1>2 DEF IInv, WriterInv, Committing, Held, Safe, View, DiskInv, RefInv
<1>5. LogInv'
  BY <1>2 DEF IInv, LogInv, Truncating
<1>6. ModeInv' /\ PackInv' /\ TodoInv'
  BY <1>2 DEF IInv, ModeInv, Pruning, Truncating, GcRunning, PackInv, TodoInv
<1>7. QED
  BY <1>1, <1>3, <1>4, <1>5, <1>6 DEF IInv

\* The lines to keep come from a log that cannot change while it is locked.
LEMMA StepTruncRead ==
    ASSUME IInv, Serial, TruncRead
    PROVE  IInv'
<1> USE DEF objVars, refVars, wVars, mVars, TruncRead
<1>1. TypeOK /\ TypeOK'
  BY TypeStep DEF IInv, Next, WriterStep, MaintStep, Call, Environment
<1>2. WriterInv'
  BY <1>1, ObjectAssumption DEF IInv, TypeOK, WriterInv, Committing, Held, Safe, View
<1>3. LogInv'
  <2>1. Parsable(mlog') /\ Readable(mlog') \subseteq Readable(log[mref])
    BY <1>1, SurvivorsReadable DEF IInv, TypeOK, LogInv
  <2>2. QED
    BY <1>1, <2>1 DEF IInv, TypeOK, LogInv, Truncating
<1>4. RootsInv' /\ MarkInv'
  BY <1>1 DEF IInv, TypeOK, Serial, RootsInv, Prot, Held, Safe, View, MarkInv, GcRunning, ModeInv
<1>5. DiskInv'
  BY <1>1 DEF IInv, TypeOK, Serial, DiskInv
<1>6. RefInv'
  BY <1>1 DEF IInv, TypeOK, Serial, RefInv, WriterInv, Committing
<1>7. ModeInv' /\ PackInv' /\ TodoInv'
  BY <1>1 DEF IInv, TypeOK, Serial, ModeInv, Pruning, Truncating, GcRunning, PackInv, TodoInv
<1>8. QED
  BY <1>1, <1>2, <1>3, <1>4, <1>5, <1>6, <1>7 DEF IInv

\* The pruned log reports part of what it reported.
LEMMA StepTruncRename ==
    ASSUME IInv, Serial, TruncRename
    PROVE  IInv'
<1> USE DEF objVars, refVars, wVars, mVars, TruncRename
<1>1. TypeOK /\ TypeOK'
  BY TypeStep DEF IInv, Next, WriterStep, MaintStep, Call, Environment
<1>2. RootsInv'
  <2>1. \A f \in Refs : Readable(log'[f]) \subseteq Readable(log[f])
    BY <1>1 DEF IInv, TypeOK, LogInv
  <2>2. QED
    BY <2>1 DEF IInv, RootsInv, Prot, Held, Safe, View
<1>3. MarkInv'
  BY <1>1 DEF IInv, TypeOK, MarkInv, GcRunning, ModeInv, Pruning, Truncating
<1>4. WriterInv' /\ DiskInv'
  BY <1>1 DEF IInv, TypeOK, Serial, WriterInv, Committing, Held, Safe, View, MarkInv, GcRunning, DiskInv, PackInv
<1>5. RefInv' /\ LogInv'
  BY <1>1 DEF IInv, TypeOK, Serial, RefInv, WriterInv, Committing, LogInv, Pruning, Truncating, ModeInv
<1>6. ModeInv' /\ PackInv' /\ TodoInv'
  BY <1>1 DEF IInv, TypeOK, Serial, ModeInv, Pruning, Truncating, GcRunning, PackInv, TodoInv
<1>7. QED
  BY <1>1, <1>2, <1>3, <1>4, <1>5, <1>6 DEF IInv

\* A prune that fails changes no log.
LEMMA StepTruncFail ==
    ASSUME IInv, Serial, TruncFail
    PROVE  IInv'
<1> USE DEF objVars, refVars, wVars, mVars, TruncFail, Unlock, MaintEnd
<1>1. TypeOK /\ TypeOK'
  BY TypeStep DEF IInv, Next, WriterStep, MaintStep, Call, Environment
<1>2. WriterInv'
  BY <1>1 DEF IInv, TypeOK, WriterInv, Committing, Held, Safe, View, LogInv, Truncating
<1>3. RootsInv' /\ MarkInv'
  BY <1>1 DEF IInv, TypeOK, Serial, RootsInv, Prot, Held, Safe, View, MarkInv, GcRunning, ModeInv
<1>4. DiskInv'
  BY <1>1 DEF IInv, TypeOK, Serial, DiskInv
<1>5. RefInv' /\ LogInv'
  BY <1>1 DEF IInv, TypeOK, Serial, RefInv, WriterInv, Committing, LogInv, Pruning, Truncating, ModeInv
<1>6. ModeInv' /\ PackInv' /\ TodoInv'
  BY <1>1 DEF IInv, TypeOK, Serial, ModeInv, Pruning, Truncating, GcRunning, PackInv, TodoInv
<1>7. QED
  BY <1>1, <1>2, <1>3, <1>4, <1>5, <1>6 DEF IInv

\* The sync makes the pruned log durable.
LEMMA StepTruncSync ==
    ASSUME IInv, Serial, TruncSync
    PROVE  IInv'
<1> USE DEF objVars, refVars, wVars, mVars, TruncSync, SyncRefs, Absent, Unlock, MaintEnd
<1>1. TypeOK /\ TypeOK'
  BY TypeStep DEF IInv, Next, WriterStep, MaintStep, Call, Environment
<1>2. WriterInv'
  BY <1>1 DEF IInv, TypeOK, WriterInv, Committing, Held, Safe, View, LogInv, Truncating
<1>3. RootsInv' /\ MarkInv'
  BY <1>1 DEF IInv, TypeOK, Serial, RootsInv, Prot, Held, Safe, View, MarkInv, GcRunning, ModeInv
<1>4. DiskInv'
  BY <1>1 DEF IInv, TypeOK, Serial, DiskInv
<1>5. RefInv' /\ LogInv'
  BY <1>1 DEF IInv, TypeOK, Serial, RefInv, WriterInv, Committing, LogInv, Pruning, Truncating, ModeInv
<1>6. ModeInv' /\ PackInv' /\ TodoInv'
  BY <1>1 DEF IInv, TypeOK, Serial, ModeInv, Pruning, Truncating, GcRunning, PackInv, TodoInv
<1>7. QED
  BY <1>1, <1>2, <1>3, <1>4, <1>5, <1>6 DEF IInv

\* Refs without a .root are not marked, and have no root to lose.
LEMMA StepGcBegin ==
    ASSUME IInv, Serial, NEW m \in Modes, NEW b \in BOOLEAN, GcBegin(m, b)
    PROVE  IInv'
<1> USE DEF objVars, refVars, wVars, mVars, GcBegin
<1>1. TypeOK /\ TypeOK'
  BY TypeStep DEF IInv, Next, WriterStep, MaintStep, Call, Environment
<1>2. MarkInv'
  <2>1. ASSUME NEW f \in Refs, root[f] = None
        PROVE  Prot(f) = {}
    <3>1. Readable(log[f]) \subseteq Hash /\ Readable(logD[f]) \subseteq Hash
      BY <1>1, ReadableHash DEF TypeOK
    <3>2. {root[f], rootD[f], prev[f], prevD[f]} = {None}
      BY <2>1 DEF IInv, RefInv
    <3>3. QED
      BY <3>1, <3>2, ObjectAssumption DEF Prot
  <2>2. \A f \in Refs : Prot(f)' = Prot(f)
    BY DEF Prot
  <2>3. QED
    BY <1>1, <2>1, <2>2 DEF IInv, MarkInv, GcRunning, Serial, ModeInv
<1>3. ModeInv'
  BY <1>1, InputAssumption DEF IInv, TypeOK, ModeInv, Pruning, Truncating, GcRunning
<1>4. RootsInv'
  BY <1>1 DEF IInv, TypeOK, Serial, RootsInv, Prot, Held, Safe, View
<1>5. WriterInv' /\ DiskInv'
  BY <1>1 DEF IInv, TypeOK, Serial, WriterInv, Committing, Held, Safe, View, MarkInv, GcRunning, DiskInv, PackInv
<1>6. RefInv' /\ LogInv'
  BY <1>1 DEF IInv, TypeOK, Serial, RefInv, WriterInv, Committing, LogInv, Pruning, Truncating, ModeInv
<1>7. PackInv' /\ TodoInv'
  BY <1>1 DEF IInv, TypeOK, Serial, PackInv, ModeInv, GcRunning, TodoInv
<1>8. QED
  BY <1>1, <1>2, <1>3, <1>4, <1>5, <1>6, <1>7 DEF IInv

\* A complete tree that the log reports is marked as a whole.
LEMMA StepMarkRef ==
    ASSUME IInv, Serial, NEW f \in Refs, MarkRef(f)
    PROVE  IInv'
<1> USE DEF objVars, refVars, wVars, mVars, MarkRef
<1>1. TypeOK /\ TypeOK'
  BY TypeStep DEF IInv, Next, WriterStep, MaintStep, Call, Environment
<1>2. MarkInv'
  <2>1. \A r \in Prot(f) : r \in Readable(log[f]) /\ Closure(r) \subseteq View
    BY DEF IInv, RootsInv, LogInv, Prot, Held
  <2>2. Readable(log[f]) \in SUBSET Hash
    BY <1>1, ReadableHash DEF TypeOK
  <2>3. \A r \in Prot(f) : Closure(r) \subseteq Reach(Readable(log[f]), View)
    BY <2>1, <2>2, MarkComplete
  <2>4. \A e \in Refs : Prot(e)' = Prot(e)
    BY DEF Prot
  <2>5. QED
    BY <2>3, <2>4 DEF IInv, MarkInv, GcRunning
<1>3. RootsInv'
  BY <1>1 DEF IInv, TypeOK, Serial, RootsInv, Prot, Held, Safe, View
<1>4. WriterInv' /\ DiskInv'
  BY <1>1 DEF IInv, TypeOK, Serial, WriterInv, Committing, Held, Safe, View, MarkInv, GcRunning, DiskInv, PackInv
<1>5. RefInv' /\ LogInv'
  BY <1>1 DEF IInv, TypeOK, Serial, RefInv, WriterInv, Committing, LogInv, Pruning, Truncating, ModeInv
<1>6. ModeInv' /\ PackInv' /\ TodoInv'
  BY <1>1 DEF IInv, TypeOK, Serial, ModeInv, Pruning, Truncating, GcRunning, PackInv, TodoInv
<1>7. QED
  BY <1>1, <1>2, <1>3, <1>4, <1>5, <1>6 DEF IInv

\* A collection that stops while marking removes nothing.
LEMMA StepMarkFail ==
    ASSUME IInv, Serial, NEW f \in Refs, MarkFail(f)
    PROVE  IInv'
<1> USE DEF objVars, refVars, wVars, mVars, MarkFail, MaintEnd
<1>1. TypeOK /\ TypeOK'
  BY TypeStep DEF IInv, Next, WriterStep, MaintStep, Call, Environment
<1>2. RootsInv' /\ MarkInv'
  BY <1>1 DEF IInv, TypeOK, Serial, RootsInv, Prot, Held, Safe, View, MarkInv, GcRunning, ModeInv
<1>3. WriterInv' /\ DiskInv'
  BY <1>1 DEF IInv, TypeOK, Serial, WriterInv, Committing, Held, Safe, View, MarkInv, GcRunning, DiskInv, PackInv
<1>4. RefInv' /\ LogInv'
  BY <1>1 DEF IInv, TypeOK, Serial, RefInv, WriterInv, Committing, LogInv, Pruning, Truncating, ModeInv
<1>5. ModeInv' /\ PackInv' /\ TodoInv'
  BY <1>1 DEF IInv, TypeOK, Serial, ModeInv, Pruning, Truncating, GcRunning, PackInv, TodoInv
<1>6. QED
  BY <1>1, <1>2, <1>3, <1>4, <1>5 DEF IInv

\* With no ref left to mark every protected tree is marked.
LEMMA StepMarkDone ==
    ASSUME IInv, Serial, MarkDone
    PROVE  IInv'
<1> USE DEF objVars, refVars, wVars, mVars, MarkDone
<1>1. TypeOK /\ TypeOK'
  BY TypeStep DEF IInv, Next, WriterStep, MaintStep, Call, Environment
<1>2. RootsInv' /\ MarkInv'
  BY <1>1 DEF IInv, TypeOK, Serial, RootsInv, Prot, Held, Safe, View, MarkInv, GcRunning, ModeInv
<1>3. WriterInv' /\ DiskInv'
  BY <1>1 DEF IInv, TypeOK, Serial, WriterInv, Committing, Held, Safe, View, MarkInv, GcRunning, DiskInv, PackInv
<1>4. RefInv' /\ LogInv'
  BY <1>1 DEF IInv, TypeOK, Serial, RefInv, WriterInv, Committing, LogInv, Pruning, Truncating, ModeInv
<1>5. ModeInv' /\ PackInv' /\ TodoInv'
  BY <1>1 DEF IInv, TypeOK, Serial, ModeInv, Pruning, Truncating, GcRunning, PackInv, TodoInv
<1>6. QED
  BY <1>1, <1>2, <1>3, <1>4, <1>5 DEF IInv

\* The sweep lists unmarked objects only.
LEMMA StepSweepBegin ==
    ASSUME IInv, Serial, SweepBegin
    PROVE  IInv'
<1> USE DEF objVars, refVars, wVars, mVars, SweepBegin
<1>1. TypeOK /\ TypeOK'
  BY TypeStep DEF IInv, Next, WriterStep, MaintStep, Call, Environment
<1>2. RootsInv' /\ MarkInv'
  BY <1>1 DEF IInv, TypeOK, Serial, RootsInv, Prot, Held, Safe, View, MarkInv, GcRunning, ModeInv
<1>3. WriterInv' /\ DiskInv'
  BY <1>1 DEF IInv, TypeOK, Serial, WriterInv, Committing, Held, Safe, View, MarkInv, GcRunning, DiskInv, PackInv
<1>4. RefInv' /\ LogInv'
  BY <1>1 DEF IInv, TypeOK, Serial, RefInv, WriterInv, Committing, LogInv, Pruning, Truncating, ModeInv
<1>5. ModeInv' /\ PackInv' /\ TodoInv'
  BY <1>1 DEF IInv, TypeOK, Serial, ModeInv, Pruning, Truncating, GcRunning, PackInv, TodoInv
<1>6. QED
  BY <1>1, <1>2, <1>3, <1>4, <1>5 DEF IInv

\* An unmarked object is in no protected tree.
LEMMA StepSweepOne ==
    ASSUME IInv, Serial, NEW h \in Hash, SweepOne(h)
    PROVE  IInv'
<1> USE DEF objVars, refVars, wVars, mVars, SweepOne
<1>1. TypeOK /\ TypeOK'
  BY TypeStep DEF IInv, Next, WriterStep, MaintStep, Call, Environment
<1>2. RootsInv'
  <2>1. Held \ {h} \subseteq Held' /\ h \notin marked
    BY DEF IInv, TodoInv, Held, Safe, View
  <2>2. \A f \in Refs : \A r \in Prot(f) : Closure(r) \subseteq marked
    BY DEF IInv, MarkInv, ModeInv
  <2>3. \A f \in Refs : Prot(f)' = Prot(f)
    BY DEF Prot
  <2>4. QED
    BY <2>1, <2>2, <2>3 DEF IInv, RootsInv
<1>3. WriterInv'
  BY <1>1 DEF IInv, TypeOK, WriterInv, Committing, MarkInv, ModeInv
<1>4. MarkInv'
  BY <1>1 DEF IInv, TypeOK, Serial, MarkInv, GcRunning, Prot, ModeInv
<1>5. DiskInv'
  BY <1>1 DEF IInv, TypeOK, Serial, DiskInv
<1>6. RefInv' /\ LogInv'
  BY <1>1 DEF IInv, TypeOK, Serial, RefInv, WriterInv, Committing, LogInv, Pruning, Truncating, ModeInv
<1>7. ModeInv' /\ PackInv' /\ TodoInv'
  BY <1>1 DEF IInv, TypeOK, Serial, ModeInv, Pruning, Truncating, GcRunning, PackInv, TodoInv
<1>8. QED
  BY <1>1, <1>2, <1>3, <1>4, <1>5, <1>6, <1>7 DEF IInv

\* The sweep is over.
LEMMA StepSweepDone ==
    ASSUME IInv, Serial, SweepDone
    PROVE  IInv'
<1> USE DEF objVars, refVars, wVars, mVars, SweepDone, MaintEnd
<1>1. TypeOK /\ TypeOK'
  BY TypeStep DEF IInv, Next, WriterStep, MaintStep, Call, Environment
<1>2. RootsInv' /\ MarkInv'
  BY <1>1 DEF IInv, TypeOK, Serial, RootsInv, Prot, Held, Safe, View, MarkInv, GcRunning, ModeInv
<1>3. WriterInv' /\ DiskInv'
  BY <1>1 DEF IInv, TypeOK, Serial, WriterInv, Committing, Held, Safe, View, MarkInv, GcRunning, DiskInv, PackInv
<1>4. RefInv' /\ LogInv'
  BY <1>1 DEF IInv, TypeOK, Serial, RefInv, WriterInv, Committing, LogInv, Pruning, Truncating, ModeInv
<1>5. ModeInv' /\ PackInv' /\ TodoInv'
  BY <1>1 DEF IInv, TypeOK, Serial, ModeInv, Pruning, Truncating, GcRunning, PackInv, TodoInv
<1>6. QED
  BY <1>1, <1>2, <1>3, <1>4, <1>5 DEF IInv

\* A pack run starts without a claim.
LEMMA StepPackBegin ==
    ASSUME IInv, Serial, PackBegin
    PROVE  IInv'
<1> USE DEF objVars, refVars, wVars, mVars, PackBegin
<1>1. TypeOK /\ TypeOK'
  BY TypeStep DEF IInv, Next, WriterStep, MaintStep, Call, Environment
<1>2. RootsInv' /\ MarkInv'
  BY <1>1 DEF IInv, TypeOK, Serial, RootsInv, Prot, Held, Safe, View, MarkInv, GcRunning, ModeInv
<1>3. WriterInv' /\ DiskInv'
  BY <1>1 DEF IInv, TypeOK, Serial, WriterInv, Committing, Held, Safe, View, MarkInv, GcRunning, DiskInv, PackInv
<1>4. RefInv' /\ LogInv'
  BY <1>1 DEF IInv, TypeOK, Serial, RefInv, WriterInv, Committing, LogInv, Pruning, Truncating, ModeInv
<1>5. ModeInv' /\ PackInv' /\ TodoInv'
  BY <1>1 DEF IInv, TypeOK, Serial, ModeInv, Pruning, Truncating, GcRunning, PackInv, TodoInv
<1>6. QED
  BY <1>1, <1>2, <1>3, <1>4, <1>5 DEF IInv

\* The list has everything the old pack holds, or everything marked in it.
LEMMA StepCollect ==
    ASSUME IInv, Serial, Collect
    PROVE  IInv'
<1> USE DEF objVars, refVars, wVars, mVars, Collect, Collected
<1>1. TypeOK /\ TypeOK'
  BY TypeStep DEF IInv, Next, WriterStep, MaintStep, Call, Environment
<1>2. RootsInv' /\ MarkInv'
  BY <1>1 DEF IInv, TypeOK, Serial, RootsInv, Prot, Held, Safe, View, MarkInv, GcRunning, ModeInv
<1>3. WriterInv' /\ DiskInv'
  BY <1>1 DEF IInv, TypeOK, Serial, WriterInv, Committing, Held, Safe, View, MarkInv, GcRunning, DiskInv, PackInv
<1>4. RefInv' /\ LogInv'
  BY <1>1 DEF IInv, TypeOK, Serial, RefInv, WriterInv, Committing, LogInv, Pruning, Truncating, ModeInv
<1>5. ModeInv' /\ PackInv' /\ TodoInv'
  BY <1>1 DEF IInv, TypeOK, Serial, ModeInv, Pruning, Truncating, GcRunning, PackInv, TodoInv
<1>6. QED
  BY <1>1, <1>2, <1>3, <1>4, <1>5 DEF IInv

\* The new pack holds the old one, or what is marked in it, whichever of the
\* two a power loss leaves behind.
LEMMA StepPackRename ==
    ASSUME IInv, Serial, PackRename
    PROVE  IInv'
<1> USE DEF objVars, refVars, wVars, mVars, PackRename
<1>1. TypeOK /\ TypeOK'
  BY TypeStep DEF IInv, Next, WriterStep, MaintStep, Call, Environment
<1>2. RootsInv'
  <2>1. ASSUME NEW f \in Refs, NEW r \in Prot(f)
        PROVE  Closure(r) \subseteq Held'
    <3>1. CASE mmode = "gcpack"
      <4>1. Closure(r) \subseteq marked
        BY <3>1 DEF IInv, MarkInv, GcRunning
      <4>2. Held \cap marked \subseteq Held'
        BY <3>1 DEF IInv, PackInv, Held, Safe, View
      <4>3. QED
        BY <4>1, <4>2 DEF IInv, RootsInv
    <3>2. CASE mmode # "gcpack"
      <4>1. Held \subseteq Held'
        BY <3>2 DEF IInv, PackInv, Held, Safe, View
      <4>2. QED
        BY <4>1 DEF IInv, RootsInv
    <3>3. QED
      BY <3>1, <3>2
  <2>2. \A f \in Refs : Prot(f)' = Prot(f)
    BY DEF Prot
  <2>3. QED
    BY <2>1, <2>2 DEF RootsInv
<1>3. MarkInv'
  BY <1>1 DEF IInv, TypeOK, Serial, MarkInv, GcRunning, Prot, ModeInv
<1>4. WriterInv' /\ DiskInv'
  BY <1>1 DEF IInv, TypeOK, Serial, WriterInv, Committing, Held, Safe, View, MarkInv, GcRunning, DiskInv, PackInv
<1>5. RefInv' /\ LogInv'
  BY <1>1 DEF IInv, TypeOK, Serial, RefInv, WriterInv, Committing, LogInv, Pruning, Truncating, ModeInv
<1>6. ModeInv' /\ PackInv' /\ TodoInv'
  BY <1>1 DEF IInv, TypeOK, Serial, ModeInv, Pruning, Truncating, GcRunning, PackInv, TodoInv
<1>7. QED
  BY <1>1, <1>2, <1>3, <1>4, <1>5, <1>6 DEF IInv

\* A failure before the rename leaves the old pack.
LEMMA StepPackFail ==
    ASSUME IInv, Serial, PackFail
    PROVE  IInv'
<1> USE DEF objVars, refVars, wVars, mVars, PackFail, MaintEnd
<1>1. TypeOK /\ TypeOK'
  BY TypeStep DEF IInv, Next, WriterStep, MaintStep, Call, Environment
<1>2. RootsInv' /\ MarkInv'
  BY <1>1 DEF IInv, TypeOK, Serial, RootsInv, Prot, Held, Safe, View, MarkInv, GcRunning, ModeInv
<1>3. WriterInv' /\ DiskInv'
  BY <1>1 DEF IInv, TypeOK, Serial, WriterInv, Committing, Held, Safe, View, MarkInv, GcRunning, DiskInv, PackInv
<1>4. RefInv' /\ LogInv'
  BY <1>1 DEF IInv, TypeOK, Serial, RefInv, WriterInv, Committing, LogInv, Pruning, Truncating, ModeInv
<1>5. ModeInv' /\ PackInv' /\ TodoInv'
  BY <1>1 DEF IInv, TypeOK, Serial, ModeInv, Pruning, Truncating, GcRunning, PackInv, TodoInv
<1>6. QED
  BY <1>1, <1>2, <1>3, <1>4, <1>5 DEF IInv

\* The new pack is durable.
LEMMA StepPackSync ==
    ASSUME IInv, Serial, PackSync
    PROVE  IInv'
<1> USE DEF objVars, refVars, wVars, mVars, PackSync
<1>1. TypeOK /\ TypeOK'
  BY TypeStep DEF IInv, Next, WriterStep, MaintStep, Call, Environment
<1>2. RootsInv' /\ MarkInv'
  BY <1>1 DEF IInv, TypeOK, Serial, RootsInv, Prot, Held, Safe, View, MarkInv, GcRunning, ModeInv
<1>3. WriterInv' /\ DiskInv'
  BY <1>1 DEF IInv, TypeOK, Serial, WriterInv, Committing, Held, Safe, View, MarkInv, GcRunning, DiskInv, PackInv
<1>4. RefInv' /\ LogInv'
  BY <1>1 DEF IInv, TypeOK, Serial, RefInv, WriterInv, Committing, LogInv, Pruning, Truncating, ModeInv
<1>5. ModeInv' /\ PackInv' /\ TodoInv'
  BY <1>1 DEF IInv, TypeOK, Serial, ModeInv, Pruning, Truncating, GcRunning, PackInv, TodoInv
<1>6. QED
  BY <1>1, <1>2, <1>3, <1>4, <1>5 DEF IInv

\* The pack run is over.
LEMMA StepPackDone ==
    ASSUME IInv, Serial, PackDone
    PROVE  IInv'
<1> USE DEF objVars, refVars, wVars, mVars, PackDone, MaintEnd
<1>1. TypeOK /\ TypeOK'
  BY TypeStep DEF IInv, Next, WriterStep, MaintStep, Call, Environment
<1>2. RootsInv' /\ MarkInv'
  BY <1>1 DEF IInv, TypeOK, Serial, RootsInv, Prot, Held, Safe, View, MarkInv, GcRunning, ModeInv
<1>3. WriterInv' /\ DiskInv'
  BY <1>1 DEF IInv, TypeOK, Serial, WriterInv, Committing, Held, Safe, View, MarkInv, GcRunning, DiskInv, PackInv
<1>4. RefInv' /\ LogInv'
  BY <1>1 DEF IInv, TypeOK, Serial, RefInv, WriterInv, Committing, LogInv, Pruning, Truncating, ModeInv
<1>5. ModeInv' /\ PackInv' /\ TodoInv'
  BY <1>1 DEF IInv, TypeOK, Serial, ModeInv, Pruning, Truncating, GcRunning, PackInv, TodoInv
<1>6. QED
  BY <1>1, <1>2, <1>3, <1>4, <1>5 DEF IInv

\* A reclaim starts without a claim.
LEMMA StepReclaimBegin ==
    ASSUME IInv, Serial, ReclaimBegin
    PROVE  IInv'
<1> USE DEF objVars, refVars, wVars, mVars, ReclaimBegin
<1>1. TypeOK /\ TypeOK'
  BY TypeStep DEF IInv, Next, WriterStep, MaintStep, Call, Environment
<1>2. RootsInv' /\ MarkInv'
  BY <1>1 DEF IInv, TypeOK, Serial, RootsInv, Prot, Held, Safe, View, MarkInv, GcRunning, ModeInv
<1>3. WriterInv' /\ DiskInv'
  BY <1>1 DEF IInv, TypeOK, Serial, WriterInv, Committing, Held, Safe, View, MarkInv, GcRunning, DiskInv, PackInv
<1>4. RefInv' /\ LogInv'
  BY <1>1 DEF IInv, TypeOK, Serial, RefInv, WriterInv, Committing, LogInv, Pruning, Truncating, ModeInv
<1>5. ModeInv' /\ PackInv' /\ TodoInv'
  BY <1>1 DEF IInv, TypeOK, Serial, ModeInv, Pruning, Truncating, GcRunning, PackInv, TodoInv
<1>6. QED
  BY <1>1, <1>2, <1>3, <1>4, <1>5 DEF IInv

\* The store maps the committed pack before a loose copy goes.
LEMMA StepReload ==
    ASSUME IInv, Serial, Reload
    PROVE  IInv'
<1> USE DEF objVars, refVars, wVars, mVars, Reload
<1>1. TypeOK /\ TypeOK'
  BY TypeStep DEF IInv, Next, WriterStep, MaintStep, Call, Environment
<1>2. RootsInv' /\ MarkInv'
  BY <1>1 DEF IInv, TypeOK, Serial, RootsInv, Prot, Held, Safe, View, MarkInv, GcRunning, ModeInv
<1>3. WriterInv' /\ DiskInv'
  BY <1>1 DEF IInv, TypeOK, Serial, WriterInv, Committing, Held, Safe, View, MarkInv, GcRunning, DiskInv, PackInv
<1>4. RefInv' /\ LogInv'
  BY <1>1 DEF IInv, TypeOK, Serial, RefInv, WriterInv, Committing, LogInv, Pruning, Truncating, ModeInv
<1>5. ModeInv' /\ PackInv' /\ TodoInv'
  BY <1>1 DEF IInv, TypeOK, Serial, ModeInv, Pruning, Truncating, GcRunning, PackInv, TodoInv
<1>6. QED
  BY <1>1, <1>2, <1>3, <1>4, <1>5 DEF IInv

\* A loose copy goes only if the durable, mapped pack has the object.
LEMMA StepReclaimOne ==
    ASSUME IInv, Serial, NEW h \in Hash, ReclaimOne(h)
    PROVE  IInv'
<1> USE DEF objVars, refVars, wVars, mVars, ReclaimOne
<1>1. TypeOK /\ TypeOK'
  BY TypeStep DEF IInv, Next, WriterStep, MaintStep, Call, Environment
<1>2. RootsInv'
  <2>1. Held \subseteq Held'
    BY DEF IInv, TodoInv, Held, Safe, View
  <2>2. \A f \in Refs : Prot(f)' = Prot(f)
    BY DEF Prot
  <2>3. QED
    BY <2>1, <2>2 DEF IInv, RootsInv
<1>3. WriterInv'
  <2>1. Held \subseteq Held'
    BY DEF IInv, TodoInv, Held, Safe, View
  <2>2. QED
    BY <2>1 DEF IInv, WriterInv, Committing, TodoInv
<1>4. MarkInv'
  BY <1>1 DEF IInv, TypeOK, Serial, MarkInv, GcRunning, Prot, ModeInv
<1>5. DiskInv'
  BY <1>1 DEF IInv, TypeOK, Serial, DiskInv
<1>6. RefInv' /\ LogInv'
  BY <1>1 DEF IInv, TypeOK, Serial, RefInv, WriterInv, Committing, LogInv, Pruning, Truncating, ModeInv
<1>7. ModeInv' /\ PackInv' /\ TodoInv'
  BY <1>1 DEF IInv, TypeOK, Serial, ModeInv, Pruning, Truncating, GcRunning, PackInv, TodoInv
<1>8. QED
  BY <1>1, <1>2, <1>3, <1>4, <1>5, <1>6, <1>7 DEF IInv

\* Syncing the buckets forgets nothing that is still loose.
LEMMA StepReclaimDone ==
    ASSUME IInv, Serial, ReclaimDone
    PROVE  IInv'
<1> USE DEF objVars, refVars, wVars, mVars, ReclaimDone, MaintEnd
<1>1. TypeOK /\ TypeOK'
  BY TypeStep DEF IInv, Next, WriterStep, MaintStep, Call, Environment
<1>2. RootsInv' /\ MarkInv'
  BY <1>1 DEF IInv, TypeOK, Serial, RootsInv, Prot, Held, Safe, View, MarkInv, GcRunning, ModeInv
<1>3. WriterInv' /\ DiskInv'
  BY <1>1 DEF IInv, TypeOK, Serial, WriterInv, Committing, Held, Safe, View, MarkInv, GcRunning, DiskInv, PackInv
<1>4. RefInv' /\ LogInv'
  BY <1>1 DEF IInv, TypeOK, Serial, RefInv, WriterInv, Committing, LogInv, Pruning, Truncating, ModeInv
<1>5. ModeInv' /\ PackInv' /\ TodoInv'
  BY <1>1 DEF IInv, TypeOK, Serial, ModeInv, Pruning, Truncating, GcRunning, PackInv, TodoInv
<1>6. QED
  BY <1>1, <1>2, <1>3, <1>4, <1>5 DEF IInv

\* Growing older changes no promise.
LEMMA StepAge ==
    ASSUME IInv, Serial, NEW h \in Hash, Age(h)
    PROVE  IInv'
<1> USE DEF objVars, refVars, wVars, mVars, Age
<1>1. TypeOK /\ TypeOK'
  BY TypeStep DEF IInv, Next, WriterStep, MaintStep, Call, Environment
<1>2. RootsInv' /\ MarkInv'
  BY <1>1 DEF IInv, TypeOK, Serial, RootsInv, Prot, Held, Safe, View, MarkInv, GcRunning, ModeInv
<1>3. WriterInv' /\ DiskInv'
  BY <1>1 DEF IInv, TypeOK, Serial, WriterInv, Committing, Held, Safe, View, MarkInv, GcRunning, DiskInv, PackInv
<1>4. RefInv' /\ LogInv'
  BY <1>1 DEF IInv, TypeOK, Serial, RefInv, WriterInv, Committing, LogInv, Pruning, Truncating, ModeInv
<1>5. ModeInv' /\ PackInv' /\ TodoInv'
  BY <1>1 DEF IInv, TypeOK, Serial, ModeInv, Pruning, Truncating, GcRunning, PackInv, TodoInv
<1>6. QED
  BY <1>1, <1>2, <1>3, <1>4, <1>5 DEF IInv

\* After a power loss the visible state is the durable one, and everything
\* that was held is in it.
LEMMA StepPowerLoss ==
    ASSUME IInv, Serial, PowerLoss
    PROVE  IInv'
<1>1. TypeOK /\ TypeOK'
  BY TypeStep DEF IInv, Next, Environment
<1>2. /\ wpc' = "idle" /\ whave' = {}
      /\ mpc' = "idle" /\ mmode' = "none"
  BY DEF PowerLoss, Restart, WriterEnd, MaintEnd
<1>3. /\ looseD' = loose' /\ packD' = pack' /\ hpack' = pack'
      /\ rootD' = root' /\ prevD' = prev' /\ logD' = log'
  BY DEF PowerLoss
<1>4. \A f \in Refs : /\ root'[f] \in {root[f], rootD[f]}
                      /\ prev'[f] \in {prev[f], prevD[f]}
                      /\ log'[f] \in {log[f], logD[f]}
  BY DEF PowerLoss, Serial
<1>5. Held \subseteq Held'
  <2>1. loose \cap looseD \subseteq loose' /\ pack \cap packD \subseteq pack'
    BY DEF PowerLoss
  <2>2. QED
    BY <2>1, <1>3 DEF Held, Safe, View
<1>6. RootsInv'
  <2>1. \A f \in Refs : Prot(f)' \subseteq Prot(f)
    BY <1>3, <1>4 DEF Prot
  <2>2. QED
    BY <2>1, <1>5 DEF IInv, RootsInv
<1>7. WriterInv' /\ MarkInv' /\ ModeInv' /\ PackInv' /\ TodoInv' /\ DiskInv'
  BY <1>2, <1>3 DEF WriterInv, MarkInv, ModeInv, PackInv, TodoInv, DiskInv,
                    Committing, Pruning, Truncating, GcRunning
<1>8. RefInv'
  BY <1>3, <1>4 DEF IInv, RefInv
<1>9. LogInv'
  BY <1>2, <1>3, <1>4 DEF IInv, LogInv, Truncating
<1>10. QED
  BY <1>1, <1>6, <1>7, <1>8, <1>9 DEF IInv

\* The invariant holds of an empty depot.
LEMMA InitInv == Init => IInv
<1> SUFFICES ASSUME Init
             PROVE  IInv
  OBVIOUS
<1>1. TypeOK
  BY TypeInit
<1>2. \A f \in Refs : log[f] = <<>> /\ logD[f] = <<>>
  BY DEF Init
<1>3. Readable(<<>>) = {} /\ Parsable(<<>>)
  BY DEF Readable, Parsable
<1>4. RootsInv /\ LogInv
  BY <1>2, <1>3 DEF Init, RootsInv, LogInv, Prot, Truncating
<1>5. WriterInv /\ MarkInv /\ ModeInv /\ PackInv /\ TodoInv /\ DiskInv /\ RefInv
  BY DEF Init, WriterInv, MarkInv, ModeInv, PackInv, TodoInv, DiskInv, RefInv,
         Committing, Pruning, Truncating, GcRunning
<1>6. QED
  BY <1>1, <1>4, <1>5 DEF IInv

\* Every step preserves the invariant.
LEMMA NextInv ==
    ASSUME IInv, Serial, [Next]_vars
    PROVE  IInv'
<1>1. CASE WriterStep
  BY <1>1, StepPutDedup, StepPutRename, StepPutSync, StepCommitLock,
     StepLogAppend, StepLogAppendFail, StepPrevLink, StepRootRename, StepRootFail,
     StepCommitSync
  DEF WriterStep
<1>2. CASE MaintStep
  BY <1>2, StepTruncRead, StepTruncWait, StepTruncRename, StepTruncFail, StepTruncSync, StepMarkRef, StepMarkFail,
     StepMarkDone, StepSweepBegin, StepSweepDone, StepSweepOne, StepReclaimOne,
     StepCollect, StepPackRename, StepPackFail, StepPackSync, StepPackDone,
     StepReload, StepReclaimDone
  DEF MaintStep
<1>3. CASE Call
  BY <1>3, StepBegin, StepTruncWait, StepGcBegin, StepPackBegin, StepReclaimBegin DEF Call
<1>4. CASE Environment
  BY <1>4, StepAge, StepPutFail, StepTruncWait, StepPowerLoss DEF Environment, ProcessDies, Serial
<1>5. CASE UNCHANGED vars
  <2> USE <1>5 DEF vars, objVars, refVars, wVars, mVars
  <2>1. TypeOK' /\ ModeInv' /\ PackInv' /\ TodoInv' /\ DiskInv' /\ RefInv'
    BY DEF IInv, TypeOK, ModeInv, PackInv, TodoInv, DiskInv, RefInv, Pruning, Truncating, GcRunning
  <2>2. RootsInv' /\ MarkInv'
    BY DEF IInv, RootsInv, MarkInv, Prot, Held, Safe, View, GcRunning
  <2>3. WriterInv' /\ LogInv'
    BY DEF IInv, WriterInv, LogInv, Committing, Truncating, Held, Safe, View
  <2>4. QED
    BY <2>1, <2>2, <2>3 DEF IInv
<1>6. QED
  BY <1>1, <1>2, <1>3, <1>4, <1>5 DEF Next

-----------------------------------------------------------------------------
(* The theorems.                                                           *)

\* The invariant holds of every behaviour of a depot whose collections do
\* not overlap a build.
THEOREM InvariantHolds ==
    ASSUME Serial
    PROVE  Spec => []IInv
<1>1. Init => IInv
  BY InitInv
<1>2. IInv /\ [Next]_vars => IInv'
  BY NextInv
<1>3. QED
  BY <1>1, <1>2, PTL DEF Spec

\* ref_commit, log_truncate, gc, gc_pack, pack and reclaim keep every root
\* that its log reports complete, for any trees, any refs and any history,
\* whatever power losses and failing commits interrupt them.
THEOREM ProtectedRootsStayIntact ==
    ASSUME Serial
    PROVE  Spec => []ProtectedIntact
<1>1. IInv => ProtectedIntact
  BY DEF IInv, RootsInv, Prot, Held, ProtectedIntact
<1>2. QED
  BY <1>1, InvariantHolds, PTL

-----------------------------------------------------------------------------
(* What can make an object unavailable, what survives a concurrent         *)
(* collection, what can change the newest line of a log, and which roots   *)
(* are in their log: what holds beyond Serial.                             *)

-----------------------------------------------------------------------------
(* The packs and the sweeps.                                               *)

\* The writer, and time, leave packs and maintenance alone and remove no
\* object.
LEMMA WriterLeaves ==
    ASSUME \/ WriterStep \/ PutFail
           \/ \E f \in Refs, g \in Goals : Begin(f, g)
           \/ \E h \in Hash : Age(h)
    PROVE  /\ UNCHANGED <<pack, packD, hpack, mVars>>
           /\ loose \subseteq loose'
<1>1. ASSUME NEW h \in Hash, PutDedup(h) \/ PutRename(h) \/ Age(h)
      PROVE  UNCHANGED <<pack, packD, hpack, mVars>> /\ loose \subseteq loose'
  BY <1>1 DEF PutDedup, PutRename, Age, objVars
<1>2. ASSUME NEW c \in Comments, LogAppend(c)
      PROVE  UNCHANGED <<pack, packD, hpack, mVars>> /\ loose \subseteq loose'
  BY <1>2 DEF LogAppend, objVars
<1>3. ASSUME NEW f \in Refs, NEW g \in Goals, Begin(f, g)
      PROVE  UNCHANGED <<pack, packD, hpack, mVars>> /\ loose \subseteq loose'
  BY <1>3 DEF Begin, objVars
<1>4. PutSync \/ CommitLock \/ LogAppendFail \/ PrevLink \/ RootRename \/ RootFail \/ CommitSync \/ PutFail
        => UNCHANGED <<pack, packD, hpack, mVars>> /\ loose \subseteq loose'
  BY DEF PutSync, CommitLock, LogAppendFail, PrevLink, RootRename, RootFail, CommitSync, PutFail, objVars
<1>5. QED
  BY <1>1, <1>2, <1>3, <1>4 DEF WriterStep

\* A step that removes no object outside a collection.
Keeps == ~ GcRunning => View \subseteq View'

LEMMA StoreWriter ==
    ASSUME StoreInv, UNCHANGED <<pack, packD, hpack, mVars>>, loose \subseteq loose'
    PROVE  StoreInv' /\ Keeps
<1>1. StoreInv'
  BY DEF StoreInv, ModeInv, Pruning, Truncating, GcRunning, mVars
<1>2. Keeps
  BY DEF Keeps, View
<1>3. QED
  BY <1>1, <1>2

\* The calls, and every return, start and end with no claim on the packs.
LEMMA StoreCalls ==
    ASSUME StoreInv, UNCHANGED <<pack, packD, hpack, loose>>
    PROVE  /\ \A f \in Refs : TruncBegin(f) => StoreInv' /\ Keeps
           /\ \A m \in Modes, b \in BOOLEAN : GcBegin(m, b) => StoreInv' /\ Keeps
           /\ PackBegin \/ ReclaimBegin => StoreInv' /\ Keeps
           /\ MaintEnd /\ mpc # "psync" /\ mpc # "reload" => StoreInv' /\ Keeps
<1> USE DEF StoreInv, ModeInv, Pruning, Truncating, GcRunning
<1>1. Keeps
  BY DEF Keeps, View
<1>2. ASSUME NEW f \in Refs, TruncBegin(f) PROVE StoreInv'
  BY <1>2 DEF TruncBegin
<1>3. ASSUME NEW m \in Modes, NEW b \in BOOLEAN, GcBegin(m, b) PROVE StoreInv'
  BY <1>3, InputAssumption DEF GcBegin
<1>4. ASSUME PackBegin \/ ReclaimBegin PROVE StoreInv'
  BY <1>4 DEF PackBegin, ReclaimBegin
<1>5. ASSUME MaintEnd, mpc # "psync", mpc # "reload" PROVE StoreInv'
  BY <1>5 DEF MaintEnd
<1>6. QED
  BY <1>1, <1>2, <1>3, <1>4, <1>5

LEMMA StoreMaint ==
    ASSUME StoreInv, ~ NoMem, MaintStep
    PROVE  StoreInv' /\ Keeps
<1> USE DEF objVars, refVars, wVars, mVars
<1>1. CASE TruncNothing \/ TruncFail \/ TruncSync \/ SweepDone \/ PackFail \/ PackDone \/ \E f \in Refs : MarkFail(f)
  <2>1. UNCHANGED <<pack, packD, hpack, loose>> /\ MaintEnd /\ mpc # "psync" /\ mpc # "reload"
    BY <1>1 DEF TruncNothing, TruncFail, TruncSync, SweepDone, PackFail, PackDone, MarkFail
  <2>2. QED
    BY <2>1, StoreCalls
<1>2. CASE TruncRead \/ TruncRename \/ MarkDone \/ SweepBegin \/ \E f \in Refs : MarkRef(f)
  <2>1. UNCHANGED <<pack, packD, hpack, loose, mmode, mlist>> /\ mpc \in {"tlock", "trename", "mark", "sweepbegin"}
    BY <1>2 DEF TruncRead, TruncRename, MarkDone, SweepBegin, MarkRef
  <2>2. \/ mpc' = mpc
        \/ mpc = "tlock" /\ mpc' = "trename"
        \/ mpc = "trename" /\ mpc' = "tsync"
        \/ mpc = "mark" /\ mpc' = IF mmode = "gc" THEN "sweepbegin" ELSE "collect"
        \/ mpc = "sweepbegin" /\ mpc' = "sweep"
    BY <1>2 DEF TruncRead, TruncRename, MarkDone, SweepBegin, MarkRef
  <2>3. StoreInv'
    BY <2>1, <2>2 DEF StoreInv, ModeInv, Pruning, Truncating, GcRunning
  <2>4. QED
    BY <2>1, <2>3 DEF Keeps, View
<1>3. ASSUME NEW h \in Hash, SweepOne(h) PROVE StoreInv' /\ Keeps
  BY <1>3 DEF SweepOne, StoreInv, ModeInv, Pruning, Truncating, GcRunning, Keeps
<1>4. ASSUME NEW h \in Hash, ReclaimOne(h) PROVE StoreInv' /\ Keeps
  BY <1>4 DEF ReclaimOne, StoreInv, ModeInv, Pruning, Truncating, GcRunning, Keeps, View
<1>5. CASE Collect
  BY <1>5 DEF Collect, Collected, StoreInv, ModeInv, Pruning, Truncating, GcRunning, Keeps, View
<1>6. CASE PackRename
  BY <1>6 DEF PackRename, StoreInv, ModeInv, Pruning, Truncating, GcRunning, Keeps, View
<1>7. CASE PackSync
  BY <1>7 DEF PackSync, StoreInv, ModeInv, Pruning, Truncating, GcRunning, Keeps, View
<1>8. CASE Reload
  BY <1>8 DEF Reload, StoreInv, ModeInv, Pruning, Truncating, GcRunning, Keeps, View
<1>9. CASE ReclaimDone
  BY <1>9 DEF ReclaimDone, MaintEnd, StoreInv, ModeInv, Pruning, Truncating, GcRunning, Keeps, View
<1>10. QED
  BY <1>1, <1>2, <1>3, <1>4, <1>5, <1>6, <1>7, <1>8, <1>9 DEF MaintStep

\* A restart maps the pack there is.
LEMMA StoreRestart ==
    ASSUME StoreInv, PowerLoss \/ ProcessDies
    PROVE  StoreInv' /\ (ProcessDies => Keeps)
<1>1. hpack' = pack' /\ mpc' = "idle" /\ mmode' = "none"
  BY DEF PowerLoss, ProcessDies, Restart, MaintEnd
<1>2. StoreInv'
  BY <1>1 DEF StoreInv, ModeInv, Pruning, Truncating, GcRunning
<1>3. ProcessDies => Keeps
  BY DEF ProcessDies, Keeps, View, StoreInv, GcRunning
<1>4. QED
  BY <1>2, <1>3

LEMMA StoreStep ==
    ASSUME StoreInv, ~ NoMem, [Next]_vars
    PROVE  StoreInv' /\ (~ Crash => Keeps)
<1>1. CASE WriterStep \/ PutFail \/ (\E f \in Refs, g \in Goals : Begin(f, g)) \/ \E h \in Hash : Age(h)
  BY <1>1, WriterLeaves, StoreWriter
<1>2. CASE MaintStep
  BY <1>2, StoreMaint
<1>3. CASE (\E f \in Refs : TruncBegin(f)) \/ (\E m \in Modes, b \in BOOLEAN : GcBegin(m, b)) \/ PackBegin \/ ReclaimBegin
  <2>1. UNCHANGED <<pack, packD, hpack, loose>>
    BY <1>3 DEF TruncBegin, GcBegin, PackBegin, ReclaimBegin, objVars
  <2>2. QED
    BY <1>3, <2>1, StoreCalls
<1>4. CASE PowerLoss \/ ProcessDies
  BY <1>4, StoreRestart DEF PowerLoss
<1>7. CASE TruncRefused
  <2>1. UNCHANGED <<pack, packD, hpack, loose>> /\ MaintEnd /\ mpc = "tlock"
    BY <1>7 DEF TruncRefused, objVars
  <2>2. QED
    BY <2>1, StoreCalls
<1>5. CASE UNCHANGED vars
  <2>1. UNCHANGED <<pack, packD, hpack, mVars>> /\ loose \subseteq loose'
    BY <1>5 DEF vars, objVars
  <2>2. QED
    BY <2>1, StoreWriter
<1>6. QED
  BY <1>1, <1>2, <1>3, <1>4, <1>5, <1>7 DEF Next, Call, Environment

LEMMA StoreInit == Init => StoreInv
BY DEF Init, StoreInv, ModeInv, Pruning, Truncating, GcRunning

\* Packing, reclaiming, pruning and writing never make a stored object
\* unavailable, whichever process dies where, and with a collection that
\* overlaps a build: only a collection forgets.  No power loss, and memory
\* for pack_create.
THEOREM OnlyGcForgetsHolds ==
    ASSUME ~ NoMem, ~ Crash
    PROVE  Spec => OnlyGcForgets
<1>1. StoreInv /\ [Next]_vars => StoreInv'
  BY StoreStep
<1>2. StoreInv /\ [Next]_vars => [~ GcRunning => View \subseteq View']_vars
  BY StoreStep DEF Keeps
<1>3. QED
  BY <1>1, <1>2, StoreInit, PTL DEF Spec, OnlyGcForgets

-----------------------------------------------------------------------------
(* A collection that overlaps a build.                                     *)

\* What SurviveInv says beyond StoreInv.
Young ==
    /\ mmode # "gcpack"
    /\ wpc = "idle" => wnew = {}
    /\ wnew \subseteq (loose \cap fresh) \cup hpack
    /\ GcRunning => (wpc = "idle" \/ mgrace) /\ (Overlap => mgrace)
    /\ mpc = "sweep" => todo \subseteq loose /\ (mgrace => todo \cap fresh = {})

LEMMA YoungWriter ==
    ASSUME Young, WriterStep \/ PutFail
    PROVE  Young'
<1> USE DEF Young, GcRunning, objVars, refVars, wVars, mVars
<1>1. ASSUME NEW h \in Hash, PutDedup(h) PROVE Young'
  BY <1>1 DEF PutDedup, Puttable
<1>2. ASSUME NEW h \in Hash, PutRename(h) PROVE Young'
  BY <1>2 DEF PutRename, Puttable, View
<1>3. ASSUME NEW c \in Comments, LogAppend(c) PROVE Young'
  BY <1>3 DEF LogAppend
<1>4. PutSync \/ CommitLock \/ PrevLink \/ RootRename => Young'
  BY DEF PutSync, CommitLock, PrevLink, RootRename
<1>5. LogAppendFail \/ RootFail \/ CommitSync \/ PutFail => Young'
  BY DEF LogAppendFail, RootFail, CommitSync, PutFail, WriterEnd
<1>6. QED
  BY <1>1, <1>2, <1>3, <1>4, <1>5 DEF WriterStep

LEMMA YoungMaint ==
    ASSUME StoreInv, Young, ~ NoMem, MaintStep
    PROVE  Young'
<1> USE DEF Young, GcRunning, objVars, refVars, wVars, mVars
<1>1. CASE TruncNothing \/ TruncFail \/ TruncSync \/ SweepDone \/ PackFail \/ PackDone \/ \E f \in Refs : MarkFail(f)
  BY <1>1 DEF TruncNothing, TruncFail, TruncSync, SweepDone, PackFail, PackDone, MarkFail, MaintEnd
<1>2. CASE TruncRead \/ TruncRename \/ MarkDone \/ Collect \/ PackRename \/ PackSync \/ \E f \in Refs : MarkRef(f)
  <2>1. UNCHANGED <<loose, fresh, hpack, wnew, wpc, mmode, mgrace>> /\ (mpc' = "sweep" => mpc = "sweep" /\ todo' = todo)
    BY <1>2 DEF TruncRead, TruncRename, MarkDone, Collect, PackRename, PackSync, MarkRef
  <2>2. QED
    BY <2>1
<1>3. CASE SweepBegin
  BY <1>3 DEF SweepBegin
\* Only old objects go while there is a writer.
<1>4. ASSUME NEW h \in Hash, SweepOne(h) PROVE Young'
  BY <1>4 DEF SweepOne, StoreInv, ModeInv
\* A loose copy goes when the mapped pack has the object.
<1>5. ASSUME NEW h \in Hash, ReclaimOne(h) PROVE Young'
  BY <1>5 DEF ReclaimOne, StoreInv
\* The mapped pack only grows.
<1>6. CASE Reload
  BY <1>6 DEF Reload, StoreInv
<1>7. CASE ReclaimDone
  BY <1>7 DEF ReclaimDone, MaintEnd
<1>8. QED
  BY <1>1, <1>2, <1>3, <1>4, <1>5, <1>6, <1>7 DEF MaintStep

LEMMA SurviveStep ==
    ASSUME SurviveInv, ~ NoMem, "gcpack" \notin Modes, [Next]_vars
    PROVE  SurviveInv'
<1>1. StoreInv /\ Young
  BY DEF SurviveInv, Young
<1>2. StoreInv'
  BY <1>1, StoreStep
<1>3. Young'
  <2> USE DEF objVars, refVars, wVars, mVars
  <2>1. CASE WriterStep \/ PutFail
    BY <1>1, <2>1, YoungWriter
  <2>2. CASE MaintStep
    BY <1>1, <2>2, YoungMaint
  <2>3. ASSUME NEW f \in Refs, NEW g \in Goals, Begin(f, g) PROVE Young'
    BY <1>1, <2>3 DEF Begin, Young, GcRunning
  <2>4. CASE TruncRefused \/ \E f \in Refs : TruncBegin(f)
    BY <1>1, <2>4 DEF TruncBegin, TruncRefused, MaintEnd, Young, GcRunning
  <2>5. ASSUME NEW m \in Modes, NEW b \in BOOLEAN, GcBegin(m, b) PROVE Young'
    BY <1>1, <2>5, FlagAssumption DEF GcBegin, Young, GcRunning
  <2>6. CASE PackBegin \/ ReclaimBegin
    BY <1>1, <2>6 DEF PackBegin, ReclaimBegin, Young, GcRunning
  <2>7. ASSUME NEW h \in Hash, Age(h) PROVE Young'
    BY <1>1, <2>7 DEF Age, Young, GcRunning
  <2>8. CASE PowerLoss \/ ProcessDies
    <3>1. mpc' = "idle" /\ mmode' = "none" /\ wpc' = "idle" /\ wnew' = {}
      BY <2>8 DEF PowerLoss, ProcessDies, Restart, WriterEnd, MaintEnd
    <3>2. QED
      BY <3>1 DEF Young, GcRunning
  <2>9. CASE UNCHANGED vars
    BY <1>1, <2>9 DEF vars, Young, GcRunning
  <2>10. QED
    BY <2>1, <2>2, <2>3, <2>4, <2>5, <2>6, <2>7, <2>8, <2>9 DEF Next, Call, Environment
<1>4. QED
  BY <1>2, <1>3 DEF SurviveInv, Young

\* An object a writer has written is there until it has committed, whatever
\* cas_tree_gc with a grace period, packing and reclaiming do meanwhile.
\* gc_pack, which rewrites the pack, is not run.
THEOREM NewObjectsAlwaysSurvive ==
    ASSUME ~ NoMem, "gcpack" \notin Modes
    PROVE  Spec => []NewObjectsSurvive
<1>1. Init => SurviveInv
  BY StoreInit DEF Init, SurviveInv, GcRunning
<1>2. SurviveInv /\ [Next]_vars => SurviveInv'
  BY SurviveStep
<1>3. SurviveInv => NewObjectsSurvive
  BY DEF SurviveInv, NewObjectsSurvive, View
<1>4. QED
  BY <1>1, <1>2, <1>3, PTL DEF Spec

-----------------------------------------------------------------------------
(* The newest line of a log.                                               *)

\* A prune keeps the newest line of a log that has no torn tail.
LEMMA SurvivorsNewest ==
    ASSUME NEW l \in Seq(Line), NoTorn(l), NEW m \in Survivors(l)
    PROVE  m # <<>> /\ l # <<>> /\ NoTorn(m) /\ Newest(m) = Newest(l)
<1>1. ~ TornEnd(l) /\ Count(l) = Len(l) /\ Len(l) \in Nat
  BY DEF NoTorn, TornEnd, Count
<1>2. PICK n \in 1..(Count(l) - 1) : m \in {[i \in 1..n |-> l[e[i]]] : e \in KeepMaps(l, n)}
  BY DEF Survivors
<1>3. PICK e \in KeepMaps(l, n) : m = [i \in 1..n |-> l[e[i]]]
  BY <1>2
<1>4. e \in [1..n -> 1..Count(l)] /\ e[n] = Count(l)
  BY DEF KeepMaps
<1>5. n \in Nat /\ n >= 1 /\ n \in 1..n
  BY <1>1
<1>6. m \in Seq(Line) /\ \A i \in 1..Len(m) : \E j \in 1..Len(l) : m[i] = l[j]
  BY SurvivorsType
<1>7. Len(m) = n
  BY <1>3, <1>5, <1>6
<1>8. m[n] = l[Len(l)]
  BY <1>1, <1>3, <1>4, <1>5
<1>9. NoTorn(m)
  BY <1>6 DEF NoTorn
<1>10. QED
  BY <1>1, <1>2, <1>5, <1>6, <1>7, <1>8, <1>9 DEF Newest

\* An append to a log without torn tail leaves none.
LEMMA AppendedNoTorn ==
    ASSUME NEW l \in Seq(Line), NoTorn(l), NEW h \in Hash, NEW c, NEW m \in Appended(l, h, c)
    PROVE  NoTorn(m) /\ m # <<>>
<1>1. ~ TornEnd(l) /\ Count(l) = Len(l) /\ SubSeq(l, 1, Count(l)) = l /\ Len(l) \in Nat
  BY DEF NoTorn, TornEnd, Count
<1>2. PICK k \in {"bad", "whole"} : m = l \o <<[hash |-> h, form |-> k]>> \o AppendRest(h, c)
  BY <1>1 DEF Appended, AppendForms, AppendOwner
<1>3. /\ Len(m) \in {Len(l) + 1, Len(l) + 2}
      /\ \A i \in 1..Len(l) : m[i] = l[i]
      /\ m[Len(l) + 1] = [hash |-> h, form |-> k]
      /\ Len(m) = Len(l) + 2 => m[Len(l) + 2] = [hash |-> h, form |-> "bad"]
  <2>1. CASE c = "multi"
    BY <2>1, <1>2 DEF AppendRest
  <2>2. CASE c # "multi"
    BY <2>2, <1>2 DEF AppendRest
  <2>3. QED
    BY <2>1, <2>2
<1>4. QED
  BY <1>1, <1>3 DEF NoTorn

\* A step that may change the newest line of a log.
NewestKept ==
    \A f \in Refs : (log[f] # <<>> /\ log'[f] # <<>> /\ Newest(log'[f]) # Newest(log[f])) =>
        lock[f] = "w" /\ wpc = "append"

\* Steps that touch neither logs nor locks, and stay out of the two
\* operations that do.
LEMMA NewestSame ==
    ASSUME NewestInv, UNCHANGED <<log, logD, detached, lock, wpc, wref, mpc, mref, mlog>>
    PROVE  NewestInv' /\ NewestKept
<1>1. NewestInv'
  BY DEF NewestInv, SameEnd, Committing, Pruning, Truncating
<1>2. QED
  BY <1>1 DEF NewestKept

\* After a sync of refs/ the log on disk is the visible one.
LEMMA SyncedEnd ==
    ASSUME TypeOK, SyncRefs, log' = log
    PROVE  \A f \in Refs : SameEnd(f)'
<1>1. \A f \in Refs : logD'[f] = log'[f] /\ (f \in detached' => logD'[f] = <<>>)
  BY DEF SyncRefs, Absent
<1>2. QED
  BY <1>1 DEF SameEnd

LEMMA NewestWriter ==
    ASSUME NewestInv, TypeOK, ~ Torn, WriterStep \/ PutFail
    PROVE  NewestInv' /\ NewestKept
<1> USE DEF objVars, refVars, wVars, mVars
<1>1. CASE PutFail \/ PutSync \/ \E h \in Hash : PutDedup(h) \/ PutRename(h)
  <2>1. UNCHANGED <<log, logD, detached, lock, mpc, mref, mlog>> /\ wpc' \in {"idle", "build", "sync"}
    BY <1>1 DEF PutFail, PutSync, PutDedup, PutRename, Puttable, WriterEnd
  <2>2. QED
    BY <2>1 DEF NewestInv, SameEnd, NewestKept, Committing, Pruning, Truncating
<1>2. CASE CommitLock
  <2>1. wref \in Refs
    BY <1>2 DEF CommitLock, TypeOK
  <2>2. NewestInv'
    BY <1>2, <2>1, ObjectAssumption DEF CommitLock, NewestInv, SameEnd, Committing, Pruning, Truncating, TypeOK
  <2>3. QED
    BY <1>2, <2>2 DEF CommitLock, NewestKept
<1>3. CASE PrevLink \/ RootRename
  <2>1. UNCHANGED <<log, logD, detached, lock, wref, mpc, mref, mlog>> /\ wpc \in {"prev", "root"}
    BY <1>3 DEF PrevLink, RootRename
  <2>2. QED
    BY <2>1 DEF NewestInv, SameEnd, NewestKept, Committing, Pruning, Truncating
<1>4. CASE RootFail \/ CommitSync
  <2>1. /\ log' = log /\ logD' \in {logD, log} /\ Unlock(wref) /\ wpc' = "idle" /\ wref \in Refs
        /\ lock[wref] = "w" /\ UNCHANGED mVars
    BY <1>4 DEF RootFail, CommitSync, SyncRefs, WriterEnd, TypeOK, NewestInv, Committing
  <2>2. Truncating => mref # wref /\ mref \in Refs
    BY <2>1 DEF NewestInv, Truncating, TypeOK
  <2>3. Crash => \A f \in Refs : SameEnd(f)'
    <3>1. CASE RootFail
      BY <3>1 DEF RootFail, NewestInv, SameEnd
    <3>2. CASE CommitSync
      BY <3>2, SyncedEnd DEF CommitSync
    <3>3. QED
      BY <1>4, <3>1, <3>2
  <2>4. NewestInv'
    BY <2>1, <2>2, <2>3 DEF NewestInv, Committing, Pruning, Truncating, Unlock, TypeOK
  <2>5. QED
    BY <2>1, <2>4 DEF NewestKept
<1>5. CASE LogAppendFail
  <2>1. /\ log' = log /\ Unlock(wref) /\ wpc' = "idle" /\ wref \in Refs /\ lock[wref] = "w"
        /\ UNCHANGED <<mVars, detached>>
        /\ logD' = logD \/ (wref \notin detached /\ logD' = [logD EXCEPT ![wref] = log[wref]])
    BY <1>5 DEF LogAppendFail, SyncLog, WriterEnd, TypeOK, NewestInv, Committing
  <2>2. Truncating => mref # wref /\ mref \in Refs
    BY <2>1 DEF NewestInv, Truncating, TypeOK
  <2>3. \A f \in Refs : logD'[f] = logD[f] \/ (f \notin detached /\ logD'[f] = log[f])
    BY <2>1 DEF TypeOK
  <2>4. Crash => \A f \in Refs : SameEnd(f)'
    BY <2>1, <2>3 DEF NewestInv, SameEnd
  <2>5. \A f \in Refs : NoTorn(logD'[f])
    BY <2>3 DEF NewestInv
  <2>6. NewestInv'
    BY <2>1, <2>2, <2>4, <2>5 DEF NewestInv, Committing, Pruning, Truncating, Unlock, TypeOK
  <2>7. QED
    BY <2>1, <2>6 DEF NewestKept
<1>6. ASSUME NEW c \in Comments, LogAppend(c) PROVE NewestInv' /\ NewestKept
  <2>1. PICK l \in Appended(log[wref], wgoal, c) : log' = [log EXCEPT ![wref] = l]
    BY <1>6 DEF LogAppend
  <2>2. /\ wpc = "append" /\ wpc' = "prev" /\ wref \in Refs /\ wgoal \in Hash /\ lock[wref] = "w"
        /\ UNCHANGED <<mVars, lock, wref, detached>> /\ SyncLog
    BY <1>6 DEF LogAppend, TypeOK, NewestInv, Committing
  <2>3. log[wref] \in Seq(Line) /\ NoTorn(log[wref])
    BY <2>2 DEF TypeOK, NewestInv
  <2>4. NoTorn(l) /\ l # <<>>
    BY <2>1, <2>2, <2>3, AppendedNoTorn
  <2>5. \A f \in Refs : log'[f] = IF f = wref THEN l ELSE log[f]
    BY <2>1, <2>2 DEF TypeOK
  <2>6. \A f \in Refs : logD'[f] = IF f = wref /\ f \notin detached THEN l ELSE logD[f]
    BY <2>2, <2>5 DEF TypeOK, SyncLog
  <2>7. Truncating => mref # wref /\ mref \in Refs
    BY <2>2 DEF NewestInv, Truncating, TypeOK
\* A log that is not the one on disk was just created: no prune holds the lock.
  <2>8. Crash => \A f \in Refs : SameEnd(f)'
    <3> SUFFICES ASSUME Crash, NEW f \in Refs PROVE SameEnd(f)'
      OBVIOUS
    <3>1. SameEnd(f)
      BY DEF NewestInv
    <3>2. CASE f # wref
      BY <2>2, <2>5, <2>6, <3>1, <3>2 DEF SameEnd
    <3>3. CASE f = wref /\ f \notin detached
      BY <2>2, <2>4, <2>5, <2>6, <3>3 DEF SameEnd
    <3>4. CASE f = wref /\ f \in detached
      BY <2>2, <2>6, <2>7, <3>1, <3>4 DEF SameEnd, Truncating
    <3>5. QED
      BY <3>2, <3>3, <3>4
  <2>9. NewestInv'
    BY <2>2, <2>4, <2>5, <2>6, <2>7, <2>8 DEF NewestInv, Committing, Pruning, Truncating
  <2>10. NewestKept
    BY <2>2, <2>5 DEF NewestKept
  <2>11. QED
    BY <2>9, <2>10
<1>7. QED
  BY <1>1, <1>2, <1>3, <1>4, <1>5, <1>6 DEF WriterStep

LEMMA NewestTrunc ==
    ASSUME NewestInv, TypeOK, TruncRead \/ TruncRename \/ TruncFail \/ TruncSync
    PROVE  NewestInv' /\ NewestKept
<1> USE DEF objVars, refVars, wVars, mVars
<1>0. Prune
  BY DEF TruncRead, TruncRename, TruncFail, TruncSync, NewestInv, Pruning, Truncating
<1>1. CASE TruncRename
  <2>1. /\ mref \in Refs /\ log' = [log EXCEPT ![mref] = mlog] /\ mpc = "trename" /\ mpc' = "tsync"
        /\ detached' = detached \cup {mref}
        /\ UNCHANGED <<logD, lock, wpc, wref, mref, mlog>>
    BY <1>1 DEF TruncRename, TypeOK
  <2>2. \A f \in Refs : log'[f] = IF f = mref THEN mlog ELSE log[f]
    BY <2>1 DEF TypeOK
  <2>3. /\ NoTorn(mlog) /\ mlog # <<>> /\ log[mref] # <<>> /\ Newest(mlog) = Newest(log[mref])
        /\ lock[mref] = "m"
    BY <2>1 DEF NewestInv, Truncating
  <2>4. \A f \in Refs : NoTorn(log'[f]) /\ (log[f] # <<>> => log'[f] # <<>> /\ Newest(log'[f]) = Newest(log[f]))
    BY <2>2, <2>3 DEF NewestInv
  <2>5. Crash => \A f \in Refs : SameEnd(f)'
    BY <2>1, <2>4 DEF NewestInv, SameEnd
  <2>6. NewestInv'
    BY <1>0, <2>1, <2>3, <2>4, <2>5 DEF NewestInv, Committing, Truncating
  <2>7. QED
    BY <2>4, <2>6 DEF NewestKept
<1>2. CASE TruncFail \/ TruncSync
  <2>1. /\ log' = log /\ logD' \in {logD, log} /\ Unlock(mref) /\ mpc' = "idle" /\ mref \in Refs
        /\ lock[mref] = "m" /\ UNCHANGED wVars
    BY <1>2 DEF TruncFail, TruncSync, SyncRefs, MaintEnd, TypeOK, NewestInv, Truncating
  <2>2. Committing => mref # wref /\ wref \in Refs
    BY <2>1 DEF NewestInv, Committing, TypeOK
  <2>3. Crash => \A f \in Refs : SameEnd(f)'
    <3>1. CASE TruncFail
      BY <3>1 DEF TruncFail, NewestInv, SameEnd
    <3>2. CASE TruncSync
      BY <3>2, SyncedEnd DEF TruncSync
    <3>3. QED
      BY <1>2, <3>1, <3>2
  <2>4. NewestInv'
    BY <2>1, <2>2, <2>3 DEF NewestInv, Committing, Pruning, Truncating, Unlock, TypeOK
  <2>5. QED
    BY <2>1, <2>4 DEF NewestKept
<1>3. CASE TruncRead
  <2>1. /\ mlog' \in Survivors(log[mref]) /\ lock[mref] = None /\ lock' = [lock EXCEPT ![mref] = "m"]
        /\ mpc = "tlock" /\ mpc' = "trename" /\ mref \in Refs
        /\ UNCHANGED <<log, logD, detached, wpc, wref, mref>>
    BY <1>3 DEF TruncRead, TypeOK
  <2>2. mlog' # <<>> /\ log[mref] # <<>> /\ NoTorn(mlog') /\ Newest(mlog') = Newest(log[mref])
    BY <2>1, SurvivorsNewest DEF TypeOK, NewestInv
  <2>3. Committing => mref # wref /\ wref \in Refs
    BY <2>1, ObjectAssumption DEF NewestInv, Committing, TypeOK
  <2>4. Crash => \A f \in Refs : SameEnd(f)'
    BY <2>1 DEF NewestInv, SameEnd
  <2>5. NewestInv'
    BY <1>0, <2>1, <2>2, <2>3, <2>4 DEF NewestInv, Committing, Truncating, TypeOK
  <2>6. QED
    BY <2>1, <2>5 DEF NewestKept
<1>4. QED
  BY <1>1, <1>2, <1>3

\* A power loss brings a log back that ends in the same line; a process that
\* dies leaves the logs alone, and where power may be lost too it is not
\* pruning.
LEMMA NewestRestart ==
    ASSUME NewestInv, PruneSynced, ~ Torn, PowerLoss \/ ProcessDies
    PROVE  NewestInv' /\ NewestKept
<1>1. wpc' = "idle" /\ mpc' = "idle"
  BY DEF PowerLoss, ProcessDies, Restart, WriterEnd, MaintEnd
<1>2. CASE PowerLoss
  <2>1. /\ \A f \in Refs : log'[f] \in {log[f], logD[f]}
        /\ logD' = log' /\ detached' = Absent(log') /\ Crash
    BY <1>2 DEF PowerLoss
  <2>2. \A f \in Refs : SameEnd(f)'
    BY <2>1 DEF SameEnd, Absent
  <2>3. NewestInv'
    BY <1>1, <2>1, <2>2 DEF NewestInv, Committing, Pruning, Truncating
  <2>4. NewestKept
    BY <2>1 DEF NewestInv, SameEnd, NewestKept
  <2>5. QED
    BY <2>3, <2>4
<1>3. CASE ProcessDies
  <2>1. UNCHANGED <<log, logD, detached>> /\ Kill
    BY <1>3 DEF ProcessDies, refVars
  <2>2. Crash => mpc # "tsync"
    BY <2>1 DEF PruneSynced, NewestInv, Pruning, Truncating
  <2>3. Crash => \A f \in Refs : SameEnd(f)'
    BY <2>1, <2>2 DEF NewestInv, SameEnd
  <2>4. NewestInv'
    BY <1>1, <2>1, <2>3 DEF NewestInv, Committing, Pruning, Truncating
  <2>5. QED
    BY <2>1, <2>4 DEF NewestKept
<1>4. QED
  BY <1>2, <1>3

LEMMA NewestStep ==
    ASSUME NewestInv, TypeOK, ~ Torn, PruneSynced, [Next]_vars
    PROVE  NewestInv' /\ NewestKept
<1> USE DEF objVars, refVars, wVars, mVars
<1>1. CASE WriterStep \/ PutFail
  BY <1>1, NewestWriter
<1>2. CASE TruncRead \/ TruncRename \/ TruncFail \/ TruncSync
  BY <1>2, NewestTrunc
<1>3. CASE \/ \E f \in Refs : MarkRef(f) \/ MarkFail(f)
           \/ MarkDone \/ SweepBegin \/ SweepDone
           \/ \E h \in Hash : SweepOne(h) \/ ReclaimOne(h)
           \/ Collect \/ PackRename \/ PackFail \/ PackSync \/ PackDone
           \/ Reload \/ ReclaimDone \/ PackBegin \/ ReclaimBegin
           \/ \E m \in Modes, b \in BOOLEAN : GcBegin(m, b)
           \/ TruncNothing \/ TruncRefused
  <2>1. /\ UNCHANGED <<log, logD, detached, lock, wpc, wref>>
        /\ mpc # "tsync" /\ mpc' \notin {"tlock", "trename", "tsync"}
    BY <1>3 DEF MarkRef, MarkFail, MarkDone, SweepBegin, SweepDone, SweepOne, ReclaimOne,
                Collect, PackRename, PackFail, PackSync, PackDone, Reload, ReclaimDone,
                PackBegin, ReclaimBegin, GcBegin, TruncNothing, TruncRefused, MaintEnd
  <2>2. QED
    BY <2>1 DEF NewestInv, SameEnd, NewestKept, Committing, Pruning, Truncating
<1>4. CASE \/ \E f \in Refs, g \in Goals : Begin(f, g)
           \/ \E h \in Hash : Age(h)
  <2>1. /\ UNCHANGED <<log, logD, detached, lock, mpc, mref, mlog>>
        /\ UNCHANGED <<wpc, wref>> \/ wpc' = "build"
    BY <1>4 DEF Begin, Age
  <2>2. QED
    BY <2>1 DEF NewestInv, SameEnd, NewestKept, Committing, Pruning, Truncating
<1>5. ASSUME NEW f \in Refs, TruncBegin(f) PROVE NewestInv' /\ NewestKept
  <2>1. /\ UNCHANGED <<log, logD, detached, lock, wpc, wref>>
        /\ mpc = "idle" /\ mpc' = "tlock" /\ Prune
    BY <1>5 DEF TruncBegin
  <2>2. QED
    BY <2>1 DEF NewestInv, SameEnd, NewestKept, Committing, Truncating
<1>6. CASE PowerLoss \/ ProcessDies
  BY <1>6, NewestRestart
<1>7. CASE UNCHANGED vars
  BY <1>7, NewestSame DEF vars
<1>8. QED
  BY <1>1, <1>2, <1>3, <1>4, <1>5, <1>6, <1>7 DEF Next, MaintStep, Call, Environment

\* The newest line of a log changes only by a commit that holds the ref's
\* lock: log_truncate never loses a line appended meanwhile, whichever
\* commits fail and whenever power is lost or the process dies.  Appends are
\* not torn, and of prunes, process deaths and power losses at most two occur:
\* with all three a prune that dies between its rename and its fsync_dir lets
\* a later power loss bring the old log back, without what was appended since.
THEOREM NewestOnlyByCommitHolds ==
    ASSUME ~ Torn, PruneSynced
    PROVE  Spec => NewestOnlyByCommit
<1>1. Init => NewestInv
  BY DEF Init, NewestInv, SameEnd, NoTorn, Committing, Pruning, Truncating
<1>2. NewestInv /\ TypeOK /\ [Next]_vars => NewestInv'
  BY NewestStep
<1>3. NewestInv /\ TypeOK /\ [Next]_vars =>
        [\A f \in Refs : (log[f] # <<>> /\ log'[f] # <<>> /\ Newest(log'[f]) # Newest(log[f])) =>
            lock[f] = "w" /\ wpc = "append"]_vars
  BY NewestStep DEF NewestKept
<1>4. QED
  BY <1>1, <1>2, <1>3, TypeCorrect, PTL DEF Spec, NewestOnlyByCommit

-----------------------------------------------------------------------------
(* Every root is in its log.                                               *)

\* A plain commit's line can be read, and hides none.
LEMMA AppendedWhole ==
    ASSUME NEW l \in Seq(Line), Whole(l), NEW h \in Hash, NEW m \in Appended(l, h, "plain")
    PROVE  Whole(m) /\ h \in Readable(m) /\ Readable(l) \subseteq Readable(m)
<1>1. ~ TornEnd(l) /\ Count(l) = Len(l) /\ SubSeq(l, 1, Count(l)) = l /\ Len(l) \in Nat
  BY DEF Whole, TornEnd, Count
<1>2. m = l \o <<[hash |-> h, form |-> "whole"]>> \o <<>>
  BY <1>1 DEF Appended, AppendForms, AppendOwner, AppendRest
<1>3. /\ Len(m) = Len(l) + 1 /\ \A i \in 1..Len(l) : m[i] = l[i]
      /\ m[Len(l) + 1] = [hash |-> h, form |-> "whole"]
  BY <1>1, <1>2
<1>4. Whole(m)
  BY <1>1, <1>3 DEF Whole
<1>5. h \in Readable(m)
  BY <1>1, <1>3, <1>4 DEF Readable, Whole
<1>6. Readable(l) \subseteq Readable(m)
  BY <1>1, <1>3 DEF Readable
<1>7. QED
  BY <1>4, <1>5, <1>6

\* Steps that leave logs and roots alone.
LEMMA LiveSame ==
    ASSUME LiveInv, UNCHANGED <<root, rootD, log, logD>>, ~ Pruning',
           \/ UNCHANGED <<wpc, wref, wgoal>>
           \/ wpc' \notin {"prev", "root", "dirsync"}
           \/ wpc = "prev" /\ wpc' = "root" /\ UNCHANGED <<wref, wgoal>>
    PROVE  LiveInv'
BY DEF LiveInv

LEMMA LiveWriter ==
    ASSUME LiveInv, IInv, Serial, PlainRefs, WriterStep \/ PutFail
    PROVE  LiveInv'
<1> USE DEF objVars, refVars, wVars, mVars
<1>1. TypeOK /\ \A f \in Refs : Readable(logD[f]) \subseteq Readable(log[f])
  BY DEF IInv, LogInv, LiveInv, Pruning, Truncating
<1>2. ~ Pruning'
  <2>1. UNCHANGED mVars
    BY WriterLeaves
  <2>2. QED
    BY <2>1 DEF LiveInv, Pruning, Truncating
<1>3. CASE PutFail \/ PutSync \/ CommitLock \/ PrevLink \/ RootFail \/ \E h \in Hash : PutDedup(h) \/ PutRename(h)
  <2>1. /\ UNCHANGED <<root, rootD, log, logD>>
        /\ \/ wpc' \notin {"prev", "root", "dirsync"}
           \/ wpc = "prev" /\ wpc' = "root" /\ UNCHANGED <<wref, wgoal>>
    BY <1>3 DEF PutFail, PutSync, CommitLock, PrevLink, RootFail, PutDedup, PutRename, Puttable, WriterEnd
  <2>2. QED
    BY <1>2, <2>1, LiveSame
<1>4. CASE RootRename
  <2>1. /\ wpc = "root" /\ wpc' = "dirsync" /\ wref \in Refs /\ wgoal \in Readable(log[wref])
        /\ \A f \in Refs : root'[f] = IF f = wref THEN wgoal ELSE root[f]
        /\ UNCHANGED <<rootD, log, logD, wref, wgoal>>
    BY <1>1, <1>4 DEF RootRename, LiveInv, TypeOK
  <2>2. QED
    BY <1>2, <2>1 DEF LiveInv
<1>5. CASE CommitSync
  BY <1>2, <1>5 DEF CommitSync, SyncRefs, Absent, WriterEnd, LiveInv
<1>6. CASE LogAppendFail
  <2>1. /\ log' = log /\ wpc' = "idle" /\ wref \in Refs /\ UNCHANGED <<root, rootD>>
        /\ logD' \in {logD, [logD EXCEPT ![wref] = log[wref]]}
    BY <1>1, <1>6 DEF LogAppendFail, SyncLog, WriterEnd, TypeOK, Serial
  <2>2. \A f \in Refs : logD'[f] = logD[f] \/ (f = wref /\ logD'[f] = log[f])
    BY <1>1, <2>1 DEF TypeOK
  <2>3. QED
    BY <1>1, <1>2, <2>1, <2>2 DEF LiveInv
<1>7. ASSUME NEW c \in Comments, LogAppend(c) PROVE LiveInv'
  <2>1. PICK l \in Appended(log[wref], wgoal, c) : log' = [log EXCEPT ![wref] = l]
    BY <1>7 DEF LogAppend
  <2>2. /\ wpc' = "prev" /\ wref \in Refs /\ wgoal \in Hash /\ c = "plain"
        /\ UNCHANGED <<root, rootD, wref, wgoal>>
        /\ logD' \in {logD, [logD EXCEPT ![wref] = log'[wref]]}
    BY <1>1, <1>7 DEF LogAppend, SyncLog, TypeOK, PlainRefs
  <2>3. Whole(l) /\ wgoal \in Readable(l) /\ Readable(log[wref]) \subseteq Readable(l)
    BY <1>1, <2>1, <2>2, AppendedWhole DEF TypeOK, LiveInv
  <2>4. \A f \in Refs : log'[f] = IF f = wref THEN l ELSE log[f]
    BY <1>1, <2>1, <2>2 DEF TypeOK
  <2>5. \A f \in Refs : logD'[f] = logD[f] \/ (f = wref /\ logD'[f] = l)
    BY <1>1, <2>2, <2>4 DEF TypeOK
  <2>6. QED
    BY <1>1, <1>2, <2>2, <2>3, <2>4, <2>5 DEF LiveInv
<1>8. QED
  BY <1>3, <1>4, <1>5, <1>6, <1>7 DEF WriterStep

LEMMA LiveStep ==
    ASSUME LiveInv, IInv, Serial, PlainRefs, [Next]_vars
    PROVE  LiveInv'
<1> USE DEF objVars, refVars, wVars, mVars
<1>1. CASE WriterStep \/ PutFail
  BY <1>1, LiveWriter
<1>2. CASE MaintStep
  <2>1. UNCHANGED <<root, rootD, log, logD, wpc, wref, wgoal>> /\ ~ Pruning'
    BY <1>2 DEF MaintStep, LiveInv, Pruning, Truncating, TruncRead, TruncNothing, TruncRename, TruncFail,
                TruncSync, MarkRef, MarkFail, MarkDone, SweepBegin, SweepDone, SweepOne, ReclaimOne,
                Collect, PackRename, PackFail, PackSync, PackDone, Reload, ReclaimDone, MaintEnd
  <2>2. QED
    BY <2>1, LiveSame
<1>3. CASE Call
  <2>1. UNCHANGED <<root, rootD, log, logD>> /\ ~ Pruning'
        /\ (UNCHANGED <<wpc, wref, wgoal>> \/ wpc' = "build")
    BY <1>3 DEF Call, Begin, TruncBegin, GcBegin, PackBegin, ReclaimBegin, PlainRefs, LiveInv, Pruning, Truncating
  <2>2. QED
    BY <2>1, LiveSame
<1>4. CASE TruncRefused \/ \E h \in Hash : Age(h)
  <2>1. UNCHANGED <<root, rootD, log, logD, wpc, wref, wgoal>> /\ ~ Pruning'
    BY <1>4 DEF Age, TruncRefused, MaintEnd, LiveInv, Pruning, Truncating
  <2>2. QED
    BY <2>1, LiveSame
\* In order: a root that reached the disk has its line there too.
<1>5. CASE PowerLoss
  <2>1. PICK R, V, L \in SUBSET Refs :
          /\ root' = [f \in Refs |-> IF f \in R THEN root[f] ELSE rootD[f]]
          /\ prev' = [f \in Refs |-> IF f \in V THEN prev[f] ELSE prevD[f]]
          /\ Ordered => \A f \in R \ L : root[f] = rootD[f]
          /\ LET kept == [f \in Refs |-> IF f \in L THEN log[f] ELSE logD[f]] IN
             \/ log' = kept
             \/ /\ Torn /\ wpc = "append" /\ wref \in L \cup (Refs \ detached)
                /\ log' = [kept EXCEPT ![wref] = AppendedTorn(@, wgoal)]
    BY <1>5 DEF PowerLoss
  <2>2. /\ \A f \in Refs : root'[f] = IF f \in R THEN root[f] ELSE rootD[f]
        /\ \A f \in Refs : log'[f] = IF f \in L THEN log[f] ELSE logD[f]
        /\ \A f \in R \ L : root[f] = rootD[f]
    BY <2>1 DEF Serial, PlainRefs
  <2>3. rootD' = root' /\ logD' = log' /\ wpc' = "idle" /\ mpc' = "idle"
    BY <1>5 DEF PowerLoss, Restart, WriterEnd, MaintEnd
  <2>4. \A f \in Refs : Readable(logD[f]) \subseteq Readable(log[f])
    BY DEF IInv, LogInv, LiveInv, Pruning, Truncating
  <2>5. \A f \in Refs : root'[f] # None => root'[f] \in Readable(log'[f])
    <3> SUFFICES ASSUME NEW f \in Refs, root'[f] # None PROVE root'[f] \in Readable(log'[f])
      OBVIOUS
    <3>1. CASE f \in R /\ f \in L
      BY <2>2, <3>1 DEF LiveInv
    <3>2. CASE f \notin R \/ f \notin L
      BY <2>2, <2>4, <3>2 DEF LiveInv
    <3>3. QED
      BY <3>1, <3>2
  <2>6. \A f \in Refs : Whole(log'[f])
    BY <2>2 DEF LiveInv
  <2>7. QED
    BY <2>3, <2>5, <2>6 DEF LiveInv, Pruning, Truncating
<1>6. CASE UNCHANGED vars
  BY <1>6, LiveSame DEF vars, LiveInv, Pruning, Truncating
<1>7. QED
  BY <1>1, <1>2, <1>3, <1>4, <1>5, <1>6 DEF Next, Environment, ProcessDies, Serial

\* The tree of every ref is complete, through failing commits, packing,
\* collections and power losses at every point, in a depot whose refs are
\* never pruned, whose comments parse and whose directory updates reach the
\* disk in order.
THEOREM LiveRootsStayIntact ==
    ASSUME Serial, PlainRefs
    PROVE  Spec => []LiveRootsIntact
<1>1. Init => LiveInv
  BY DEF Init, LiveInv, Whole, Pruning, Truncating
<1>2. LiveInv /\ IInv /\ [Next]_vars => LiveInv'
  BY LiveStep
<1>3. LiveInv /\ IInv => LiveRootsIntact
  BY DEF LiveInv, IInv, RootsInv, Prot, Held, LiveRootsIntact
<1>4. QED
  BY <1>1, <1>2, <1>3, InvariantHolds, PTL DEF Spec

-----------------------------------------------------------------------------
(* The handles.  While every process keeps to one handle, the depot lock   *)
(* excludes: for any number of processes and handles.                      *)

\* A process has one handle in use at most.  Without this, closing the
\* other handle would give up the lock of an open one.
Single ==
    \A g, h \in Handles :
        (g # h /\ ProcOf[g] = ProcOf[h] /\ st[g] # "closed") => st[h] = "closed"

\* Every state of the specification is well typed, whatever the callers do.
THEOREM HandleTypes == HandleSpec => []HandleTypeOK
<1>1. HandleInit => HandleTypeOK
  BY HandleAssumption DEF HandleInit, HandleTypeOK
<1>2. HandleTypeOK /\ [HandleNext]_handleVars => HandleTypeOK'
  <2> SUFFICES ASSUME HandleTypeOK, [HandleNext]_handleVars PROVE HandleTypeOK'
    OBVIOUS
  <2>1. ASSUME NEW h \in Handles, New(h) PROVE HandleTypeOK'
    BY <2>1 DEF HandleTypeOK, New
  <2>2. ASSUME NEW h \in Handles, Lock(h) PROVE HandleTypeOK'
    BY <2>2, HandleAssumption DEF HandleTypeOK, Lock
  <2>3. ASSUME NEW h \in Handles, LockFail(h) PROVE HandleTypeOK'
    BY <2>3 DEF HandleTypeOK, LockFail
  <2>4. ASSUME NEW h \in Handles, Free(h) PROVE HandleTypeOK'
    BY <2>4 DEF HandleTypeOK, Free, Release
  <2>5. ASSUME NEW h \in Handles, Repack(h) PROVE HandleTypeOK'
    BY <2>5 DEF HandleTypeOK, Repack
  <2>6. ASSUME NEW h \in Handles, ReloadPack(h) PROVE HandleTypeOK'
    BY <2>6 DEF HandleTypeOK, ReloadPack
  <2>7. ASSUME NEW h \in Handles, OpenView(h) PROVE HandleTypeOK'
    BY <2>7 DEF HandleTypeOK, OpenView
  <2>8. ASSUME NEW v \in views, CloseView(v) PROVE HandleTypeOK'
    BY <2>8 DEF HandleTypeOK, CloseView
  <2>9. ASSUME NEW p \in Procs, Exit(p) PROVE HandleTypeOK'
    BY <2>9 DEF HandleTypeOK, Exit, Release
  <2>10. CASE UNCHANGED handleVars
    BY <2>10 DEF HandleTypeOK, handleVars
  <2> QED
    BY <2>1, <2>2, <2>3, <2>4, <2>5, <2>6, <2>7, <2>8, <2>9, <2>10 DEF HandleNext
<1> QED
  BY <1>1, <1>2, PTL DEF HandleSpec

\* One handle per process: what each action makes of the two facts.
LEMMA HandleStep ==
    ASSUME OneEach, HandleTypeOK, Single, OpenHoldsLock, HandleNext
    PROVE  Single' /\ OpenHoldsLock'
<1>1. ASSUME NEW h \in Handles, New(h) PROVE Single' /\ OpenHoldsLock'
  BY <1>1 DEF HandleTypeOK, Single, OpenHoldsLock, New
<1>2. ASSUME NEW h \in Handles, Lock(h) PROVE Single' /\ OpenHoldsLock'
  <2>1. \A g \in Handles : st[g] = "open" => ProcOf[g] = ProcOf[h]
    BY <1>2, HandleAssumption DEF OpenHoldsLock, Lock
  <2> QED
    BY <1>2, <2>1 DEF HandleTypeOK, Single, OpenHoldsLock, Lock
<1>3. ASSUME NEW h \in Handles, LockFail(h) PROVE Single' /\ OpenHoldsLock'
  BY <1>3 DEF HandleTypeOK, Single, OpenHoldsLock, LockFail
<1>4. ASSUME NEW h \in Handles, Free(h) PROVE Single' /\ OpenHoldsLock'
  <2>1. \A g \in Handles \ {h} : ProcOf[g] = ProcOf[h] => st[g] = "closed"
    BY <1>4 DEF Single, Free
  <2> QED
    BY <1>4, <2>1 DEF HandleTypeOK, Single, OpenHoldsLock, Free, Release
<1>5. ASSUME NEW p \in Procs, Exit(p) PROVE Single' /\ OpenHoldsLock'
  BY <1>5 DEF HandleTypeOK, Single, OpenHoldsLock, Exit, Release
<1>6. ASSUME UNCHANGED <<st, holder>> PROVE Single' /\ OpenHoldsLock'
  BY <1>6 DEF Single, OpenHoldsLock
<1> QED
  BY <1>1, <1>2, <1>3, <1>4, <1>5, <1>6 DEF HandleNext, Repack, ReloadPack, OpenView, CloseView

\* cas_new and cas_free keep two processes apart: if no process opens a
\* second handle, no two processes ever have the depot open at once.
THEOREM DepotIsExclusive ==
    ASSUME OneEach
    PROVE  HandleSpec => []Exclusive
<1>1. HandleInit => Single /\ OpenHoldsLock
  BY DEF HandleInit, Single, OpenHoldsLock
<1>2. HandleTypeOK /\ Single /\ OpenHoldsLock /\ [HandleNext]_handleVars => Single' /\ OpenHoldsLock'
  <2>1. ASSUME HandleTypeOK, Single, OpenHoldsLock, UNCHANGED handleVars
        PROVE  Single' /\ OpenHoldsLock'
    BY <2>1 DEF Single, OpenHoldsLock, handleVars
  <2> QED
    BY <2>1, HandleStep
<1>3. HandleTypeOK /\ OpenHoldsLock => Exclusive
  BY DEF OpenHoldsLock, Exclusive
<1> QED
  BY <1>1, <1>2, <1>3, HandleTypes, PTL DEF HandleSpec

=============================================================================
