------------------------------- MODULE Topic --------------------------------
(***************************************************************************)
(* Signed topics, cas-topic.c, and the chains of version records behind    *)
(* them, cas-sign.c.  A ref holds the address of a topic's newest record;  *)
(* a record names its predecessor and carries the next sequence number.    *)
(*                                                                         *)
(* Threads of one process publish: they relay records signed elsewhere, in *)
(* any order and any number of times, or sign the successor of the head    *)
(* they see.  A record's address stands for its contents, so a record is   *)
(* its own address and holds its predecessor in place of prev.  Only       *)
(* records that cas_vrec_decode accepts appear: it refuses the others      *)
(* before anything else is done.  A commit to a ref is the one of module   *)
(* Depot, reduced to its effect on the root.                               *)
(***************************************************************************)
EXTENDS Integers, Sequences, FiniteSets

CONSTANTS
    Threads,
    Keys,       \* topics, which are named by their keys
    Home,       \* the keys whose secret is here
    Refs,       \* names of refs
    Roots,      \* what is published, and when
    MaxSeq,     \* bound: the highest sequence number that is signed
    MaxStored,  \* bound: records in the depot at a time
    None        \* no record

ASSUME TopicAssumption ==
    /\ Home \subseteq Keys
    /\ MaxSeq \in Nat \ {0} /\ MaxStored \in Nat

VARIABLES
    chain,  \* key -> the records signed elsewhere, oldest first
    objs,   \* the records in the depot
    head,   \* ref -> address of the head record, or None
    job     \* thread -> what it is doing

vars == <<chain, objs, head, job>>

Record(k, seq, root, prev) == [topic |-> k, seq |-> seq, root |-> root, prev |-> prev]

\* The records that the holder of a key signs, by their number: the first
\* has no predecessor, any other is made from one of its own topic.
Records[n \in 1..MaxSeq] ==
    IF n = 1 THEN {Record(k, 1, x, None) : k \in Keys, x \in Roots}
    ELSE {Record(p.topic, n, x, p) : p \in Records[n - 1], x \in Roots}

Signed == UNION {Records[n] : n \in 1..MaxSeq}

ASSUME NoneAssumption == None \notin Signed

Idle == [pc |-> "idle"]

Init ==
    /\ chain = [k \in Keys \ Home |-> <<>>]
    /\ objs = {}
    /\ head = [r \in Refs |-> None]
    /\ job = [t \in Threads |-> Idle]

\* cas_topic_head: the head record, or None for CAS_ENOTFOUND, which is the
\* answer both without a ref and without the record it names.
TopicHead(r) == IF head[r] \in objs THEN head[r] ELSE None

VerdictNoChain(cur, cand) ==
    IF cur = None THEN "CAS_OK"
    ELSE IF cand.topic # cur.topic THEN "ETOPIC"
    ELSE IF cand.seq < cur.seq \/ cand = cur THEN "ESTALE"
    ELSE IF cand.seq = cur.seq THEN "EFORK"
    ELSE IF cand.seq = cur.seq + 1 THEN "CAS_OK" ELSE "EGAP"

\* cas_vrec_succeeds.
Verdict(cur, cand) ==
    IF cur = None THEN "CAS_OK"
    ELSE IF cand.topic # cur.topic THEN "ETOPIC"
    ELSE IF cand.seq < cur.seq \/ cand = cur THEN "ESTALE"
    ELSE IF cand.seq = cur.seq THEN "EFORK"
    ELSE IF cand.seq # cur.seq + 1 THEN "EGAP"
    ELSE IF cand.prev = cur THEN "CAS_OK" ELSE "ECHAIN"

-----------------------------------------------------------------------------
(* cas_topic_publish.                                                      *)

Step(t, j) == job' = [job EXCEPT ![t] = j]

Publishes(t, r, cand) ==
    /\ job[t] = Idle
    /\ Step(t, [pc |-> "head", ref |-> r, cand |-> cand, cur |-> None])
    /\ UNCHANGED <<chain, objs, head>>

Last(s) == IF s = <<>> THEN None ELSE s[Len(s)]

\* The holder of a key signs the next record somewhere else.
SignElsewhere(k, root) ==
    /\ Len(chain[k]) < MaxSeq
    /\ chain' = [chain EXCEPT ![k] = Append(@, Record(k, Len(@) + 1, root, Last(@)))]
    /\ UNCHANGED <<objs, head, job>>

\* A record arrives: one signed elsewhere, or one the depot had before.
Relay(t, r, cand) == Publishes(t, r, cand)

\* castool publish: seq and prev come from the head there is now.
SignNext(t, r, k, root) ==
    LET h == TopicHead(r) IN
    IF h = None THEN Publishes(t, r, Record(k, 1, root, None))
    ELSE h.seq < MaxSeq /\ Publishes(t, r, Record(k, h.seq + 1, root, h))

\* The head is read and the candidate checked against it.
ReadHead(t) ==
    LET j == job[t] cur == TopicHead(j.ref) IN
    /\ j.pc = "head"
    /\ Step(t, IF Verdict(cur, j.cand) = "CAS_OK"
               THEN [pc |-> "put", ref |-> j.ref, cand |-> j.cand, cur |-> cur] ELSE Idle)
    /\ UNCHANGED <<chain, objs, head>>

PutRecord(t) ==
    /\ job[t].pc = "put" /\ Cardinality(objs) < MaxStored
    /\ objs' = objs \cup {job[t].cand}
    /\ Step(t, [job[t] EXCEPT !.pc = "commit"])
    /\ UNCHANGED <<chain, head>>

PutFailGoesOn(t) ==
    /\ job[t].pc = "put"
    /\ Step(t, [job[t] EXCEPT !.pc = "commit"])
    /\ UNCHANGED <<chain, objs, head>>

PutFail(t) ==
    /\ job[t].pc = "put"
    /\ Step(t, Idle) /\ UNCHANGED <<chain, objs, head>>

\* cas_tree_ref_commit takes the ref's lock, and only then.
Commit(t) ==
    /\ job[t].pc = "commit"
    /\ head' = [head EXCEPT ![job[t].ref] = job[t].cand]
    /\ Step(t, Idle) /\ UNCHANGED <<chain, objs>>

CommitFail(t) ==
    /\ job[t].pc = "commit"
    /\ Step(t, Idle) /\ UNCHANGED <<chain, objs, head>>

\* castool gc, which the depot lock keeps out while a process publishes.  It
\* gives up as soon as a log names a record, which is no tree, so it takes
\* records only while no topic has a head.
Forget(a) ==
    /\ \A r \in Refs : head[r] = None
    /\ \A t \in Threads : job[t] = Idle
    /\ objs' = objs \ {a} /\ UNCHANGED <<chain, head, job>>

Known == objs \cup UNION {{chain[k][i] : i \in DOMAIN chain[k]} : k \in DOMAIN chain}

Next ==
    \/ \E k \in Keys \ Home, x \in Roots : SignElsewhere(k, x)
    \/ \E t \in Threads, r \in Refs :
          \/ \E a \in Known : Relay(t, r, a)
          \/ \E k \in Home, x \in Roots : SignNext(t, r, k, x)
    \/ \E t \in Threads : \/ ReadHead(t) \/ PutRecord(t) \/ PutFail(t)
                          \/ Commit(t) \/ CommitFail(t)
    \/ \E a \in objs : Forget(a)

Spec == Init /\ [][Next]_vars

-----------------------------------------------------------------------------
(* cas_vchain_walk, with a callback that never stops it.                   *)

\* The walk as a sequence of at most n records and how it ended: "more" as
\* long as it has not.
WalkTooFar(a, stop) ==
    LET walk[n \in 0..MaxSeq] ==
            IF n = 0 THEN IF a \in objs THEN [seen |-> <<a>>, rc |-> "more"]
                          ELSE [seen |-> <<>>, rc |-> "ENOTFOUND"]
            ELSE LET w == walk[n - 1] v == Last(w.seen) IN
                 IF w.rc # "more" THEN w
                 ELSE IF v.seq < stop \/ v.prev = None THEN [w EXCEPT !.rc = "CAS_OK"]
                 ELSE IF v.prev \notin objs THEN [w EXCEPT !.rc = "EINCOMPLETE"]
                 ELSE [w EXCEPT !.seen = Append(@, v.prev)]
    IN walk[MaxSeq]

Walk(a, stop) ==
    LET walk[n \in 0..MaxSeq] ==
            IF n = 0 THEN IF a \in objs THEN [seen |-> <<a>>, rc |-> "more"]
                          ELSE [seen |-> <<>>, rc |-> "ENOTFOUND"]
            ELSE LET w == walk[n - 1] v == Last(w.seen) IN
                 IF w.rc # "more" THEN w
                 ELSE IF v.seq <= stop \/ v.prev = None THEN [w EXCEPT !.rc = "CAS_OK"]
                 ELSE IF v.prev \notin objs THEN [w EXCEPT !.rc = "EINCOMPLETE"]
                 ELSE IF v.prev.topic # v.topic THEN [w EXCEPT !.rc = "ETOPIC"]
                 ELSE IF v.prev.seq + 1 # v.seq THEN [w EXCEPT !.rc = "ECHAIN"]
                 ELSE [w EXCEPT !.seen = Append(@, v.prev)]
    IN walk[MaxSeq]

-----------------------------------------------------------------------------
(* Properties.                                                             *)

\* Records are numbered from 1, those signed elsewhere in their order, and
\* threads are idle or inside cas_topic_publish.
TypeOK ==
    /\ \A k \in Keys \ Home : \A i \in DOMAIN chain[k] : chain[k][i].seq = i
    /\ \A a \in objs : a.seq \in 1..MaxSeq /\ a.topic \in Keys
    /\ \A t \in Threads : job[t].pc \in {"idle", "head", "put", "commit"}

\* A ref never names a record that is not stored, whatever fails: the record
\* is put before the ref moves.
HeadStored == \A r \in Refs : head[r] # None => head[r] \in objs

\* What publish relies on between its steps: a thread past the check holds a
\* record that succeeds the head it saw, and its record is in the depot by
\* the time the ref moves.  With HeadStored this is inductive.
PublishInv ==
    \A t \in Threads : job[t] # Idle =>
        LET j == job[t] IN
        /\ j = [pc |-> j.pc, ref |-> j.ref, cand |-> j.cand, cur |-> j.cur]
        /\ j.ref \in Refs /\ j.pc \in {"head", "put", "commit"}
        /\ j.pc # "head" => Verdict(j.cur, j.cand) = "CAS_OK"
        /\ j.pc = "commit" => j.cand \in objs

\* b is the immediate successor of a.
Follows(a, b) == b.topic = a.topic /\ b.seq = a.seq + 1 /\ b.prev = a

\* A publish that no other has overtaken moves the head to its immediate
\* successor, however records are repeated, reordered or lost.
FreshAdvances ==
    [][\A t \in Threads, r \in Refs :
          /\ job[t].pc = "commit" /\ job'[t].pc = "idle"
          /\ head[r] # None /\ head'[r] # head[r] /\ job[t].cur = head[r]
          => Follows(head[r], head'[r])]_vars

\* Every head is the immediate successor of the one before (SHOAL.md:
\* "subscribers reject stale or rolled-back heads").  It is not so when two
\* threads publish: see the README.
HeadsAdvance ==
    [][\A r \in Refs : head[r] # None /\ head'[r] # head[r] => Follows(head[r], head'[r])]_vars

\* No record takes the place of another with the same number (SHOAL.md:
\* "For an honest single writer a fork is impossible"); this fails likewise.
NoFork ==
    [][\A r \in Refs : head[r] # None /\ head'[r] # head[r] =>
          head'[r].topic # head[r].topic \/ head'[r].seq # head[r].seq]_vars

\* The records of a chain from a down to the first whose number is at most
\* stop, newest first.
Chain(a, stop) ==
    LET upto[n \in 1..MaxSeq] ==
            IF n = 1 THEN <<a>>
            ELSE LET s == upto[n - 1] v == Last(s) IN
                 IF v.seq <= stop \/ v.prev = None THEN s ELSE Append(s, v.prev)
    IN upto[MaxSeq]

\* From every head, cas_vchain_walk shows the chain down to stop_seq, or the
\* part of it above the first record the depot lacks, and says which.
WalkExact ==
    TypeOK /\ \A r \in Refs, stop \in 0..MaxSeq : head[r] # None =>
        LET c == Chain(head[r], stop)
            gaps == {i \in DOMAIN c : c[i] \notin objs}
            w == Walk(head[r], stop)
        IN IF gaps = {} THEN w = [seen |-> c, rc |-> "CAS_OK"]
           ELSE LET g == CHOOSE i \in gaps : \A k \in gaps : i <= k
                IN w = [seen |-> SubSeq(c, 1, g - 1), rc |-> "EINCOMPLETE"]

=============================================================================
