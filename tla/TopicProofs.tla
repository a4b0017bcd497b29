---------------------------- MODULE TopicProofs -----------------------------
(***************************************************************************)
(* Proofs about Topic: a ref always names a stored record, and a publish   *)
(* that is not overtaken moves it to the immediate successor, for any      *)
(* number of threads, topics and refs; and cas_vchain_walk shows exactly   *)
(* the part of a chain that is there, for chains of any length.            *)
(***************************************************************************)
EXTENDS Topic, FiniteInduction, TLAPS

\* The inductive invariant: HeadStored, what publish knows between its
\* steps, and which threads and refs there are.
IInv ==
    /\ DOMAIN job = Threads /\ job = [t \in Threads |-> job[t]]
    /\ DOMAIN head = Refs /\ head = [r \in Refs |-> head[r]]
    /\ PublishInv
    /\ HeadStored

\* A thread starts to publish with nothing checked yet.
LEMMA PublishesKeeps ==
    ASSUME IInv, NEW t \in Threads, NEW r \in Refs, NEW cand, Publishes(t, r, cand)
    PROVE  IInv'
BY DEF IInv, PublishInv, HeadStored, Publishes, Step, Idle, Verdict

\* castool signs the successor of the head and publishes it.
LEMMA SignNextKeeps ==
    ASSUME IInv, NEW t \in Threads, NEW r \in Refs, NEW k, NEW x, SignNext(t, r, k, x)
    PROVE  IInv'
<1>1. \E cand : Publishes(t, r, cand)
  BY DEF SignNext
<1> QED  BY <1>1, PublishesKeeps

\* A thread goes past the check only with a record that succeeds the head.
LEMMA ReadHeadKeeps ==
    ASSUME IInv, NEW t \in Threads, ReadHead(t)
    PROVE  IInv'
<1> DEFINE j == job[t]
           cur == TopicHead(j.ref)
           go == [pc |-> "put", ref |-> j.ref, cand |-> j.cand, cur |-> cur]
<1>1. /\ j.pc = "head" /\ j.ref \in Refs
      /\ j = [pc |-> j.pc, ref |-> j.ref, cand |-> j.cand, cur |-> j.cur]
  BY DEF IInv, PublishInv, ReadHead, Idle
<1>2. \/ job' = [job EXCEPT ![t] = go] /\ Verdict(go.cur, go.cand) = "CAS_OK"
      \/ job' = [job EXCEPT ![t] = Idle]
  BY DEF ReadHead, Step
<1>3. objs' = objs /\ head' = head
  BY DEF ReadHead
<1> HIDE DEF j, cur
<1> QED  BY <1>1, <1>2, <1>3 DEF IInv, PublishInv, HeadStored, Idle

\* Storing the record keeps the others.
LEMMA PutRecordKeeps ==
    ASSUME IInv, NEW t \in Threads, PutRecord(t)
    PROVE  IInv'
BY DEF IInv, PublishInv, HeadStored, PutRecord, Step, Idle

\* A failed put or commit leaves the refs alone.
LEMMA FailKeeps ==
    ASSUME IInv, NEW t \in Threads, PutFail(t) \/ CommitFail(t)
    PROVE  IInv'
BY DEF IInv, PublishInv, HeadStored, PutFail, CommitFail, Step, Idle

\* The ref moves to a record that is stored.
LEMMA CommitKeeps ==
    ASSUME IInv, NEW t \in Threads, Commit(t)
    PROVE  IInv'
BY DEF IInv, PublishInv, HeadStored, Commit, Step, Idle

\* gc takes no head and nothing that is about to become one.
LEMMA ForgetKeeps ==
    ASSUME IInv, NEW a \in objs, Forget(a)
    PROVE  IInv'
BY DEF IInv, PublishInv, HeadStored, Forget, Idle

\* Every step of Topic keeps the invariant.
LEMMA Inductive ==
    IInv /\ [Next]_vars => IInv'
<1> SUFFICES ASSUME IInv, [Next]_vars PROVE IInv'
  OBVIOUS
<1>1. CASE UNCHANGED vars
  BY <1>1 DEF IInv, PublishInv, HeadStored, vars
<1>2. ASSUME NEW k \in Keys \ Home, NEW x \in Roots, SignElsewhere(k, x) PROVE IInv'
  BY <1>2 DEF IInv, PublishInv, HeadStored, SignElsewhere
<1>3. ASSUME NEW t \in Threads, NEW r \in Refs, NEW a \in Known, Relay(t, r, a) PROVE IInv'
  BY <1>3, PublishesKeeps DEF Relay
<1>4. ASSUME NEW t \in Threads, NEW r \in Refs, NEW k \in Home, NEW x \in Roots,
             SignNext(t, r, k, x)
      PROVE  IInv'
  BY <1>4, SignNextKeeps
<1>5. ASSUME NEW t \in Threads,
             ReadHead(t) \/ PutRecord(t) \/ PutFail(t) \/ Commit(t) \/ CommitFail(t)
      PROVE  IInv'
  BY <1>5, ReadHeadKeeps, PutRecordKeeps, FailKeeps, CommitKeeps
<1>6. ASSUME NEW a \in objs, Forget(a) PROVE IInv'
  BY <1>6, ForgetKeeps
<1> QED  BY <1>1, <1>2, <1>3, <1>4, <1>5, <1>6 DEF Next

\* An empty depot satisfies it.
LEMMA Initially == Init => IInv
BY DEF Init, IInv, PublishInv, HeadStored, Idle

\* The two invariants of cas_topic_publish.
THEOREM PublishKeepsItsOrder == Spec => []PublishInv
<1>1. IInv => PublishInv
  BY DEF IInv
<1> QED  BY <1>1, Initially, Inductive, PTL DEF Spec

\* A ref never names a record the depot does not have: cas_topic_publish
\* stores the record before it moves the ref, and gc keeps the heads.
THEOREM HeadIsStored == Spec => []HeadStored
<1>1. IInv => HeadStored
  BY DEF IInv
<1> QED  BY <1>1, Initially, Inductive, PTL DEF Spec

-----------------------------------------------------------------------------
\* Only a commit moves a head, and it ends the publish of its own thread.
LEMMA OnlyCommitMoves ==
    ASSUME IInv, [Next]_vars, NEW t \in Threads, NEW r \in Refs,
           job[t].pc = "commit", job'[t].pc = "idle", head'[r] # head[r]
    PROVE  Commit(t) /\ r = job[t].ref
<1>1. ~ UNCHANGED head
  OBVIOUS
<1>2. PICK u \in Threads : Commit(u)
  BY <1>1 DEF Next, vars, SignElsewhere, Relay, SignNext, Publishes, ReadHead, PutRecord,
              PutFail, CommitFail, Forget
<1>3. u = t
  BY <1>2 DEF Commit, Step, IInv
<1> QED  BY <1>2, <1>3 DEF Commit, IInv, PublishInv, Idle

\* The check of cas_vrec_succeeds lets only the immediate successor through.
LEMMA Successor ==
    ASSUME NEW a, NEW b, a # None, Verdict(a, b) = "CAS_OK"
    PROVE  Follows(a, b)
BY DEF Verdict, Follows

\* A step moves a head no one else has moved only to its successor.
LEMMA FreshStep ==
    IInv /\ [Next]_vars =>
        [\A t \in Threads, r \in Refs :
            /\ job[t].pc = "commit" /\ job'[t].pc = "idle"
            /\ head[r] # None /\ head'[r] # head[r] /\ job[t].cur = head[r]
            => Follows(head[r], head'[r])]_vars
<1> SUFFICES ASSUME IInv, [Next]_vars, NEW t \in Threads, NEW r \in Refs,
                    job[t].pc = "commit", job'[t].pc = "idle",
                    head[r] # None, head'[r] # head[r], job[t].cur = head[r]
             PROVE  Follows(head[r], head'[r])
  OBVIOUS
<1>1. Commit(t) /\ r = job[t].ref
  BY OnlyCommitMoves
<1>2. head'[r] = job[t].cand
  BY <1>1 DEF Commit, IInv
<1>3. Verdict(job[t].cur, job[t].cand) = "CAS_OK"
  BY DEF IInv, PublishInv, Idle
<1> QED  BY <1>2, <1>3, Successor

\* Unless another publish has moved the head in between, a publish moves it
\* to the immediate successor, whatever is repeated, reordered or lost.
THEOREM FreshPublishAdvances == Spec => FreshAdvances
BY Initially, Inductive, FreshStep, PTL DEF Spec, FreshAdvances

-----------------------------------------------------------------------------
(* The records.  Records is a recursive function: that there is one is an  *)
(* induction, what it contains follows.                                    *)

\* The records number m, made from the set of those before.
RecordsAfter(m, S) ==
    IF m = 1 THEN {Record(k, 1, x, None) : k \in Keys, x \in Roots}
    ELSE {Record(p.topic, m, x, p) : p \in S, x \in Roots}

\* f has the records up to number n.
IsRecords(f, n) == f = [m \in 1..n |-> RecordsAfter(m, f[m - 1])]

LEMMA RecordsExist == \A n \in Nat : \E f : IsRecords(f, n)
<1> DEFINE G == {n \in Nat : \E f : IsRecords(f, n)}
<1>1. 0 \in G
  <2> DEFINE f == [m \in 1..0 |-> {}]
  <2>1. f = [m \in 1..0 |-> RecordsAfter(m, f[m - 1])]
    BY Z3
  <2>2. IsRecords(f, 0)
    BY <2>1 DEF IsRecords
  <2>3. QED
    BY <2>2
<1>2. ASSUME NEW n \in Nat, n \in G PROVE n + 1 \in G
  <2>1. PICK f : IsRecords(f, n)
    BY <1>2
  <2> DEFINE g == [m \in 1..(n + 1) |-> IF m <= n THEN f[m] ELSE RecordsAfter(m, f[m - 1])]
  <2>2. \A m \in 1..n : f[m] = RecordsAfter(m, f[m - 1])
    BY <2>1 DEF IsRecords
  <2>3. ASSUME NEW m \in 1..(n + 1) PROVE g[m] = RecordsAfter(m, g[m - 1])
    <3>1. g[m] = RecordsAfter(m, f[m - 1])
      BY <2>2
    <3>2. CASE m = 1
      BY <3>1, <3>2 DEF RecordsAfter
    <3>3. CASE m # 1
      BY <3>1, <3>3
    <3>4. QED
      BY <3>2, <3>3
  <2>4. g = [m \in 1..(n + 1) |-> RecordsAfter(m, g[m - 1])]
    BY <2>3
  <2>5. IsRecords(g, n + 1)
    BY <2>4 DEF IsRecords
  <2> HIDE DEF g
  <2>6. QED
    BY <2>5
<1> HIDE DEF G
<1>3. \A n \in Nat : n \in G
  BY <1>1, <1>2, NatSetInduction
<1>4. QED
  BY <1>3 DEF G

LEMMA RecordsDef == IsRecords(Records, MaxSeq)
<1>1. \E f : IsRecords(f, MaxSeq)
  BY RecordsExist, TopicAssumption
<1>2. IsRecords(CHOOSE f : IsRecords(f, MaxSeq), MaxSeq)
  BY <1>1, Zenon
<1>3. Records = CHOOSE f : IsRecords(f, MaxSeq)
  BY DEF Records, IsRecords, RecordsAfter
<1>4. QED
  BY <1>2, <1>3, Zenon

\* A record names the topic of its predecessor and the next number; the
\* first has none.
LEMMA FirstRecord ==
    /\ 1 \in 1..MaxSeq
    /\ \A a \in Records[1] : a.seq = 1 /\ a.prev = None /\ a.topic \in Keys
    /\ \A k \in Keys, x \in Roots : Record(k, 1, x, None) \in Records[1]
<1>1. 1 \in 1..MaxSeq
  BY TopicAssumption
<1>2. Records[1] = {Record(k, 1, x, None) : k \in Keys, x \in Roots}
  <2>1. Records[1] = RecordsAfter(1, Records[1 - 1])
    BY <1>1, RecordsDef DEF IsRecords
  <2>2. QED
    BY <2>1 DEF RecordsAfter
<1>3. QED
  BY <1>1, <1>2 DEF Record

LEMMA LaterRecord ==
    ASSUME NEW n \in 1..MaxSeq, n # 1
    PROVE  /\ n - 1 \in 1..MaxSeq
           /\ \A a \in Records[n] : /\ a.seq = n /\ a.prev \in Records[n - 1]
                                    /\ a.prev.topic = a.topic
           /\ \A p \in Records[n - 1], x \in Roots : Record(p.topic, n, x, p) \in Records[n]
<1>1. n - 1 \in 1..MaxSeq
  BY TopicAssumption
<1>2. Records[n] = {Record(p.topic, n, x, p) : p \in Records[n - 1], x \in Roots}
  <2>1. Records[n] = RecordsAfter(n, Records[n - 1])
    BY RecordsDef DEF IsRecords
  <2>2. QED
    BY <2>1 DEF RecordsAfter
<1>3. QED
  BY <1>1, <1>2 DEF Record

\* Every signed record has a topic, and None is no record.
LEMMA RecordTopic ==
    ASSUME NEW n \in 1..MaxSeq, NEW a \in Records[n]
    PROVE  a.seq = n /\ a.topic \in Keys /\ a # None /\ a \in Signed
<1> DEFINE G == {m \in Nat : m + 1 \in 1..MaxSeq => \A b \in Records[m + 1] : b.topic \in Keys}
<1>1. 0 \in G
  BY FirstRecord
<1>2. ASSUME NEW m \in Nat, m \in G PROVE m + 1 \in G
  <2>1. PICK j : j = (m + 1) + 1 /\ j # 1 /\ j - 1 = m + 1
    OBVIOUS
  <2>2. SUFFICES ASSUME j \in 1..MaxSeq, NEW b \in Records[j]
                 PROVE  b.topic \in Keys
    BY <2>1
  <2>3. j - 1 \in 1..MaxSeq /\ b.prev \in Records[j - 1] /\ b.prev.topic = b.topic
    BY <2>1, <2>2, LaterRecord
  <2>4. QED
    BY <1>2, <2>1, <2>3
<1> HIDE DEF G
<1>3. \A m \in Nat : m \in G
  BY <1>1, <1>2, NatSetInduction
<1>4. n - 1 \in Nat /\ (n - 1) + 1 = n
  BY TopicAssumption
<1>5. a.topic \in Keys
  <2>1. n - 1 \in G
    BY <1>3, <1>4
  <2>2. QED
    BY <1>4, <2>1 DEF G
<1>6. a.seq = n
  BY FirstRecord, LaterRecord
<1>7. a \in Signed
  BY DEF Signed
<1>8. QED
  BY <1>5, <1>6, <1>7, NoneAssumption

-----------------------------------------------------------------------------
(* What is stored is signed.                                               *)

\* castool publish signs the successor of whatever head it finds; if that is
\* of another topic, the record is none of a chain, and the check refuses it.
Misplaced(j) ==
    /\ j.pc = "head" /\ head[j.ref] # None
    /\ j.cand.prev # None /\ j.cand.prev.topic # j.cand.topic

\* The chains signed elsewhere are chains; whatever is stored or past the
\* check of a publish is a signed record.
RecordInv ==
    /\ chain \in [Keys \ Home -> Seq(Signed)]
    /\ \A k \in Keys \ Home : Len(chain[k]) <= MaxSeq
    /\ \A k \in Keys \ Home : \A i \in DOMAIN chain[k] :
          chain[k][i] \in Records[i] /\ chain[k][i].topic = k
    /\ objs \subseteq Signed
    /\ \A t \in Threads : job[t] # Idle => job[t].cand \in Signed \/ Misplaced(job[t])

LEMMA SignedNumber ==
    ASSUME NEW a \in Signed
    PROVE  a.seq \in 1..MaxSeq /\ a \in Records[a.seq] /\ a.topic \in Keys /\ a # None
BY RecordTopic DEF Signed

\* The head there is: a signed record, or None, and then the ref has none.
LEMMA HeadSigned ==
    ASSUME IInv, RecordInv, NEW r \in Refs
    PROVE  \/ TopicHead(r) = None /\ head[r] = None
           \/ TopicHead(r) = head[r] /\ head[r] # None /\ head[r] \in Signed
BY SignedNumber DEF IInv, HeadStored, RecordInv, TopicHead

LEMMA PublishesSigned ==
    ASSUME IInv, RecordInv, NEW t \in Threads, NEW r \in Refs, NEW cand,
           Publishes(t, r, cand),
           \/ cand \in Signed
           \/ head[r] # None /\ cand.prev # None /\ cand.prev.topic # cand.topic
    PROVE  RecordInv'
<1>1. /\ job' = [job EXCEPT ![t] = [pc |-> "head", ref |-> r, cand |-> cand, cur |-> None]]
      /\ chain' = chain /\ objs' = objs /\ head' = head
  BY DEF Publishes, Step
<1>2. ASSUME NEW u \in Threads, job'[u] # Idle
      PROVE  job'[u].cand \in Signed \/ Misplaced(job[u])'
  <2>1. CASE u = t
    <3>1. job'[u] = [pc |-> "head", ref |-> r, cand |-> cand, cur |-> None]
      BY <1>1, <2>1 DEF IInv
    <3>2. QED
      BY <1>1, <3>1 DEF Misplaced
  <2>2. CASE u # t
    BY <1>1, <1>2, <2>2 DEF IInv, RecordInv, Misplaced
  <2>3. QED
    BY <2>1, <2>2
<1>3. QED
  BY <1>1, <1>2 DEF RecordInv

\* The holder of a key elsewhere goes on with its own chain.
LEMMA SignElsewhereSigned ==
    ASSUME RecordInv, NEW k \in Keys \ Home, NEW x \in Roots, SignElsewhere(k, x)
    PROVE  RecordInv'
<1> DEFINE c == chain[k]
           a == Record(k, Len(c) + 1, x, Last(c))
<1>1. c \in Seq(Signed) /\ Len(c) < MaxSeq /\ Len(c) \in Nat /\ DOMAIN c = 1..Len(c)
  BY DEF RecordInv, SignElsewhere
<1>2. a \in Records[Len(c) + 1] /\ Len(c) + 1 \in 1..MaxSeq
  <2>1. Len(c) + 1 \in 1..MaxSeq
    BY <1>1, TopicAssumption
  <2>2. CASE c = <<>>
    <3>1. a = Record(k, 1, x, None) /\ Len(c) + 1 = 1
      BY <2>2 DEF Last
    <3>2. QED
      BY <2>1, <3>1, FirstRecord, Zenon
  <2>3. CASE c # <<>>
    <3>1. Len(c) \in 1..Len(c) /\ Len(c) # 0
      BY <1>1, <2>3
    <3>2. c[Len(c)] \in Records[Len(c)] /\ c[Len(c)].topic = k /\ Last(c) = c[Len(c)]
      BY <1>1, <2>3, <3>1 DEF RecordInv, Last
    <3>3. PICK n \in 1..MaxSeq : n = Len(c) + 1 /\ n # 1 /\ n - 1 = Len(c)
      BY <1>1, <2>1, <3>1
    <3>4. Record(c[Len(c)].topic, n, x, c[Len(c)]) \in Records[n]
      BY <3>2, <3>3, LaterRecord
    <3>5. QED
      BY <2>1, <3>2, <3>3, <3>4
  <2>4. QED
    BY <2>1, <2>2, <2>3
<1>3. a.topic = k /\ a \in Signed
  BY <1>2, RecordTopic DEF Record
<1>4. chain' = [chain EXCEPT ![k] = Append(c, a)] /\ UNCHANGED <<objs, head, job>>
  BY DEF SignElsewhere
<1> HIDE DEF a
<1>5. ASSUME NEW q \in Keys \ Home
      PROVE  /\ chain'[q] \in Seq(Signed) /\ Len(chain'[q]) <= MaxSeq
             /\ \A i \in DOMAIN chain'[q] : chain'[q][i] \in Records[i] /\ chain'[q][i].topic = q
  <2>1. CASE q = k
    <3>1. chain'[q] = Append(c, a)
      BY <1>4, <2>1 DEF RecordInv
    <3>2. \A i \in 1..Len(c) : c[i] \in Records[i] /\ c[i].topic = k
      BY <1>1 DEF RecordInv
    <3> HIDE DEF c
    <3>3. QED
      BY <1>1, <1>2, <1>3, <2>1, <3>1, <3>2
  <2>2. CASE q # k
    <3>1. chain'[q] = chain[q]
      BY <1>4, <2>2 DEF RecordInv
    <3>2. QED
      BY <3>1 DEF RecordInv
  <2>3. QED
    BY <2>1, <2>2
<1>6. chain' \in [Keys \ Home -> Seq(Signed)]
  BY <1>4, <1>5 DEF RecordInv
<1>7. QED
  BY <1>4, <1>5, <1>6 DEF RecordInv, Misplaced

\* castool publish.
LEMMA SignNextSigned ==
    ASSUME IInv, RecordInv, NEW t \in Threads, NEW r \in Refs, NEW k \in Home, NEW x \in Roots,
           SignNext(t, r, k, x)
    PROVE  RecordInv'
<1> DEFINE h == TopicHead(r)
<1>1. k \in Keys
  BY TopicAssumption
<1>2. CASE h = None
  <2>1. Publishes(t, r, Record(k, 1, x, None))
    BY <1>2 DEF SignNext
  <2>2. Record(k, 1, x, None) \in Signed
    BY <1>1, FirstRecord, RecordTopic
  <2>3. QED
    BY <2>1, <2>2, PublishesSigned
<1>3. CASE h # None
  <2>1. h.seq < MaxSeq /\ Publishes(t, r, Record(k, h.seq + 1, x, h))
    BY <1>3 DEF SignNext
  <2>2. h = head[r] /\ h \in Signed /\ h.seq \in 1..MaxSeq /\ h \in Records[h.seq]
    BY <1>3, HeadSigned, SignedNumber
  <2> HIDE DEF h
  <2>3. CASE h.topic = k
    <3>1. PICK n \in 1..MaxSeq : n = h.seq + 1 /\ n # 1 /\ n - 1 = h.seq
      BY <2>1, <2>2, TopicAssumption
    <3>2. Record(h.topic, n, x, h) \in Records[n]
      BY <2>2, <3>1, LaterRecord
    <3>3. Record(k, h.seq + 1, x, h) \in Signed
      BY <2>3, <3>1, <3>2, RecordTopic
    <3>4. QED
      BY <2>1, <3>3, PublishesSigned
  <2>4. CASE h.topic # k
    <3>1. PICK c : c = Record(k, h.seq + 1, x, h)
      OBVIOUS
    <3>2. c.prev = h /\ c.topic = k
      BY <3>1 DEF Record
    <3>3. QED
      BY <1>3, <2>1, <2>2, <2>4, <3>1, <3>2, PublishesSigned
  <2>5. QED
    BY <2>3, <2>4
<1>4. QED
  BY <1>2, <1>3

\* The check refuses a record that continues another topic.
LEMMA ReadHeadSigned ==
    ASSUME IInv, RecordInv, NEW t \in Threads, ReadHead(t)
    PROVE  RecordInv'
<1> DEFINE j == job[t]
           cur == TopicHead(j.ref)
           go == [pc |-> "put", ref |-> j.ref, cand |-> j.cand, cur |-> cur]
<1>1. j # Idle /\ j.pc = "head" /\ j.ref \in Refs
  BY DEF IInv, PublishInv, ReadHead, Idle
<1>2. \/ job' = [job EXCEPT ![t] = go] /\ Verdict(cur, j.cand) = "CAS_OK"
      \/ job' = [job EXCEPT ![t] = Idle]
  BY DEF ReadHead, Step
<1>3. objs' = objs /\ head' = head /\ chain' = chain
  BY DEF ReadHead
<1>4. Verdict(cur, j.cand) = "CAS_OK" => j.cand \in Signed
  <2>1. SUFFICES ASSUME Verdict(cur, j.cand) = "CAS_OK", Misplaced(j) PROVE FALSE
    BY <1>1 DEF RecordInv
  <2>2. cur # None
    BY <1>1, <2>1, HeadSigned DEF Misplaced
  <2>3. Follows(cur, j.cand)
    BY <2>1, <2>2, Successor
  <2>4. QED
    BY <2>1, <2>3 DEF Misplaced, Follows
<1> HIDE DEF j, cur
<1>5. ASSUME NEW u \in Threads, job'[u] # Idle
      PROVE  job'[u].cand \in Signed \/ Misplaced(job[u])'
  <2>1. CASE u = t
    BY <1>2, <1>4, <1>5, <2>1 DEF IInv
  <2>2. CASE u # t
    BY <1>2, <1>3, <1>5, <2>2 DEF IInv, RecordInv, Misplaced
  <2>3. QED
    BY <2>1, <2>2
<1>6. QED
  BY <1>3, <1>5 DEF RecordInv

\* Past the check a thread stores and commits what it holds.
LEMMA PastCheckSigned ==
    ASSUME IInv, RecordInv, NEW t \in Threads,
           PutRecord(t) \/ PutFail(t) \/ Commit(t) \/ CommitFail(t)
    PROVE  RecordInv'
<1> DEFINE j == job[t]
<1>1. j # Idle /\ j.pc \in {"put", "commit"} /\ j.cand \in Signed /\ j.ref \in Refs
  BY DEF IInv, PublishInv, RecordInv, Misplaced, PutRecord, PutFail, Commit, CommitFail, Idle
<1>2. /\ chain' = chain /\ objs' \subseteq objs \cup {j.cand}
      /\ head' = head \/ head' = [head EXCEPT ![j.ref] = j.cand]
      /\ job' = [job EXCEPT ![t] = Idle] \/ job' = [job EXCEPT ![t] = [j EXCEPT !.pc = "commit"]]
  BY DEF PutRecord, PutFail, Commit, CommitFail, Step
<1>3. j.cand # None
  BY <1>1, SignedNumber
<1>4. \A r \in Refs : head[r] # None => head'[r] # None
  BY <1>2, <1>3 DEF IInv
<1>5. j = [pc |-> j.pc, ref |-> j.ref, cand |-> j.cand, cur |-> j.cur]
  BY <1>1 DEF IInv, PublishInv
<1>6. ASSUME NEW u \in Threads, job'[u] # Idle
      PROVE  job'[u].cand \in Signed \/ Misplaced(job[u])'
  <2>1. CASE u = t
    <3>1. job'[u] = [j EXCEPT !.pc = "commit"]
      BY <1>2, <1>6, <2>1 DEF IInv
    <3>2. job'[u].cand = j.cand
      BY <1>5, <3>1
    <3>3. QED
      BY <1>1, <3>2
  <2>2. CASE u # t
    <3>1. job'[u] = job[u]
      BY <1>2, <2>2 DEF IInv
    <3>2. job[u].ref \in Refs
      BY <1>6, <3>1 DEF IInv, PublishInv
    <3>3. QED
      BY <1>4, <1>6, <3>1, <3>2 DEF RecordInv, Misplaced
  <2>3. QED
    BY <2>1, <2>2
<1>7. QED
  BY <1>1, <1>2, <1>6 DEF RecordInv

LEMMA RecordStep ==
    IInv /\ RecordInv /\ [Next]_vars => RecordInv'
<1> SUFFICES ASSUME IInv, RecordInv, [Next]_vars PROVE RecordInv'
  OBVIOUS
<1>1. CASE UNCHANGED vars
  BY <1>1 DEF RecordInv, Misplaced, vars
<1>2. ASSUME NEW k \in Keys \ Home, NEW x \in Roots, SignElsewhere(k, x) PROVE RecordInv'
  BY <1>2, SignElsewhereSigned
<1>3. ASSUME NEW t \in Threads, NEW r \in Refs, NEW a \in Known, Relay(t, r, a) PROVE RecordInv'
  <2>1. a \in Signed
    <3>1. \A k \in DOMAIN chain : \A i \in DOMAIN chain[k] : chain[k][i] \in Signed
      BY DEF RecordInv
    <3>2. QED
      BY <3>1 DEF Known, RecordInv
  <2>2. QED
    BY <1>3, <2>1, PublishesSigned DEF Relay
<1>4. ASSUME NEW t \in Threads, NEW r \in Refs, NEW k \in Home, NEW x \in Roots,
             SignNext(t, r, k, x)
      PROVE  RecordInv'
  BY <1>4, SignNextSigned
<1>5. ASSUME NEW t \in Threads,
             ReadHead(t) \/ PutRecord(t) \/ PutFail(t) \/ Commit(t) \/ CommitFail(t)
      PROVE  RecordInv'
  BY <1>5, ReadHeadSigned, PastCheckSigned
<1>6. ASSUME NEW a \in objs, Forget(a) PROVE RecordInv'
  BY <1>6 DEF Forget, RecordInv, Misplaced
<1> QED  BY <1>1, <1>2, <1>3, <1>4, <1>5, <1>6 DEF Next

LEMMA RecordsAlways == Spec => [](IInv /\ RecordInv)
<1>1. Init => RecordInv
  <2> SUFFICES ASSUME Init PROVE RecordInv
    OBVIOUS
  <2>1. \A k \in Keys \ Home : chain[k] = <<>>
    BY DEF Init
  <2>2. <<>> \in Seq(Signed) /\ Len(<<>>) <= MaxSeq /\ DOMAIN <<>> = {}
    BY TopicAssumption
  <2>3. chain \in [Keys \ Home -> Seq(Signed)]
    BY <2>2 DEF Init
  <2>4. QED
    BY <2>1, <2>2, <2>3, TopicAssumption DEF Init, RecordInv
<1> QED  BY <1>1, Initially, Inductive, RecordStep, PTL DEF Spec

-----------------------------------------------------------------------------
(* The walk.  A record has one line of ancestors; Chain and Walk are       *)
(* prefixes of it.                                                         *)

\* s is a and its ancestors, newest first.
IsLine(s, a) ==
    /\ s \in Seq(Signed) /\ Len(s) = a.seq /\ s[1] = a
    /\ \A i \in 1..Len(s) : s[i].seq = a.seq - i + 1
    /\ \A i \in 1..(Len(s) - 1) : s[i].prev = s[i + 1]
    /\ \A i \in 1..Len(s) : s[i].prev = None <=> i = Len(s)
    /\ \A i \in 1..Len(s) : s[i].topic = a.topic

LEMMA LineExists ==
    ASSUME NEW a \in Signed
    PROVE  \E s : IsLine(s, a)
<1> DEFINE G == {m \in Nat : m + 1 \in 1..MaxSeq => \A b \in Records[m + 1] : \E s : IsLine(s, b)}
<1>1. 0 \in G
  <2>1. SUFFICES ASSUME NEW b \in Records[1] PROVE \E s : IsLine(s, b)
    OBVIOUS
  <2>2. b.seq = 1 /\ b.prev = None /\ b \in Signed
    BY FirstRecord, RecordTopic
  <2>3. IsLine(<<b>>, b)
    BY <2>2 DEF IsLine
  <2>4. QED
    BY <2>3
<1>2. ASSUME NEW m \in Nat, m \in G PROVE m + 1 \in G
  <2>1. PICK j : j = (m + 1) + 1 /\ j # 1 /\ j - 1 = m + 1
    OBVIOUS
  <2>2. SUFFICES ASSUME j \in 1..MaxSeq, NEW b \in Records[j]
                 PROVE  \E s : IsLine(s, b)
    BY <2>1
  <2>3. /\ j - 1 \in 1..MaxSeq /\ b.prev \in Records[j - 1] /\ b.prev.topic = b.topic
        /\ b.seq = j /\ b \in Signed /\ b.prev.seq = j - 1 /\ b.prev # None
    BY <2>1, <2>2, LaterRecord, RecordTopic
  <2>4. PICK s : IsLine(s, b.prev)
    BY <1>2, <2>1, <2>3
  <2>5. PICK u : u = <<b>> \o s
    OBVIOUS
  <2>6. /\ u \in Seq(Signed) /\ Len(u) = j /\ Len(s) = j - 1 /\ u[1] = b
        /\ \A i \in 2..j : u[i] = s[i - 1]
    BY <2>1, <2>3, <2>4, <2>5 DEF IsLine
  <2>7. IsLine(u, b)
    <3>1. ASSUME NEW i \in 1..j
          PROVE  /\ u[i].seq = j - i + 1 /\ u[i].topic = b.topic
                 /\ u[i].prev = None <=> i = j
                 /\ i # j => u[i].prev = u[i + 1]
      <4>1. CASE i = 1
        BY <2>1, <2>3, <2>4, <2>6, <4>1 DEF IsLine
      <4>2. CASE i # 1
        <5>1. i - 1 \in 1..Len(s) /\ u[i] = s[i - 1]
          BY <2>1, <2>6, <4>2
        <5>2. i # j => i + 1 \in 2..j /\ u[i + 1] = s[(i - 1) + 1] /\ i - 1 \in 1..(Len(s) - 1)
          BY <2>1, <2>6, <4>2
        <5>3. QED
          BY <2>1, <2>3, <2>4, <2>6, <5>1, <5>2 DEF IsLine
      <4>3. QED
        BY <4>1, <4>2
    <3>2. QED
      BY <2>3, <2>6, <3>1 DEF IsLine
  <2>8. QED
    BY <2>7
<1> HIDE DEF G
<1>3. \A m \in Nat : m \in G
  BY <1>1, <1>2, NatSetInduction
<1>4. a.seq \in 1..MaxSeq /\ a \in Records[a.seq] /\ a.seq - 1 \in Nat /\ (a.seq - 1) + 1 = a.seq
  BY SignedNumber, TopicAssumption
<1>5. a.seq - 1 \in G
  BY <1>3, <1>4
<1>6. QED
  BY <1>4, <1>5 DEF G

\* The first n records of a line.
Prefix(s, n) == SubSeq(s, 1, n)

LEMMA PrefixGrows ==
    ASSUME NEW S, NEW s \in Seq(S), NEW n \in 1..Len(s)
    PROVE  /\ Prefix(s, n) \in Seq(S) /\ Len(Prefix(s, n)) = n
           /\ \A i \in 1..n : Prefix(s, n)[i] = s[i]
           /\ Last(Prefix(s, n)) = s[n]
           /\ Prefix(s, 1) = <<s[1]>>
           /\ n < Len(s) => Append(Prefix(s, n), s[n + 1]) = Prefix(s, n + 1)
<1>1. /\ Prefix(s, n) \in Seq(S) /\ Len(Prefix(s, n)) = n
      /\ \A i \in 1..n : Prefix(s, n)[i] = s[i]
  BY DEF Prefix
<1>2. Last(Prefix(s, n)) = s[n]
  BY <1>1 DEF Last
<1>3. Prefix(s, 1) = <<s[1]>>
  <2>1. Prefix(s, 1) \in Seq(S) /\ Len(Prefix(s, 1)) = 1 /\ Prefix(s, 1)[1] = s[1]
    BY DEF Prefix
  <2>2. QED
    BY <2>1
<1>4. n < Len(s) => Append(Prefix(s, n), s[n + 1]) = Prefix(s, n + 1)
  BY DEF Prefix
<1>5. QED
  BY <1>1, <1>2, <1>3, <1>4

\* A walk down to stop ends with the e-th record of the line: the first whose
\* number is at most stop, or the oldest.
EndsAt(s, stop, e) ==
    /\ e \in 1..Len(s)
    /\ s[e].seq <= stop \/ e = Len(s)
    /\ \A i \in 1..Len(s) : i < e => s[i].seq > stop

LEMMA EndExists ==
    ASSUME NEW a \in Signed, NEW s, IsLine(s, a), NEW stop \in Nat
    PROVE  \E e : EndsAt(s, stop, e)
<1> DEFINE E == {i \in 1..Len(s) : s[i].seq <= stop \/ i = Len(s)}
<1>1. Len(s) \in Nat \ {0} /\ \A i \in 1..Len(s) : s[i].seq \in Int
  BY SignedNumber, TopicAssumption DEF IsLine
<1>2. Len(s) \in E /\ E \in SUBSET Nat
  BY <1>1
<1>3. PICK e \in E : \A i \in E : e <= i
  BY <1>2, LeastNatural
<1>4. QED
  BY <1>1, <1>3 DEF EndsAt

\* Above its end the line goes on.
LEMMA LineGoesOn ==
    ASSUME NEW a \in Signed, NEW s, IsLine(s, a), NEW stop \in Nat, NEW e, EndsAt(s, stop, e),
           NEW n \in 1..Len(s), n < e
    PROVE  /\ s[n].seq \in Int /\ ~ (s[n].seq <= stop) /\ s[n].prev # None
           /\ s[n].prev = s[n + 1]
           /\ s[n + 1].topic = s[n].topic /\ s[n + 1].seq + 1 = s[n].seq
<1>1. a.seq \in Nat /\ Len(s) = a.seq /\ e \in 1..Len(s)
  BY SignedNumber, TopicAssumption DEF IsLine, EndsAt
<1>2. n # Len(s) /\ n \in 1..(Len(s) - 1) /\ n + 1 \in 1..Len(s)
  BY <1>1
<1>3. s[n].seq = a.seq - n + 1 /\ s[n + 1].seq = a.seq - (n + 1) + 1
  BY <1>2 DEF IsLine
<1>4. s[n].seq > stop
  BY DEF EndsAt
<1>5. s[n].prev # None /\ s[n].prev = s[n + 1] /\ s[n + 1].topic = s[n].topic
  BY <1>2 DEF IsLine
<1>6. QED
  BY <1>1, <1>3, <1>4, <1>5

\* One turn of the loop that defines Chain.
ChainNext(s, stop) ==
    IF Last(s).seq <= stop \/ Last(s).prev = None THEN s ELSE Append(s, Last(s).prev)

IsUpto(f, a, stop) ==
    f = [n \in 1..MaxSeq |-> IF n = 1 THEN <<a>> ELSE ChainNext(f[n - 1], stop)]

\* Chain is the line down to its end.
LEMMA ChainIsPrefix ==
    ASSUME NEW a \in Signed, NEW s, IsLine(s, a), NEW stop \in Nat, NEW e, EndsAt(s, stop, e)
    PROVE  Chain(a, stop) = Prefix(s, e)
<1> DEFINE g == [n \in 1..MaxSeq |-> IF n < e THEN Prefix(s, n) ELSE Prefix(s, e)]
           f == CHOOSE u : IsUpto(u, a, stop)
<1>1. /\ MaxSeq \in Nat /\ Len(s) \in 1..MaxSeq /\ e \in 1..Len(s) /\ e \in 1..MaxSeq
      /\ s \in Seq(Signed) /\ s[1] = a
  BY SignedNumber, TopicAssumption DEF IsLine, EndsAt
<1>2. ASSUME NEW n \in 1..MaxSeq
      PROVE  g[n] = IF n = 1 THEN <<a>> ELSE ChainNext(g[n - 1], stop)
  <2>1. CASE n = 1
    BY <1>1, <2>1, PrefixGrows
  <2>2. CASE n # 1 /\ n - 1 < e
    <3>1. PICK m \in 1..Len(s) : m = n - 1 /\ m < e /\ m < Len(s) /\ n = m + 1
      BY <1>1, <2>2
    <3>2. /\ g[m] = Prefix(s, m) /\ g[n] = Prefix(s, m + 1)
      <4>1. n = e => Prefix(s, e) = Prefix(s, m + 1)
        BY <3>1
      <4>2. QED
        BY <1>1, <3>1, <4>1
    <3>3. /\ Last(Prefix(s, m)) = s[m]
          /\ Append(Prefix(s, m), s[m + 1]) = Prefix(s, m + 1)
      BY <1>1, <3>1, PrefixGrows
    <3>4. ~ (s[m].seq <= stop) /\ s[m].prev # None /\ s[m].prev = s[m + 1]
      BY <1>1, <3>1, LineGoesOn
    <3>5. ChainNext(Prefix(s, m), stop) = Prefix(s, m + 1)
      BY <3>3, <3>4 DEF ChainNext
    <3>6. QED
      BY <2>2, <3>1, <3>2, <3>5
  <2>3. CASE n # 1 /\ ~ (n - 1 < e)
    <3>1. g[n] = Prefix(s, e) /\ g[n - 1] = Prefix(s, e)
      BY <1>1, <2>3
    <3>2. Last(Prefix(s, e)) = s[e]
      BY <1>1, PrefixGrows
    <3>3. s[e].seq <= stop \/ s[e].prev = None
      BY <1>1 DEF IsLine, EndsAt
    <3>4. QED
      BY <2>3, <3>1, <3>2, <3>3 DEF ChainNext
  <2>4. QED
    BY <2>1, <2>2, <2>3
<1>3. IsUpto(g, a, stop)
  <2>1. g = [n \in 1..MaxSeq |-> g[n]]
    OBVIOUS
  <2> HIDE DEF g
  <2>2. QED
    BY <1>2, <2>1 DEF IsUpto
<1>4. g[MaxSeq] = Prefix(s, e)
  BY <1>1
<1> HIDE DEF g
<1>5. IsUpto(f, a, stop)
  BY <1>3, Zenon
<1>6. Chain(a, stop) = f[MaxSeq]
  BY DEF Chain, IsUpto, ChainNext
<1> HIDE DEF f
<1> DEFINE G == {n \in Nat : n + 1 \in 1..MaxSeq => f[n + 1] = g[n + 1]}
<1>7. 0 \in G
  BY <1>3, <1>5 DEF IsUpto
<1>8. ASSUME NEW n \in Nat, n \in G PROVE n + 1 \in G
  <2>1. PICK m : m = (n + 1) + 1 /\ m # 1 /\ m - 1 = n + 1
    OBVIOUS
  <2>2. SUFFICES ASSUME m \in 1..MaxSeq PROVE f[m] = g[m]
    BY <2>1
  <2>3. f[m - 1] = g[m - 1]
    BY <1>1, <1>8, <2>1, <2>2
  <2>4. f[m] = ChainNext(f[m - 1], stop) /\ g[m] = ChainNext(g[m - 1], stop)
    BY <1>3, <1>5, <2>1, <2>2 DEF IsUpto
  <2>5. QED
    BY <2>3, <2>4
<1> HIDE DEF G
<1>9. \A n \in Nat : n \in G
  BY <1>7, <1>8, NatSetInduction
<1>10. MaxSeq - 1 \in G /\ (MaxSeq - 1) + 1 = MaxSeq
  BY <1>1, <1>9
<1>11. QED
  BY <1>1, <1>4, <1>6, <1>10 DEF G

-----------------------------------------------------------------------------
\* One turn of cas_vchain_walk.
WalkNext(w, stop) ==
    LET v == Last(w.seen) IN
    IF w.rc # "more" THEN w
    ELSE IF v.seq <= stop \/ v.prev = None THEN [w EXCEPT !.rc = "CAS_OK"]
    ELSE IF v.prev \notin objs THEN [w EXCEPT !.rc = "EINCOMPLETE"]
    ELSE IF v.prev.topic # v.topic THEN [w EXCEPT !.rc = "ETOPIC"]
    ELSE IF v.prev.seq + 1 # v.seq THEN [w EXCEPT !.rc = "ECHAIN"]
    ELSE [w EXCEPT !.seen = Append(@, v.prev)]

WalkStart(a) == IF a \in objs THEN [seen |-> <<a>>, rc |-> "more"]
                ELSE [seen |-> <<>>, rc |-> "ENOTFOUND"]

IsWalk(f, a, stop) ==
    f = [n \in 0..MaxSeq |-> IF n = 0 THEN WalkStart(a) ELSE WalkNext(f[n - 1], stop)]

\* What a turn does to a walk that shows q, by the last record of q.
LEMMA WalkTurn ==
    ASSUME NEW q, NEW stop, NEW v, v = Last(q), NEW w, w = [seen |-> q, rc |-> "more"]
    PROVE  /\ v.seq <= stop \/ v.prev = None => WalkNext(w, stop) = [seen |-> q, rc |-> "CAS_OK"]
           /\ ~ (v.seq <= stop) /\ v.prev # None /\ v.prev \notin objs =>
                 WalkNext(w, stop) = [seen |-> q, rc |-> "EINCOMPLETE"]
           /\ (/\ ~ (v.seq <= stop) /\ v.prev # None /\ v.prev \in objs
               /\ v.prev.topic = v.topic /\ v.prev.seq + 1 = v.seq) =>
                 WalkNext(w, stop) = [seen |-> Append(q, v.prev), rc |-> "more"]
<1>1. Last(w.seen) = v /\ w.rc = "more" /\ w.seen = q
  OBVIOUS
<1>2. /\ [w EXCEPT !.rc = "CAS_OK"] = [seen |-> q, rc |-> "CAS_OK"]
      /\ [w EXCEPT !.rc = "EINCOMPLETE"] = [seen |-> q, rc |-> "EINCOMPLETE"]
      /\ [w EXCEPT !.seen = Append(w.seen, v.prev)] = [seen |-> Append(q, v.prev), rc |-> "more"]
  OBVIOUS
<1>3. ASSUME v.seq <= stop \/ v.prev = None
      PROVE  WalkNext(w, stop) = [w EXCEPT !.rc = "CAS_OK"]
  BY ONLY <1>1, <1>3, Zenon DEF WalkNext
<1>4. ASSUME ~ (v.seq <= stop), v.prev # None, v.prev \notin objs
      PROVE  WalkNext(w, stop) = [w EXCEPT !.rc = "EINCOMPLETE"]
  BY ONLY <1>1, <1>4, Zenon DEF WalkNext
<1>5. ASSUME ~ (v.seq <= stop), v.prev # None, v.prev \in objs, v.prev.topic = v.topic,
             v.prev.seq + 1 = v.seq
      PROVE  WalkNext(w, stop) = [w EXCEPT !.seen = Append(w.seen, v.prev)]
  BY ONLY <1>1, <1>5, Zenon DEF WalkNext
<1>6. QED
  BY ONLY <1>2, <1>3, <1>4, <1>5, Zenon

\* The walk goes over the line to its end, or up to the first record that is
\* not there: to the l-th, and ends with rc.
LEMMA WalkIsPrefix ==
    ASSUME NEW a \in Signed, NEW s, IsLine(s, a), NEW stop \in Nat, NEW e, EndsAt(s, stop, e),
           NEW l \in 1..e, \A i \in 1..l : s[i] \in objs,
           NEW rc, \/ l = e /\ rc = "CAS_OK"
                   \/ l < e /\ s[l + 1] \notin objs /\ rc = "EINCOMPLETE"
    PROVE  Walk(a, stop) = [seen |-> Prefix(s, l), rc |-> rc]
<1> DEFINE last == [seen |-> Prefix(s, l), rc |-> rc]
           at(n) == [seen |-> Prefix(s, n), rc |-> "more"]
           g == [n \in 0..MaxSeq |-> IF n < l THEN at(n + 1) ELSE last]
           f == CHOOSE u : IsWalk(u, a, stop)
<1>1. /\ MaxSeq \in Nat /\ Len(s) \in 1..MaxSeq /\ e \in 1..Len(s) /\ e \in 1..MaxSeq
      /\ s \in Seq(Signed) /\ s[1] = a /\ l \in 1..Len(s) /\ l \in 1..MaxSeq /\ l <= e
  BY SignedNumber, TopicAssumption DEF IsLine, EndsAt
<1>2. ASSUME NEW n \in 0..MaxSeq
      PROVE  g[n] = IF n = 0 THEN WalkStart(a) ELSE WalkNext(g[n - 1], stop)
  <2>1. CASE n = 0
    <3>1. g[0] = at(1)
      BY <1>1
    <3>2. Prefix(s, 1) = <<a>> /\ a \in objs
      BY <1>1, PrefixGrows
    <3>3. QED
      BY <2>1, <3>1, <3>2 DEF WalkStart
  <2>2. CASE n # 0 /\ n < l
    <3>1. n \in 1..Len(s) /\ n < Len(s) /\ n < e /\ n + 1 \in 1..l /\ n + 1 \in 1..Len(s)
      BY <1>1, <2>2
    <3>2. g[n - 1] = at(n) /\ g[n] = at(n + 1)
      BY <1>1, <2>2
    <3>3. Last(Prefix(s, n)) = s[n] /\ Append(Prefix(s, n), s[n + 1]) = Prefix(s, n + 1)
      BY <1>1, <3>1, PrefixGrows
    <3>4. /\ ~ (s[n].seq <= stop) /\ s[n].prev # None /\ s[n].prev = s[n + 1]
          /\ s[n + 1].topic = s[n].topic /\ s[n + 1].seq + 1 = s[n].seq
      BY <1>1, <3>1, LineGoesOn
    <3>5. s[n + 1] \in objs
      BY <3>1
    <3>6. WalkNext(at(n), stop) = at(n + 1)
      <4>1. PICK q : q = Prefix(s, n)
        OBVIOUS
      <4>2. PICK v : /\ v = s[n] /\ v = Last(q) /\ v.prev \in objs
                     /\ Append(q, v.prev) = Prefix(s, n + 1)
        BY <3>3, <3>4, <3>5, <4>1
      <4>3. ~ (v.seq <= stop) /\ v.prev # None /\ v.prev.topic = v.topic /\ v.prev.seq + 1 = v.seq
        BY <3>4, <4>2
      <4>4. WalkNext([seen |-> q, rc |-> "more"], stop)
              = [seen |-> Append(q, v.prev), rc |-> "more"]
        BY <4>2, <4>3, WalkTurn
      <4>5. QED
        BY <4>1, <4>2, <4>4
    <3>7. QED
      BY <2>2, <3>2, <3>6
  <2>3. CASE n # 0 /\ n = l
    <3>1. g[n - 1] = at(l) /\ g[n] = last
      BY <1>1, <2>3
    <3>2. Last(Prefix(s, l)) = s[l]
      BY <1>1, PrefixGrows
    <3>3. CASE l = e /\ rc = "CAS_OK"
      <4>1. s[l].seq <= stop \/ s[l].prev = None
        BY <1>1, <3>3 DEF IsLine, EndsAt
      <4>2. WalkNext(at(l), stop) = last
        BY <3>2, <3>3, <4>1, WalkTurn
      <4>3. QED
        BY <2>3, <3>1, <4>2
    <3>4. CASE l < e /\ s[l + 1] \notin objs /\ rc = "EINCOMPLETE"
      <4>1. ~ (s[l].seq <= stop) /\ s[l].prev # None /\ s[l].prev = s[l + 1]
        BY <1>1, <3>4, LineGoesOn
      <4>2. WalkNext(at(l), stop) = last
        BY <3>2, <3>4, <4>1, WalkTurn
      <4>3. QED
        BY <2>3, <3>1, <4>2
    <3>5. QED
      BY <3>3, <3>4
  <2>4. CASE n # 0 /\ n > l
    <3>1. g[n] = last /\ g[n - 1] = last
      BY <1>1, <2>4
    <3>2. QED
      BY <2>4, <3>1 DEF WalkNext
  <2>5. QED
    BY <1>1, <2>1, <2>2, <2>3, <2>4
<1>3. IsWalk(g, a, stop)
  <2>1. g = [n \in 0..MaxSeq |-> g[n]]
    OBVIOUS
  <2> HIDE DEF g
  <2>2. QED
    BY <1>2, <2>1 DEF IsWalk
<1>4. g[MaxSeq] = last
  BY <1>1
<1> HIDE DEF g, last
<1>5. IsWalk(f, a, stop)
  BY <1>3, Zenon
<1>6. Walk(a, stop) = f[MaxSeq]
  BY DEF Walk, IsWalk, WalkNext, WalkStart
<1> HIDE DEF f
<1> DEFINE G == {n \in Nat : n \in 0..MaxSeq => f[n] = g[n]}
<1>7. 0 \in G
  BY <1>3, <1>5 DEF IsWalk
<1>8. ASSUME NEW n \in Nat, n \in G PROVE n + 1 \in G
  <2>1. PICK m : m = n + 1 /\ m # 0 /\ m - 1 = n
    OBVIOUS
  <2>2. SUFFICES ASSUME m \in 0..MaxSeq PROVE f[m] = g[m]
    BY <2>1
  <2>3. f[m - 1] = g[m - 1]
    BY <1>1, <1>8, <2>1, <2>2
  <2>4. f[m] = WalkNext(f[m - 1], stop) /\ g[m] = WalkNext(g[m - 1], stop)
    BY <1>3, <1>5, <2>1, <2>2 DEF IsWalk
  <2>5. QED
    BY <2>3, <2>4
<1> HIDE DEF G
<1>9. \A n \in Nat : n \in G
  BY <1>7, <1>8, NatSetInduction
<1>10. QED
  BY <1>1, <1>4, <1>6, <1>9 DEF G, last

\* From a head the walk is what WalkExact says.
LEMMA WalkFromHead ==
    ASSUME NEW a \in Signed, a \in objs, NEW stop \in Nat
    PROVE  LET c == Chain(a, stop)
               gaps == {i \in DOMAIN c : c[i] \notin objs}
               w == Walk(a, stop)
           IN IF gaps = {} THEN w = [seen |-> c, rc |-> "CAS_OK"]
              ELSE LET g == CHOOSE i \in gaps : \A k \in gaps : i <= k
                   IN w = [seen |-> SubSeq(c, 1, g - 1), rc |-> "EINCOMPLETE"]
<1>1. PICK s : IsLine(s, a)
  BY LineExists
<1>2. PICK e : EndsAt(s, stop, e)
  BY <1>1, EndExists
<1>3. Chain(a, stop) = Prefix(s, e)
  BY <1>1, <1>2, ChainIsPrefix
<1>4. e \in 1..Len(s) /\ s \in Seq(Signed) /\ s[1] = a
  BY <1>1, <1>2 DEF IsLine, EndsAt
<1> DEFINE c == Prefix(s, e)
           gaps == {i \in DOMAIN c : c[i] \notin objs}
<1>5. c \in Seq(Signed) /\ DOMAIN c = 1..e /\ \A i \in 1..e : c[i] = s[i]
  BY <1>4, PrefixGrows
<1>6. CASE gaps = {}
  <2>1. \A i \in 1..e : s[i] \in objs
    BY <1>5, <1>6
  <2>2. Walk(a, stop) = [seen |-> Prefix(s, e), rc |-> "CAS_OK"]
    BY <1>1, <1>2, <1>4, <2>1, WalkIsPrefix
  <2>3. QED
    BY <1>3, <1>6, <2>2
<1>7. CASE gaps # {}
  <2>1. gaps \in SUBSET Nat
    BY <1>4, <1>5
  <2> DEFINE g == CHOOSE i \in gaps : \A k \in gaps : i <= k
  <2>2. g \in gaps /\ \A k \in gaps : g <= k
    <3> HIDE DEF gaps
    <3>1. \E i \in gaps : \A k \in gaps : i <= k
      BY <1>7, <2>1, LeastNatural
    <3>2. QED
      BY <3>1
  <2> HIDE DEF g
  <2>3. g \in 1..e /\ s[g] \notin objs /\ g # 1
    BY <1>4, <1>5, <2>2
  <2>4. PICK l : l = g - 1 /\ l \in 1..e /\ l < e /\ l + 1 = g
    BY <1>4, <2>3
  <2>5. \A i \in 1..l : s[i] \in objs
    BY <1>4, <1>5, <2>2, <2>4
  <2>6. Walk(a, stop) = [seen |-> Prefix(s, l), rc |-> "EINCOMPLETE"]
    BY <1>1, <1>2, <2>3, <2>4, <2>5, WalkIsPrefix
  <2>7. Prefix(s, l) = SubSeq(c, 1, g - 1)
    BY <1>4, <2>3, <2>4 DEF Prefix
  <2>8. QED
    BY <1>3, <1>7, <2>6, <2>7 DEF g
<1>8. QED
  BY <1>6, <1>7

\* Records are numbered and threads are where cas_topic_publish can be.
LEMMA Typed == IInv /\ RecordInv => TypeOK
<1> SUFFICES ASSUME IInv, RecordInv PROVE TypeOK
  OBVIOUS
<1>1. ASSUME NEW k \in Keys \ Home, NEW i \in DOMAIN chain[k] PROVE chain[k][i].seq = i
  <2>1. i \in 1..MaxSeq /\ chain[k][i] \in Records[i]
    BY TopicAssumption DEF RecordInv
  <2>2. QED
    BY <2>1, RecordTopic
<1>2. \A a \in objs : a.seq \in 1..MaxSeq /\ a.topic \in Keys
  BY SignedNumber DEF RecordInv
<1>3. \A t \in Threads : job[t].pc \in {"idle", "head", "put", "commit"}
  BY DEF IInv, PublishInv, Idle
<1>4. QED
  BY <1>1, <1>2, <1>3 DEF TypeOK

\* From every head cas_vchain_walk shows the chain down to stop_seq, newest
\* first, or the part above the first record the depot lacks, and tells the
\* two apart: for chains of any length, whatever was relayed, refused, lost
\* or collected before.
THEOREM WalkIsExact == Spec => []WalkExact
<1>1. IInv /\ RecordInv => WalkExact
  <2> SUFFICES ASSUME IInv, RecordInv PROVE WalkExact
    OBVIOUS
  <2>1. ASSUME NEW r \in Refs, NEW stop \in 0..MaxSeq, head[r] # None
        PROVE  head[r] \in Signed /\ head[r] \in objs /\ stop \in Nat
    BY <2>1, TopicAssumption DEF IInv, HeadStored, RecordInv
  <2>2. QED
    BY <2>1, WalkFromHead, Typed DEF WalkExact
<1>2. QED
  BY <1>1, RecordsAlways, PTL

=============================================================================
