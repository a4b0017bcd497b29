---------------------------- MODULE FetchProofs ----------------------------
(***************************************************************************)
(* Proofs about Fetch, for every set of objects, every shape of tree and   *)
(* every answer of the origin; and, in the second half, about the          *)
(* directory objects of TreeCodec that a walk reads and verifies, for      *)
(* every set of names, every hash function and every number of buckets.    *)
(***************************************************************************)
EXTENDS Fetch, TreeCodec, FiniteInduction, SequenceTheorems, TLAPS

-----------------------------------------------------------------------------
(* The inductive invariant.                                                *)

Walking == pc \in {"walk", "verify", "load", "unlink"}

\* The object between its rename and the queueing of its children.
Admitting == IF pc \in {"verify", "load", "unlink"} THEN {cur} ELSE {}

\* What was found or fetched and what is still on the stack.
Known == Present \cup ToSet(queue)

\* The object being admitted is there, was not before, and past its check
\* it is genuine.
AdmitOK ==
    /\ Admitting \subseteq Present \ unchecked
    /\ pc = "load" => cur \in Whole

\* Only an import has a bundle, and only a sweep has something to remove.
BundleOK == bundle \in Bundles \cup {NoBundle} /\ (pc # "sweep" => doomed = {})

\* The frontier of a walk that set out soundly: below its root everything
\* found is genuine, and the children of every tree found, but for the one
\* being admitted, were found or are on the stack.
Frontier ==
    (Walking /\ sound) =>
        /\ froot \in Known
        /\ \A h \in Closure(froot) \cap Present :
            /\ h \in Whole \cup InFlight
            /\ h \in Trees \ Admitting => KidSet(h) \subseteq Known

\* A sweep spares every complete root the log names.
Spared == \A r \in logged : Complete(r) => Closure(r) \cap doomed = {}

IInv == TypeOK /\ BundleOK /\ AdmitOK /\ OnlyVerified /\ Frontier /\ Spared

-----------------------------------------------------------------------------
(* Sequences and reachability.                                             *)

\* Popping the stack takes one element off it.
LEMMA PopFacts ==
    ASSUME NEW s \in Seq(Hash), s # <<>>
    PROVE  /\ Last(s) \in Hash /\ Front(s) \in Seq(Hash)
           /\ ToSet(s) \subseteq ToSet(Front(s)) \cup {Last(s)}
<1>1. Len(s) \in Nat \ {0} /\ \A i \in 1..Len(s) : s[i] \in Hash
  OBVIOUS
<1>2. Last(s) \in Hash
  BY <1>1 DEF Last
<1>3. Front(s) \in Seq(Hash) /\ Len(Front(s)) = Len(s) - 1
      /\ \A i \in 1..(Len(s) - 1) : Front(s)[i] = s[i]
  <2>1. 1 \in Int /\ Len(s) - 1 \in Int /\ \A i \in 1..(Len(s) - 1) : s[i] \in Hash
    BY <1>1
  <2>2. /\ Front(s) \in Seq(Hash)
        /\ Len(Front(s)) = IF 1 <= Len(s) - 1 THEN Len(s) - 1 - 1 + 1 ELSE 0
        /\ \A i \in 1..(Len(s) - 1 - 1 + 1) : Front(s)[i] = s[1 + i - 1]
    BY ONLY <2>1, SubSeqProperties DEF Front
  <2>3. \A i \in 1..(Len(s) - 1) : i \in 1..(Len(s) - 1 - 1 + 1) /\ 1 + i - 1 = i
    BY <1>1
  <2>4. Len(Front(s)) = Len(s) - 1
    <3>1. Len(Front(s)) = IF 1 <= Len(s) - 1 THEN Len(s) - 1 - 1 + 1 ELSE 0
      BY <2>2
    <3>2. ASSUME NEW n \in Nat \ {0}
          PROVE  (IF 1 <= n - 1 THEN n - 1 - 1 + 1 ELSE 0) = n - 1
      OBVIOUS
    <3>3. QED
      BY ONLY <1>1, <3>1, <3>2
  <2>5. \A i \in 1..(Len(s) - 1) : Front(s)[i] = s[i]
    <3> TAKE i \in 1..(Len(s) - 1)
    <3> QED
      BY <2>2, <2>3
  <2>6. QED
    BY <2>2, <2>4, <2>5
<1>4. DOMAIN s = 1..Len(s) /\ DOMAIN Front(s) = 1..(Len(s) - 1)
  BY <1>3
<1>5. ASSUME NEW i \in DOMAIN s
      PROVE  s[i] \in ToSet(Front(s)) \cup {Last(s)}
  <2>1. CASE i = Len(s)
    BY <2>1 DEF Last
  <2>2. CASE i # Len(s)
    BY <2>2, <1>1, <1>3, <1>4, <1>5 DEF ToSet
  <2>3. QED
    BY <2>1, <2>2
<1>6. QED
  BY <1>2, <1>3, <1>5 DEF ToSet

\* Queueing a directory's children puts all of them on the stack.
LEMMA PushFacts ==
    ASSUME NEW s \in Seq(Hash), NEW t \in Seq(Hash)
    PROVE  /\ s \o t \in Seq(Hash)
           /\ ToSet(s) \cup ToSet(t) \subseteq ToSet(s \o t)
<1>1. s \o t \in Seq(Hash) /\ DOMAIN (s \o t) = 1..(Len(s) + Len(t))
      /\ DOMAIN s = 1..Len(s) /\ DOMAIN t = 1..Len(t) /\ Len(s) \in Nat /\ Len(t) \in Nat
  OBVIOUS
<1>2. ASSUME NEW i \in DOMAIN s
      PROVE  s[i] \in ToSet(s \o t)
  <2>1. i \in DOMAIN (s \o t) /\ (s \o t)[i] = s[i]
    BY <1>1, <1>2
  <2>2. QED
    BY <2>1 DEF ToSet
<1>3. ASSUME NEW i \in DOMAIN t
      PROVE  t[i] \in ToSet(s \o t)
  <2>1. Len(s) + i \in DOMAIN (s \o t) /\ (s \o t)[Len(s) + i] = t[i]
    BY <1>1, <1>3
  <2>2. QED
    BY <2>1 DEF ToSet
<1>4. QED
  BY <1>1, <1>2, <1>3 DEF ToSet

\* The entries of a tree are objects.
LEMMA KidFacts ==
    ASSUME NEW t \in Trees
    PROVE  Kids[t] \in Seq(Hash) /\ KidSet(t) \subseteq Hash
<1>1. Kids[t] \in Seq(Hash)
  BY ObjectAssumption
<1>2. QED
  BY <1>1 DEF KidSet, ToSet

\* Reach contains its roots and the entries of its trees that can be read.
LEMMA ReachFacts ==
    ASSUME NEW R \in SUBSET Hash, NEW P
    PROVE  /\ R \subseteq Reach(R, P) /\ Reach(R, P) \subseteq Hash
           /\ \A t \in Reach(R, P) \cap P \cap Trees : KidSet(t) \subseteq Reach(R, P)
<1>1. R \subseteq Reach(R, P) /\ Reach(R, P) \subseteq Hash
  BY DEF Reach
<1>2. ASSUME NEW t \in Reach(R, P) \cap P \cap Trees, NEW k \in KidSet(t),
             NEW S \in SUBSET Hash, R \subseteq S,
             \A u \in S \cap P \cap Trees : KidSet(u) \subseteq S
      PROVE  k \in S
  BY <1>2 DEF Reach
<1>3. \A t \in Trees : KidSet(t) \subseteq Hash
  BY KidFacts
<1>4. QED
  BY <1>1, <1>2, <1>3 DEF Reach

\* ... and is the least such set.
LEMMA ReachLeast ==
    ASSUME NEW R \in SUBSET Hash, NEW P, NEW S \in SUBSET Hash, R \subseteq S,
           \A t \in S \cap P \cap Trees : KidSet(t) \subseteq S
    PROVE  Reach(R, P) \subseteq S
BY DEF Reach

LEMMA ClosureFacts ==
    ASSUME NEW r \in Hash
    PROVE  /\ r \in Closure(r) /\ Closure(r) \subseteq Hash
           /\ \A t \in Closure(r) \cap Trees : KidSet(t) \subseteq Closure(r)
<1>1. {r} \in SUBSET Hash
  OBVIOUS
<1>2. QED
  BY <1>1, ReachFacts DEF Closure

\* A set of found objects that holds the root and the entries of its own
\* trees holds the whole closure.
LEMMA ClosureFound ==
    ASSUME NEW r \in Hash, NEW S, r \in S,
           \A t \in Closure(r) \cap S \cap Trees : KidSet(t) \subseteq S
    PROVE  Closure(r) \subseteq S
<1> DEFINE C == Closure(r) \cap S
<1>1. {r} \in SUBSET Hash /\ {r} \subseteq C /\ C \in SUBSET Hash
  BY ClosureFacts
<1>2. \A t \in C \cap Trees \cap Trees : KidSet(t) \subseteq C
  BY ClosureFacts
<1>3. Closure(r) \subseteq C
  BY ONLY <1>1, <1>2, ReachLeast DEF Closure
<1>4. QED
  BY <1>3

\* Marking from the log marks the whole closure of a complete root.
LEMMA MarkComplete ==
    ASSUME NEW R \in SUBSET Hash, NEW P, NEW r \in R, Closure(r) \subseteq P
    PROVE  Closure(r) \subseteq Reach(R, P)
<1>1. r \in Reach(R, P)
  BY ReachFacts
<1>2. \A t \in Closure(r) \cap Reach(R, P) \cap Trees : KidSet(t) \subseteq Reach(R, P)
  BY ReachFacts
<1>3. QED
  BY ONLY <1>1, <1>2, ClosureFound, r \in Hash

-----------------------------------------------------------------------------
(* Steps.                                                                  *)

\* The depot's part of the type invariant.
DepotOK ==
    /\ oroot \in Goals /\ ohas \subseteq Hash
    /\ store \in [Hash -> Kinds \cup {"absent"}]
    /\ dirty \subseteq Present /\ unchecked \subseteq Present
    /\ ghost \subseteq Hash \ Present
    /\ head \in Hash \cup {None} /\ logged \subseteq Hash

LEMMA TypeDepot == TypeOK => DepotOK
BY DEF TypeOK, DepotOK

\* The check passes exactly what the address commits to.
LEMMA StatusFacts ==
    ASSUME NEW k, Status(k) = "ok"
    PROVE  k \in Genuine
BY DEF Status, FsckObject, TreeVerify, Genuine

\* Every step that ends the session leaves the invariant, if the depot it
\* leaves is well typed and has nothing bad in it that is not on record.
LEMMA EndKeeps ==
    ASSUME End, DepotOK', (Present \ Whole \subseteq unchecked)'
    PROVE  IInv'
<1>1. pc' = "idle" /\ froot' = None /\ queue' = <<>> /\ cur' = None
      /\ bundle' = NoBundle /\ left' = 0 /\ doomed' = {} /\ sound' = FALSE
  BY DEF End
<1>2. left' \in 0..Len(bundle'.objs) /\ queue' \in Seq(Hash)
  BY <1>1 DEF NoBundle
<1>3. TypeOK'
  BY <1>1, <1>2 DEF TypeOK, DepotOK, Present
<1>4. BundleOK' /\ AdmitOK' /\ Frontier' /\ Spared'
  BY <1>1 DEF BundleOK, AdmitOK, Admitting, Frontier, Walking, Spared
<1>5. OnlyVerified'
  BY <1>1 DEF OnlyVerified, InFlight
<1>6. QED
  BY <1>3, <1>4, <1>5 DEF IInv

\* Init.
LEMMA InitInv == Init => IInv
<1> SUFFICES ASSUME Init PROVE IInv
  OBVIOUS
<1>1. oroot \in Hash /\ ohas \subseteq Hash
  BY ObjectAssumption, ClosureFacts DEF Init
<1>2. Present = {}
  BY DEF Init, Present
<1>3. left \in 0..Len(bundle.objs) /\ queue \in Seq(Hash)
  BY DEF Init, NoBundle
<1>4. TypeOK
  BY <1>1, <1>2, <1>3 DEF Init, TypeOK
<1>5. BundleOK /\ AdmitOK /\ OnlyVerified /\ Frontier /\ Spared
  BY <1>2 DEF Init, BundleOK, AdmitOK, Admitting, OnlyVerified, InFlight, Frontier, Walking, Spared
<1>6. QED
  BY <1>4, <1>5 DEF IInv

\* Sessions that fail or are given up.
LEMMA FailKeeps ==
    ASSUME IInv, GetFail \/ LoadAbort
    PROVE  IInv'
<1>1. End /\ UNCHANGED <<oroot, ohas, depot>> /\ pc \notin {"verify", "unlink"}
  BY DEF GetFail, LoadAbort
<1>2. DepotOK'
  BY <1>1, TypeDepot DEF IInv, DepotOK, depot, Present
<1>3. (Present \ Whole \subseteq unchecked)'
  BY <1>1 DEF IInv, OnlyVerified, InFlight, depot, Present, Whole
<1>4. QED
  BY <1>1, <1>2, <1>3, EndKeeps

\* A commit that is stopped leaves the ref and its log well typed.
LEMMA StoppedTyped ==
    ASSUME IInv, CommitStopped
    PROVE  head' \in Hash \cup {None} /\ logged' \subseteq Hash
<1>1. Committing \subseteq Hash
  BY DEF Committing, IInv, TypeOK, Present
<1>2. QED
  BY <1>1 DEF CommitStopped, IInv, TypeOK

LEMMA CommitKeeps ==
    ASSUME IInv, FetchCommit \/ FetchCommitFail \/ ImportEnd \/ ImportFail
    PROVE  IInv'
<1>1. End /\ UNCHANGED <<oroot, ohas, store, dirty, ghost, unchecked>> /\ pc \notin {"verify", "unlink"}
  BY DEF FetchCommit, FetchCommitFail, ImportEnd, ImportFail
<1>2. head' \in Hash \cup {None} /\ logged' \subseteq Hash
  <2>1. CASE FetchCommit \/ ImportEnd
    BY <2>1 DEF FetchCommit, ImportEnd, Commit, IInv, TypeOK, Present
  <2>2. CASE FetchCommitFail \/ ImportFail
    BY <2>2, StoppedTyped DEF FetchCommitFail, ImportFail
  <2>3. QED
    BY <2>1, <2>2
<1>3. DepotOK'
  BY <1>1, <1>2, TypeDepot DEF IInv, DepotOK, Present
<1>4. (Present \ Whole \subseteq unchecked)'
  BY <1>1 DEF IInv, OnlyVerified, InFlight, Present, Whole
<1>5. QED
  BY <1>1, <1>3, <1>4, EndKeeps

LEMMA KillKeeps ==
    ASSUME IInv, Kill
    PROVE  IInv'
<1>1. InFlight \subseteq Present
  BY DEF IInv, AdmitOK, Admitting, InFlight
<1>2. DepotOK'
  BY <1>1, TypeDepot, StoppedTyped DEF Kill, IInv, DepotOK, Present
<1>3. (Present \ Whole \subseteq unchecked)'
  BY DEF Kill, IInv, OnlyVerified, Present, Whole
<1>4. QED
  BY <1>2, <1>3, EndKeeps DEF Kill

LEMMA PowerLossKeeps ==
    ASSUME IInv, PowerLoss
    PROVE  IInv'
<1>1. InFlight \subseteq Present /\ DepotOK /\ Present \ Whole \subseteq InFlight \cup unchecked
  BY TypeDepot DEF IInv, AdmitOK, Admitting, InFlight, OnlyVerified
<1>2. PICK gone \in SUBSET dirty, torn \in SUBSET dirty, back \in SUBSET ghost :
        /\ gone \cap torn = {}
        /\ store' = [h \in Hash |-> IF h \in gone THEN "absent"
                                    ELSE IF h \in torn \cup back THEN "junk" ELSE store[h]]
        /\ unchecked' = (unchecked \cup torn \cup back \cup (InFlight \ Whole)) \ gone
  BY DEF PowerLoss
<1>3. gone \cap back = {}
  BY <1>1 DEF DepotOK
<1>4. Present' = (Present \cup back) \ gone
  BY <1>1, <1>2, <1>3 DEF DepotOK, Present
<1>5. Whole' = Whole \ (gone \cup torn)
  BY <1>1, <1>2, <1>3 DEF DepotOK, Present, Whole, Genuine
<1>6. store' \in [Hash -> Kinds \cup {"absent"}]
  BY <1>1, <1>2 DEF DepotOK, Kinds
<1>7. DepotOK'
  <2>1. unchecked' \subseteq Present'
    BY <1>1, <1>2, <1>3, <1>4 DEF DepotOK
  <2>2. /\ dirty' = {} /\ ghost' = {} /\ UNCHANGED <<oroot, ohas>>
        /\ head' \in Hash \cup {None} /\ logged' \subseteq Hash
    BY StoppedTyped DEF PowerLoss
  <2>3. QED
    BY <1>1, <1>6, <2>1, <2>2 DEF DepotOK
<1>8. (Present \ Whole \subseteq unchecked)'
  BY <1>1, <1>2, <1>3, <1>4, <1>5 DEF DepotOK
<1>9. QED
  BY <1>7, <1>8, EndKeeps DEF PowerLoss

LEMMA UnlinkKeeps ==
    ASSUME IInv, Unlink
    PROVE  IInv'
<1>1. cur \in Hash /\ cur \in Present /\ cur \notin unchecked /\ DepotOK
      /\ Present \ Whole \subseteq {cur} \cup unchecked
  BY TypeDepot DEF Unlink, IInv, TypeOK, AdmitOK, Admitting, InFlight, OnlyVerified
<1>2. Present' = Present \ {cur} /\ Whole' = Whole \ {cur}
  BY <1>1 DEF Unlink, DepotOK, Present, Whole, Genuine
<1>3. DepotOK'
  BY <1>1, <1>2 DEF Unlink, DepotOK
<1>4. (Present \ Whole \subseteq unchecked)'
  BY <1>1, <1>2 DEF Unlink
<1>5. QED
  BY <1>3, <1>4, EndKeeps DEF Unlink

\* Sweep: the last object ends the session, another leaves less to spare.
LEMMA SweepKeeps ==
    ASSUME IInv, NEW h \in Hash, Sweep(h)
    PROVE  IInv'
<1>1. DepotOK /\ pc = "sweep" /\ Present \ Whole \subseteq unchecked
  BY TypeDepot DEF Sweep, IInv, InFlight, OnlyVerified
<1>2. Present' = Present \ {h} /\ Whole' = Whole \ {h}
  BY <1>1 DEF Sweep, DepotOK, Present, Whole, Genuine
<1>3. DepotOK'
  <2>1. store' \in [Hash -> Kinds \cup {"absent"}]
    BY <1>1 DEF Sweep, DepotOK
  <2>2. QED
    BY <1>1, <1>2, <2>1 DEF Sweep, DepotOK
<1>4. (Present \ Whole \subseteq unchecked)'
  BY <1>1, <1>2 DEF Sweep
<1>5. CASE End
  BY <1>3, <1>4, <1>5, EndKeeps
<1>6. CASE ~End
  <2>1. doomed' = doomed \ {h} /\ UNCHANGED <<pc, froot, queue, cur, bundle, left, sound, logged>>
    BY <1>6 DEF Sweep
  <2>2. TypeOK'
    BY <1>1, <1>3, <2>1 DEF IInv, TypeOK, DepotOK
  <2>3. BundleOK' /\ AdmitOK' /\ Frontier'
    BY <1>1, <2>1 DEF IInv, BundleOK, AdmitOK, Admitting, Frontier, Walking
  <2>4. OnlyVerified'
    BY <1>1, <1>4, <2>1 DEF OnlyVerified, InFlight
  <2>5. Spared'
    <3>1. \A r \in logged : Closure(r) \subseteq Whole' => Closure(r) \cap doomed = {}
      BY <1>2 DEF IInv, Spared, Complete
    <3>2. QED
      BY <2>1, <3>1 DEF Spared, Complete
  <2>6. QED
    BY <2>2, <2>3, <2>4, <2>5 DEF IInv
<1>7. QED
  BY <1>5, <1>6

\* A collection begins: the marking covers every complete root of the log.
LEMMA GcMarkKeeps ==
    ASSUME IInv, GcMark
    PROVE  IInv'
<1>1. DepotOK /\ pc = "idle" /\ pc' = "sweep" /\ UNCHANGED <<oroot, ohas, depot, froot, queue, cur, bundle, left, sound>>
  BY TypeDepot DEF GcMark, IInv
<1>2. doomed' \subseteq Present \ Reach(logged, Whole)
  BY DEF GcMark
<1>3. Present' = Present /\ Whole' = Whole /\ Present \subseteq Hash
  BY <1>1 DEF depot, Present, Whole
<1>4. TypeOK'
  BY <1>1, <1>2, <1>3 DEF IInv, TypeOK, depot
<1>5. BundleOK' /\ AdmitOK' /\ Frontier'
  BY <1>1, <1>3 DEF IInv, BundleOK, AdmitOK, Admitting, Frontier, Walking
<1>6. OnlyVerified'
  BY <1>1, <1>3 DEF IInv, OnlyVerified, InFlight, depot
<1>7. Spared'
  <2>1. ASSUME NEW r \in logged, Closure(r) \subseteq Whole
        PROVE  Closure(r) \cap doomed' = {}
    <3>1. logged \in SUBSET Hash
      BY <1>1 DEF DepotOK
    <3>2. Closure(r) \subseteq Reach(logged, Whole)
      BY ONLY <2>1, <3>1, MarkComplete
    <3>3. QED
      BY <3>2, <1>2
  <2>2. QED
    BY <1>1, <1>3, <2>1 DEF Spared, Complete, depot
<1>8. QED
  BY <1>4, <1>5, <1>6, <1>7 DEF IInv

\* The other steps that leave the store as it is.
LEMMA SkipKeeps ==
    ASSUME IInv, Skip
    PROVE  IInv'
<1>1. UNCHANGED <<oroot, ohas, depot, pc, froot, cur, bundle, left, doomed, sound>>
      /\ queue' = Front(queue) /\ queue # <<>> /\ Last(queue) \in Present /\ queue \in Seq(Hash)
  BY DEF Skip, IInv, TypeOK
<1>2. Present' = Present /\ Whole' = Whole /\ InFlight' = InFlight /\ Admitting' = Admitting
  BY <1>1 DEF depot, Present, Whole, InFlight, Admitting
<1>3. queue' \in Seq(Hash) /\ Known \subseteq Known'
  BY <1>1, <1>2, PopFacts DEF Known
<1>4. TypeOK'
  BY <1>1, <1>2, <1>3 DEF IInv, TypeOK, depot
<1>5. BundleOK' /\ AdmitOK' /\ OnlyVerified'
  BY <1>1, <1>2 DEF IInv, BundleOK, AdmitOK, OnlyVerified, depot
<1>6. Frontier'
  BY <1>1, <1>2, <1>3 DEF IInv, Frontier, Walking
<1>7. Spared'
  BY <1>1, <1>2 DEF IInv, Spared, Complete, depot
<1>8. QED
  BY <1>4, <1>5, <1>6, <1>7 DEF IInv

LEMMA VerifyKeeps ==
    ASSUME IInv, Verify
    PROVE  IInv'
<1>1. pc = "verify" /\ pc' \in {"load", "unlink"}
      /\ UNCHANGED <<oroot, ohas, depot, froot, queue, cur, bundle, left, doomed, sound>>
  BY DEF Verify
<1>2. Present' = Present /\ Whole' = Whole /\ Admitting' = Admitting /\ Known' = Known
  BY <1>1 DEF depot, Present, Whole, Admitting, Known
<1>3. pc' = "load" => cur \in Whole
  <2>1. pc' = "load" => Status(store[cur]) = "ok"
    BY <1>1 DEF Verify
  <2>2. QED
    BY <1>1, <2>1, StatusFacts DEF IInv, TypeOK, Whole
<1>4. InFlight \subseteq {cur} /\ InFlight \subseteq InFlight' \cup Whole
  BY <1>1, <1>3 DEF InFlight
<1>5. TypeOK'
  BY <1>1, <1>2 DEF IInv, TypeOK, depot
<1>6. BundleOK' /\ AdmitOK' /\ OnlyVerified'
  BY <1>1, <1>2, <1>3, <1>4 DEF IInv, BundleOK, AdmitOK, OnlyVerified, depot
<1>7. Frontier'
  BY <1>1, <1>2, <1>4 DEF IInv, Frontier, Walking
<1>8. Spared'
  BY <1>1, <1>2 DEF IInv, Spared, Complete, depot
<1>9. QED
  BY <1>5, <1>6, <1>7, <1>8 DEF IInv

LEMMA LoadKeeps ==
    ASSUME IInv, Load \/ LoadFail
    PROVE  IInv'
<1>1. pc = "load" /\ pc' = "walk" /\ cur' = None /\ cur \in Hash /\ queue \in Seq(Hash)
      /\ UNCHANGED <<oroot, ohas, depot, froot, bundle, left, doomed>>
  BY DEF Load, LoadFail, IInv, TypeOK
<1>2. Present' = Present /\ Whole' = Whole /\ InFlight = {} /\ InFlight' = {}
      /\ Admitting = {cur} /\ Admitting' = {} /\ cur \in Whole
  BY <1>1 DEF depot, Present, Whole, InFlight, Admitting, IInv, AdmitOK
<1>3. cur \in Trees => Kids[cur] \in Seq(Hash)
  BY KidFacts
<1>4. queue' \in Seq(Hash) /\ Known \subseteq Known' /\ sound' \in BOOLEAN
      /\ (sound' => sound /\ (cur \in Trees => KidSet(cur) \subseteq Known'))
  <2>1. CASE Load /\ cur \in Trees
    BY <1>1, <1>2, <1>3, <2>1, PushFacts DEF Load, Known, KidSet, IInv, TypeOK
  <2>2. CASE Load /\ cur \notin Trees
    BY <1>1, <1>2, <2>2 DEF Load, Known, IInv, TypeOK
  <2>3. CASE LoadFail
    BY <1>1, <1>2, <2>3 DEF LoadFail, Known, IInv, TypeOK
  <2>4. QED
    BY <2>1, <2>2, <2>3
<1>5. TypeOK'
  BY <1>1, <1>2, <1>4 DEF IInv, TypeOK, depot
<1>6. BundleOK' /\ AdmitOK' /\ OnlyVerified'
  BY <1>1, <1>2 DEF IInv, BundleOK, AdmitOK, OnlyVerified, depot
<1>7. Frontier'
  BY <1>1, <1>2, <1>4 DEF IInv, Frontier, Walking
<1>8. Spared'
  BY <1>1, <1>2 DEF IInv, Spared, Complete, depot
<1>9. QED
  BY <1>5, <1>6, <1>7, <1>8 DEF IInv

LEMMA FetchBeginKeeps ==
    ASSUME IInv, FetchBegin
    PROVE  IInv'
<1>1. pc = "idle" /\ pc' = "walk" /\ froot' = oroot /\ queue' = <<oroot>> /\ oroot \in Hash
      /\ sound' = SoundBelow(oroot)
      /\ UNCHANGED <<oroot, ohas, depot, cur, bundle, left, doomed>>
  BY ObjectAssumption DEF FetchBegin, IInv, TypeOK
<1>2. Present' = Present /\ Whole' = Whole /\ InFlight = {} /\ InFlight' = {}
      /\ Admitting' = {} /\ Admitting = {}
  BY <1>1 DEF depot, Present, Whole, InFlight, Admitting
<1>3. queue' \in Seq(Hash) /\ sound' \in BOOLEAN
  BY <1>1 DEF SoundBelow
<1>4. oroot \in Known' /\ Present \subseteq Known'
  <2>1. 1 \in DOMAIN queue' /\ queue'[1] = oroot
    BY <1>1
  <2>2. QED
    BY <1>2, <2>1 DEF Known, ToSet
<1>5. TypeOK'
  BY <1>1, <1>2, <1>3 DEF IInv, TypeOK, depot
<1>6. BundleOK' /\ AdmitOK' /\ OnlyVerified'
  BY <1>1, <1>2 DEF IInv, BundleOK, AdmitOK, OnlyVerified, depot
<1>7. Frontier'
  BY <1>1, <1>2, <1>4 DEF Frontier, Walking, SoundBelow
<1>8. Spared'
  BY <1>1, <1>2 DEF IInv, Spared, Complete, depot
<1>9. QED
  BY <1>5, <1>6, <1>7, <1>8 DEF IInv

\* An object moves into place: it leaves the stack, and is found.
LEMMA GetKeeps ==
    ASSUME IInv, NEW k \in Served, Get(k)
    PROVE  IInv'
<1> DEFINE g == Last(queue)
<1>1. pc = "walk" /\ pc' = "verify" /\ cur' = g /\ queue \in Seq(Hash) /\ queue # <<>>
      /\ queue' = Front(queue) /\ g \notin Present
      /\ UNCHANGED <<oroot, ohas, head, logged, unchecked, froot, bundle, left, doomed, sound>>
  BY DEF Get, IInv, TypeOK
<1>2. g \in Hash /\ Front(queue) \in Seq(Hash) /\ ToSet(queue) \subseteq ToSet(Front(queue)) \cup {g}
  BY <1>1, PopFacts
<1>3. k \in Kinds /\ k # "absent"
  BY InputAssumption DEF Kinds, Genuine
<1>4. store' = [store EXCEPT ![g] = k] /\ dirty' = dirty \cup {g} /\ ghost' = ghost \ {g} /\ DepotOK
  BY TypeDepot DEF Get, IInv
<1> HIDE DEF g
<1>5. Present' = Present \cup {g} /\ Whole \subseteq Whole' /\ Whole' \subseteq Whole \cup {g}
  BY <1>1, <1>2, <1>3, <1>4 DEF DepotOK, Present, Whole, Genuine
<1>6. InFlight = {} /\ InFlight' = {g} /\ Admitting = {} /\ Admitting' = {g}
  BY <1>1 DEF InFlight, Admitting
<1>7. Known \subseteq Known'
  BY <1>1, <1>2, <1>5 DEF Known
<1>8. TypeOK'
  <2>1. store' \in [Hash -> Kinds \cup {"absent"}]
    BY <1>2, <1>3, <1>4 DEF DepotOK
  <2>2. QED
    BY <1>1, <1>2, <1>4, <1>5, <2>1 DEF IInv, TypeOK
<1>9. BundleOK' /\ AdmitOK' /\ OnlyVerified'
  BY <1>1, <1>4, <1>5, <1>6 DEF IInv, BundleOK, AdmitOK, OnlyVerified, DepotOK
<1>10. Frontier'
  BY <1>1, <1>5, <1>6, <1>7 DEF IInv, Frontier, Walking
<1>11. Spared'
  BY <1>1 DEF IInv, Spared, BundleOK
<1>12. QED
  BY <1>8, <1>9, <1>10, <1>11 DEF IInv

LEMMA ImportBeginKeeps ==
    ASSUME IInv, NEW b \in Bundles, ImportBegin(b)
    PROVE  IInv'
<1>1. pc = "idle" /\ pc' = "import" /\ bundle' = b /\ left' = Len(b.objs)
      /\ UNCHANGED <<oroot, ohas, depot, froot, queue, cur, doomed, sound>>
  BY DEF ImportBegin
<1>2. Len(b.objs) \in Nat
  BY InputAssumption DEF Bundle
<1>3. left' \in 0..Len(bundle'.objs)
  BY <1>1, <1>2
<1>4. Present' = Present /\ Whole' = Whole /\ InFlight = {} /\ InFlight' = {}
      /\ Admitting' = {}
  BY <1>1 DEF depot, Present, Whole, InFlight, Admitting
<1>5. TypeOK'
  BY <1>1, <1>3, <1>4 DEF IInv, TypeOK, depot
<1>6. BundleOK' /\ AdmitOK' /\ OnlyVerified'
  BY <1>1, <1>4 DEF IInv, BundleOK, AdmitOK, OnlyVerified, depot
<1>7. Frontier' /\ Spared'
  BY <1>1, <1>4 DEF IInv, Frontier, Walking, Spared, BundleOK
<1>8. QED
  BY <1>5, <1>6, <1>7 DEF IInv

LEMMA NextObjFacts ==
    ASSUME IInv, left > 0
    PROVE  NextObj.hash \in Hash /\ NextObj.kind \in Kinds
<1>1. left \in 0..Len(bundle.objs) /\ bundle \in Bundles \cup {NoBundle}
  BY DEF IInv, TypeOK, BundleOK
<1>2. bundle # NoBundle
  BY <1>1 DEF NoBundle
<1>3. bundle.objs \in Seq([hash : Hash, kind : Kinds])
  BY <1>1, <1>2, InputAssumption DEF Bundle
<1>4. Len(bundle.objs) - left + 1 \in 1..Len(bundle.objs)
  BY <1>1, <1>3
<1>5. ASSUME NEW T, NEW s \in Seq(T), NEW i \in 1..Len(s)
      PROVE  s[i] \in T
  OBVIOUS
<1>6. NextObj \in [hash : Hash, kind : Kinds]
  BY ONLY <1>3, <1>4, <1>5 DEF NextObj
<1>7. QED
  BY <1>6

LEMMA ImportOneKeeps ==
    ASSUME IInv, ImportOne
    PROVE  IInv'
<1>1. pc = "import" /\ left > 0 /\ NextObj.hash \in Hash /\ NextObj.kind \in Genuine
      /\ left' = left - 1 /\ ghost' = ghost \ {NextObj.hash}
      /\ store' = (IF NextObj.hash \in Present THEN store
                   ELSE [store EXCEPT ![NextObj.hash] = NextObj.kind])
      /\ UNCHANGED <<oroot, ohas, dirty, head, logged, unchecked, pc, froot, queue, cur, bundle, doomed, sound>>
  BY NextObjFacts DEF ImportOne
<1> DEFINE g == NextObj.hash
           k == NextObj.kind
<1> HIDE DEF g, k
<1>2. g \in Hash /\ k \in Genuine /\ k \in Kinds /\ k # "absent" /\ ghost' = ghost \ {g}
      /\ store' = (IF g \in Present THEN store ELSE [store EXCEPT ![g] = k])
  BY <1>1 DEF g, k, Genuine, Kinds
<1>3. DepotOK
  BY TypeDepot DEF IInv
<1>4. store' \in [Hash -> Kinds \cup {"absent"}]
  BY <1>2, <1>3 DEF DepotOK
<1>5. Present' = Present \cup {g}
  BY <1>2, <1>3 DEF DepotOK, Present
<1>6. Whole \subseteq Whole' /\ Present' \ Whole' \subseteq Present \ Whole
  BY <1>2, <1>3 DEF DepotOK, Present, Whole
<1>7. left' \in 0..Len(bundle'.objs)
  <2>1. left \in 0..Len(bundle.objs) /\ Len(bundle.objs) \in Nat
    <3>1. bundle \in Bundles \cup {NoBundle} /\ left \in 0..Len(bundle.objs)
      BY DEF IInv, BundleOK, TypeOK
    <3>2. QED
      BY <3>1, InputAssumption DEF Bundle, NoBundle
  <2>2. QED
    BY <1>1, <2>1
<1>8. TypeOK'
  BY <1>1, <1>2, <1>3, <1>4, <1>5, <1>7 DEF IInv, TypeOK
<1>9. InFlight = {} /\ InFlight' = {} /\ Admitting' = {}
  BY <1>1 DEF InFlight, Admitting
<1>10. BundleOK' /\ AdmitOK' /\ OnlyVerified'
  BY <1>1, <1>6, <1>9 DEF IInv, BundleOK, AdmitOK, OnlyVerified
<1>11. Frontier' /\ Spared'
  BY <1>1 DEF IInv, Frontier, Walking, Spared, BundleOK
<1>12. QED
  BY <1>8, <1>10, <1>11 DEF IInv

\* What happens at the origin and in the kernel's cache.
LEMMA OutsideKeeps ==
    ASSUME IInv,
           \/ \E r \in Goals : Publish(r)
           \/ OriginGc \/ (\E h \in Hash : Writeback(h)) \/ UNCHANGED vars
    PROVE  IInv'
<1>1. /\ oroot' \in Goals /\ ohas' \subseteq Hash
      /\ dirty' \subseteq dirty /\ ghost' \subseteq ghost
      /\ UNCHANGED <<store, head, logged, unchecked, session>>
  <2>1. \A r \in Goals : Closure(r) \subseteq Hash
    BY ObjectAssumption, ClosureFacts
  <2>2. QED
    BY <2>1 DEF IInv, TypeOK, Publish, OriginGc, Writeback, depot, vars
<1>2. Present' = Present /\ Whole' = Whole /\ InFlight' = InFlight
      /\ Admitting' = Admitting /\ Known' = Known
  BY <1>1 DEF session, Present, Whole, InFlight, Admitting, Known
<1>3. TypeOK'
  BY <1>1, <1>2 DEF IInv, TypeOK, session
<1>4. BundleOK' /\ AdmitOK' /\ OnlyVerified'
  BY <1>1, <1>2 DEF IInv, BundleOK, AdmitOK, OnlyVerified, session
<1>5. Frontier' /\ Spared'
  BY <1>1, <1>2 DEF IInv, Frontier, Walking, Spared, Complete, session
<1>6. QED
  BY <1>3, <1>4, <1>5 DEF IInv

\* IInv is inductive.
LEMMA NextInv == IInv /\ [Next]_vars => IInv'
<1> SUFFICES ASSUME IInv, [Next]_vars PROVE IInv'
  OBVIOUS
<1>1. CASE FetchStep
  BY <1>1, SkipKeeps, GetKeeps, FailKeeps, VerifyKeeps, UnlinkKeeps, LoadKeeps, CommitKeeps DEF FetchStep
<1>2. CASE ImportStep
  BY <1>2, ImportOneKeeps, CommitKeeps DEF ImportStep
<1>3. CASE GcStep
  BY <1>3, SweepKeeps DEF GcStep
<1>4. CASE Call
  BY <1>4, FetchBeginKeeps, ImportBeginKeeps, GcMarkKeeps DEF Call
<1>5. CASE Environment \/ UNCHANGED vars
  BY <1>5, OutsideKeeps, KillKeeps, PowerLossKeeps DEF Environment
<1>6. QED
  BY <1>1, <1>2, <1>3, <1>4, <1>5 DEF Next

LEMMA SpecInv == Spec => []IInv
BY InitInv, NextInv, PTL DEF Spec

-----------------------------------------------------------------------------
(* Theorems.                                                               *)

\* Depot, origin and session stay well typed: what is unsynced or on record
\* as unchecked is there, and what may come back is gone, through every
\* interleaving of fetches, imports, collections and interruptions.
THEOREM TypeCorrect == Spec => []TypeOK
BY SpecInv, PTL DEF IInv

\* cas-fetch and cas_pack_import admit nothing unverified, whatever bytes
\* the origin or the bundle sends and wherever the process is stopped: only
\* the object under check and what an interruption left can be bad.
THEOREM OnlyVerifiedHolds == Spec => []OnlyVerified
BY SpecInv, PTL DEF IInv

\* When the stack of a walk that set out soundly is empty, the root it is
\* about to commit is complete.
LEMMA FrontierComplete == IInv => CommitComplete
<1> SUFFICES ASSUME IInv, pc = "walk", queue = <<>>, sound PROVE Complete(froot)
  BY DEF CommitComplete
<1>1. froot \in Hash /\ InFlight = {} /\ Admitting = {} /\ ToSet(queue) = {}
  BY DEF IInv, TypeOK, InFlight, Admitting, ToSet
<1>2. froot \in Present /\ \A h \in Closure(froot) \cap Present :
        h \in Whole /\ (h \in Trees => KidSet(h) \subseteq Present)
  BY <1>1 DEF IInv, Frontier, Walking, Known
<1>3. Closure(froot) \subseteq Present
  BY <1>1, <1>2, ClosureFound
<1>4. QED
  BY <1>2, <1>3 DEF Complete

\* cas-fetch's walk commits a root only with everything below it present and
\* genuine, if it set out over a closed set of objects and read every tree,
\* for any directed graph of trees, with sharing, and however the origin
\* moves meanwhile.
THEOREM CommitCompleteHolds == Spec => []CommitComplete
BY SpecInv, FrontierComplete, PTL

\* No step takes anything away from a complete root that the log names and
\* that is written back and checked.
LEMMA StepStays ==
    ASSUME IInv, [Next]_vars, NEW r \in logged,
           Complete(r), Closure(r) \cap (dirty \cup InFlight) = {}
    PROVE  Complete(r)'
<1>1. r \in Hash /\ Closure(r) \subseteq Whole /\ Whole \subseteq Present /\ Present \subseteq Hash
      /\ store \in [Hash -> Kinds \cup {"absent"}]
  BY DEF IInv, TypeOK, Complete, Whole, Present, Genuine
<1>2. SUFFICES Closure(r) \subseteq Whole'
  BY DEF Complete
<1>3. CASE UNCHANGED store
  BY <1>1, <1>3 DEF Whole
<1>4. CASE \E k \in Served : Get(k)
  BY <1>1, <1>4 DEF Get, Whole, Present
<1>5. CASE Unlink
  BY <1>1, <1>5 DEF Unlink, InFlight, Whole
<1>6. CASE ImportOne
  BY <1>1, <1>6 DEF ImportOne, Whole, Present
<1>7. CASE \E h \in Hash : Sweep(h)
  BY <1>1, <1>7 DEF Sweep, Whole, IInv, Spared
<1>8. CASE PowerLoss
  <2>1. PICK gone \in SUBSET dirty, torn \in SUBSET dirty, back \in SUBSET ghost :
          /\ gone \cap torn = {}
          /\ store' = [h \in Hash |-> IF h \in gone THEN "absent"
                                      ELSE IF h \in torn \cup back THEN "junk" ELSE store[h]]
          /\ unchecked' = (unchecked \cup torn \cup back \cup (InFlight \ Whole)) \ gone
    BY <1>8 DEF PowerLoss
  <2>2. ghost \cap Present = {}
    BY DEF IInv, TypeOK
  <2>3. ASSUME NEW h \in Closure(r)
        PROVE  h \in Hash /\ h \notin gone /\ h \notin torn /\ h \notin back
    BY <1>1, <2>2
  <2>4. \A h \in Closure(r) : h \in Hash /\ store'[h] = store[h]
    BY <2>1, <2>3
  <2>5. QED
    BY <1>1, <2>4 DEF Whole
<1>9. UNCHANGED store \/ (\E k \in Served : Get(k)) \/ Unlink \/ ImportOne \/ (\E h \in Hash : Sweep(h)) \/ PowerLoss
  BY DEF Next, FetchStep, ImportStep, GcStep, Call, Environment, vars, depot,
         Skip, GetFail, Verify, Load, LoadFail, LoadAbort, FetchCommit, FetchCommitFail,
         ImportFail, ImportEnd, FetchBegin, ImportBegin, GcMark, Publish, OriginGc, Kill, Writeback
<1>10. QED
  BY <1>3, <1>4, <1>5, <1>6, <1>7, <1>8, <1>9

\* A logged root that is complete, checked and written back stays complete:
\* no collection (castool gc), half-done fetch or import, kill or power loss
\* takes an object from under it.
THEOREM CompleteStaysHolds == Spec => CompleteStays
<1>1. IInv /\ [Next]_vars =>
        [\A r \in logged : (Complete(r) /\ Closure(r) \cap (dirty \cup InFlight) = {}) => Complete(r)']_vars
  BY StepStays
<1>2. QED
  BY <1>1, SpecInv, PTL DEF Spec, CompleteStays

-----------------------------------------------------------------------------
(* Directories in memory: sequences of entries.                            *)

LEMMA MinIs ==
    ASSUME NEW S \in SUBSET Nat, S # {}
    PROVE  Min(S) \in S /\ \A x \in S : Min(S) <= x
BY LeastNatural DEF Min

LEMMA MaxIs ==
    ASSUME NEW N \in Nat, NEW S \in SUBSET (0..N), S # {}
    PROVE  Max(S) \in S /\ \A x \in S : x <= Max(S)
<1> DEFINE T == {n \in Nat : \E x \in S : n = N - x}
<1>0. PICK z \in S : TRUE
  OBVIOUS
<1>1. T \in SUBSET Nat /\ N - z \in T
  BY <1>0
<1>2. PICK n \in T : \A k \in T : n <= k
  BY <1>1, LeastNatural
<1>3. PICK x \in S : n = N - x
  BY <1>2
<1>4. \A y \in S : y \in Int /\ N - y \in T
  OBVIOUS
<1> HIDE DEF T
<1>5. \A y \in S : y <= x
  BY <1>2, <1>3, <1>4
<1>6. QED
  BY <1>3, <1>5 DEF Max

Distinct(d) == \A i, j \in 1..Len(d) : d[i].name = d[j].name => i = j

LEMMA EntryTypes ==
    ASSUME NEW d \in Seq(Entry)
    PROVE  /\ Len(d) \in Nat /\ DOMAIN d = 1..Len(d)
           /\ \A i \in 1..Len(d) : d[i] \in Entry /\ d[i].name \in Names /\ d[i].name \in Nat
<1>1. Len(d) \in Nat /\ DOMAIN d = 1..Len(d) /\ d = [i \in 1..Len(d) |-> d[i]]
  OBVIOUS
<1>2. \A i \in 1..Len(d) : d[i] \in Entry
  OBVIOUS
<1>3. \A e \in Entry : e.name \in Names /\ e.val \in Vals /\ e = [name |-> e.name, val |-> e.val]
  BY DEF Entry
<1>4. QED
  BY <1>1, <1>2, <1>3, CodecAssumption

\* Names that grow from one entry to the next grow throughout.
LEMMA AscendingIs ==
    ASSUME NEW d \in Seq(Entry), Ascending(d)
    PROVE  /\ \A i, j \in 1..Len(d) : i < j => d[i].name < d[j].name
           /\ Distinct(d)
<1>1. ASSUME NEW i \in 1..Len(d)
      PROVE  \A j \in Nat : j \in 1..Len(d) /\ i < j => d[i].name < d[j].name
  <2> DEFINE G == {j \in Nat : j \in 1..Len(d) /\ i < j => d[i].name < d[j].name}
  <2>1. 0 \in G
    OBVIOUS
  <2>2. ASSUME NEW j \in Nat, j \in G PROVE j + 1 \in G
    <3>1. SUFFICES ASSUME j + 1 \in 1..Len(d), i < j + 1 PROVE d[i].name < d[j + 1].name
      OBVIOUS
    <3>2. j \in 1..Len(d) /\ j \in 1..(Len(d) - 1)
      BY <3>1
    <3>3. d[j].name < d[j + 1].name
      BY <3>2 DEF Ascending
    <3>4. CASE i = j
      BY <3>3, <3>4
    <3>5. CASE i < j
      BY <2>2, <3>1, <3>2, <3>3, <3>5, EntryTypes
    <3>6. QED
      BY <3>1, <3>4, <3>5
  <2> HIDE DEF G
  <2>3. \A j \in Nat : j \in G
    BY <2>1, <2>2, NatSetInduction
  <2>4. QED
    BY <2>3 DEF G
<1>2. \A i, j \in 1..Len(d) : i < j => d[i].name < d[j].name
  BY <1>1
<1>3. QED
  BY <1>2, EntryTypes DEF Distinct

LEMMA LookupFound ==
    ASSUME NEW d \in Seq(Entry), Distinct(d), NEW i \in 1..Len(d)
    PROVE  RefLookup(d, d[i].name) = Ok(d[i])
<1> DEFINE n == d[i].name
<1>1. d[i] \in ToSet(d)
  BY EntryTypes DEF ToSet
<1>2. \A e \in ToSet(d) : e.name = n => e = d[i]
  BY EntryTypes DEF ToSet, Distinct
<1>3. (CHOOSE e \in ToSet(d) : e.name = n) = d[i]
  BY <1>1, <1>2
<1>4. QED
  BY <1>1, <1>3 DEF RefLookup

LEMMA LookupNothing ==
    ASSUME NEW d \in Seq(Entry), NEW n, \A i \in 1..Len(d) : d[i].name # n
    PROVE  RefLookup(d, n) = NotFound
BY EntryTypes DEF RefLookup, ToSet

-----------------------------------------------------------------------------
(* Sorting.                                                                *)

InOrder(d, p) == \A i, j \in DOMAIN d : i < j => d[p[i]].name <= d[p[j]].name

\* Every directory has an order: the last entry goes before the first one
\* with a greater name.
LEMMA OrderExists ==
    \A d \in Seq(Entry) : \E p \in Bijection(DOMAIN d, DOMAIN d) : InOrder(d, p)
<1> DEFINE G == {n \in Nat : \A d \in Seq(Entry) :
                    Len(d) = n => \E p \in Bijection(1..n, 1..n) : InOrder(d, p)}
<1>1. 0 \in G
  <2>1. ASSUME NEW d \in Seq(Entry), Len(d) = 0
        PROVE  \E p \in Bijection(1..0, 1..0) : InOrder(d, p)
    <3> DEFINE p == [i \in 1..0 |-> i]
    <3>1. p \in Bijection(1..0, 1..0)
      BY DEF Bijection, Injection, Surjection, IsInjective
    <3>2. InOrder(d, p)
      BY <2>1, EntryTypes DEF InOrder
    <3>3. QED
      BY <3>1, <3>2
  <2>2. QED
    BY <2>1
<1>2. ASSUME NEW n \in Nat, n \in G PROVE n + 1 \in G
  <2>1. ASSUME NEW d \in Seq(Entry), Len(d) = n + 1
        PROVE  \E p \in Bijection(1..(n + 1), 1..(n + 1)) : InOrder(d, p)
    <3> DEFINE c == [i \in 1..n |-> d[i]]
    <3>1. c \in Seq(Entry) /\ Len(c) = n /\ DOMAIN c = 1..n /\ \A i \in 1..n : c[i] = d[i]
      BY <2>1, EntryTypes
    <3> HIDE DEF c
    <3>2. PICK p \in Bijection(1..n, 1..n) : InOrder(c, p)
      BY <1>2, <3>1
    <3>3. /\ p \in [1..n -> 1..n]
          /\ \A i, j \in 1..n : p[i] = p[j] => i = j
          /\ \A k \in 1..n : \E i \in 1..n : p[i] = k
      BY <3>2 DEF Bijection, Injection, Surjection, IsInjective
    <3>4. \A i, j \in 1..n : i < j => d[p[i]].name <= d[p[j]].name
      BY <3>1, <3>2, <3>3 DEF InOrder
    <3> DEFINE x == d[n + 1].name
               S == {i \in 1..(n + 1) : i = n + 1 \/ d[p[i]].name > x}
    <3>5. S \in SUBSET Nat /\ S # {}
      OBVIOUS
    <3>6. PICK k \in S : \A i \in S : k <= i
      BY <3>5, LeastNatural
    <3> DEFINE q == [i \in 1..(n + 1) |-> IF i < k THEN p[i] ELSE IF i = k THEN n + 1 ELSE p[i - 1]]
    <3>7. /\ k \in 1..(n + 1)
          /\ \A i \in 1..n : i < k => d[p[i]].name <= x
          /\ \A i \in 1..n : i >= k => x <= d[p[i]].name
      <4>1. k \in 1..(n + 1) /\ (k = n + 1 \/ d[p[k]].name > x)
        BY <3>6
      <4>2. \A i \in 1..n : d[p[i]].name \in Nat
        <5>1. \A i \in 1..(n + 1) : d[i].name \in Nat
          BY <2>1, EntryTypes
        <5>2. \A i \in 1..n : p[i] \in 1..(n + 1)
          BY <3>3
        <5>3. QED
          BY <5>1, <5>2
      <4>2a. x \in Nat
        BY <2>1, EntryTypes
      <4>3. ASSUME NEW i \in 1..n, i < k PROVE d[p[i]].name <= x
        BY <3>6, <4>1, <4>2, <4>2a, <4>3
      <4>4. ASSUME NEW i \in 1..n, i >= k PROVE x <= d[p[i]].name
        BY <3>4, <4>1, <4>2, <4>2a, <4>4
      <4>5. QED
        BY <4>1, <4>3, <4>4
    <3> HIDE DEF S
    <3>q. \A i \in 1..(n + 1) : /\ (i < k => (i \in 1..n /\ q[i] = p[i] /\ p[i] \in 1..n))
                               /\ (i = k => q[i] = n + 1)
                               /\ (i > k => (i - 1 \in 1..n /\ q[i] = p[i - 1] /\ p[i - 1] \in 1..n))
      <4>1. \A i \in 1..n : p[i] \in 1..n
        BY <3>3
      <4>2. \A i \in 1..(n + 1) : (i < k => i \in 1..n) /\ (i > k => i - 1 \in 1..n)
        BY <3>7
      <4>3. QED
        BY <3>7, <4>1, <4>2
    <3>8. q \in [1..(n + 1) -> 1..(n + 1)]
      <4>1. ASSUME NEW i \in 1..(n + 1) PROVE q[i] \in 1..(n + 1)
        <5> HIDE DEF q
        <5>1. i < k \/ i = k \/ i > k
          BY <3>7
        <5>2. QED
          BY <3>q, <5>1
      <4>2. q = [i \in 1..(n + 1) |-> q[i]]
        OBVIOUS
      <4> HIDE DEF q
      <4>3. QED
        BY <4>1, <4>2
    <3>9. \A i, j \in 1..(n + 1) : q[i] = q[j] => i = j
      <4> HIDE DEF q
      <4>1. ASSUME NEW i \in 1..(n + 1), NEW j \in 1..(n + 1), q[i] = q[j], i < j PROVE FALSE
        <5>1. CASE i < k /\ j < k
          BY <3>3, <3>q, <4>1, <5>1
        <5>2. CASE i = k \/ j = k
          BY <3>7, <3>q, <4>1, <5>2
        <5>3. CASE i < k /\ j > k
          <6>1. i = j - 1
            BY <3>3, <3>q, <4>1, <5>3
          <6>2. QED
            BY <3>7, <4>1, <5>3, <6>1
        <5>4. CASE i > k /\ j > k
          BY <3>3, <3>q, <4>1, <5>4
        <5>5. QED
          BY <3>7, <4>1, <5>1, <5>2, <5>3, <5>4
      <4>2. QED
        BY <4>1
    <3>10. ASSUME NEW t \in 1..(n + 1) PROVE \E i \in 1..(n + 1) : q[i] = t
      <4>1. CASE t = n + 1
        BY <3>7, <4>1
      <4>2. CASE t # n + 1
        <5>1. PICK i \in 1..n : p[i] = t
          BY <3>3, <4>2
        <5>2. i \in 1..(n + 1) /\ i + 1 \in 1..(n + 1)
          OBVIOUS
        <5>3. q[IF i < k THEN i ELSE i + 1] = t
          BY <5>1, <5>2, <3>7
        <5>4. QED
          BY <5>2, <5>3
      <4>3. QED
        BY <4>1, <4>2
    <3>11. ASSUME NEW i \in 1..(n + 1), NEW j \in 1..(n + 1), i < j
           PROVE  d[q[i]].name <= d[q[j]].name
      <4>1. CASE i = k
        BY <3>7, <3>11, <4>1
      <4>2. CASE j = k
        BY <3>7, <3>11, <4>2
      <4>3. CASE i # k /\ j # k
        <5> DEFINE a == IF i < k THEN i ELSE i - 1
                   b == IF j < k THEN j ELSE j - 1
        <5>1. a \in 1..n /\ b \in 1..n /\ a < b
          BY <3>7, <3>11, <4>3
        <5>2. q[i] = p[a] /\ q[j] = p[b]
          BY <3>7, <4>3
        <5>3. QED
          BY <3>4, <5>1, <5>2
      <4>4. QED
        BY <4>1, <4>2, <4>3
    <3> HIDE DEF q
    <3>12. q \in Bijection(1..(n + 1), 1..(n + 1))
      BY <3>8, <3>9, <3>10 DEF Bijection, Injection, Surjection, IsInjective
    <3>13. InOrder(d, q)
      BY <2>1, <3>11, EntryTypes DEF InOrder
    <3>14. QED
      BY <3>12, <3>13
  <2>2. QED
    BY <2>1
<1> HIDE DEF G
<1>3. \A n \in Nat : n \in G
  BY <1>1, <1>2, NatSetInduction
<1>4. QED
  BY <1>3, EntryTypes DEF G

\* Sorting moves the entries and puts distinct names in ascending order.
LEMMA SortIs ==
    ASSUME NEW d \in Seq(Entry), Distinct(d)
    PROVE  /\ SortDir(d) \in Seq(Entry) /\ Len(SortDir(d)) = Len(d)
           /\ ToSet(SortDir(d)) = ToSet(d)
           /\ Ascending(SortDir(d))
<1> DEFINE p == CHOOSE o \in Bijection(DOMAIN d, DOMAIN d) :
                    \A i, j \in DOMAIN d : i < j => d[o[i]].name <= d[o[j]].name
<1>1. p \in Bijection(DOMAIN d, DOMAIN d)
      /\ \A i, j \in DOMAIN d : i < j => d[p[i]].name <= d[p[j]].name
  BY OrderExists DEF InOrder
<1>2. SortDir(d) = [i \in DOMAIN d |-> d[p[i]]]
  BY DEF SortDir
<1> HIDE DEF p
<1>0. /\ Len(d) \in Nat /\ DOMAIN d = 1..Len(d)
      /\ \A i \in 1..Len(d) : d[i] \in Entry /\ d[i].name \in Nat
  BY EntryTypes
<1>3. /\ p \in [1..Len(d) -> 1..Len(d)]
      /\ \A i, j \in 1..Len(d) : p[i] = p[j] => i = j
      /\ \A k \in 1..Len(d) : \E i \in 1..Len(d) : p[i] = k
  BY <1>0, <1>1 DEF Bijection, Injection, Surjection, IsInjective
<1>4. /\ SortDir(d) \in Seq(Entry) /\ Len(SortDir(d)) = Len(d)
      /\ \A i \in 1..Len(d) : SortDir(d)[i] = d[p[i]] /\ p[i] \in 1..Len(d)
  <2>1. \A i \in 1..Len(d) : p[i] \in 1..Len(d)
    BY <1>3
  <2>2. SortDir(d) = [i \in 1..Len(d) |-> d[p[i]]]
    BY <1>0, <1>2
  <2>3. \A i \in 1..Len(d) : d[p[i]] \in Entry
    BY <1>0, <2>1
  <2>4. QED
    BY <1>0, <2>1, <2>2, <2>3
<1>5. ToSet(SortDir(d)) = ToSet(d)
  <2>1. DOMAIN SortDir(d) = 1..Len(d)
    BY <1>4, EntryTypes
  <2>2. ToSet(d) = {d[i] : i \in 1..Len(d)} /\ ToSet(SortDir(d)) = {SortDir(d)[i] : i \in 1..Len(d)}
    BY <1>0, <2>1 DEF ToSet
  <2>3. \A e : (\E i \in 1..Len(d) : e = SortDir(d)[i]) => \E j \in 1..Len(d) : e = d[j]
    BY <1>4
  <2>4. \A j \in 1..Len(d) : \E i \in 1..Len(d) : d[j] = SortDir(d)[i]
    BY <1>3, <1>4
  <2>5. QED
    BY <2>2, <2>3, <2>4
<1>6. ASSUME NEW i \in 1..(Len(d) - 1) PROVE SortDir(d)[i].name < SortDir(d)[i + 1].name
  <2>1. i \in 1..Len(d) /\ i + 1 \in 1..Len(d)
    OBVIOUS
  <2>2. d[p[i]].name <= d[p[i + 1]].name
    BY <1>0, <1>1, <2>1
  <2>3. d[p[i]].name # d[p[i + 1]].name
    <3>1. p[i] # p[i + 1] /\ p[i] \in 1..Len(d) /\ p[i + 1] \in 1..Len(d)
      BY <1>3, <1>4, <2>1
    <3>2. QED
      BY <3>1 DEF Distinct
  <2>4. QED
    BY <1>0, <1>4, <2>1, <2>2, <2>3
<1>7. QED
  BY <1>4, <1>5, <1>6 DEF Ascending

\* What is sorted stays as it is.
LEMMA SortedSame ==
    ASSUME NEW d \in Seq(Entry), Ascending(d)
    PROVE  SortDir(d) = d
<1> DEFINE p == CHOOSE o \in Bijection(DOMAIN d, DOMAIN d) :
                    \A i, j \in DOMAIN d : i < j => d[o[i]].name <= d[o[j]].name
           N == Len(d)
<1>1. p \in Bijection(DOMAIN d, DOMAIN d)
      /\ \A i, j \in DOMAIN d : i < j => d[p[i]].name <= d[p[j]].name
  BY OrderExists DEF InOrder
<1>2. SortDir(d) = [i \in DOMAIN d |-> d[p[i]]]
  BY DEF SortDir
<1> HIDE DEF p
<1>3. /\ N \in Nat /\ p \in [1..N -> 1..N]
      /\ \A k \in 1..N : \E i \in 1..N : p[i] = k
  BY <1>1, EntryTypes DEF Bijection, Injection, Surjection
<1>4. ASSUME NEW i \in 1..N, NEW j \in 1..N, i < j PROVE p[i] <= p[j]
  <2>1. d[p[i]].name <= d[p[j]].name
    BY <1>1, <1>4, EntryTypes
  <2>2. p[i] > p[j] => d[p[j]].name < d[p[i]].name
    BY <1>3, AscendingIs
  <2>3. p[i] \in 1..N /\ p[j] \in 1..N
    BY <1>3
  <2>4. d[p[i]].name \in Nat /\ d[p[j]].name \in Nat
    BY <2>3, EntryTypes
  <2>5. QED
    BY <2>1, <2>2, <2>3, <2>4
<1> HIDE DEF N
<1> DEFINE U == {n \in Nat : \A i \in 1..N : i <= n => p[i] <= i}
           D == {n \in Nat : \A i \in 1..N : i >= N - n => p[i] >= i}
<1>5. \A n \in Nat : n \in U
  <2>1. 0 \in U
    OBVIOUS
  <2>2. ASSUME NEW n \in Nat, n \in U PROVE n + 1 \in U
    <3>1. SUFFICES ASSUME n + 1 \in 1..N PROVE p[n + 1] <= n + 1
      BY <2>2
    <3>2. PICK j \in 1..N : p[j] = n + 1
      BY <1>3, <3>1
    <3>3. j > n
      BY <2>2, <3>2
    <3>4. QED
      BY <1>4, <3>1, <3>2, <3>3
  <2> HIDE DEF U
  <2>3. QED
    BY <2>1, <2>2, NatSetInduction
<1>6. \A n \in Nat : n \in D
  <2>1. 0 \in D
    <3>1. ASSUME N \in 1..N PROVE p[N] >= N
      <4>1. PICK j \in 1..N : p[j] = N
        BY <1>3, <3>1
      <4>2. QED
        BY <1>3, <1>4, <3>1, <4>1
    <3>2. QED
      BY <1>3, <3>1
  <2>2. ASSUME NEW n \in Nat, n \in D PROVE n + 1 \in D
    <3>1. SUFFICES ASSUME NEW i \in 1..N, i = N - (n + 1) PROVE p[i] >= i
      <4>1. \A i \in 1..N : i >= N - (n + 1) => i = N - (n + 1) \/ i >= N - n
        BY <1>3
      <4>2. QED
        BY <2>2, <4>1
    <3>2. PICK j \in 1..N : p[j] = i
      BY <1>3
    <3>3. j <= i
      <4>1. j >= N - n => p[j] >= j
        BY <2>2
      <4>2. QED
        BY <1>3, <3>1, <3>2, <4>1
    <3>4. QED
      BY <1>3, <1>4, <3>2, <3>3
  <2> HIDE DEF D
  <2>3. QED
    BY <2>1, <2>2, NatSetInduction
<1>7. \A i \in 1..N : p[i] = i
  <2>1. ASSUME NEW i \in 1..N PROVE p[i] = i
    <3>1. i \in U /\ N \in D
      <4> HIDE DEF U, D
      <4>1. i \in Nat /\ N \in Nat
        BY <1>3
      <4>2. QED
        BY <1>5, <1>6, <4>1
    <3>2. p[i] <= i /\ p[i] >= i /\ p[i] \in 1..N
      BY <1>3, <3>1
    <3>3. QED
      BY <3>2
  <2>2. QED
    BY <2>1
<1>8. QED
  <2>1. DOMAIN d = 1..N /\ d = [i \in 1..N |-> d[i]]
    BY EntryTypes DEF N
  <2>2. QED
    BY <1>2, <1>7, <2>1

-----------------------------------------------------------------------------
(* The hash tables of an htree.                                            *)

\* Probing stays in the table, and in as many probes as it has slots it
\* comes by all of them.
LEMMA SlotIs ==
    ASSUME NEW n \in Names, NEW N \in Nat, N > 0
    PROVE  /\ \A i \in Nat : Slot(n, N, i) \in 0..(N - 1)
           /\ \A s \in 0..(N - 1) : \E i \in 0..(N - 1) : Slot(n, N, i) = s
<1> DEFINE h == NameHash[n] \div NBuckets
<1>1. h \in Int /\ N \in Int
  BY CodecAssumption, DivMod
<1>2. \A i : Slot(n, N, i) = (h + i) % N
  BY DEF Slot
<1> HIDE DEF h
<1>3. \A i \in Nat : Slot(n, N, i) \in 0..(N - 1)
  BY <1>1, <1>2, DivMod
<1>4. ASSUME NEW s \in 0..(N - 1) PROVE \E i \in 0..(N - 1) : Slot(n, N, i) = s
  <2> DEFINE q == h \div N
             r == h % N
  <2>1. h = q * N + r /\ q \in Int /\ r \in 0..(N - 1)
    BY <1>1, DivMod
  <2> HIDE DEF q, r
  <2>2. CASE s >= r
    <3>1. s - r \in 0..(N - 1) /\ h + (s - r) = q * N + s
      BY <1>1, <2>1, <2>2
    <3>2. (q * N + s) % N = s
      BY <1>1, <2>1, DivModUnique
    <3>3. QED
      BY <1>2, <3>1, <3>2
  <2>3. CASE s < r
    <3>1. s - r + N \in 0..(N - 1) /\ h + (s - r + N) = (q + 1) * N + s
      BY <1>1, <2>1, <2>3
    <3>2. ((q + 1) * N + s) % N = s
      BY <1>1, <2>1, DivModUnique
    <3>3. QED
      BY <1>2, <3>1, <3>2
  <2>4. QED
    BY <1>1, <2>1, <2>2, <2>3
<1>5. QED
  BY <1>3, <1>4

SlotValue(d, r) == [hash |-> NameHash[d[r].name], rec |-> r]
Used(t, N) == {s \in 0..(N - 1) : t[s].rec # 0}

\* Probing for record r of d meets no free slot before it meets r.
Reached(t, d, N, r) ==
    \E i \in 0..(N - 1) : /\ t[Slot(d[r].name, N, i)] = SlotValue(d, r)
                          /\ \A j \in 0..(i - 1) : t[Slot(d[r].name, N, j)].rec # 0

\* A table of N slots that holds the records R of d, and nothing else.
Holds(t, d, N, R) ==
    /\ DOMAIN t = 0..(N - 1)
    /\ \A s \in 0..(N - 1) : t[s] = Empty \/ \E r \in R : t[s] = SlotValue(d, r)
    /\ \A r \in R : Reached(t, d, N, r)
    /\ Cardinality(Used(t, N)) <= Cardinality(R)

\* There are n numbers below n.
LEMMA BelowCount ==
    ASSUME NEW n \in Nat
    PROVE  IsFiniteSet(0..(n - 1)) /\ Cardinality(0..(n - 1)) = n
<1>1. 0 \in Int /\ n - 1 \in Int
  OBVIOUS
<1>2. IsFiniteSet(0..(n - 1)) /\ Cardinality(0..(n - 1)) = (IF 0 > n - 1 THEN 0 ELSE n - 1 - 0 + 1)
  BY <1>1, FS_Interval
<1>3. (IF 0 > n - 1 THEN 0 ELSE n - 1 - 0 + 1) = n
  OBVIOUS
<1>4. QED
  BY <1>2, <1>3

\* A record goes into a table that is not full, and disturbs no other.
LEMMA PlacedHolds ==
    ASSUME NEW d \in Seq(Entry), NEW N \in Nat, NEW R \in SUBSET (1..Len(d)), NEW t,
           Holds(t, d, N, R), Cardinality(R) < N,
           NEW x \in 1..Len(d), x \notin R
    PROVE  Holds(Placed(t, d, x), d, N, R \cup {x})
<1> DEFINE n == d[x].name
           free == {j \in 0..N : j = N \/ t[Slot(n, N, j)].rec = 0}
           i == Min(free)
           u == [t EXCEPT ![Slot(n, N, i)] = SlotValue(d, x)]
<1>0. N \in Int /\ N > 0 /\ Len(d) \in Nat /\ IsFiniteSet(R) /\ Cardinality(R) \in Nat
  <2>1. Len(d) \in Nat
    BY EntryTypes
  <2>2. IsFiniteSet(1..Len(d))
    BY <2>1, FS_Interval
  <2>3. IsFiniteSet(R) /\ Cardinality(R) \in Nat
    BY <2>2, FS_Subset, FS_CardinalityType
  <2>4. QED
    BY <2>1, <2>3
<1>1. n \in Names /\ \A r \in 1..Len(d) : d[r].name \in Names
  BY EntryTypes
<1>2. /\ DOMAIN t = 0..(N - 1) /\ Cardinality(0..(N - 1)) = N /\ IsFiniteSet(0..(N - 1))
  BY <1>0, BelowCount DEF Holds
<1>3. Placed(t, d, x) = u
  BY <1>2 DEF Placed, FirstFrom, SlotValue
<1>4. IsFiniteSet(Used(t, N)) /\ Cardinality(Used(t, N)) \in Nat /\ Cardinality(Used(t, N)) < N
  <2>1. Used(t, N) \subseteq 0..(N - 1)
    BY DEF Used
  <2>2. IsFiniteSet(Used(t, N)) /\ Cardinality(Used(t, N)) \in Nat
    BY <1>2, <2>1, FS_Subset, FS_CardinalityType
  <2>3. QED
    BY <1>0, <2>2 DEF Holds
<1>5. PICK s \in 0..(N - 1) : t[s].rec = 0
  <2>1. Used(t, N) # 0..(N - 1)
    BY <1>0, <1>2, <1>4
  <2>2. QED
    BY <2>1 DEF Used
<1>6. PICK k \in 0..(N - 1) : Slot(n, N, k) = s
  BY <1>0, <1>1, SlotIs
<1>7. /\ i \in 0..(N - 1) /\ t[Slot(n, N, i)].rec = 0
      /\ \A j \in 0..(i - 1) : t[Slot(n, N, j)].rec # 0
  <2>1. k \in free /\ free \in SUBSET Nat /\ k < N
    BY <1>0, <1>5, <1>6
  <2>2. i \in free /\ \A j \in free : i <= j
    BY <2>1, MinIs
  <2> HIDE DEF i
  <2>3. QED
    BY <1>0, <2>1, <2>2
<1> HIDE DEF i
<1> DEFINE a == Slot(n, N, i)
<1>8. a \in 0..(N - 1) /\ t[a].rec = 0
  BY <1>0, <1>1, <1>7, SlotIs
<1>9. /\ DOMAIN u = 0..(N - 1) /\ u[a] = SlotValue(d, x)
      /\ \A z \in 0..(N - 1) : z # a => u[z] = t[z]
  BY <1>2, <1>8
<1> HIDE DEF u, free
<1>10. \A z \in 0..(N - 1) : t[z].rec # 0 => u[z] = t[z]
  BY <1>8, <1>9
<1>11. SlotValue(d, x).rec # 0 /\ \A r \in R : SlotValue(d, r).rec # 0
  BY <1>0 DEF SlotValue
<1>12. \A r \in 1..Len(d) : \A j \in Nat : Slot(d[r].name, N, j) \in 0..(N - 1)
  BY <1>0, <1>1, SlotIs
<1>13. ASSUME NEW r \in R PROVE Reached(u, d, N, r)
  <2>1. PICK l \in 0..(N - 1) :
          /\ t[Slot(d[r].name, N, l)] = SlotValue(d, r)
          /\ \A j \in 0..(l - 1) : t[Slot(d[r].name, N, j)].rec # 0
    BY DEF Holds, Reached
  <2>2. \A j \in 0..l : u[Slot(d[r].name, N, j)] = t[Slot(d[r].name, N, j)]
    <3>1. ASSUME NEW j \in 0..l PROVE t[Slot(d[r].name, N, j)].rec # 0
      <4>1. j = l \/ j \in 0..(l - 1)
        OBVIOUS
      <4>2. QED
        BY <1>11, <2>1, <4>1
    <3>2. \A j \in 0..l : Slot(d[r].name, N, j) \in 0..(N - 1)
      <4>1. r \in 1..Len(d) /\ \A j \in 0..l : j \in Nat
        OBVIOUS
      <4>2. QED
        BY <1>12, <4>1
    <3>3. QED
      BY <1>10, <3>1, <3>2
  <2>3. u[Slot(d[r].name, N, l)] = SlotValue(d, r)
    BY <2>1, <2>2
  <2>4. \A j \in 0..(l - 1) : u[Slot(d[r].name, N, j)].rec # 0
    BY <2>1, <2>2
  <2>5. QED
    BY <2>3, <2>4 DEF Reached
<1>14. Reached(u, d, N, x)
  <2>0. \A j \in 0..(i - 1) : Slot(n, N, j) \in 0..(N - 1)
    <3>1. \A j \in 0..(i - 1) : j \in Nat
      OBVIOUS
    <3>2. QED
      BY <1>12, <3>1
  <2>1. \A j \in 0..(i - 1) : u[Slot(n, N, j)].rec # 0
    BY <1>7, <1>10, <2>0
  <2>2. QED
    BY <1>7, <1>9, <2>1 DEF Reached
<1>15. \A z \in 0..(N - 1) : u[z] = Empty \/ \E r \in R \cup {x} : u[z] = SlotValue(d, r)
  BY <1>9 DEF Holds
<1>16. Cardinality(Used(u, N)) <= Cardinality(R \cup {x})
  <2>1. Used(u, N) = Used(t, N) \cup {a} /\ a \notin Used(t, N)
    BY <1>8, <1>9, <1>11 DEF Used
  <2>2. Cardinality(Used(u, N)) = Cardinality(Used(t, N)) + 1
    BY <1>4, <2>1, FS_AddElement
  <2>3. Cardinality(R \cup {x}) = Cardinality(R) + 1
    BY <1>0, FS_AddElement
  <2>4. QED
    BY <1>0, <1>4, <2>2, <2>3 DEF Holds
<1>17. QED
  BY <1>3, <1>9, <1>13, <1>14, <1>15, <1>16 DEF Holds

Mine(d, b) == {r \in DOMAIN d : BucketOf(d[r].name) = b}
EmptyTable(d, b) == [s \in 0..(2 * Cardinality(Mine(d, b)) - 1) |-> Empty]
TableNext(t, d, b, k) == IF k \in Mine(d, b) THEN Placed(t, d, k) ELSE t

IsTable(f, d, b, N) ==
    f = [k \in 0..N |-> IF k = 0 THEN EmptyTable(d, b) ELSE TableNext(f[k - 1], d, b, k)]

LEMMA TableExists == \A d, b : \A N \in Nat : \E f : IsTable(f, d, b, N)
<1> SUFFICES ASSUME NEW d, NEW b PROVE \A N \in Nat : \E f : IsTable(f, d, b, N)
  OBVIOUS
<1> DEFINE G == {N \in Nat : \E f : IsTable(f, d, b, N)}
           At(f, i) == IF i = 0 THEN EmptyTable(d, b) ELSE TableNext(f[i - 1], d, b, i)
<1>1. 0 \in G
  <2> DEFINE f == [i \in 0..0 |-> EmptyTable(d, b)]
  <2>1. \A i \in 0..0 : f[i] = At(f, i)
    OBVIOUS
  <2>2. f = [i \in 0..0 |-> f[i]]
    OBVIOUS
  <2> HIDE DEF f
  <2>3. IsTable(f, d, b, 0)
    BY <2>1, <2>2 DEF IsTable
  <2>4. QED
    BY <2>3
<1>2. ASSUME NEW N \in Nat, N \in G PROVE N + 1 \in G
  <2>1. PICK f : IsTable(f, d, b, N)
    BY <1>2
  <2> DEFINE g == [i \in 0..(N + 1) |-> IF i <= N THEN f[i] ELSE TableNext(f[i - 1], d, b, i)]
  <2>2. \A i \in 0..N : f[i] = At(f, i)
    BY <2>1 DEF IsTable
  <2>3. ASSUME NEW i \in 0..(N + 1) PROVE g[i] = At(g, i)
    <3>1. CASE i = 0
      BY <2>2, <3>1
    <3>2. CASE i # 0
      <4>1. i - 1 \in 0..N /\ g[i - 1] = f[i - 1]
        BY <3>2
      <4>2. g[i] = TableNext(f[i - 1], d, b, i)
        BY <2>2, <3>2
      <4>3. QED
        BY <3>2, <4>1, <4>2
    <3>3. QED
      BY <3>1, <3>2
  <2>4. g = [i \in 0..(N + 1) |-> g[i]]
    OBVIOUS
  <2> HIDE DEF g
  <2>5. IsTable(g, d, b, N + 1)
    BY <2>3, <2>4 DEF IsTable
  <2>6. QED
    BY <2>5
<1> HIDE DEF G
<1>3. \A N \in Nat : N \in G
  BY <1>1, <1>2, NatSetInduction
<1>4. QED
  BY <1>3 DEF G

\* The table of a bucket holds the bucket's records; it has slots to spare.
LEMMA TableHolds ==
    ASSUME NEW d \in Seq(Entry), NEW b
    PROVE  /\ IsFiniteSet(Mine(d, b)) /\ Cardinality(Mine(d, b)) \in Nat
           /\ Mine(d, b) \subseteq 1..Len(d)
           /\ Holds(BucketTable(d, b), d, 2 * Cardinality(Mine(d, b)), Mine(d, b))
<1> DEFINE R == Mine(d, b)
           N == 2 * Cardinality(R)
           L == Len(d)
           upto == CHOOSE f : IsTable(f, d, b, L)
<1>1. L \in Nat /\ DOMAIN d = 1..L
  BY EntryTypes
<1>2. R \subseteq 1..L /\ IsFiniteSet(R) /\ Cardinality(R) \in Nat
  <2>1. R \subseteq 1..L
    BY <1>1 DEF Mine
  <2>2. IsFiniteSet(1..L)
    BY <1>1, FS_Interval
  <2>3. QED
    BY <2>1, <2>2, FS_Subset, FS_CardinalityType
<1>3. IsTable(upto, d, b, L)
  BY <1>1, TableExists, Zenon
<1>4. BucketTable(d, b) = upto[L]
  BY DEF BucketTable, IsTable, Mine, EmptyTable, TableNext
<1> HIDE DEF upto, L
<1>5. /\ upto[0] = EmptyTable(d, b)
      /\ \A k \in 1..L : upto[k] = TableNext(upto[k - 1], d, b, k)
  <2>1. \A k \in 0..L : upto[k] = IF k = 0 THEN EmptyTable(d, b) ELSE TableNext(upto[k - 1], d, b, k)
    BY <1>3, Zenon DEF IsTable
  <2>2. 0 \in 0..L /\ \A k \in 1..L : k \in 0..L /\ k # 0
    BY <1>1
  <2>3. QED
    BY <2>1, <2>2
<1> DEFINE G == {k \in Nat : k \in 0..L => Holds(upto[k], d, N, R \cap 1..k)}
<1>6. 0 \in G
  <2> DEFINE t == EmptyTable(d, b)
  <2>1. t = [s \in 0..(N - 1) |-> Empty]
    BY DEF EmptyTable
  <2>2. DOMAIN t = 0..(N - 1) /\ \A s \in 0..(N - 1) : t[s] = Empty
    BY <2>1
  <2> HIDE DEF t
  <2>3. Used(t, N) = {} /\ R \cap 1..0 = {}
    BY <2>2 DEF Used, Empty
  <2>4. Holds(t, d, N, {})
    <3>1. Cardinality(Used(t, N)) <= Cardinality({})
      <4>1. Cardinality({}) = 0
        BY FS_EmptySet
      <4>2. QED
        BY <2>3, <4>1
    <3>2. QED
      BY <2>2, <3>1, Zenon DEF Holds
  <2>5. QED
    BY <1>5, <2>3, <2>4 DEF t
<1>7. ASSUME NEW k \in Nat, k \in G PROVE k + 1 \in G
  <2> DEFINE Q == R \cap 1..k
  <2>0. SUFFICES ASSUME k + 1 \in 0..L PROVE Holds(upto[k + 1], d, N, R \cap 1..(k + 1))
    OBVIOUS
  <2>1. k + 1 \in 1..L /\ k \in 0..L /\ Holds(upto[k], d, N, Q)
    BY <1>1, <1>7, <2>0
  <2>2. upto[k + 1] = TableNext(upto[k], d, b, k + 1)
    BY <1>5, <2>1
  <2>3. CASE k + 1 \notin R
    <3>1. R \cap 1..(k + 1) = Q
      <4>1. \A y \in 1..(k + 1) : y = k + 1 \/ y \in 1..k
        OBVIOUS
      <4>2. 1..k \subseteq 1..(k + 1)
        OBVIOUS
      <4>3. QED
        BY <2>3, <4>1, <4>2
    <3>2. QED
      BY <2>1, <2>2, <2>3, <3>1 DEF TableNext
  <2>4. CASE k + 1 \in R
    <3>1. R \cap 1..(k + 1) = Q \cup {k + 1} /\ k + 1 \notin Q
      <4>1. \A y \in 1..(k + 1) : y = k + 1 \/ y \in 1..k
        OBVIOUS
      <4>2. 1..k \subseteq 1..(k + 1) /\ k + 1 \notin 1..k /\ k + 1 \in 1..(k + 1)
        OBVIOUS
      <4>3. QED
        BY <2>4, <4>1, <4>2
    <3>2. Cardinality(Q) < N
      <4>1. Q \subseteq R /\ Q # R
        BY <2>4, <3>1
      <4>2. Cardinality(Q) < Cardinality(R) /\ Cardinality(Q) \in Nat
        BY <1>2, <4>1, FS_Subset, FS_CardinalityType
      <4>3. QED
        BY <1>2, <4>2
    <3>3. N \in Nat /\ Q \in SUBSET (1..Len(d)) /\ k + 1 \in 1..Len(d)
      BY <1>2, <2>1 DEF L
    <3> HIDE DEF N, Q
    <3>4. Holds(Placed(upto[k], d, k + 1), d, N, Q \cup {k + 1})
      BY <2>1, <3>1, <3>2, <3>3, PlacedHolds
    <3>5. QED
      BY <2>2, <2>4, <3>1, <3>4 DEF TableNext
  <2>5. QED
    BY <2>3, <2>4
<1> HIDE DEF G
<1>8. \A k \in Nat : k \in G
  BY <1>6, <1>7, NatSetInduction
<1>9. Holds(upto[L], d, N, R \cap 1..L)
  <2>1. L \in G /\ L \in 0..L
    BY <1>1, <1>8
  <2> HIDE DEF N, R
  <2>2. QED
    BY <2>1 DEF G
<1>10. R \cap 1..L = R
  BY <1>2
<1>11. QED
  BY <1>2, <1>4, <1>9, <1>10 DEF L

\* A lookup in the htree of a sorted directory finds what the directory has.
LEMMA HtreeLookupIs ==
    ASSUME NEW d \in Seq(Entry), Ascending(d), NEW n \in Names
    PROVE  HtreeLookup(HtreeBuild(d), n) = RefLookup(d, n)
<1> DEFINE b == BucketOf(n)
           t == BucketTable(d, b)
           R == Mine(d, b)
           N == 2 * Cardinality(R)
           hit(j) == \/ t[Slot(n, N, j)].rec = 0
                     \/ /\ t[Slot(n, N, j)].hash = NameHash[n]
                        /\ d[t[Slot(n, N, j)].rec].name = n
           hits == {j \in 0..N : j = N \/ hit(j)}
           i == Min(hits)
           e == t[Slot(n, N, i)]
<1>1. b \in Buckets /\ NBuckets \in Nat
  BY CodecAssumption, DivMod DEF BucketOf, Buckets
<1>2. /\ Cardinality(R) \in Nat /\ R \subseteq 1..Len(d) /\ Holds(t, d, N, R)
      /\ N \in Nat
  BY TableHolds
<1>3. DOMAIN t = 0..(N - 1) /\ Cardinality(DOMAIN t) = N
  <2>1. DOMAIN t = 0..(N - 1)
    BY <1>2 DEF Holds
  <2>2. Cardinality(0..(N - 1)) = N
    BY <1>2, BelowCount
  <2>3. QED
    BY <2>1, <2>2
<1>4. HtreeBuild(d).recs = d /\ HtreeBuild(d).tables[b] = t
  BY <1>1 DEF HtreeBuild
<1>5. HtreeLookup(HtreeBuild(d), n) =
        IF i = N THEN NotFound ELSE IF e.rec = 0 THEN NotFound ELSE Ok(d[e.rec])
  BY <1>3, <1>4 DEF HtreeLookup, FirstFrom
<1>6. hits \in SUBSET Nat /\ N \in hits
  BY <1>2
<1>7. i \in hits /\ \A j \in hits : i <= j
  BY <1>6, MinIs
<1> HIDE DEF i
<1>8. i \in 0..N /\ (i # N => hit(i))
  BY <1>7
<1>9. Distinct(d)
  BY AscendingIs
<1>10. \A r \in R : d[r].name \in Names /\ BucketOf(d[r].name) = b /\ SlotValue(d, r).rec = r
                    /\ r \in 1..Len(d) /\ r # 0
  BY <1>2, EntryTypes DEF Mine, SlotValue
<1>11. ASSUME NEW r \in 1..Len(d), d[r].name = n
       PROVE  HtreeLookup(HtreeBuild(d), n) = RefLookup(d, n)
  <2>1. r \in R
    BY <1>11, EntryTypes DEF Mine
  <2>2. PICK k \in 0..(N - 1) : /\ t[Slot(n, N, k)] = SlotValue(d, r)
                                /\ \A j \in 0..(k - 1) : t[Slot(n, N, j)].rec # 0
    BY <1>2, <1>11, <2>1 DEF Holds, Reached
  <2>3. hit(k) /\ k \in 0..N /\ k # N
    BY <1>2, <1>11, <2>2 DEF SlotValue
  <2>4. i <= k
    BY <1>7, <2>3
  <2>5. i \in 0..(N - 1) /\ i # N
    BY <1>2, <1>8, <2>4
  <2>6. e.rec # 0
    <3>1. CASE i = k
      BY <1>10, <2>1, <2>2, <3>1
    <3>2. CASE i < k
      <4>1. i \in 0..(k - 1)
        BY <1>8, <3>2
      <4>2. QED
        BY <2>2, <4>1
    <3>3. QED
      BY <2>4, <2>5, <3>1, <3>2
  <2>7. d[e.rec].name = n
    BY <1>8, <2>5, <2>6
  <2>8. e.rec \in 1..Len(d)
    <3>1. Slot(n, N, i) \in 0..(N - 1)
      <4>1. i \in Nat /\ N > 0
        BY <1>2, <2>5
      <4> HIDE DEF N
      <4>2. QED
        BY <1>2, <4>1, SlotIs
    <3>2. e = Empty \/ \E q \in R : e = SlotValue(d, q)
      BY <1>2, <3>1 DEF Holds
    <3>3. Empty.rec = 0
      BY DEF Empty
    <3>4. QED
      BY <1>10, <2>6, <3>2, <3>3
  <2>9. e.rec = r
    BY <1>9, <1>11, <2>7, <2>8 DEF Distinct
  <2>10. HtreeLookup(HtreeBuild(d), n) = Ok(d[r])
    BY <1>5, <2>5, <2>6, <2>9
  <2>11. QED
    BY <1>9, <1>11, <2>10, LookupFound
<1>12. ASSUME \A r \in 1..Len(d) : d[r].name # n
       PROVE  HtreeLookup(HtreeBuild(d), n) = RefLookup(d, n)
  <2>1. CASE i = N
    BY <1>5, <1>12, <2>1, LookupNothing
  <2>2. CASE i # N
    <3>1. Slot(n, N, i) \in 0..(N - 1)
      <4>1. i \in Nat /\ N > 0
        BY <1>2, <1>8, <2>2
      <4> HIDE DEF N
      <4>2. QED
        BY <1>2, <4>1, SlotIs
    <3>2. e = Empty \/ \E q \in R : e = SlotValue(d, q)
      BY <1>2, <3>1 DEF Holds
    <3>3. e.rec = 0
      BY <1>8, <1>10, <1>12, <2>2, <3>2 DEF Empty
    <3>4. QED
      BY <1>5, <1>12, <2>2, <3>3, LookupNothing
  <2>3. QED
    BY <2>1, <2>2
<1>13. QED
  BY <1>11, <1>12

-----------------------------------------------------------------------------
(* Both encodings list and look up what was stored.                        *)

\* The text of a directory, line by line.
LEMMA SerializeIs ==
    ASSUME NEW d \in Seq(Entry)
    PROVE  /\ Len(Serialize(d)) = Len(d) /\ DOMAIN Serialize(d) = 1..Len(d)
           /\ Serialize(d) = [i \in 1..Len(d) |-> Serialize(d)[i]]
           /\ \A i \in 1..Len(d) : /\ Serialize(d)[i].name = d[i].name
                                   /\ EntryOf(Serialize(d)[i]) = d[i]
<1>1. Len(d) \in Nat /\ DOMAIN d = 1..Len(d)
  BY EntryTypes
<1>2. Serialize(d) = [i \in 1..Len(d) |-> Spelled(d[i], "canon")]
  BY <1>1 DEF Serialize
<1>3. \A e \in Entry : EntryOf(Spelled(e, "canon")) = e /\ Spelled(e, "canon").name = e.name
  BY DEF Entry, EntryOf, Spelled
<1>4. \A i \in 1..Len(d) : d[i] \in Entry
  BY EntryTypes
<1>5. Len(Serialize(d)) = Len(d)
  BY <1>1, <1>2
<1>6. QED
  BY <1>1, <1>2, <1>3, <1>4, <1>5

LEMMA AscendingText ==
    ASSUME NEW d \in Seq(Entry)
    PROVE  Ascending(Serialize(d)) <=> Ascending(d)
<1>1. \A i \in 1..(Len(d) - 1) : i \in 1..Len(d) /\ i + 1 \in 1..Len(d)
  BY EntryTypes
<1>2. QED
  BY <1>1, SerializeIs DEF Ascending

LEMMA TextLoadIs ==
    ASSUME NEW d \in Seq(Entry), Ascending(d)
    PROVE  TextLoad(Serialize(d)) = Ok(d) /\ TextVerify(Serialize(d))
<1> DEFINE t == Serialize(d)
<1>1. [i \in DOMAIN t |-> EntryOf(t[i])] = d
  <2>1. DOMAIN t = 1..Len(d) /\ \A i \in 1..Len(d) : EntryOf(t[i]) = d[i]
    BY SerializeIs
  <2>2. d = [i \in 1..Len(d) |-> d[i]]
    OBVIOUS
  <2> HIDE DEF t
  <2>3. QED
    BY <2>1, <2>2
<1>2. Ascending(t)
  BY AscendingText
<1>3. TextLoad(t) = Ok(d)
  BY <1>1, <1>2 DEF TextLoad
<1>4. TextVerify(t)
  BY <1>3 DEF TextVerify, Ok
<1>5. QED
  BY <1>3, <1>4

LEMMA TextLookupIs ==
    ASSUME NEW d \in Seq(Entry), Ascending(d), NEW n \in Names
    PROVE  TextLookup(Serialize(d), n) = RefLookup(d, n)
<1> DEFINE t == Serialize(d)
           N == Len(d)
           hits == {j \in 0..N : j = N \/ t[j + 1].name >= n \/ (j > 0 /\ t[j].name >= t[j + 1].name)}
           i == Min(hits) + 1
<1>1. /\ N \in Nat /\ Len(t) = N /\ n \in Nat
      /\ \A j \in 1..N : t[j].name = d[j].name /\ d[j].name \in Nat /\ EntryOf(t[j]) = d[j]
  BY EntryTypes, SerializeIs, CodecAssumption
<1>2. TextLookup(t, n) =
        IF i > N THEN NotFound
        ELSE IF i > 1 /\ t[i - 1].name >= t[i].name THEN Err
        ELSE IF t[i].name = n THEN Ok(EntryOf(t[i])) ELSE NotFound
  <2> HIDE DEF t
  <2>1. QED
    BY <1>1 DEF TextLookup, FirstFrom
<1>3. hits \in SUBSET Nat /\ N \in hits
  BY <1>1
<1>4. Min(hits) \in hits /\ \A j \in hits : Min(hits) <= j
  BY <1>3, MinIs
<1> HIDE DEF t
<1>5. /\ i \in 1..(N + 1)
      /\ i <= N => t[i].name >= n \/ (i > 1 /\ t[i - 1].name >= t[i].name)
      /\ \A j \in 1..N : t[j].name >= n => i <= j
  <2>0. PICK m : m = Min(hits)
    OBVIOUS
  <2>1. /\ m \in 0..N /\ i = m + 1 /\ m = i - 1
        /\ m = N \/ t[m + 1].name >= n \/ (m > 0 /\ t[m].name >= t[m + 1].name)
    <3>1. m \in hits
      BY <1>4, <2>0
    <3>2. i = m + 1
      BY <2>0
    <3> HIDE DEF i
    <3>3. QED
      BY <1>1, <3>1, <3>2
  <2>2. ASSUME NEW j \in 1..N, t[j].name >= n PROVE i <= j
    <3>1. j - 1 \in hits
      BY <1>1, <2>2
    <3>2. m <= j - 1
      BY <1>4, <2>0, <3>1
    <3> HIDE DEF i
    <3>3. QED
      BY <1>1, <2>1, <3>2
  <2> HIDE DEF i, hits
  <2>3. i \in 1..(N + 1)
    BY <1>1, <2>1
  <2>4. i <= N => t[i].name >= n \/ (i > 1 /\ t[i - 1].name >= t[i].name)
    BY <1>1, <2>1
  <2>5. QED
    BY <2>2, <2>3, <2>4
<1> HIDE DEF i, hits, N
<1>6. \A a, b \in 1..N : a < b => t[a].name < t[b].name
  BY <1>1, AscendingIs DEF N
<1>7. i <= N => t[i].name >= n /\ ~ (i > 1 /\ t[i - 1].name >= t[i].name)
  <2>1. ASSUME i <= N, i > 1 PROVE t[i - 1].name < t[i].name
    BY <1>1, <1>5, <1>6, <2>1
  <2>2. ASSUME i <= N, i > 1 PROVE t[i - 1].name \in Nat /\ t[i].name \in Nat
    BY <1>1, <1>5, <2>2
  <2>3. QED
    BY <1>5, <2>1, <2>2
<1>8. ASSUME NEW k \in 1..N, d[k].name = n PROVE TextLookup(t, n) = RefLookup(d, n)
  <2>1. i <= k /\ i \in 1..N
    BY <1>1, <1>5, <1>8
  <2>2. ~ (i < k)
    BY <1>1, <1>6, <1>7, <1>8, <2>1
  <2>3. i = k
    BY <2>1, <2>2
  <2>4. TextLookup(t, n) = Ok(d[k])
    BY <1>1, <1>2, <1>7, <1>8, <2>1, <2>3
  <2>5. RefLookup(d, n) = Ok(d[k])
    BY <1>8, AscendingIs, LookupFound DEF N
  <2>6. QED
    BY <2>4, <2>5
<1>9. ASSUME \A k \in 1..N : d[k].name # n PROVE TextLookup(t, n) = RefLookup(d, n)
  <2>1. RefLookup(d, n) = NotFound
    BY <1>9, LookupNothing DEF N
  <2>2. i <= N => t[i].name # n
    BY <1>1, <1>5, <1>9
  <2>3. TextLookup(t, n) = NotFound
    BY <1>1, <1>2, <1>5, <1>7, <2>2
  <2>4. QED
    BY <2>1, <2>3
<1>10. TextLookup(t, n) = RefLookup(d, n)
  BY <1>8, <1>9
<1>11. QED
  BY <1>10 DEF t

LEMMA HtreeParseIs ==
    ASSUME NEW d \in Seq(Entry), Ascending(d)
    PROVE  HtreeParse(HtreeBuild(d)) = Ok(d) /\ HtreeVerify(HtreeBuild(d), Serialize(d))
<1>1. HtreeBuild(d).recs = d /\ HtreeBuild(d).scan = Len(d)
  BY DEF HtreeBuild
<1>2. SubSeq(d, 1, Len(d)) = d
  OBVIOUS
<1>3. HtreeParse(HtreeBuild(d)) = Ok(d)
  BY <1>1, <1>2 DEF HtreeParse
<1>4. SortDir(d) = d
  BY SortedSame
<1>5. QED
  BY <1>3, <1>4 DEF HtreeVerify, Ok

\* Every directory the encodings are tried with is a sorted sequence.
LEMMA DirsAre == \A d \in Dirs : d \in Seq(Entry) /\ Ascending(d)
<1>1. ASSUME NEW d \in Dirs PROVE d \in Seq(Entry) /\ Ascending(d)
  <2>1. PICK k \in 0..Cardinality(Names) : d \in [1..k -> Entry]
    BY DEF Dirs
  <2>2. k \in Nat
    BY <2>1, CodecAssumption, FS_CardinalityType
  <2>3. d \in Seq(Entry)
    BY <2>1, <2>2
  <2>4. QED
    BY <2>3 DEF Dirs
<1>2. QED
  BY <1>1

LEMMA TriedDir ==
    ASSUME Tries, tried[1] = "dir"
    PROVE  tried[2] \in Seq(Entry) /\ Ascending(tried[2])
<1>1. PICK d \in Dirs : tried = <<"dir", d>>
  BY DEF Tries, NotTried
<1>2. QED
  BY <1>1, DirsAre

\* Text and htree of every directory list and look up exactly its entries,
\* and pass their own verification, for any names, any hash function and any
\* number of buckets: tree_text_load, tree_text_lookup, htree_parse_dir and
\* htree_lookup_entry over what tree_serialize and htree_build write.
THEOREM EncodingsAlwaysAgree == Tries => EncodingsAgree
<1>1. SUFFICES ASSUME Tries, tried[1] = "dir" PROVE EncodingsAgree
  BY DEF EncodingsAgree
<1>2. PICK d : d = tried[2]
  OBVIOUS
<1>3. d \in Seq(Entry) /\ Ascending(d)
  BY <1>1, <1>2, TriedDir
<1>4. /\ TextLoad(Serialize(d)) = Ok(d) /\ HtreeParse(HtreeBuild(d)) = Ok(d)
      /\ TextVerify(Serialize(d)) /\ HtreeVerify(HtreeBuild(d), Serialize(d))
  BY <1>3, TextLoadIs, HtreeParseIs
<1>5. \A n \in Names : /\ TextLookup(Serialize(d), n) = RefLookup(d, n)
                       /\ HtreeLookup(HtreeBuild(d), n) = RefLookup(d, n)
  BY <1>3, TextLookupIs, HtreeLookupIs
<1>6. QED
  BY <1>2, <1>4, <1>5 DEF EncodingsAgree

\* An image of any size, with any records and any tables, that passes
\* htree_verify answers every lookup with the entry its address lists.
LEMMA VerifiedIs ==
    ASSUME NEW img, NEW addr, img.recs \in Seq(Entry), img.scan \in 0..Len(img.recs),
           HtreeVerify(img, addr), NEW n \in Names
    PROVE  LET d == HtreeParse(img) IN
           d.rc = "ok" /\ HtreeLookup(img, n) = RefLookup(d.out, n)
<1> DEFINE d == SubSeq(img.recs, 1, img.scan)
<1>1. d \in Seq(Entry)
  OBVIOUS
<1>2. HtreeParse(img).rc = "ok" /\ Ascending(d) /\ HtreeParse(img).out = d
  BY DEF HtreeVerify, HtreeParse, Ok, Err
<1>3. HtreeBuild(SortDir(d)) = img
  BY <1>2 DEF HtreeVerify
<1> HIDE DEF d
<1>4. HtreeLookup(img, n) = RefLookup(d, n)
  BY <1>1, <1>2, <1>3, SortedSame, HtreeLookupIs
<1>5. QED
  BY <1>2, <1>4

\* htree_verify, by building the object again, catches every table that
\* tells a different story than the records: no forged image that passes it
\* makes htree_lookup_entry answer otherwise than the listing.
THEOREM VerifiedLookupsHold == Tries => VerifiedLookups
<1>1. SUFFICES ASSUME Tries, tried[1] = "forged" PROVE VerifiedLookups
  BY DEF VerifiedLookups
<1>2. PICK k \in 0..2 : \E recs \in [1..k -> Entry], scan \in 0..k :
               tried = <<"forged", recs, scan>>
  BY <1>1 DEF Tries, NotTried
<1> PICK recs \in [1..k -> Entry], scan \in 0..k : tried = <<"forged", recs, scan>>
  BY <1>2
<1>3. recs \in Seq(Entry) /\ scan \in 0..Len(recs)
  OBVIOUS
<1>4. ASSUME NEW t, NEW addr, NEW n \in Names, HtreeVerify([recs |-> recs, scan |-> scan, tables |-> t], addr)
      PROVE  LET img == [recs |-> recs, scan |-> scan, tables |-> t]
             IN HtreeLookup(img, n) = RefLookup(HtreeParse(img).out, n)
  <2> DEFINE img == [recs |-> recs, scan |-> scan, tables |-> t]
  <2>1. img.recs = recs /\ img.scan = scan
    OBVIOUS
  <2> HIDE DEF img
  <2>2. HtreeVerify(img, addr)
    BY <1>4 DEF img
  <2>3. HtreeLookup(img, n) = RefLookup(HtreeParse(img).out, n)
    BY <1>3, <2>1, <2>2, VerifiedIs
  <2>4. QED
    BY <2>3 DEF img
<1>5. tried[2] = recs /\ tried[3] = scan
  OBVIOUS
<1>6. QED
  BY <1>4, <1>5 DEF VerifiedLookups

-----------------------------------------------------------------------------
(* The edits of castool import and rm.                                     *)

LEMMA SetIs ==
    ASSUME NEW d \in Seq(Entry)
    PROVE  /\ \A e : e \in ToSet(d) <=> \E i \in 1..Len(d) : e = d[i]
           /\ ToSet(d) \subseteq Entry
           /\ Distinct(d) <=> \A i, j \in 1..Len(d) : d[i].name = d[j].name => i = j
<1>1. DOMAIN d = 1..Len(d) /\ \A i \in 1..Len(d) : d[i] \in Entry
  BY EntryTypes
<1>2. \A e : e \in ToSet(d) <=> \E i \in 1..Len(d) : e = d[i]
  BY <1>1 DEF ToSet
<1>3. QED
  BY <1>1, <1>2 DEF Distinct

\* A lookup depends on the entries, not on their order.
LEMMA LookupIn ==
    ASSUME NEW d \in Seq(Entry), Distinct(d), NEW e \in ToSet(d)
    PROVE  RefLookup(d, e.name) = Ok(e)
<1>1. PICK i \in 1..Len(d) : e = d[i]
  BY SetIs
<1>2. QED
  BY <1>1, LookupFound

LEMMA LookupOut ==
    ASSUME NEW d, NEW n, \A e \in ToSet(d) : e.name # n
    PROVE  RefLookup(d, n) = NotFound
BY DEF RefLookup

\* Dropping a name takes its entry away, wherever it is, and no other.
LEMMA DroppedIs ==
    ASSUME NEW d \in Seq(Entry), Distinct(d), NEW n
    PROVE  /\ Dropped(d, n) \in Seq(Entry) /\ Distinct(Dropped(d, n))
           /\ \A e : e \in ToSet(Dropped(d, n)) <=> e \in ToSet(d) /\ e.name # n
<1> DEFINE L == Len(d)
           hits == {j \in 0..L : j = L \/ d[j + 1].name = n}
           c == Dropped(d, n)
<1>1. L \in Nat /\ DOMAIN d = 1..L /\ \A i \in 1..L : d[i] \in Entry
  BY EntryTypes
<1>2. PICK m : m = Min(hits)
  OBVIOUS
<1>3. m \in 0..L /\ (m = L \/ d[m + 1].name = n) /\ \A j \in hits : m <= j
  <2>1. hits \in SUBSET Nat /\ L \in hits
    BY <1>1
  <2>2. m \in hits /\ \A j \in hits : m <= j
    BY <1>2, <2>1, MinIs
  <2>3. QED
    BY <2>2
<1>4. c = IF m + 1 > L THEN d ELSE Front([d EXCEPT ![m + 1] = Last(d)])
  BY <1>2 DEF Dropped, FirstFrom
<1> HIDE DEF c
<1>5. CASE m = L
  <2>1. c = d
    BY <1>1, <1>4, <1>5
  <2>2. ASSUME NEW i \in 1..L PROVE d[i].name # n
    <3>1. d[i].name = n => i - 1 \in hits
      BY <1>1
    <3>2. i - 1 \in hits => L <= i - 1
      BY <1>3, <1>5
    <3> HIDE DEF hits, L
    <3>3. QED
      BY <1>1, <3>1, <3>2
  <2>3. \A e \in ToSet(d) : e.name # n
    BY <2>2, SetIs
  <2>4. QED
    BY <2>1, <2>3 DEF c
<1>6. CASE m # L
  <2> DEFINE i == m + 1
             g == [d EXCEPT ![i] = Last(d)]
             from(j) == IF j = i THEN L ELSE j
  <2>1. i \in 1..L /\ d[i].name = n /\ L >= 1 /\ L \in Nat
    <3> HIDE DEF hits, L
    <3>1. QED
      BY <1>1, <1>3, <1>6
  <2>2. g \in Seq(Entry) /\ Len(g) = L /\ \A j \in 1..L : g[j] = d[from(j)]
    <3>1. Last(d) = d[L]
      BY DEF Last
    <3>2. QED
      BY <1>1, <2>1, <3>1
  <2>3. c = SubSeq(g, 1, L - 1)
    BY <1>1, <1>4, <2>1, <2>2 DEF Front
  <2> HIDE DEF g, i
  <2>4. /\ c \in Seq(Entry) /\ Len(c) = L - 1
        /\ \A j \in 1..(L - 1) : c[j] = d[from(j)]
    <3>1. L - 1 \in Nat /\ \A j \in 1..(L - 1) : j \in 1..L
      BY <1>1, <2>1
    <3>2. c \in Seq(Entry) /\ Len(c) = L - 1 /\ \A j \in 1..(L - 1) : c[j] = g[j]
      BY <2>2, <2>3, <3>1
    <3>3. QED
      BY <2>2, <3>1, <3>2
  <2>5. /\ \A j \in 1..(L - 1) : from(j) \in 1..L /\ from(j) # i
        /\ \A j, k \in 1..(L - 1) : from(j) = from(k) => j = k
        /\ \A k \in 1..L : k # i => \E j \in 1..(L - 1) : from(j) = k
    <3> HIDE DEF L
    <3>1. \A j \in 1..(L - 1) : from(j) \in 1..L /\ from(j) # i
      BY <2>1
    <3>2. \A j, k \in 1..(L - 1) : from(j) = from(k) => j = k
      BY <1>1, <2>1
    <3>3. ASSUME NEW k \in 1..L, k # i PROVE \E j \in 1..(L - 1) : from(j) = k
      <4>1. CASE k = L
        <5>1. i \in 1..(L - 1) /\ from(i) = L
          BY <2>1, <3>3, <4>1
        <5>2. QED
          BY <4>1, <5>1
      <4>2. CASE k # L
        <5>1. k \in 1..(L - 1) /\ from(k) = k
          BY <2>1, <3>3, <4>2
        <5>2. QED
          BY <5>1
      <4>3. QED
        BY <4>1, <4>2
    <3>4. QED
      BY <3>1, <3>2, <3>3
  <2> HIDE DEF from
  <2>6. Distinct(c)
    <3>1. ASSUME NEW j \in 1..(L - 1), NEW k \in 1..(L - 1), c[j].name = c[k].name PROVE j = k
      <4>1. from(j) = from(k)
        BY <2>4, <2>5, <3>1 DEF Distinct
      <4>2. QED
        BY <2>5, <4>1
    <3>2. QED
      BY <2>4, <3>1 DEF Distinct
  <2>7. ASSUME NEW e PROVE e \in ToSet(c) <=> e \in ToSet(d) /\ e.name # n
    <3>1. e \in ToSet(c) <=> \E j \in 1..(L - 1) : e = d[from(j)]
      BY <2>4, SetIs
    <3>2. e \in ToSet(d) <=> \E k \in 1..L : e = d[k]
      BY SetIs
    <3>3. \A k \in 1..L : d[k].name # n <=> k # i
      BY <2>1 DEF Distinct
    <3>4. QED
      BY <2>5, <3>1, <3>2, <3>3
  <2>8. QED
    BY <2>4, <2>6, <2>7 DEF c
<1>7. QED
  BY <1>5, <1>6

\* Appending an entry of a new name.
LEMMA AppendedIs ==
    ASSUME NEW d \in Seq(Entry), Distinct(d), NEW x \in Entry, \A e \in ToSet(d) : e.name # x.name
    PROVE  /\ Append(d, x) \in Seq(Entry) /\ Distinct(Append(d, x))
           /\ \A e : e \in ToSet(Append(d, x)) <=> e \in ToSet(d) \/ e = x
<1> DEFINE L == Len(d)
           c == Append(d, x)
<1>1. L \in Nat /\ c \in Seq(Entry) /\ Len(c) = L + 1 /\ c[L + 1] = x /\ \A i \in 1..L : c[i] = d[i]
  OBVIOUS
<1> HIDE DEF c
<1>2. \A i \in 1..(L + 1) : i = L + 1 \/ i \in 1..L
  BY <1>1
<1>3. \A i \in 1..L : d[i].name # x.name /\ i # L + 1 /\ i \in 1..(L + 1)
  BY <1>1, SetIs
<1>4. L + 1 \in 1..(L + 1)
  BY <1>1
<1>5. ASSUME NEW i \in 1..(L + 1), NEW j \in 1..(L + 1), c[i].name = c[j].name PROVE i = j
  BY <1>1, <1>2, <1>3, <1>5 DEF Distinct
<1>6. Distinct(c)
  BY <1>1, <1>5 DEF Distinct
<1>7. ASSUME NEW e PROVE e \in ToSet(c) <=> e \in ToSet(d) \/ e = x
  <2>1. e \in ToSet(c) <=> \E i \in 1..(L + 1) : e = c[i]
    BY <1>1, SetIs
  <2>2. e \in ToSet(d) <=> \E i \in 1..L : e = d[i]
    BY SetIs
  <2>3. QED
    BY <1>1, <1>2, <1>3, <1>4, <2>1, <2>2
<1>8. QED
  BY <1>1, <1>6, <1>7 DEF c

\* The turns of the two loops.
FileNext(s, files, k) == Append(Dropped(s, files[k].name), files[k])
NameNext(s, names, k) == Dropped(s, names[k])

IsImport(f, d, files, N) ==
    f = [k \in 0..N |-> IF k = 0 THEN d ELSE FileNext(f[k - 1], files, k)]

LEMMA ImportExists == \A d, files : \A N \in Nat : \E f : IsImport(f, d, files, N)
<1> SUFFICES ASSUME NEW d, NEW files PROVE \A N \in Nat : \E f : IsImport(f, d, files, N)
  OBVIOUS
<1> DEFINE G == {N \in Nat : \E f : IsImport(f, d, files, N)}
           At(f, i) == IF i = 0 THEN d ELSE FileNext(f[i - 1], files, i)
<1>1. 0 \in G
  <2> DEFINE f == [i \in 0..0 |-> d]
  <2>1. \A i \in 0..0 : f[i] = At(f, i)
    OBVIOUS
  <2>2. f = [i \in 0..0 |-> f[i]]
    OBVIOUS
  <2> HIDE DEF f
  <2>3. IsImport(f, d, files, 0)
    BY <2>1, <2>2 DEF IsImport
  <2>4. QED
    BY <2>3
<1>2. ASSUME NEW N \in Nat, N \in G PROVE N + 1 \in G
  <2>1. PICK f : IsImport(f, d, files, N)
    BY <1>2
  <2> DEFINE g == [i \in 0..(N + 1) |-> IF i <= N THEN f[i] ELSE FileNext(f[i - 1], files, i)]
  <2>2. \A i \in 0..N : f[i] = At(f, i)
    BY <2>1 DEF IsImport
  <2>3. ASSUME NEW i \in 0..(N + 1) PROVE g[i] = At(g, i)
    <3>1. CASE i = 0
      BY <2>2, <3>1
    <3>2. CASE i # 0
      <4>1. i - 1 \in 0..N /\ g[i - 1] = f[i - 1]
        BY <3>2
      <4>2. g[i] = FileNext(f[i - 1], files, i)
        BY <2>2, <3>2
      <4>3. QED
        BY <3>2, <4>1, <4>2
    <3>3. QED
      BY <3>1, <3>2
  <2>4. g = [i \in 0..(N + 1) |-> g[i]]
    OBVIOUS
  <2> HIDE DEF g
  <2>5. IsImport(g, d, files, N + 1)
    BY <2>3, <2>4 DEF IsImport
  <2>6. QED
    BY <2>5
<1> HIDE DEF G
<1>3. \A N \in Nat : N \in G
  BY <1>1, <1>2, NatSetInduction
<1>4. QED
  BY <1>3 DEF G

IsRemoval(f, d, names, N) ==
    f = [k \in 0..N |-> IF k = 0 THEN d ELSE NameNext(f[k - 1], names, k)]

LEMMA RemovalExists == \A d, names : \A N \in Nat : \E f : IsRemoval(f, d, names, N)
<1> SUFFICES ASSUME NEW d, NEW names PROVE \A N \in Nat : \E f : IsRemoval(f, d, names, N)
  OBVIOUS
<1> DEFINE G == {N \in Nat : \E f : IsRemoval(f, d, names, N)}
           At(f, i) == IF i = 0 THEN d ELSE NameNext(f[i - 1], names, i)
<1>1. 0 \in G
  <2> DEFINE f == [i \in 0..0 |-> d]
  <2>1. \A i \in 0..0 : f[i] = At(f, i)
    OBVIOUS
  <2>2. f = [i \in 0..0 |-> f[i]]
    OBVIOUS
  <2> HIDE DEF f
  <2>3. IsRemoval(f, d, names, 0)
    BY <2>1, <2>2 DEF IsRemoval
  <2>4. QED
    BY <2>3
<1>2. ASSUME NEW N \in Nat, N \in G PROVE N + 1 \in G
  <2>1. PICK f : IsRemoval(f, d, names, N)
    BY <1>2
  <2> DEFINE g == [i \in 0..(N + 1) |-> IF i <= N THEN f[i] ELSE NameNext(f[i - 1], names, i)]
  <2>2. \A i \in 0..N : f[i] = At(f, i)
    BY <2>1 DEF IsRemoval
  <2>3. ASSUME NEW i \in 0..(N + 1) PROVE g[i] = At(g, i)
    <3>1. CASE i = 0
      BY <2>2, <3>1
    <3>2. CASE i # 0
      <4>1. i - 1 \in 0..N /\ g[i - 1] = f[i - 1]
        BY <3>2
      <4>2. g[i] = NameNext(f[i - 1], names, i)
        BY <2>2, <3>2
      <4>3. QED
        BY <3>2, <4>1, <4>2
    <3>3. QED
      BY <3>1, <3>2
  <2>4. g = [i \in 0..(N + 1) |-> g[i]]
    OBVIOUS
  <2> HIDE DEF g
  <2>5. IsRemoval(g, d, names, N + 1)
    BY <2>3, <2>4 DEF IsRemoval
  <2>6. QED
    BY <2>5
<1> HIDE DEF G
<1>3. \A N \in Nat : N \in G
  BY <1>1, <1>2, NatSetInduction
<1>4. QED
  BY <1>3 DEF G

\* What k files leave of a directory: its entries of other names, and the
\* last file of each name.
Imported(s, d, files, k) ==
    /\ s \in Seq(Entry) /\ Distinct(s)
    /\ \A e : e \in ToSet(s) <=>
          \/ e \in ToSet(d) /\ \A i \in 1..k : files[i].name # e.name
          \/ \E i \in 1..k : e = files[i] /\ \A j \in 1..k : j > i => files[j].name # e.name

LEMMA ImportIs ==
    ASSUME NEW d \in Seq(Entry), Distinct(d), NEW files \in Seq(Entry)
    PROVE  Imported(ImportFiles(d, files), d, files, Len(files))
<1> DEFINE N == Len(files)
           f == CHOOSE g : IsImport(g, d, files, N)
<1>1. N \in Nat /\ \A k \in 1..N : files[k] \in Entry
  OBVIOUS
<1>2. IsImport(f, d, files, N)
  BY <1>1, ImportExists, Zenon
<1>3. ImportFiles(d, files) = f[N]
  BY DEF ImportFiles, IsImport, FileNext
<1> HIDE DEF f, N
<1>4. f[0] = d /\ \A k \in 1..N : f[k] = FileNext(f[k - 1], files, k)
  <2>1. \A k \in 0..N : f[k] = IF k = 0 THEN d ELSE FileNext(f[k - 1], files, k)
    BY <1>2, Zenon DEF IsImport
  <2>2. 0 \in 0..N /\ \A k \in 1..N : k \in 0..N /\ k # 0
    BY <1>1
  <2>3. QED
    BY <2>1, <2>2
<1> DEFINE G == {k \in Nat : k <= N => Imported(f[k], d, files, k)}
<1>5. 0 \in G
  <2>1. \A i \in 1..0 : FALSE
    OBVIOUS
  <2>2. Imported(d, d, files, 0)
    BY <2>1 DEF Imported
  <2>3. QED
    BY <1>4, <2>2
<1>6. ASSUME NEW k \in Nat, k \in G PROVE k + 1 \in G
  <2>1. SUFFICES ASSUME k + 1 <= N PROVE Imported(f[k + 1], d, files, k + 1)
    OBVIOUS
  <2>2. PICK j : j = k + 1
    OBVIOUS
  <2>3. k <= N /\ j \in 1..N /\ j - 1 = k
    BY <1>1, <2>1, <2>2
  <2>4. Imported(f[k], d, files, k)
    BY <1>6, <2>3
  <2>5. f[j] = FileNext(f[k], files, j)
    BY <1>4, <2>3
  <2> DEFINE s == f[k]
             c == Dropped(s, files[j].name)
  <2> HIDE DEF s
  <2>6. s \in Seq(Entry) /\ Distinct(s)
    BY <2>4 DEF Imported, s
  <2>7. /\ c \in Seq(Entry) /\ Distinct(c)
        /\ \A e : e \in ToSet(c) <=> e \in ToSet(s) /\ e.name # files[j].name
    BY <2>6, DroppedIs
  <2>8. \A i : i \in 1..j <=> i \in 1..k \/ i = j
    BY <2>2
  <2>9. f[j] = Append(c, files[j]) /\ files[j] \in Entry
    BY <1>1, <2>3, <2>5 DEF FileNext, s
  <2> HIDE DEF c
  <2>10. /\ f[j] \in Seq(Entry) /\ Distinct(f[j])
         /\ \A e : e \in ToSet(f[j]) <=> e \in ToSet(c) \/ e = files[j]
    BY <2>7, <2>9, AppendedIs
  <2>11. ASSUME NEW e
         PROVE  e \in ToSet(f[j]) <=>
                  \/ e \in ToSet(d) /\ \A i \in 1..j : files[i].name # e.name
                  \/ \E i \in 1..j : e = files[i] /\ \A l \in 1..j : l > i => files[l].name # e.name
    <3> DEFINE Old(n) == e \in ToSet(d) /\ \A i \in 1..n : files[i].name # e.name
               New(n) == \E i \in 1..n : e = files[i] /\ \A l \in 1..n : l > i => files[l].name # e.name
    <3>1. e \in ToSet(s) <=> Old(k) \/ New(k)
      BY <2>4 DEF Imported, s
    <3>2. Old(j) <=> Old(k) /\ files[j].name # e.name
      BY <2>8
    <3>3. New(j) <=> (New(k) /\ files[j].name # e.name) \/ e = files[j]
      <4>1. ASSUME NEW i \in 1..j, e = files[i], \A l \in 1..j : l > i => files[l].name # e.name
            PROVE  (New(k) /\ files[j].name # e.name) \/ e = files[j]
        <5>1. CASE i = j
          BY <4>1, <5>1
        <5>2. CASE i # j
          <6>1. i \in 1..k /\ j > i /\ j \in 1..j
            BY <2>2, <2>8, <5>2
          <6>2. \A l \in 1..k : l > i => files[l].name # e.name
            BY <2>8, <4>1
          <6>3. QED
            BY <4>1, <6>1, <6>2
        <5>3. QED
          BY <5>1, <5>2
      <4>2. ASSUME New(k), files[j].name # e.name PROVE New(j)
        <5>1. PICK i \in 1..k : e = files[i] /\ \A l \in 1..k : l > i => files[l].name # e.name
          BY <4>2
        <5>2. i \in 1..j /\ \A l \in 1..j : l > i => files[l].name # e.name
          BY <2>8, <4>2, <5>1
        <5>3. QED
          BY <5>1, <5>2
      <4>3. ASSUME e = files[j] PROVE New(j)
        <5>1. j \in 1..j /\ \A l \in 1..j : ~ (l > j)
          BY <2>2
        <5>2. QED
          BY <4>3, <5>1
      <4>4. QED
        BY <4>1, <4>2, <4>3
    <3> HIDE DEF Old, New
    <3>4. e \in ToSet(f[j]) <=> Old(j) \/ New(j)
      BY <2>7, <2>10, <3>1, <3>2, <3>3
    <3>5. QED
      BY <3>4 DEF Old, New
  <2>12. Imported(f[j], d, files, j)
    BY <2>10, <2>11 DEF Imported
  <2>13. QED
    BY <2>2, <2>12
<1> HIDE DEF G
<1>7. \A k \in Nat : k \in G
  BY <1>5, <1>6, NatSetInduction
<1>8. N \in G
  BY <1>1, <1>7
<1>9. Imported(f[N], d, files, N)
  BY <1>1, <1>8 DEF G
<1>10. QED
  BY <1>3, <1>9 DEF N

Removed(s, d, names, k) ==
    /\ s \in Seq(Entry) /\ Distinct(s)
    /\ \A e : e \in ToSet(s) <=> e \in ToSet(d) /\ \A i \in 1..k : names[i] # e.name

LEMMA RemovalIs ==
    ASSUME NEW d \in Seq(Entry), Distinct(d), NEW names \in Seq(Names)
    PROVE  Removed(RemoveNames(d, names), d, names, Len(names))
<1> DEFINE N == Len(names)
           f == CHOOSE g : IsRemoval(g, d, names, N)
<1>1. N \in Nat /\ \A k \in 1..N : names[k] \in Names
  OBVIOUS
<1>2. IsRemoval(f, d, names, N)
  BY <1>1, RemovalExists, Zenon
<1>3. RemoveNames(d, names) = f[N]
  BY DEF RemoveNames, IsRemoval, NameNext
<1> HIDE DEF f, N
<1>4. f[0] = d /\ \A k \in 1..N : f[k] = NameNext(f[k - 1], names, k)
  <2>1. \A k \in 0..N : f[k] = IF k = 0 THEN d ELSE NameNext(f[k - 1], names, k)
    BY <1>2, Zenon DEF IsRemoval
  <2>2. 0 \in 0..N /\ \A k \in 1..N : k \in 0..N /\ k # 0
    BY <1>1
  <2>3. QED
    BY <2>1, <2>2
<1> DEFINE G == {k \in Nat : k <= N => Removed(f[k], d, names, k)}
<1>5. 0 \in G
  <2>1. \A i \in 1..0 : FALSE
    OBVIOUS
  <2>2. Removed(d, d, names, 0)
    BY <2>1 DEF Removed
  <2>3. QED
    BY <1>4, <2>2
<1>6. ASSUME NEW k \in Nat, k \in G PROVE k + 1 \in G
  <2>1. SUFFICES ASSUME k + 1 <= N PROVE Removed(f[k + 1], d, names, k + 1)
    OBVIOUS
  <2>2. PICK j : j = k + 1
    OBVIOUS
  <2>3. k <= N /\ j \in 1..N /\ j - 1 = k
    BY <1>1, <2>1, <2>2
  <2>4. Removed(f[k], d, names, k)
    BY <1>6, <2>3
  <2>5. f[j] = NameNext(f[k], names, j)
    BY <1>4, <2>3
  <2> DEFINE s == f[k]
             c == Dropped(s, names[j])
  <2> HIDE DEF s
  <2>6. s \in Seq(Entry) /\ Distinct(s)
    BY <2>4 DEF Removed, s
  <2>7. /\ c \in Seq(Entry) /\ Distinct(c)
        /\ \A e : e \in ToSet(c) <=> e \in ToSet(s) /\ e.name # names[j]
    BY <2>6, DroppedIs
  <2>8. \A i : i \in 1..j <=> i \in 1..k \/ i = j
    BY <2>2
  <2>9. f[j] = c
    BY <2>5 DEF NameNext, s
  <2> HIDE DEF c
  <2>10. ASSUME NEW e
         PROVE  e \in ToSet(f[j]) <=> e \in ToSet(d) /\ \A i \in 1..j : names[i] # e.name
    <3>1. e \in ToSet(s) <=> e \in ToSet(d) /\ \A i \in 1..k : names[i] # e.name
      BY <2>4 DEF Removed, s
    <3>2. QED
      BY <2>7, <2>8, <2>9, <3>1
  <2>11. Removed(f[j], d, names, j)
    BY <2>7, <2>9, <2>10 DEF Removed
  <2>12. QED
    BY <2>2, <2>11
<1> HIDE DEF G
<1>7. \A k \in Nat : k \in G
  BY <1>5, <1>6, NatSetInduction
<1>8. N \in G
  BY <1>1, <1>7
<1>9. Removed(f[N], d, names, N)
  BY <1>1, <1>8 DEF G
<1>10. QED
  BY <1>3, <1>9 DEF N

\* castool import stores, under every name, the last file given for it or
\* else what was there; it is never refused.
LEMMA ImportExact ==
    ASSUME NEW d \in Seq(Entry), Distinct(d), NEW files \in Seq(Entry)
    PROVE  LET out == StoreDir(ImportFiles(d, files)) IN
           /\ out.rc = "ok"
           /\ \A n \in Names : RefLookup(out.out, n) =
                IF FileFor(files, n) = NotFound THEN RefLookup(d, n) ELSE FileFor(files, n)
<1> DEFINE s == ImportFiles(d, files)
           N == Len(files)
           t == SortDir(s)
<1>1. Imported(s, d, files, N) /\ N \in Nat /\ DOMAIN files = 1..N
  BY ImportIs
<1>2. s \in Seq(Entry) /\ Distinct(s)
  BY <1>1 DEF Imported
<1> HIDE DEF s
<1>3. t \in Seq(Entry) /\ ToSet(t) = ToSet(s) /\ Ascending(t)
  BY <1>2, SortIs
<1> HIDE DEF t
<1>4. StoreDir(s).rc = "ok" /\ StoreDir(s).out = t
  BY <1>3 DEF StoreDir, Ok, t
<1>5. Distinct(t)
  BY <1>3, AscendingIs
<1>6. ASSUME NEW n \in Names
      PROVE  RefLookup(t, n) = IF FileFor(files, n) = NotFound THEN RefLookup(d, n) ELSE FileFor(files, n)
  <2> DEFINE at == {i \in DOMAIN files : files[i].name = n}
  <2>1. CASE at = {}
    <3>1. FileFor(files, n) = NotFound
      BY <2>1 DEF FileFor
    <3>2. \A i \in 1..N : files[i].name # n
      BY <1>1, <2>1
    <3>3. \A e : e.name = n => (e \in ToSet(t) <=> e \in ToSet(d))
      BY <1>1, <1>3, <3>2 DEF Imported
    <3>4. RefLookup(t, n) = RefLookup(d, n)
      <4>1. CASE \E e \in ToSet(d) : e.name = n
        <5>1. PICK e \in ToSet(d) : e.name = n
          BY <4>1
        <5>2. QED
          BY <1>3, <1>5, <3>3, <5>1, LookupIn
      <4>2. CASE \A e \in ToSet(d) : e.name # n
        BY <3>3, <4>2, LookupOut
      <4>3. QED
        BY <4>1, <4>2
    <3>5. QED
      BY <3>1, <3>4
  <2>2. CASE at # {}
    <3> DEFINE m == Max(at)
    <3>1. m \in at /\ \A i \in at : i <= m
      <4>1. at \in SUBSET (0..N)
        BY <1>1
      <4> HIDE DEF at
      <4>2. QED
        BY <1>1, <2>2, <4>1, MaxIs
    <3>2. FileFor(files, n) = Ok(files[m])
      BY <2>2 DEF FileFor
    <3> HIDE DEF m
    <3>3. m \in 1..N /\ files[m].name = n /\ \A j \in 1..N : j > m => files[j].name # n
      BY <1>1, <3>1
    <3>4. files[m] \in ToSet(t)
      BY <1>1, <1>3, <3>3 DEF Imported
    <3>5. RefLookup(t, n) = Ok(files[m])
      BY <1>3, <1>5, <3>3, <3>4, LookupIn
    <3>6. Ok(files[m]) # NotFound
      BY DEF Ok, NotFound
    <3>7. QED
      BY <3>2, <3>5, <3>6
  <2>3. QED
    BY <2>1, <2>2
<1>7. QED
  BY <1>4, <1>6 DEF s

\* castool rm takes away the names given, and nothing else.
LEMMA RemovalExact ==
    ASSUME NEW d \in Seq(Entry), Distinct(d), NEW names \in Seq(Names)
    PROVE  LET out == StoreDir(RemoveNames(d, names)) IN
           /\ out.rc = "ok"
           /\ \A n \in Names : RefLookup(out.out, n) =
                IF n \in ToSet(names) THEN NotFound ELSE RefLookup(d, n)
<1> DEFINE s == RemoveNames(d, names)
           N == Len(names)
           t == SortDir(s)
<1>1. Removed(s, d, names, N) /\ N \in Nat /\ DOMAIN names = 1..N
  BY RemovalIs
<1>2. s \in Seq(Entry) /\ Distinct(s)
  BY <1>1 DEF Removed
<1> HIDE DEF s
<1>3. t \in Seq(Entry) /\ ToSet(t) = ToSet(s) /\ Ascending(t)
  BY <1>2, SortIs
<1> HIDE DEF t
<1>4. StoreDir(s).rc = "ok" /\ StoreDir(s).out = t
  BY <1>3 DEF StoreDir, Ok, t
<1>5. Distinct(t)
  BY <1>3, AscendingIs
<1>6. \A e : e \in ToSet(t) <=> e \in ToSet(d) /\ e.name \notin ToSet(names)
  BY <1>1, <1>3 DEF Removed, ToSet
<1>7. ASSUME NEW n \in Names
      PROVE  RefLookup(t, n) = IF n \in ToSet(names) THEN NotFound ELSE RefLookup(d, n)
  <2>1. CASE n \in ToSet(names)
    BY <1>6, <2>1, LookupOut
  <2>2. CASE n \notin ToSet(names)
    <3>1. \A e : e.name = n => (e \in ToSet(t) <=> e \in ToSet(d))
      BY <1>6, <2>2
    <3>2. CASE \E e \in ToSet(d) : e.name = n
      <4>1. PICK e \in ToSet(d) : e.name = n
        BY <3>2
      <4>2. QED
        BY <1>3, <1>5, <2>2, <3>1, <4>1, LookupIn
    <3>3. CASE \A e \in ToSet(d) : e.name # n
      BY <2>2, <3>1, <3>3, LookupOut
    <3>4. QED
      BY <3>2, <3>3
  <2>3. QED
    BY <2>1, <2>2
<1>8. QED
  BY <1>4, <1>7 DEF s

\* Whatever is imported into or removed from whatever directory by cmd_import
\* and cmd_rm, with its gaps filled from the end of the array, the directory
\* stored afterwards has exactly what it should under every name.
THEOREM EditsAlwaysExact == Tries => EditsExact
<1>1. SUFFICES ASSUME Tries, tried[1] = "dir" PROVE EditsExact
  BY DEF EditsExact
<1>2. PICK d : d = tried[2]
  OBVIOUS
<1>3. d \in Seq(Entry) /\ Distinct(d)
  BY <1>1, <1>2, TriedDir, AscendingIs
<1>4. \A k \in 0..2 : \A files \in [1..k -> Entry] : files \in Seq(Entry)
  OBVIOUS
<1>5. \A k \in 0..2 : \A names \in [1..k -> Names] : names \in Seq(Names)
  OBVIOUS
<1>6. QED
  BY <1>2, <1>3, <1>4, <1>5, ImportExact, RemovalExact DEF EditsExact

=============================================================================
