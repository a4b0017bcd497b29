----------------------------- MODULE VfsProofs ------------------------------
(***************************************************************************)
(* Proofs about Vfs, for any names, depth, number of nodes and callers: the*)
(* node array is always a tree, the usage that quotas are measured by is   *)
(* the sum of the sizes of its files, a listing misses nothing, and the    *)
(* array implements the tree of VfsMap.  Memory does not run out: half a   *)
(* rename leaves no tree.                                                  *)
(***************************************************************************)
EXTENDS Vfs, FiniteInduction, SequenceTheorems, TLAPS

-----------------------------------------------------------------------------
(* Paths.                                                                  *)

LEMMA PathsAreSequences == \A p \in Paths : p \in Seq(Names)
BY DEF Paths

\* Being below, component by component.
LEMMA UnderIs ==
    ASSUME NEW p \in Seq(Names), NEW q \in Seq(Names)
    PROVE  Under(p, q) <=> Len(p) < Len(q) /\ \A k \in 1..Len(p) : q[k] = p[k]
<1>1. ASSUME Len(p) < Len(q)
      PROVE  SubSeq(q, 1, Len(p)) = p <=> \A k \in 1..Len(p) : q[k] = p[k]
  <2> DEFINE s == SubSeq(q, 1, Len(p))
  <2>1. s \in Seq(Names) /\ Len(s) = Len(p) /\ \A k \in 1..Len(p) : s[k] = q[k]
    BY <1>1
  <2> HIDE DEF s
  <2>2. QED
    BY <2>1, SeqEqual
<1>2. QED
  BY <1>1 DEF Under

LEMMA ParentIs ==
    ASSUME NEW p \in Seq(Names), p # Root
    PROVE  /\ Parent(p) \in Seq(Names) /\ Len(Parent(p)) = Len(p) - 1 /\ Len(p) \in Nat \ {0}
           /\ \A k \in 1..(Len(p) - 1) : Parent(p)[k] = p[k]
<1>1. Len(p) \in Nat \ {0}
  BY DEF Root
<1>2. QED
  BY <1>1 DEF Parent

\* Whoever is above a path is above its parent or is the parent.
LEMMA UnderParent ==
    ASSUME NEW p \in Seq(Names), NEW q \in Seq(Names), q # Root
    PROVE  Under(p, q) <=> p = Parent(q) \/ Under(p, Parent(q))
<1>1. /\ Parent(q) \in Seq(Names) /\ Len(Parent(q)) = Len(q) - 1 /\ Len(q) \in Nat \ {0}
      /\ \A k \in 1..(Len(q) - 1) : Parent(q)[k] = q[k]
  BY ParentIs
<1>2. PICK r \in Seq(Names) : r = Parent(q)
  BY <1>1
<1>3. ASSUME Under(p, q) PROVE p = r \/ Under(p, r)
  <2>1. Len(p) < Len(q) /\ \A k \in 1..Len(p) : q[k] = p[k]
    BY <1>3, UnderIs
  <2>2. \A k \in 1..Len(p) : r[k] = p[k]
    BY <1>1, <1>2, <2>1
  <2>3. CASE Len(p) = Len(r)
    BY <2>2, <2>3, SeqEqual
  <2>4. CASE Len(p) < Len(r)
    BY <2>2, <2>4, UnderIs
  <2>5. QED
    BY <1>1, <1>2, <2>1, <2>3, <2>4
<1>4. ASSUME p = r \/ Under(p, r) PROVE Under(p, q)
  <2>1. Len(p) <= Len(r) /\ \A k \in 1..Len(p) : r[k] = p[k]
    BY <1>4, UnderIs
  <2>2. Len(p) < Len(q) /\ \A k \in 1..Len(p) : q[k] = p[k]
    BY <1>1, <1>2, <2>1
  <2>3. QED
    BY <2>2, UnderIs
<1>5. QED
  BY <1>2, <1>3, <1>4

\* Below what is below.
LEMMA UnderTransitive ==
    ASSUME NEW p \in Seq(Names), NEW q \in Seq(Names), NEW r \in Seq(Names),
           Under(p, q), Under(q, r)
    PROVE  Under(p, r)
<1>1. Len(p) < Len(q) /\ \A k \in 1..Len(p) : q[k] = p[k]
  BY UnderIs
<1>2. Len(q) < Len(r) /\ \A k \in 1..Len(q) : r[k] = q[k]
  BY UnderIs
<1>3. Len(p) < Len(r) /\ \A k \in 1..Len(p) : r[k] = p[k]
  BY <1>1, <1>2
<1>4. QED
  BY <1>3, UnderIs

\* Two paths above the same one are one above the other.
LEMMA UnderComparable ==
    ASSUME NEW p \in Seq(Names), NEW q \in Seq(Names), NEW r \in Seq(Names),
           Under(p, r) \/ p = r, Under(q, r) \/ q = r
    PROVE  p = q \/ Under(p, q) \/ Under(q, p)
<1>1. Len(p) <= Len(r) /\ \A k \in 1..Len(p) : r[k] = p[k]
  BY UnderIs
<1>2. Len(q) <= Len(r) /\ \A k \in 1..Len(q) : r[k] = q[k]
  BY UnderIs
<1>3. CASE Len(p) = Len(q)
  <2>1. \A k \in 1..Len(p) : p[k] = q[k]
    BY <1>1, <1>2, <1>3
  <2>2. QED
    BY <1>3, <2>1, SeqEqual
<1>4. CASE Len(p) < Len(q)
  <2>1. \A k \in 1..Len(p) : q[k] = p[k]
    BY <1>1, <1>2, <1>4
  <2>2. QED
    BY <1>4, <2>1, UnderIs
<1>5. CASE Len(q) < Len(p)
  <2>1. \A k \in 1..Len(q) : p[k] = q[k]
    BY <1>1, <1>2, <1>5
  <2>2. QED
    BY <1>5, <2>1, UnderIs
<1>6. QED
  BY <1>3, <1>4, <1>5

\* The components of a path that has moved along with the directory above:
\* x is where q is found.
IsMoved(o, n, q, x) ==
    /\ x \in Seq(Names)
    /\ Len(x) = Len(n) + (Len(q) - Len(o)) /\ Len(o) <= Len(q)
    /\ \A k \in 1..Len(n) : x[k] = n[k]
    /\ \A k \in (Len(o) + 1)..Len(q) : x[k - Len(o) + Len(n)] = q[k]

LEMMA MovedIs ==
    ASSUME NEW o \in Seq(Names), NEW n \in Seq(Names), NEW q \in Seq(Names),
           Under(o, q) \/ q = o
    PROVE  IsMoved(o, n, q, Moved(o, n, q))
<1> DEFINE s == SubSeq(q, Len(o) + 1, Len(q))
<1>1. Len(o) <= Len(q) /\ Len(o) \in Nat /\ Len(q) \in Nat /\ Len(n) \in Nat
  BY UnderIs
<1>2. /\ s \in Seq(Names) /\ Len(s) = Len(q) - Len(o)
      /\ \A k \in 1..(Len(q) - Len(o)) : s[k] = q[Len(o) + k]
  BY <1>1
<1>3. Moved(o, n, q) = n \o s
  BY DEF Moved
<1> HIDE DEF s
<1>4. /\ n \o s \in Seq(Names) /\ Len(n \o s) = Len(n) + Len(s)
      /\ \A k \in 1..Len(n) : (n \o s)[k] = n[k]
      /\ \A k \in (Len(n) + 1)..(Len(n) + Len(s)) : (n \o s)[k] = s[k - Len(n)]
  <2>1. /\ n \o s \in Seq(Names) /\ Len(n \o s) = Len(n) + Len(s)
        /\ \A k \in 1..(Len(n) + Len(s)) :
              (n \o s)[k] = IF k <= Len(n) THEN n[k] ELSE s[k - Len(n)]
    BY <1>2, ConcatProperties
  <2>2. Len(s) \in Nat /\ Len(n) \in Nat
    BY <1>2
  <2>3. QED
    BY <2>1, <2>2
<1>5. ASSUME NEW k \in (Len(o) + 1)..Len(q)
      PROVE  (n \o s)[k - Len(o) + Len(n)] = q[k]
  <2>1. PICK j : j = k - Len(o) /\ j \in 1..(Len(q) - Len(o)) /\ Len(o) + j = k
    BY <1>1
  <2>2. s[j] = q[k]
    BY <1>2, <2>1
  <2>3. j + Len(n) \in (Len(n) + 1)..(Len(n) + Len(s)) /\ (j + Len(n)) - Len(n) = j
    BY <1>1, <1>2, <2>1
  <2>4. (n \o s)[j + Len(n)] = s[j]
    BY <1>4, <2>3
  <2>5. QED
    BY <2>1, <2>2, <2>4
<1>6. QED
  BY <1>1, <1>2, <1>3, <1>4, <1>5 DEF IsMoved

\* What moves along stays apart, in its place, and goes below the new name.
LEMMA MovedApart ==
    ASSUME NEW o \in Seq(Names), NEW n \in Seq(Names),
           NEW q \in Seq(Names), Under(o, q) \/ q = o,
           NEW r \in Seq(Names), Under(o, r) \/ r = o,
           Moved(o, n, q) = Moved(o, n, r)
    PROVE  q = r
<1>1. PICK x : x = Moved(o, n, q)
  OBVIOUS
<1>2. /\ Len(x) = Len(n) + (Len(q) - Len(o)) /\ Len(o) <= Len(q)
      /\ \A k \in (Len(o) + 1)..Len(q) : x[k - Len(o) + Len(n)] = q[k]
  <2>1. IsMoved(o, n, q, x)
    BY <1>1, MovedIs
  <2>2. QED
    BY <2>1 DEF IsMoved
<1>3. /\ Len(x) = Len(n) + (Len(r) - Len(o)) /\ Len(o) <= Len(r)
      /\ \A k \in (Len(o) + 1)..Len(r) : x[k - Len(o) + Len(n)] = r[k]
  <2>1. IsMoved(o, n, r, x)
    BY <1>1, MovedIs
  <2>2. QED
    BY <2>1 DEF IsMoved
<1>4. Len(q) = Len(r)
  BY <1>2, <1>3
<1>5. \A k \in 1..Len(o) : q[k] = o[k] /\ r[k] = o[k]
  BY UnderIs
<1>6. ASSUME NEW k \in 1..Len(q) PROVE q[k] = r[k]
  <2>1. CASE k <= Len(o)
    BY <1>5, <2>1
  <2>2. CASE k > Len(o)
    <3>1. k \in (Len(o) + 1)..Len(q) /\ k \in (Len(o) + 1)..Len(r)
      BY <1>2, <1>4, <2>2
    <3>2. QED
      BY <1>2, <1>3, <3>1
  <2>3. QED
    BY <1>2, <2>1, <2>2
<1>7. QED
  BY <1>4, <1>6, SeqEqual

LEMMA MovedRoot ==
    ASSUME NEW o \in Seq(Names), NEW n \in Seq(Names)
    PROVE  Moved(o, n, o) = n
<1>1. /\ Moved(o, n, o) \in Seq(Names) /\ Len(Moved(o, n, o)) = Len(n)
      /\ \A k \in 1..Len(n) : Moved(o, n, o)[k] = n[k]
  <2>1. IsMoved(o, n, o, Moved(o, n, o))
    BY MovedIs
  <2>2. QED
    BY <2>1 DEF IsMoved
<1>2. QED
  BY <1>1, SeqEqual

LEMMA MovedUnder ==
    ASSUME NEW o \in Seq(Names), NEW n \in Seq(Names), NEW q \in Seq(Names), Under(o, q)
    PROVE  /\ Under(n, Moved(o, n, q)) /\ q # Root /\ Moved(o, n, q) # Root
           /\ Parent(Moved(o, n, q)) = Moved(o, n, Parent(q))
           /\ Parent(q) \in Seq(Names) /\ (Under(o, Parent(q)) \/ Parent(q) = o)
<1>1. Len(o) < Len(q) /\ q # Root /\ Len(o) \in Nat /\ Len(n) \in Nat /\ Len(q) \in Nat
  BY UnderIs DEF Root
<1>2. PICK r \in Seq(Names) : r = Parent(q)
  BY <1>1, ParentIs
<1>3. Len(r) = Len(q) - 1 /\ \A k \in 1..(Len(q) - 1) : r[k] = q[k]
  BY <1>1, <1>2, ParentIs
<1>4. Under(o, r) \/ r = o
  BY <1>1, <1>2, UnderParent
<1>5. PICK x : x = Moved(o, n, q) /\ IsMoved(o, n, q, x)
  BY MovedIs
<1>6. /\ x \in Seq(Names) /\ Len(x) = Len(n) + (Len(q) - Len(o))
      /\ \A k \in 1..Len(n) : x[k] = n[k]
      /\ \A k \in (Len(o) + 1)..Len(q) : x[k - Len(o) + Len(n)] = q[k]
  BY <1>5 DEF IsMoved
<1>7. PICK y : y = Moved(o, n, r) /\ IsMoved(o, n, r, y)
  BY <1>4, MovedIs
<1>8. /\ y \in Seq(Names) /\ Len(y) = Len(n) + (Len(r) - Len(o)) /\ Len(o) <= Len(r)
      /\ \A k \in 1..Len(n) : y[k] = n[k]
      /\ \A k \in (Len(o) + 1)..Len(r) : y[k - Len(o) + Len(n)] = r[k]
  BY <1>7 DEF IsMoved
<1>9. Under(n, x) /\ x # Root
  <2>1. Len(n) < Len(x)
    BY <1>1, <1>6
  <2>2. QED
    BY <1>6, <2>1, UnderIs DEF Root
<1>10. /\ Parent(x) \in Seq(Names) /\ Len(Parent(x)) = Len(x) - 1
       /\ \A k \in 1..(Len(x) - 1) : Parent(x)[k] = x[k]
  BY <1>6, <1>9, ParentIs
<1>11. Len(Parent(x)) = Len(y)
  BY <1>1, <1>3, <1>6, <1>8, <1>10
<1>12. ASSUME NEW k \in 1..Len(y) PROVE Parent(x)[k] = y[k]
  <2>1. Parent(x)[k] = x[k]
    BY <1>10, <1>11
  <2>2. CASE k <= Len(n)
    BY <1>6, <1>8, <2>1, <2>2
  <2>3. CASE k > Len(n)
    <3>1. PICK j : j = k - Len(n) + Len(o)
      OBVIOUS
    <3>2. Len(y) = Len(n) + (Len(r) - Len(o)) /\ Len(r) = Len(q) - 1 /\ k \in 1..Len(y)
      BY <1>3, <1>8
    <3>3. /\ j - Len(o) + Len(n) = k /\ j \in (Len(o) + 1)..Len(r)
          /\ j \in (Len(o) + 1)..Len(q) /\ j \in 1..(Len(q) - 1)
      BY <1>1, <2>3, <3>1, <3>2
    <3>4. x[k] = q[j] /\ y[k] = r[j] /\ r[j] = q[j]
      BY <1>3, <1>6, <1>8, <3>3
    <3>5. QED
      BY <2>1, <3>4
  <2>4. QED
    BY <1>1, <1>8, <2>2, <2>3
<1>13. Parent(x) = y
  BY <1>8, <1>10, <1>11, <1>12, SeqEqual
<1>14. QED
  BY <1>1, <1>2, <1>4, <1>5, <1>7, <1>9, <1>13

-----------------------------------------------------------------------------
(* The array as a set of nodes.                                            *)

Unique(t) == \A i, j \in DOMAIN t : t[i].path = t[j].path => i = j

\* Among the nodes R there is a directory p.
DirIn(R, p) == p = Root \/ \E v \in R : v.path = p /\ v.type = "dir"

\* Above every node of R there is a directory.
Closed(R) == \A v \in R : v.path # Root /\ DirIn(R, Parent(v.path))

\* Array of nodes that form a tree; directories have no contents.
IsTree(t) ==
    /\ t \in Seq(Node) /\ Unique(t) /\ Closed(Range(t))
    /\ \A v \in Range(t) : v.type = "dir" => v.data = Empty

LEMMA RangeIs ==
    ASSUME NEW t \in Seq(Node)
    PROVE  /\ DOMAIN t = 1..Len(t) /\ Len(t) \in Nat
           /\ \A i \in DOMAIN t : t[i] \in Range(t)
           /\ \A v \in Range(t) : v \in Node /\ \E i \in DOMAIN t : v = t[i]
BY DEF Range

LEMMA NodeIs ==
    ASSUME NEW v \in Node
    PROVE  /\ v.path \in Seq(Names) /\ v.type \in {"file", "dir"} /\ v.mode \in SUBSET Perms
           /\ v.owner \in Nat /\ v.data \in Data
BY DEF Node

\* find_node finds a node with that path if there is one.
LEMMA FindIs ==
    ASSUME NEW t \in Seq(Node), NEW p
    PROVE  /\ Find(t, p) = 0 <=> \A i \in DOMAIN t : t[i].path # p
           /\ Find(t, p) # 0 => Find(t, p) \in DOMAIN t /\ t[Find(t, p)].path = p
<1> DEFINE at == {i \in DOMAIN t : t[i].path = p}
<1>1. at \in SUBSET Nat /\ 0 \notin at
  BY RangeIs
<1>2. CASE at = {}
  BY <1>2 DEF Find
<1>3. CASE at # {}
  <2>1. Find(t, p) = Min(at)
    BY <1>3 DEF Find
  <2>2. \E i \in at : \A j \in at : i <= j
    <3> HIDE DEF at
    <3>1. QED
      BY <1>1, <1>3, LeastNatural
  <2>3. Min(at) \in at
    <3> HIDE DEF at
    <3>1. QED
      BY <2>2 DEF Min
  <2> HIDE DEF at
  <2>4. Find(t, p) \in at /\ Find(t, p) # 0
    BY <1>1, <2>1, <2>3
  <2>5. QED
    BY <2>4 DEF at
<1>4. QED
  BY <1>2, <1>3

\* There is one node with that path, the one find_node finds.
LEMMA FindUnique ==
    ASSUME NEW t \in Seq(Node), Unique(t), NEW i \in DOMAIN t
    PROVE  Find(t, t[i].path) = i
BY FindIs DEF Unique

LEMMA DirNodeIs ==
    ASSUME NEW t \in Seq(Node), Unique(t), NEW p
    PROVE  IsDirNode(t, p) <=> DirIn(Range(t), p)
<1>1. ASSUME IsDirNode(t, p), p # Root PROVE DirIn(Range(t), p)
  BY <1>1, FindIs, RangeIs DEF IsDirNode, DirIn
<1>2. ASSUME DirIn(Range(t), p), p # Root PROVE IsDirNode(t, p)
  <2>1. PICK v \in Range(t) : v.path = p /\ v.type = "dir"
    BY <1>2 DEF DirIn
  <2>2. PICK i \in DOMAIN t : v = t[i]
    BY RangeIs
  <2>3. Find(t, p) = i /\ i # 0
    BY <2>1, <2>2, FindUnique, RangeIs
  <2>4. QED
    BY <2>1, <2>2, <2>3 DEF IsDirNode
<1>3. QED
  BY <1>1, <1>2 DEF IsDirNode, DirIn

\* A node added at the end.
LEMMA AppendIs ==
    ASSUME NEW t \in Seq(Node), NEW v \in Node
    PROVE  /\ Append(t, v) \in Seq(Node) /\ Range(Append(t, v)) = Range(t) \cup {v}
           /\ Unique(t) /\ (\A i \in DOMAIN t : t[i].path # v.path) => Unique(Append(t, v))
<1>1. PICK u : u = Append(t, v)
  OBVIOUS
<1>2. /\ u \in Seq(Node) /\ Len(u) = Len(t) + 1 /\ DOMAIN u = 1..(Len(t) + 1)
      /\ u[Len(t) + 1] = v /\ \A i \in 1..Len(t) : u[i] = t[i]
  BY <1>1
<1>3. DOMAIN t = 1..Len(t) /\ Len(t) \in Nat
  OBVIOUS
<1>4. Range(u) = Range(t) \cup {v}
  BY <1>2, <1>3 DEF Range
<1>5. Unique(t) /\ (\A i \in DOMAIN t : t[i].path # v.path) => Unique(u)
  BY <1>2, <1>3 DEF Unique
<1>6. QED
  BY <1>1, <1>2, <1>4, <1>5

\* Nodes added at the end.
LEMMA ConcatIs ==
    ASSUME NEW t \in Seq(Node), NEW s \in Seq(Node)
    PROVE  /\ t \o s \in Seq(Node) /\ Range(t \o s) = Range(t) \cup Range(s)
           /\ Len(t \o s) = Len(t) + Len(s)
           /\ /\ Unique(t) /\ Unique(s)
              /\ \A i \in DOMAIN t, j \in DOMAIN s : t[i].path # s[j].path
              => Unique(t \o s)
<1>1. PICK u : u = t \o s
  OBVIOUS
<1>2. /\ u \in Seq(Node) /\ Len(u) = Len(t) + Len(s)
      /\ \A i \in 1..(Len(t) + Len(s)) : u[i] = IF i <= Len(t) THEN t[i] ELSE s[i - Len(t)]
  BY <1>1, ConcatProperties
<1>3. /\ DOMAIN t = 1..Len(t) /\ DOMAIN s = 1..Len(s) /\ Len(t) \in Nat /\ Len(s) \in Nat
      /\ DOMAIN u = 1..(Len(t) + Len(s))
  BY <1>2
<1>4. Range(u) = Range(t) \cup Range(s)
  <2>1. ASSUME NEW i \in DOMAIN u PROVE u[i] \in Range(t) \cup Range(s)
    <3>1. CASE i <= Len(t)
      BY <1>2, <1>3, <3>1 DEF Range
    <3>2. CASE ~ (i <= Len(t))
      <4>1. i - Len(t) \in DOMAIN s /\ u[i] = s[i - Len(t)]
        BY <1>2, <1>3, <3>2
      <4>2. QED
        BY <4>1 DEF Range
    <3>3. QED
      BY <3>1, <3>2
  <2>2. ASSUME NEW i \in DOMAIN t PROVE t[i] \in Range(u)
    <3>1. i \in DOMAIN u /\ u[i] = t[i]
      BY <1>2, <1>3
    <3>2. QED
      BY <3>1 DEF Range
  <2>3. ASSUME NEW j \in DOMAIN s PROVE s[j] \in Range(u)
    <3>1. Len(t) + j \in DOMAIN u /\ u[Len(t) + j] = s[j]
      BY <1>2, <1>3
    <3>2. QED
      BY <3>1 DEF Range
  <2>4. QED
    BY <2>1, <2>2, <2>3 DEF Range
<1>5. ASSUME Unique(t), Unique(s), \A i \in DOMAIN t, j \in DOMAIN s : t[i].path # s[j].path
      PROVE  Unique(u)
  <2> SUFFICES ASSUME NEW i \in DOMAIN u, NEW j \in DOMAIN u, u[i].path = u[j].path
               PROVE  i = j
    BY DEF Unique
  <2>1. CASE i <= Len(t) /\ j <= Len(t)
    BY <1>2, <1>3, <1>5, <2>1 DEF Unique
  <2>2. CASE i <= Len(t) /\ ~ (j <= Len(t))
    <3>1. j - Len(t) \in DOMAIN s /\ i \in DOMAIN t /\ u[j] = s[j - Len(t)] /\ u[i] = t[i]
      BY <1>2, <1>3, <2>2
    <3>2. QED
      BY <1>5, <3>1
  <2>3. CASE ~ (i <= Len(t)) /\ j <= Len(t)
    <3>1. i - Len(t) \in DOMAIN s /\ j \in DOMAIN t /\ u[i] = s[i - Len(t)] /\ u[j] = t[j]
      BY <1>2, <1>3, <2>3
    <3>2. QED
      BY <1>5, <3>1
  <2>4. CASE ~ (i <= Len(t)) /\ ~ (j <= Len(t))
    <3>1. /\ i - Len(t) \in DOMAIN s /\ j - Len(t) \in DOMAIN s
          /\ u[i] = s[i - Len(t)] /\ u[j] = s[j - Len(t)]
      BY <1>2, <1>3, <2>4
    <3>2. i - Len(t) = j - Len(t)
      BY <1>5, <3>1 DEF Unique
    <3>3. QED
      BY <1>3, <3>2
  <2>5. QED
    BY <2>1, <2>2, <2>3, <2>4
<1>6. QED
  BY <1>1, <1>2, <1>4, <1>5

\* remove_node: one node less, the last in its place.
LEMMA RemoveIs ==
    ASSUME NEW t \in Seq(Node), NEW i \in DOMAIN t
    PROVE  /\ RemoveNode(t, i) \in Seq(Node) /\ Len(RemoveNode(t, i)) = Len(t) - 1
           /\ DOMAIN RemoveNode(t, i) = 1..(Len(t) - 1)
           /\ \A k \in 1..(Len(t) - 1) :
                 RemoveNode(t, i)[k] = IF k = i THEN t[Len(t)] ELSE t[k]
<1>1. Len(t) \in Nat \ {0} /\ i \in 1..Len(t) /\ Len(t) \in DOMAIN t
  OBVIOUS
<1>2. CASE i < Len(t)
  <2>1. PICK u : u = [t EXCEPT ![i] = t[Len(t)]]
    OBVIOUS
  <2>2. /\ u \in Seq(Node) /\ Len(u) = Len(t)
        /\ \A k \in 1..Len(t) : u[k] = IF k = i THEN t[Len(t)] ELSE t[k]
    BY <1>1, <2>1
  <2>3. RemoveNode(t, i) = SubSeq(u, 1, Len(t) - 1)
    BY <1>2, <2>1 DEF RemoveNode
  <2>4. QED
    BY <1>1, <2>2, <2>3
<1>3. CASE ~ (i < Len(t))
  <2>1. RemoveNode(t, i) = SubSeq(t, 1, Len(t) - 1) /\ i = Len(t)
    BY <1>1, <1>3 DEF RemoveNode
  <2>2. QED
    BY <1>1, <2>1
<1>4. QED
  BY <1>2, <1>3

LEMMA RemoveUnique ==
    ASSUME NEW t \in Seq(Node), Unique(t), NEW i \in DOMAIN t
    PROVE  Unique(RemoveNode(t, i)) /\ Range(RemoveNode(t, i)) = Range(t) \ {t[i]}
<1>1. PICK u : u = RemoveNode(t, i)
  OBVIOUS
<1>2. /\ u \in Seq(Node) /\ DOMAIN u = 1..(Len(t) - 1)
      /\ \A k \in 1..(Len(t) - 1) : u[k] = IF k = i THEN t[Len(t)] ELSE t[k]
  BY <1>1, RemoveIs
<1>3. Len(t) \in Nat \ {0} /\ i \in 1..Len(t) /\ DOMAIN t = 1..Len(t)
  OBVIOUS
<1>4. Unique(u)
  BY <1>2, <1>3 DEF Unique
<1>5. ASSUME NEW k \in DOMAIN u PROVE u[k] \in Range(t) \ {t[i]}
  <2>1. PICK j \in DOMAIN t : j # i /\ u[k] = t[j]
    BY <1>2, <1>3
  <2>2. t[j] # t[i]
    BY <2>1 DEF Unique
  <2>3. QED
    BY <2>1, <2>2 DEF Range
<1>6. ASSUME NEW j \in DOMAIN t, t[j] # t[i] PROVE t[j] \in Range(u)
  <2>1. \E k \in DOMAIN u : u[k] = t[j]
    <3>1. CASE j = Len(t)
      <4>1. i \in DOMAIN u /\ u[i] = t[j]
        BY <1>2, <1>3, <1>6, <3>1
      <4>2. QED
        BY <4>1
    <3>2. CASE j # Len(t)
      <4>1. j \in DOMAIN u /\ u[j] = t[j]
        BY <1>2, <1>3, <1>6, <3>2
      <4>2. QED
        BY <4>1
    <3>3. QED
      BY <3>1, <3>2
  <2>2. QED
    BY <2>1 DEF Range
<1>7. Range(u) = Range(t) \ {t[i]}
  BY <1>5, <1>6 DEF Range
<1>8. QED
  BY <1>1, <1>4, <1>7

-----------------------------------------------------------------------------
(* The bytes in an array.                                                  *)

\* The bytes a node counts for.
Bytes(v) == IF v.type = "file" THEN Size[v.data] ELSE 0

Counts(t) == [i \in DOMAIN t |-> Bytes(t[i])]
Total(t) == SumFunction(Counts(t))

LEMMA CountsIs ==
    ASSUME NEW t \in Seq(Node)
    PROVE  /\ IsFiniteSet(DOMAIN t) /\ Counts(t) \in [DOMAIN t -> Nat]
           /\ [i \in DOMAIN t |-> Freed(t, i)] = Counts(t)
<1>1. IsFiniteSet(1..Len(t)) /\ DOMAIN t = 1..Len(t)
  BY FS_Interval
<1>2. \A i \in DOMAIN t : Bytes(t[i]) \in Nat
  BY NodeIs, DataAssumption DEF Bytes
<1>3. QED
  BY <1>1, <1>2 DEF Counts, Freed, Bytes

LEMMA TotalType ==
    ASSUME NEW t \in Seq(Node)
    PROVE  Total(t) \in Nat
<1>1. /\ IsFiniteSet(DOMAIN t) /\ Counts(t) \in [DOMAIN t -> Nat]
  BY CountsIs
<1>2. IsFiniteSet(Pile(Counts(t))) /\ Total(t) = Cardinality(Pile(Counts(t)))
  BY <1>1, SumIsPile DEF Total
<1>3. QED
  BY <1>2, FS_CardinalityType

\* Nothing added: the same counts, or nodes that count for nothing.
LEMMA TotalConcat ==
    ASSUME NEW t \in Seq(Node), NEW s \in Seq(Node), \A i \in DOMAIN s : Bytes(s[i]) = 0
    PROVE  Total(t \o s) = Total(t)
<1>1. PICK u : u = t \o s
  OBVIOUS
<1>2. /\ u \in Seq(Node) /\ Len(u) = Len(t) + Len(s)
      /\ \A i \in 1..(Len(t) + Len(s)) : u[i] = IF i <= Len(t) THEN t[i] ELSE s[i - Len(t)]
  BY <1>1, ConcatProperties
<1>3. /\ DOMAIN t = 1..Len(t) /\ DOMAIN s = 1..Len(s) /\ Len(t) \in Nat /\ Len(s) \in Nat
      /\ DOMAIN u = 1..(Len(t) + Len(s)) /\ DOMAIN t \subseteq DOMAIN u
  BY <1>2
<1>4. \A i \in DOMAIN t : u[i] = t[i]
  BY <1>2, <1>3
<1>5. ASSUME NEW i \in DOMAIN u, i \notin DOMAIN t PROVE Bytes(u[i]) = 0
  <2>1. i - Len(t) \in DOMAIN s /\ u[i] = s[i - Len(t)]
    BY <1>2, <1>3, <1>5
  <2>2. QED
    BY <2>1
<1>6. Pile(Counts(u)) = Pile(Counts(t))
  <2>1. /\ DOMAIN Counts(u) = DOMAIN u /\ DOMAIN Counts(t) = DOMAIN t
        /\ \A i \in DOMAIN t : Counts(u)[i] = Counts(t)[i]
        /\ \A i \in DOMAIN u \ DOMAIN t : Counts(u)[i] = 0
    BY <1>3, <1>4, <1>5 DEF Counts
  <2>2. 1..0 = {}
    OBVIOUS
  <2>3. ASSUME NEW x PROVE x \in Pile(Counts(u)) <=> x \in Pile(Counts(t))
    <3>1. ASSUME x \in Pile(Counts(u)) PROVE x \in Pile(Counts(t))
      <4>1. PICK i \in DOMAIN u : x \in {i} \X (1..Counts(u)[i])
        BY <2>1, <3>1 DEF Pile
      <4>2. i \in DOMAIN t
        BY <2>1, <2>2, <4>1
      <4>3. QED
        BY <2>1, <4>1, <4>2 DEF Pile
    <3>2. ASSUME x \in Pile(Counts(t)) PROVE x \in Pile(Counts(u))
      <4>1. PICK i \in DOMAIN t : x \in {i} \X (1..Counts(t)[i])
        BY <2>1, <3>2 DEF Pile
      <4>2. QED
        BY <1>3, <2>1, <4>1 DEF Pile
    <3>3. QED
      BY <3>1, <3>2
  <2>4. QED
    BY <2>3
<1>7. /\ IsFiniteSet(DOMAIN t) /\ Counts(t) \in [DOMAIN t -> Nat]
      /\ IsFiniteSet(DOMAIN u) /\ Counts(u) \in [DOMAIN u -> Nat]
  BY <1>2, CountsIs
<1>8. Total(u) = Cardinality(Pile(Counts(u))) /\ Total(t) = Cardinality(Pile(Counts(t)))
  BY <1>7, SumIsPile DEF Total
<1>9. QED
  BY ONLY <1>1, <1>6, <1>8, Zenon

\* One node replaced.
LEMMA TotalReplace ==
    ASSUME NEW t \in Seq(Node), NEW u \in Seq(Node), NEW i \in DOMAIN t, DOMAIN u = DOMAIN t,
           \A j \in DOMAIN t : j # i => Bytes(u[j]) = Bytes(t[j])
    PROVE  Total(u) = Total(t) - Bytes(t[i]) + Bytes(u[i])
<1>1. /\ IsFiniteSet(DOMAIN t) /\ Counts(t) \in [DOMAIN t -> Nat]
      /\ IsFiniteSet(DOMAIN u) /\ Counts(u) \in [DOMAIN u -> Nat]
  BY CountsIs
<1>2. But(Counts(u), i) = But(Counts(t), i)
  BY DEF But, Counts
<1>3. Counts(t)[i] = Bytes(t[i]) /\ Counts(u)[i] = Bytes(u[i])
  BY DEF Counts
<1>4. /\ Total(t) = Counts(t)[i] + SumFunction(But(Counts(t), i))
      /\ SumFunction(But(Counts(t), i)) \in Nat
  BY <1>1, SumSplit DEF Total
<1>5. Total(u) = Counts(u)[i] + SumFunction(But(Counts(u), i))
  BY <1>1, SumSplit DEF Total
<1>6. SumFunction(But(Counts(u), i)) = SumFunction(But(Counts(t), i))
  BY ONLY <1>2, Zenon
<1>7. Bytes(t[i]) \in Nat /\ Bytes(u[i]) \in Nat
  BY <1>1, <1>3
<1>8. QED
  BY <1>3, <1>4, <1>5, <1>6, <1>7

LEMMA TotalSame ==
    ASSUME NEW t \in Seq(Node), NEW u \in Seq(Node), DOMAIN u = DOMAIN t,
           \A j \in DOMAIN t : Bytes(u[j]) = Bytes(t[j])
    PROVE  Total(u) = Total(t)
<1>1. Counts(u) = Counts(t)
  BY DEF Counts
<1>2. QED
  BY ONLY <1>1, Zenon DEF Total

LEMMA TotalAppend ==
    ASSUME NEW t \in Seq(Node), NEW v \in Node
    PROVE  Total(Append(t, v)) = Total(t) + Bytes(v)
<1>1. PICK u : u = Append(t, v)
  OBVIOUS
<1>2. /\ u \in Seq(Node) /\ DOMAIN u = 1..(Len(t) + 1)
      /\ DOMAIN t = 1..Len(t) /\ Len(t) \in Nat
      /\ u[Len(t) + 1] = v /\ \A i \in 1..Len(t) : u[i] = t[i]
  BY <1>1
<1>3. PICK n : n = Len(t) + 1
  OBVIOUS
<1>4. n \in DOMAIN u /\ DOMAIN u \ {n} = DOMAIN t
  BY <1>2, <1>3
<1>5. u \in Seq(Node) /\ u[n] = v /\ \A i \in DOMAIN t : u[i] = t[i]
  BY <1>2, <1>3
<1>6. IsFiniteSet(DOMAIN u) /\ Counts(u) \in [DOMAIN u -> Nat]
  BY <1>5, CountsIs
<1>7. But(Counts(u), n) = Counts(t) /\ Counts(u)[n] = Bytes(v)
  BY <1>4, <1>5 DEF But, Counts
<1>8. Total(u) = Counts(u)[n] + SumFunction(But(Counts(u), n)) /\ Total(t) \in Nat
  BY <1>4, <1>6, SumSplit, TotalType DEF Total
<1>9. SumFunction(But(Counts(u), n)) = Total(t)
  BY ONLY <1>7, Zenon DEF Total
<1>10. Bytes(v) \in Nat
  BY <1>4, <1>6, <1>7
<1>11. QED
  BY <1>1, <1>7, <1>8, <1>9, <1>10

LEMMA TotalRemove ==
    ASSUME NEW t \in Seq(Node), NEW i \in DOMAIN t
    PROVE  Total(RemoveNode(t, i)) = Total(t) - Bytes(t[i])
<1>1. PICK u : u = RemoveNode(t, i)
  OBVIOUS
<1>2. PICK n : n = Len(t) /\ n \in DOMAIN t /\ n \in Nat
  OBVIOUS
<1>3. /\ u \in Seq(Node) /\ DOMAIN u = 1..(Len(t) - 1)
      /\ \A k \in 1..(Len(t) - 1) : u[k] = IF k = i THEN t[Len(t)] ELSE t[k]
  BY <1>1, RemoveIs
<1>4. DOMAIN t = 1..n
  BY <1>2
<1>5. /\ u \in Seq(Node) /\ DOMAIN u = 1..(n - 1) /\ DOMAIN u = DOMAIN t \ {n}
      /\ \A k \in 1..(n - 1) : u[k] = IF k = i THEN t[n] ELSE t[k]
  BY <1>2, <1>3, <1>4
<1>6. /\ IsFiniteSet(DOMAIN t) /\ Counts(t) \in [DOMAIN t -> Nat]
      /\ IsFiniteSet(DOMAIN u) /\ Counts(u) \in [DOMAIN u -> Nat]
  BY <1>5, CountsIs
<1>7. /\ Total(t) = Counts(t)[n] + SumFunction(But(Counts(t), n)) /\ Total(t) \in Nat
      /\ SumFunction(But(Counts(t), n)) \in Nat
  BY <1>2, <1>6, SumSplit, TotalType DEF Total
<1>8. \A j \in DOMAIN t : Counts(t)[j] = Bytes(t[j]) /\ Bytes(t[j]) \in Nat
  BY <1>6 DEF Counts
<1>9. CASE i = n
  <2>1. But(Counts(t), n) = Counts(u)
    BY <1>5, <1>9 DEF But, Counts
  <2>2. SumFunction(But(Counts(t), n)) = Total(u)
    BY ONLY <2>1, Zenon DEF Total
  <2>3. QED
    BY <1>1, <1>2, <1>7, <1>8, <1>9, <2>2
<1>10. CASE i # n
  <2>1. i \in DOMAIN u
    BY <1>5, <1>10
  <2>2. PICK f : f = But(Counts(t), n)
    OBVIOUS
  <2>3. /\ f \in [DOMAIN u -> Nat] /\ f[i] = Bytes(t[i])
        /\ But(f, i) = But(Counts(u), i) /\ Counts(u)[i] = Bytes(t[n])
    BY <1>5, <1>6, <1>8, <2>1, <2>2 DEF But, Counts
  <2>4. SumFunction(f) = f[i] + SumFunction(But(f, i)) /\ SumFunction(But(f, i)) \in Nat
    BY <1>6, <2>1, <2>3, SumSplit
  <2>5. Total(u) = Counts(u)[i] + SumFunction(But(Counts(u), i))
    BY <1>6, <2>1, SumSplit DEF Total
  <2>6. SumFunction(But(f, i)) = SumFunction(But(Counts(u), i))
    BY ONLY <2>3, Zenon
  <2>7. SumFunction(But(Counts(t), n)) = SumFunction(f)
    BY ONLY <2>2, Zenon
  <2>8. QED
    BY <1>1, <1>2, <1>7, <1>8, <2>3, <2>4, <2>5, <2>6, <2>7
<1>11. QED
  BY <1>9, <1>10

-----------------------------------------------------------------------------
(* Trees.                                                                  *)

\* Whatever is above a node of a tree is a directory of it.
LEMMA AncestorsAreDirs ==
    ASSUME NEW t, IsTree(t), NEW p \in Seq(Names)
    PROVE  \A v \in Range(t) : Under(p, v.path) => DirIn(Range(t), p)
<1> DEFINE G == {n \in Nat : \A v \in Range(t) :
                    Len(v.path) <= n /\ Under(p, v.path) => DirIn(Range(t), p)}
<1>1. t \in Seq(Node) /\ Closed(Range(t))
  BY DEF IsTree
<1>2. \A v \in Range(t) : v.path \in Seq(Names) /\ Len(v.path) \in Nat /\ v.path # Root
  BY <1>1, RangeIs, NodeIs DEF Closed
<1>3. 0 \in G
  BY <1>2, UnderIs
<1>4. ASSUME NEW n \in Nat, n \in G PROVE n + 1 \in G
  <2> SUFFICES ASSUME NEW v \in Range(t), Len(v.path) <= n + 1, Under(p, v.path)
               PROVE  DirIn(Range(t), p)
    OBVIOUS
  <2>1. p = Parent(v.path) \/ Under(p, Parent(v.path))
    BY <1>2, UnderParent
  <2>2. DirIn(Range(t), Parent(v.path))
    BY <1>1 DEF Closed
  <2>3. CASE p = Parent(v.path)
    BY <2>2, <2>3
  <2>4. CASE Under(p, Parent(v.path))
    <3>1. Parent(v.path) # Root
      BY <1>2, <2>4, ParentIs, UnderIs DEF Root
    <3>2. PICK w \in Range(t) : w.path = Parent(v.path)
      BY <2>2, <3>1 DEF DirIn
    <3>3. Len(w.path) <= n
      BY <1>2, <3>2, ParentIs
    <3>4. QED
      BY <1>4, <2>4, <3>2, <3>3
  <2>5. QED
    BY <2>1, <2>3, <2>4
<1> HIDE DEF G
<1>5. \A n \in Nat : n \in G
  BY <1>3, <1>4, NatSetInduction
<1>6. ASSUME NEW v \in Range(t), Under(p, v.path) PROVE DirIn(Range(t), p)
  <2>1. Len(v.path) \in G /\ Len(v.path) <= Len(v.path)
    BY <1>2, <1>5
  <2>2. QED
    BY <1>6, <2>1 DEF G
<1>7. QED
  BY <1>6

\* Nothing lies below a file, or below a path that is not there.
LEMMA NothingBelow ==
    ASSUME NEW t, IsTree(t), NEW p \in Seq(Names), p # Root,
           \A v \in Range(t) : v.path = p => v.type = "file"
    PROVE  \A v \in Range(t) : ~ Under(p, v.path)
BY AncestorsAreDirs DEF DirIn

\* A node is added whose directory is there.
LEMMA TreeGrows ==
    ASSUME NEW t, IsTree(t), NEW v \in Node, v.path # Root,
           \A i \in DOMAIN t : t[i].path # v.path,
           DirIn(Range(t), Parent(v.path)), v.type = "dir" => v.data = Empty
    PROVE  IsTree(Append(t, v))
<1>1. t \in Seq(Node)
  BY DEF IsTree
<1>2. /\ Append(t, v) \in Seq(Node) /\ Range(Append(t, v)) = Range(t) \cup {v}
      /\ Unique(Append(t, v))
  BY <1>1, AppendIs DEF IsTree
<1>3. Closed(Range(t) \cup {v})
  BY DEF IsTree, Closed, DirIn
<1>4. QED
  BY <1>2, <1>3 DEF IsTree

\* A node is removed that has nothing below it.
LEMMA TreeShrinks ==
    ASSUME NEW t, IsTree(t), NEW i \in DOMAIN t,
           \A v \in Range(t) : ~ Under(t[i].path, v.path)
    PROVE  IsTree(RemoveNode(t, i))
<1>1. t \in Seq(Node)
  BY DEF IsTree
<1>2. /\ RemoveNode(t, i) \in Seq(Node) /\ Range(RemoveNode(t, i)) = Range(t) \ {t[i]}
      /\ Unique(RemoveNode(t, i))
  BY <1>1, RemoveIs, RemoveUnique DEF IsTree
<1>3. ASSUME NEW v \in Range(t) \ {t[i]}
      PROVE  v.path # Root /\ DirIn(Range(t) \ {t[i]}, Parent(v.path))
  <2>1. v.path # Root /\ DirIn(Range(t), Parent(v.path))
    BY DEF IsTree, Closed
  <2>2. v.path \in Seq(Names) /\ t[i].path \in Seq(Names)
    BY <1>1, RangeIs, NodeIs
  <2>3. t[i].path # Parent(v.path)
    BY <2>1, <2>2, UnderParent
  <2>4. QED
    BY <2>1, <2>3 DEF DirIn
<1>4. Closed(Range(t) \ {t[i]})
  BY <1>3 DEF Closed
<1>5. QED
  BY <1>2, <1>4 DEF IsTree

\* Neither a file's contents nor the modes make the tree.
LEMMA TreeStays ==
    ASSUME NEW t, IsTree(t), NEW u \in Seq(Node), DOMAIN u = DOMAIN t,
           \A i \in DOMAIN t : /\ u[i].path = t[i].path /\ u[i].type = t[i].type
                               /\ u[i].type = "dir" => u[i].data = t[i].data
    PROVE  IsTree(u)
<1>1. t \in Seq(Node) /\ Unique(t) /\ Closed(Range(t))
  BY DEF IsTree
<1>2. Unique(u)
  BY <1>1 DEF Unique
<1>3. ASSUME NEW p, DirIn(Range(t), p) PROVE DirIn(Range(u), p)
  <2>1. ASSUME NEW v \in Range(t), v.path = p, v.type = "dir" PROVE DirIn(Range(u), p)
    <3>1. PICK i \in DOMAIN t : v = t[i]
      BY <1>1, RangeIs
    <3>2. u[i] \in Range(u) /\ u[i].path = p /\ u[i].type = "dir"
      BY <2>1, <3>1, RangeIs
    <3>3. QED
      BY <3>2 DEF DirIn
  <2>2. QED
    BY <1>3, <2>1 DEF DirIn
<1>4. ASSUME NEW v \in Range(u)
      PROVE  /\ v.path # Root /\ DirIn(Range(u), Parent(v.path))
             /\ v.type = "dir" => v.data = Empty
  <2>1. PICK i \in DOMAIN t : v = u[i]
    BY RangeIs
  <2>2. t[i] \in Range(t) /\ t[i].path = v.path
    BY <1>1, <2>1, RangeIs
  <2>3. v.path # Root /\ DirIn(Range(t), Parent(v.path))
    BY <1>1, <2>2 DEF Closed
  <2>4. v.type = "dir" => v.data = Empty
    BY <2>1, <2>2 DEF IsTree
  <2>5. QED
    BY <1>3, <2>3, <2>4
<1>5. QED
  BY <1>2, <1>4 DEF IsTree, Closed

\* A directory and all below it move to a name that is free, in another
\* directory that is there.
Moving(t, o) == {i \in DOMAIN t : Under(o, t[i].path) \/ t[i].path = o}

LEMMA TreeMoves ==
    ASSUME NEW t, IsTree(t), NEW o \in Seq(Names), NEW n \in Seq(Names),
           o # Root, n # Root, ~ Under(o, n), o # n,
           \A v \in Range(t) : v.path # n, DirIn(Range(t), Parent(n))
    PROVE  IsTree(Relabel(t, Moving(t, o), o, n))
<1>1. t \in Seq(Node) /\ Unique(t) /\ Closed(Range(t))
  BY DEF IsTree
<1>2. ASSUME NEW i \in DOMAIN t
      PROVE  t[i] \in Range(t) /\ t[i] \in Node /\ t[i].path \in Seq(Names) /\ t[i].path # Root
  <2>1. t[i] \in Range(t) /\ t[i] \in Node
    BY <1>1, RangeIs
  <2>2. QED
    BY <1>1, <2>1, NodeIs DEF Closed
<1>3. \A v \in Range(t) : ~ Under(n, v.path)
  BY NothingBelow
<1> DEFINE u == Relabel(t, Moving(t, o), o, n)
<1>4. u \in Seq(Node) /\ DOMAIN u = DOMAIN t
  <2>1. ASSUME NEW i \in DOMAIN t PROVE u[i] \in Node
    <3>1. CASE i \in Moving(t, o)
      <4>1. Moved(o, n, t[i].path) \in Seq(Names)
        BY <1>2, <3>1, MovedIs DEF Moving, IsMoved
      <4>2. u[i] = [t[i] EXCEPT !.path = Moved(o, n, t[i].path)]
        BY <3>1 DEF Relabel
      <4>3. QED
        BY <1>2, <4>1, <4>2 DEF Node
    <3>2. CASE i \notin Moving(t, o)
      BY <1>2, <3>2 DEF Relabel
    <3>3. QED
      BY <3>1, <3>2
  <2>2. DOMAIN u = 1..Len(t) /\ DOMAIN t = 1..Len(t) /\ Len(t) \in Nat
    BY <1>1 DEF Relabel
  <2>3. u = [i \in 1..Len(t) |-> u[i]]
    BY <2>2 DEF Relabel
  <2> HIDE DEF u
  <2>4. QED
    BY <2>1, <2>2, <2>3
<1>5. ASSUME NEW i \in DOMAIN t
      PROVE  /\ i \in Moving(t, o) => u[i].path = Moved(o, n, t[i].path)
             /\ i \notin Moving(t, o) => u[i] = t[i]
             /\ u[i].type = t[i].type /\ u[i].data = t[i].data
  <2>1. CASE i \in Moving(t, o)
    <3>1. u[i] = [t[i] EXCEPT !.path = Moved(o, n, t[i].path)]
      BY <2>1 DEF Relabel
    <3>2. QED
      BY <1>2, <2>1, <3>1 DEF Node
  <2>2. CASE i \notin Moving(t, o)
    BY <2>2 DEF Relabel
  <2>3. QED
    BY <2>1, <2>2
<1> HIDE DEF u
<1>6. ASSUME NEW i \in DOMAIN t, i \in Moving(t, o)
      PROVE  u[i].path = n \/ Under(n, u[i].path)
  <2>1. CASE t[i].path = o
    BY <1>5, <1>6, <2>1, MovedRoot
  <2>2. CASE Under(o, t[i].path)
    BY <1>2, <1>5, <1>6, <2>2, MovedUnder
  <2>3. QED
    BY <1>6, <2>1, <2>2 DEF Moving
<1>7. Unique(u)
  <2> SUFFICES ASSUME NEW i \in DOMAIN t, NEW j \in DOMAIN t, u[i].path = u[j].path
               PROVE  i = j
    BY <1>4 DEF Unique
  <2>1. CASE i \in Moving(t, o) /\ j \in Moving(t, o)
    <3>1. Moved(o, n, t[i].path) = Moved(o, n, t[j].path)
      BY <1>5, <2>1
    <3>2. t[i].path = t[j].path
      BY <1>2, <2>1, <3>1, MovedApart DEF Moving
    <3>3. QED
      BY <1>1, <3>2 DEF Unique
  <2>2. CASE i \in Moving(t, o) /\ j \notin Moving(t, o)
    BY <1>2, <1>3, <1>5, <1>6, <2>2
  <2>3. CASE i \notin Moving(t, o) /\ j \in Moving(t, o)
    BY <1>2, <1>3, <1>5, <1>6, <2>3
  <2>4. CASE i \notin Moving(t, o) /\ j \notin Moving(t, o)
    BY <1>1, <1>5, <2>4 DEF Unique
  <2>5. QED
    BY <2>1, <2>2, <2>3, <2>4
<1>8. ASSUME NEW p \in Seq(Names), DirIn(Range(t), p), ~ (Under(o, p) \/ p = o)
      PROVE  DirIn(Range(u), p)
  <2>1. ASSUME NEW v \in Range(t), v.path = p, v.type = "dir" PROVE DirIn(Range(u), p)
    <3>1. PICK i \in DOMAIN t : v = t[i]
      BY <1>1, RangeIs
    <3>2. u[i] = v /\ u[i] \in Range(u)
      BY <1>4, <1>5, <1>8, <2>1, <3>1, RangeIs DEF Moving
    <3>3. QED
      BY <2>1, <3>2 DEF DirIn
  <2>2. QED
    BY <1>8, <2>1 DEF DirIn
<1>9. ASSUME NEW p \in Seq(Names), DirIn(Range(t), p), Under(o, p) \/ p = o
      PROVE  DirIn(Range(u), Moved(o, n, p))
  <2>1. p # Root
    BY <1>9, UnderIs DEF Root
  <2>2. PICK v \in Range(t) : v.path = p /\ v.type = "dir"
    BY <1>9, <2>1 DEF DirIn
  <2>3. PICK i \in DOMAIN t : v = t[i]
    BY <1>1, RangeIs
  <2>4. i \in Moving(t, o)
    BY <1>9, <2>2, <2>3 DEF Moving
  <2>5. u[i].path = Moved(o, n, p) /\ u[i].type = "dir" /\ u[i] \in Range(u)
    BY <1>4, <1>5, <2>2, <2>3, <2>4, RangeIs
  <2>6. QED
    BY <2>5 DEF DirIn
<1>10. ASSUME NEW i \in DOMAIN t
       PROVE  u[i].path # Root /\ DirIn(Range(u), Parent(u[i].path))
  <2>1. DirIn(Range(t), Parent(t[i].path)) /\ Parent(t[i].path) \in Seq(Names)
    BY <1>1, <1>2, ParentIs DEF Closed
  <2>2. CASE i \notin Moving(t, o)
    <3>1. ~ (Under(o, Parent(t[i].path)) \/ Parent(t[i].path) = o)
      BY <1>2, <2>2, UnderParent DEF Moving
    <3>2. QED
      BY <1>2, <1>5, <1>8, <2>1, <2>2, <3>1
  <2>3. CASE t[i].path = o
    <3>1. u[i].path = n
      BY <1>5, <2>3, MovedRoot DEF Moving
    <3>2. Parent(n) \in Seq(Names) /\ ~ (Under(o, Parent(n)) \/ Parent(n) = o)
      BY ParentIs, UnderParent
    <3>3. QED
      BY <1>8, <3>1, <3>2
  <2>4. CASE Under(o, t[i].path)
    <3>1. u[i].path = Moved(o, n, t[i].path)
      BY <1>5, <2>4 DEF Moving
    <3>2. /\ u[i].path # Root /\ Parent(u[i].path) = Moved(o, n, Parent(t[i].path))
          /\ Under(o, Parent(t[i].path)) \/ Parent(t[i].path) = o
      BY <1>2, <2>4, <3>1, MovedUnder
    <3>3. QED
      BY <1>9, <2>1, <3>2
  <2>5. QED
    BY <2>2, <2>3, <2>4 DEF Moving
<1>11. \A v \in Range(u) : v.type = "dir" => v.data = Empty
  <2>1. ASSUME NEW i \in DOMAIN t, u[i].type = "dir" PROVE u[i].data = Empty
    BY <1>2, <1>5, <2>1 DEF IsTree
  <2>2. QED
    BY <1>4, <2>1, RangeIs
<1>12. Closed(Range(u))
  BY <1>4, <1>10, RangeIs DEF Closed
<1>13. QED
  BY <1>4, <1>7, <1>11, <1>12 DEF IsTree, u

-----------------------------------------------------------------------------
(* ensure_parents.                                                         *)

\* The lengths of the existing proper ancestors of p, and 0 for the root.
There(p) == {0} \cup {k \in 1..(Len(p) - 1) : Find(nodes, SubSeq(p, 1, k)) # 0}

LEMMA DepthIs ==
    ASSUME NEW p \in Seq(Names)
    PROVE  Depth(p) \in There(p) /\ Depth(p) \in Nat /\ \A k \in There(p) : k <= Depth(p)
<1>1. There(p) \in SUBSET Nat /\ 0 \in There(p) /\ \A k \in There(p) : k <= Len(p)
  BY DEF There
<1> DEFINE Above == {n \in Nat : \A k \in There(p) : k <= n}
<1>2. Above \in SUBSET Nat /\ Above # {}
  BY <1>1
<1>3. PICK m \in Above : \A n \in Above : m <= n
  BY <1>2, LeastNatural
<1>4. m \in There(p)
  <2>1. CASE m = 0
    BY <1>1, <2>1
  <2>2. CASE m # 0 /\ m \notin There(p)
    <3>1. m - 1 \in Nat /\ \A k \in There(p) : k <= m - 1
      BY <1>1, <2>2
    <3>2. QED
      BY <1>3, <3>1
  <2>3. QED
    BY <2>1, <2>2
<1>5. \E x \in There(p) : \A y \in There(p) : x >= y
  BY <1>1, <1>4
<1>6. Depth(p) = Max(There(p))
  BY DEF Depth, There
<1>7. Depth(p) \in There(p) /\ \A y \in There(p) : Depth(p) >= y
  BY <1>5, <1>6 DEF Max
<1>8. QED
  BY <1>1, <1>7

LEMMA PrefixIs ==
    ASSUME NEW p \in Seq(Names), NEW k \in 0..Len(p)
    PROVE  /\ SubSeq(p, 1, k) \in Seq(Names) /\ Len(SubSeq(p, 1, k)) = k
           /\ \A j \in 1..k : SubSeq(p, 1, k)[j] = p[j]
OBVIOUS

LEMMA PrefixParent ==
    ASSUME NEW p \in Seq(Names), NEW k \in 1..Len(p)
    PROVE  SubSeq(p, 1, k) # Root /\ Parent(SubSeq(p, 1, k)) = SubSeq(p, 1, k - 1)
<1>1. PICK q : q = SubSeq(p, 1, k)
  OBVIOUS
<1>2. q \in Seq(Names) /\ Len(q) = k /\ (\A j \in 1..k : q[j] = p[j]) /\ q # Root
  BY <1>1, PrefixIs DEF Root
<1>3. /\ Parent(q) \in Seq(Names) /\ Len(Parent(q)) = k - 1
      /\ \A j \in 1..(k - 1) : Parent(q)[j] = q[j]
  BY <1>2, ParentIs
<1>4. PICK r : r = SubSeq(p, 1, k - 1)
  OBVIOUS
<1>5. r \in Seq(Names) /\ Len(r) = k - 1 /\ \A j \in 1..(k - 1) : r[j] = p[j]
  BY <1>4, PrefixIs
<1>6. Parent(q) = r
  BY <1>2, <1>3, <1>5, SeqEqual
<1>7. QED
  BY <1>1, <1>2, <1>4, <1>6

\* A node that is there has its parents already.
LEMMA NoChain ==
    ASSUME IsTree(nodes), NEW p \in Seq(Names), Find(nodes, p) # 0, NEW c, NEW parents
    PROVE  Chain(c, p, parents) = <<>>
<1>1. nodes \in Seq(Node) /\ Closed(Range(nodes))
  BY DEF IsTree
<1>2. PICK v \in Range(nodes) : v.path = p
  BY <1>1, FindIs, RangeIs
<1>3. p # Root /\ DirIn(Range(nodes), Parent(p)) /\ Len(p) \in Nat \ {0}
  BY <1>1, <1>2, ParentIs DEF Closed
<1>4. Len(p) - 1 \in There(p)
  <2>1. CASE Len(p) = 1
    BY <2>1 DEF There
  <2>2. CASE Len(p) # 1
    <3>1. Parent(p) # Root
      <4>1. Len(Parent(p)) = Len(p) - 1
        BY <1>3, ParentIs
      <4>2. Len(Root) = 0
        BY DEF Root
      <4>3. QED
        BY <1>3, <2>2, <4>1, <4>2
    <3>2. \E w \in Range(nodes) : w.path = Parent(p)
      BY <1>3, <3>1 DEF DirIn
    <3>3. Find(nodes, Parent(p)) # 0
      BY <1>1, <3>2, FindIs, RangeIs
    <3>4. PICK j : j = Len(p) - 1
      OBVIOUS
    <3>5. Find(nodes, SubSeq(p, 1, j)) # 0
      <4>1. Parent(p) = SubSeq(p, 1, j)
        BY <3>4 DEF Parent
      <4>2. QED
        BY ONLY <3>3, <4>1, Zenon
    <3>6. j \in 1..(Len(p) - 1)
      BY <1>3, <2>2, <3>4
    <3>7. QED
      BY <3>4, <3>5, <3>6 DEF There
  <2>3. QED
    BY <2>1, <2>2
<1>5. Len(p) - 1 - Depth(p) <= 0 /\ Depth(p) \in Nat
  BY <1>3, <1>4, DepthIs
<1>6. PICK n : n = IF parents THEN Len(p) - 1 - Depth(p) ELSE 0
  OBVIOUS
<1>7. 1..n = {}
  BY <1>3, <1>5, <1>6
<1>8. Chain(c, p, parents) = [k \in 1..n |->
            NewNode(SubSeq(p, 1, Depth(p) + k), "dir", DirMode, c, Empty)]
  BY <1>6 DEF Chain
<1>9. QED
  BY <1>7, <1>8

\* The directories added make a tree in which the new node has its place.
LEMMA ChainIs ==
    ASSUME IsTree(nodes), NEW p \in Seq(Names), p # Root, Find(nodes, p) = 0,
           NEW c \in Creds, NEW parents \in BOOLEAN,
           ParentError(nodes, p, parents) = "OK"
    PROVE  LET chain == Chain(c, p, parents) IN
           /\ chain \in Seq(Node) /\ IsTree(nodes \o chain)
           /\ DirIn(Range(nodes \o chain), Parent(p))
           /\ \A i \in DOMAIN (nodes \o chain) : (nodes \o chain)[i].path # p
           /\ \A i \in DOMAIN chain : Bytes(chain[i]) = 0
<1> DEFINE d == Depth(p)
           n == IF parents THEN Len(p) - 1 - d ELSE 0
           chain == Chain(c, p, parents)
<1>1. nodes \in Seq(Node) /\ Unique(nodes) /\ Closed(Range(nodes))
  BY DEF IsTree
<1>2. Len(p) \in Nat \ {0} /\ d \in Nat /\ d <= Len(p) - 1
  BY ParentIs, DepthIs DEF There
<1>3. n \in Nat /\ n <= Len(p) - 1 - d
  BY <1>2
<1>4. /\ chain = [k \in 1..n |-> NewNode(SubSeq(p, 1, d + k), "dir", DirMode, c, Empty)]
  BY DEF Chain
<1> HIDE DEF d, n, chain
<1>5. ASSUME NEW k \in 1..n
      PROVE  /\ chain[k] = NewNode(SubSeq(p, 1, d + k), "dir", DirMode, c, Empty)
             /\ chain[k].path = SubSeq(p, 1, d + k) /\ chain[k].type = "dir"
             /\ chain[k].data = Empty
             /\ SubSeq(p, 1, d + k) \in Seq(Names) /\ Len(SubSeq(p, 1, d + k)) = d + k
  <2>1. d + k \in 0..Len(p)
    BY <1>2, <1>3
  <2>2. chain[k] = NewNode(SubSeq(p, 1, d + k), "dir", DirMode, c, Empty)
    BY <1>4
  <2>3. QED
    BY <2>1, <2>2, PrefixIs DEF NewNode
<1>6. ASSUME NEW k \in 1..n PROVE chain[k] \in Node
  <2>1. c.uid \in Nat /\ DirMode \in SUBSET Perms /\ Empty \in Data
    BY CredAssumption, ModeAssumption, DataAssumption
  <2>2. PICK q \in Seq(Names) : q = SubSeq(p, 1, d + k)
    BY <1>5
  <2>3. chain[k] = NewNode(q, "dir", DirMode, c, Empty)
    BY <1>5, <2>2
  <2>4. QED
    BY <2>1, <2>3 DEF NewNode, Node
<1>7. chain \in Seq(Node) /\ Len(chain) = n /\ DOMAIN chain = 1..n
  BY <1>3, <1>4, <1>6
<1>8. Unique(chain)
  <2>1. ASSUME NEW i \in 1..n, NEW j \in 1..n, chain[i].path = chain[j].path PROVE i = j
    <3>1. d + i = d + j
      BY <1>5, <2>1
    <3>2. QED
      BY <1>2, <3>1
  <2>2. QED
    BY <1>7, <2>1 DEF Unique
<1>9. ASSUME NEW i \in DOMAIN nodes, NEW k \in 1..n PROVE nodes[i].path # chain[k].path
  <2>1. SUFFICES ASSUME nodes[i].path = chain[k].path PROVE FALSE
    OBVIOUS
  <2>2. Find(nodes, SubSeq(p, 1, d + k)) # 0
    <3>1. PICK q : q = SubSeq(p, 1, d + k)
      OBVIOUS
    <3>2. nodes[i].path = q
      BY <1>5, <2>1, <3>1
    <3>3. Find(nodes, q) # 0
      BY <1>1, <3>2, FindIs
    <3>4. QED
      BY <3>1, <3>3
  <2>3. d + k \in There(p)
    BY <1>2, <1>3, <2>2 DEF There
  <2>4. d + k <= d
    BY <2>3, DepthIs DEF d
  <2>5. QED
    BY <1>2, <2>4
<1>10. PICK t : t = nodes \o chain
  OBVIOUS
<1>11. t \in Seq(Node) /\ Range(t) = Range(nodes) \cup Range(chain) /\ Unique(t)
  BY <1>1, <1>7, <1>8, <1>9, <1>10, ConcatIs
<1>12. ASSUME NEW v \in Range(chain) PROVE \E k \in 1..n : v = chain[k]
  BY <1>7 DEF Range
<1>13. ASSUME parents PROVE DirIn(Range(t), SubSeq(p, 1, d))
  <2>1. IsDirNode(nodes, SubSeq(p, 1, d))
    BY <1>13 DEF ParentError, d
  <2>2. DirIn(Range(nodes), SubSeq(p, 1, d))
    BY <1>1, <2>1, DirNodeIs
  <2>3. QED
    BY <1>11, <2>2 DEF DirIn
<1>14. ASSUME NEW k \in 0..n, parents PROVE DirIn(Range(t), SubSeq(p, 1, d + k))
  <2>1. CASE k = 0
    BY <1>2, <1>13, <1>14, <2>1
  <2>2. CASE k # 0
    <3>1. k \in 1..n /\ chain[k] \in Range(chain)
      BY <1>3, <1>7, <2>2 DEF Range
    <3>2. chain[k] \in Range(t) /\ chain[k].path = SubSeq(p, 1, d + k) /\ chain[k].type = "dir"
      BY <1>5, <1>11, <3>1
    <3>3. QED
      BY <3>2 DEF DirIn
  <2>3. QED
    BY <2>1, <2>2
<1>15. ASSUME NEW v \in Range(t)
       PROVE  /\ v.path # Root /\ DirIn(Range(t), Parent(v.path))
              /\ v.type = "dir" => v.data = Empty
  <2>1. CASE v \in Range(nodes)
    BY <1>11, <2>1 DEF IsTree, Closed, DirIn
  <2>2. CASE v \in Range(chain)
    <3>1. PICK k \in 1..n : v = chain[k]
      BY <1>12, <2>2
    <3>2. d + k \in 1..Len(p) /\ k - 1 \in 0..n /\ d + (k - 1) = d + k - 1 /\ parents
      BY <1>2, <1>3 DEF n
    <3>3. v.path # Root /\ Parent(v.path) = SubSeq(p, 1, d + k - 1)
      <4>1. v.path = SubSeq(p, 1, d + k)
        BY <1>5, <3>1
      <4>2. PICK j \in 1..Len(p) : j = d + k
        BY <3>2
      <4>3. SubSeq(p, 1, j) # Root /\ Parent(SubSeq(p, 1, j)) = SubSeq(p, 1, j - 1)
        BY PrefixParent
      <4>4. v.path # Root /\ Parent(v.path) = SubSeq(p, 1, j - 1)
        BY ONLY <4>1, <4>2, <4>3, Zenon
      <4>5. j - 1 = d + k - 1
        BY <1>2, <1>3, <4>2
      <4>6. QED
        BY <4>4, <4>5
    <3>4. DirIn(Range(t), SubSeq(p, 1, d + (k - 1)))
      BY <1>14, <3>2
    <3>5. QED
      BY <1>5, <3>1, <3>2, <3>3, <3>4
  <2>3. QED
    BY <1>11, <2>1, <2>2
<1>16. IsTree(t)
  BY <1>11, <1>15 DEF IsTree, Closed
<1>17. DirIn(Range(t), Parent(p))
  <2>1. CASE parents
    <3>1. n = Len(p) - 1 - d
      BY <2>1 DEF n
    <3>2. n \in 0..n /\ d + n = Len(p) - 1
      BY <1>2, <1>3, <3>1
    <3>3. DirIn(Range(t), SubSeq(p, 1, d + n))
      BY <1>14, <2>1, <3>2
    <3>4. QED
      BY <3>2, <3>3 DEF Parent
  <2>2. CASE ~ parents
    <3>1. IsDirNode(nodes, Parent(p))
      BY <2>2 DEF ParentError
    <3>2. DirIn(Range(nodes), Parent(p))
      BY <1>1, <3>1, DirNodeIs
    <3>3. QED
      BY <1>11, <3>2 DEF DirIn
  <2>3. QED
    BY <2>1, <2>2
<1>18. ASSUME NEW v \in Range(t) PROVE v.path # p
  <2>1. CASE v \in Range(nodes)
    BY <1>1, <2>1, FindIs, RangeIs
  <2>2. CASE v \in Range(chain)
    <3>1. PICK k \in 1..n : v = chain[k]
      BY <1>12, <2>2
    <3>2. Len(v.path) = d + k /\ d + k < Len(p)
      BY <1>2, <1>3, <1>5, <3>1
    <3>3. QED
      BY <1>2, <3>2
  <2>3. QED
    BY <1>11, <2>1, <2>2
<1>19. \A i \in DOMAIN t : t[i].path # p
  BY <1>11, <1>18, RangeIs
<1>20. \A i \in DOMAIN chain : Bytes(chain[i]) = 0
  BY <1>5, <1>7 DEF Bytes
<1>21. QED
  BY <1>7, <1>10, <1>16, <1>17, <1>19, <1>20 DEF chain

-----------------------------------------------------------------------------
(* The loop of vfs_delete_recursive.                                       *)

\* Before the turn at i - 1: what is left of the array, from i on, has
\* nothing below p, and nothing else has been lost.
LoopInv(p, s, i) ==
    /\ s.t \in Seq(Node) /\ Unique(s.t) /\ Len(s.t) >= i - 1
    /\ \A k \in DOMAIN s.t : k >= i => ~ Under(p, s.t[k].path)
    /\ Range(s.t) \subseteq Range(nodes)
    /\ \A v \in Range(nodes) : ~ Under(p, v.path) => v \in Range(s.t)
    /\ s.u = Total(s.t) /\ s.u <= Total(nodes) /\ Len(s.t) <= Len(nodes)

LEMMA TurnKeeps ==
    ASSUME nodes \in Seq(Node), NEW p, NEW s, NEW i \in Nat \ {0}, LoopInv(p, s, i + 1)
    PROVE  LoopInv(p, DropIfUnder(s, p, i), i)
<1>1. /\ s.t \in Seq(Node) /\ Unique(s.t) /\ Len(s.t) >= (i + 1) - 1
      /\ \A k \in DOMAIN s.t : k >= i + 1 => ~ Under(p, s.t[k].path)
      /\ Range(s.t) \subseteq Range(nodes)
      /\ \A v \in Range(nodes) : ~ Under(p, v.path) => v \in Range(s.t)
      /\ s.u = Total(s.t) /\ s.u <= Total(nodes) /\ Len(s.t) <= Len(nodes)
  BY DEF LoopInv
<1>2. i \in DOMAIN s.t /\ Len(s.t) \in Nat /\ Len(nodes) \in Nat /\ DOMAIN s.t = 1..Len(s.t)
  BY <1>1
<1>3. CASE ~ Under(p, s.t[i].path)
  <2>1. DropIfUnder(s, p, i) = s
    BY <1>3 DEF DropIfUnder
  <2>2. \A k \in DOMAIN s.t : k >= i => ~ Under(p, s.t[k].path)
    BY <1>1, <1>2, <1>3
  <2>3. Len(s.t) >= i - 1
    BY <1>1, <1>2
  <2>4. QED
    BY <1>1, <2>1, <2>2, <2>3 DEF LoopInv
<1>4. CASE Under(p, s.t[i].path)
  <2>1. PICK u : u = RemoveNode(s.t, i)
    OBVIOUS
  <2>2. PICK m : m = s.u - Freed(s.t, i)
    OBVIOUS
  <2>3. PICK r : r = DropIfUnder(s, p, i)
    OBVIOUS
  <2>4. r = [t |-> u, u |-> m]
    BY <1>4, <2>1, <2>2, <2>3 DEF DropIfUnder
  <2>5. r.t = u /\ r.u = m
    BY <2>4
  <2>6. /\ u \in Seq(Node) /\ Len(u) = Len(s.t) - 1 /\ DOMAIN u = 1..(Len(s.t) - 1)
        /\ \A k \in 1..(Len(s.t) - 1) : u[k] = IF k = i THEN s.t[Len(s.t)] ELSE s.t[k]
    BY <1>1, <1>2, <2>1, RemoveIs
  <2>7. Unique(u) /\ Range(u) = Range(s.t) \ {s.t[i]}
    BY <1>1, <1>2, <2>1, RemoveUnique
  <2>8. Total(u) = Total(s.t) - Bytes(s.t[i])
    BY <1>1, <1>2, <2>1, TotalRemove
  <2>9. Freed(s.t, i) = Bytes(s.t[i]) /\ Bytes(s.t[i]) \in Nat
    <3>1. Counts(s.t)[i] = Bytes(s.t[i]) /\ Counts(s.t)[i] \in Nat
      BY <1>1, <1>2, CountsIs DEF Counts
    <3>2. QED
      BY <3>1 DEF Freed, Bytes
  <2>10. Total(s.t) \in Nat /\ Total(nodes) \in Nat
    BY <1>1, TotalType
  <2>11. m = Total(u) /\ m <= Total(nodes) /\ Len(u) >= i - 1 /\ Len(u) <= Len(nodes)
    BY <1>1, <1>2, <2>2, <2>6, <2>8, <2>9, <2>10
  <2>12. ASSUME NEW k \in DOMAIN u, k >= i PROVE ~ Under(p, u[k].path)
    <3>1. CASE k = i
      <4>1. u[k] = s.t[Len(s.t)] /\ Len(s.t) \in DOMAIN s.t /\ Len(s.t) >= i + 1
        BY <1>2, <2>6, <3>1
      <4>2. QED
        BY <1>1, <4>1
    <3>2. CASE k # i
      <4>1. u[k] = s.t[k] /\ k \in DOMAIN s.t /\ k >= i + 1
        BY <1>2, <2>6, <2>12, <3>2
      <4>2. QED
        BY <1>1, <4>1
    <3>3. QED
      BY <3>1, <3>2
  <2>13. \A v \in Range(nodes) : ~ Under(p, v.path) => v \in Range(u)
    BY <1>1, <1>4, <2>7
  <2>14. Range(u) \subseteq Range(nodes)
    BY <1>1, <2>7
  <2>15. LoopInv(p, r, i)
    BY <2>5, <2>6, <2>7, <2>11, <2>12, <2>13, <2>14 DEF LoopInv
  <2>16. QED
    BY <2>3, <2>15
<1>5. QED
  BY <1>3, <1>4

\* The least of the numbers i to m is i.
LEMMA MinIs ==
    ASSUME NEW S \in SUBSET Int, NEW i \in S, \A j \in S : i <= j
    PROVE  Min(S) = i
<1>1. \E x \in S : \A y \in S : x <= y
  OBVIOUS
<1>2. Min(S) \in S /\ \A y \in S : Min(S) <= y
  BY <1>1 DEF Min
<1>3. PICK m : m = Min(S)
  OBVIOUS
<1>4. m \in Int /\ i \in Int /\ m <= i /\ i <= m
  BY <1>2, <1>3
<1>5. QED
  BY <1>3, <1>4

\* The values of the loop, for every part of the array's indices that it
\* may have yet to do.
Turns(S, p, h) ==
    [s \in SUBSET S |->
        IF s = {} THEN [t |-> nodes, u |-> usage]
        ELSE DropIfUnder(h[s \ {Min(s)}], p, Min(s))]

\* There is a function of its parts that the loop computes.
LEMMA LoopExists ==
    ASSUME NEW D \in SUBSET Nat, IsFiniteSet(D), NEW p
    PROVE  \E h : h = Turns(D, p, h)
<1> DEFINE G == {T \in SUBSET D : \E h : h = Turns(T, p, h)}
<1>1. ASSUME NEW T \in SUBSET D, \A x \in T : T \ {x} \in G PROVE T \in G
  <2>1. CASE T = {}
    <3> DEFINE h == [s \in SUBSET T |-> [t |-> nodes, u |-> usage]]
    <3>1. h = Turns(T, p, h)
      BY <2>1 DEF Turns
    <3> HIDE DEF h
    <3>2. QED
      BY <3>1
  <2>2. CASE T # {}
    <3>1. PICK x \in T : \A y \in T : x <= y
      BY <2>2, LeastNatural
    <3>2. PICK g : g = Turns(T \ {x}, p, g)
      BY <1>1, <3>1
    <3> DEFINE h == [s \in SUBSET T |->
                        IF x \in s THEN DropIfUnder(g[s \ {x}], p, x) ELSE g[s]]
    <3>3. ASSUME NEW s \in SUBSET T
          PROVE  h[s] = IF s = {} THEN [t |-> nodes, u |-> usage]
                        ELSE DropIfUnder(h[s \ {Min(s)}], p, Min(s))
      <4>1. \A r \in SUBSET T : x \notin r => r \in SUBSET (T \ {x}) /\ h[r] = g[r]
        OBVIOUS
      <4>2. ASSUME NEW r \in SUBSET (T \ {x})
            PROVE  g[r] = IF r = {} THEN [t |-> nodes, u |-> usage]
                          ELSE DropIfUnder(g[r \ {Min(r)}], p, Min(r))
        <5>1. Turns(T \ {x}, p, g)[r] = IF r = {} THEN [t |-> nodes, u |-> usage]
                                        ELSE DropIfUnder(g[r \ {Min(r)}], p, Min(r))
          BY DEF Turns
        <5>2. QED
          BY ONLY <3>2, <5>1, Zenon
      <4>3. CASE x \in s
        <5>1. s \in SUBSET Int /\ \A j \in s : x <= j
          BY <3>1
        <5>2. Min(s) = x
          BY <4>3, <5>1, MinIs
        <5>3. h[s] = DropIfUnder(g[s \ {x}], p, x)
          BY <4>3
        <5>4. h[s \ {x}] = g[s \ {x}]
          BY <4>1
        <5>5. s # {}
          BY <4>3
        <5> HIDE DEF h
        <5>6. QED
          BY ONLY <5>2, <5>3, <5>4, <5>5, Zenon
      <4>4. CASE x \notin s
        <5>1. h[s] = g[s] /\ s \in SUBSET (T \ {x})
          BY <4>1, <4>4
        <5>2. h[s \ {Min(s)}] = g[s \ {Min(s)}]
          <6>1. PICK r : r = s \ {Min(s)}
            OBVIOUS
          <6>2. h[r] = g[r]
            BY <4>1, <4>4, <6>1
          <6>3. QED
            BY ONLY <6>1, <6>2, Zenon
        <5>3. g[s] = IF s = {} THEN [t |-> nodes, u |-> usage]
                     ELSE DropIfUnder(g[s \ {Min(s)}], p, Min(s))
          BY ONLY <4>2, <5>1, Zenon
        <5> HIDE DEF h
        <5>4. QED
          BY ONLY <5>1, <5>2, <5>3, Zenon
      <4>5. QED
        BY <4>3, <4>4
    <3>4. h = [s \in SUBSET T |-> h[s]]
      OBVIOUS
    <3> HIDE DEF h
    <3>5. h = Turns(T, p, h)
      BY ONLY <3>3, <3>4, Zenon DEF Turns
    <3>6. QED
      BY <3>5
  <2>3. QED
    BY <2>1, <2>2
<1>2. D \in G
  <2> HIDE DEF G
  <2>1. \A T \in SUBSET D : (\A x \in T : T \ {x} \in G) => T \in G
    BY <1>1
  <2>2. \A T \in SUBSET D : T \in G
    BY ONLY <2>1, IsFiniteSet(D), SetInduction
  <2>3. QED
    BY <2>2
<1>3. QED
  BY <1>2

\* The loop drops what is below p and nothing else.
LEMMA LoopDrops ==
    ASSUME nodes \in Seq(Node), Unique(nodes), usage = Total(nodes), NEW p
    PROVE  LoopInv(p, DropBelow(p), 1)
<1> DEFINE D == DOMAIN nodes
           N == Len(nodes)
           it == CHOOSE h : h = Turns(D, p, h)
           base == [t |-> nodes, u |-> usage]
<1>1. D = 1..N /\ N \in Nat /\ IsFiniteSet(D) /\ D \in SUBSET Nat
  BY CountsIs
<1>2. it = Turns(D, p, it)
  <2>1. \E h : h = Turns(D, p, h)
    BY <1>1, LoopExists
  <2>2. QED
    BY ONLY <2>1, Zenon
<1>3. DropBelow(p) = it[D]
  <2> DEFINE id == [i \in D |-> i]
             Iter(h) == [s \in SUBSET DOMAIN id |->
                            IF s = {} THEN base
                            ELSE DropIfUnder(h[s \ {Min(s)}], p, id[Min(s)])]
             jt == CHOOSE h : h = Iter(h)
  <2>1. DropBelow(p) = jt[DOMAIN id]
    BY DEF DropBelow, FoldRightDomain, FoldRight, MapThenFoldSet
  <2>2. DOMAIN id = D
    OBVIOUS
  <2>3. ASSUME NEW h PROVE Iter(h) = Turns(D, p, h)
    <3>1. ASSUME NEW s \in SUBSET D, s # {} PROVE id[Min(s)] = Min(s)
      <4>1. \E x \in s : \A y \in s : x <= y
        BY <1>1, <3>1, LeastNatural
      <4>2. Min(s) \in s
        BY <4>1 DEF Min
      <4>3. QED
        BY <4>2
    <3>2. QED
      BY <2>2, <3>1 DEF Turns
  <2> HIDE DEF Iter, id
  <2>4. jt = it
    BY <2>3
  <2>5. QED
    BY <2>1, <2>2, <2>4
<1> HIDE DEF it
<1>4. ASSUME NEW i \in 1..N
      PROVE  it[i..N] = DropIfUnder(it[(i + 1)..N], p, i)
  <2>1. i..N \in SUBSET D /\ i..N # {} /\ i \in i..N /\ i..N \in SUBSET Int
    BY <1>1
  <2>2. \A j \in i..N : i <= j
    BY <1>1
  <2>3. PICK s : s = i..N
    OBVIOUS
  <2>4. Min(s) = i
    BY <2>1, <2>2, <2>3, MinIs
  <2>5. s \ {i} = (i + 1)..N
    BY <1>1, <2>3
  <2>6. Turns(D, p, it)[s] = DropIfUnder(it[s \ {Min(s)}], p, Min(s))
    BY <2>1, <2>3 DEF Turns
  <2>7. QED
    BY ONLY <1>2, <2>3, <2>4, <2>5, <2>6, Zenon
<1>5. it[{}] = base
  <2>1. Turns(D, p, it)[{}] = base
    BY DEF Turns
  <2>2. QED
    BY ONLY <1>2, <2>1, Zenon
<1> DEFINE G == {n \in Nat : n <= N => LoopInv(p, it[(N - n + 1)..N], N - n + 1)}
<1>6. 0 \in G
  <2>1. (N - 0 + 1)..N = {} /\ N - 0 + 1 = N + 1
    BY <1>1
  <2>2. it[(N - 0 + 1)..N] = base
    BY ONLY <1>5, <2>1, Zenon
  <2>3. LoopInv(p, base, N + 1)
    <3>1. base.t = nodes /\ base.u = usage
      OBVIOUS
    <3> HIDE DEF base
    <3>2. Total(nodes) \in Nat
      BY TotalType
    <3>3. QED
      BY <1>1, <3>1, <3>2 DEF LoopInv
  <2>4. LoopInv(p, it[(N - 0 + 1)..N], N - 0 + 1)
    BY ONLY <2>1, <2>2, <2>3, Zenon
  <2>5. QED
    BY <2>4
<1>7. ASSUME NEW n \in Nat, n \in G PROVE n + 1 \in G
  <2>1. SUFFICES ASSUME n + 1 <= N
                 PROVE  LoopInv(p, it[(N - (n + 1) + 1)..N], N - (n + 1) + 1)
    OBVIOUS
  <2>2. PICK i : i = N - n
    OBVIOUS
  <2>3. i \in 1..N /\ N - n + 1 = i + 1 /\ N - (n + 1) + 1 = i /\ n <= N
    BY <1>1, <2>1, <2>2
  <2>4. LoopInv(p, it[(N - n + 1)..N], N - n + 1)
    BY <1>7, <2>3
  <2>5. LoopInv(p, it[(i + 1)..N], i + 1)
    BY ONLY <2>3, <2>4, Zenon
  <2>6. PICK s : s = it[(i + 1)..N]
    OBVIOUS
  <2>7. LoopInv(p, s, i + 1) /\ i \in Nat \ {0}
    BY <2>3, <2>5, <2>6
  <2>8. LoopInv(p, DropIfUnder(s, p, i), i)
    BY <2>7, TurnKeeps
  <2>9. it[i..N] = DropIfUnder(s, p, i)
    BY <1>4, <2>3, <2>6
  <2>10. LoopInv(p, it[i..N], i)
    BY ONLY <2>8, <2>9, Zenon
  <2>11. QED
    BY ONLY <2>3, <2>10, Zenon
<1> HIDE DEF G
<1>8. N \in G
  BY <1>1, <1>6, <1>7, NatSetInduction
<1>9. LoopInv(p, it[(N - N + 1)..N], N - N + 1)
  BY <1>1, <1>8 DEF G
<1>10. N - N + 1 = 1 /\ 1..N = D
  BY <1>1
<1>11. LoopInv(p, it[D], 1)
  BY ONLY <1>9, <1>10, Zenon
<1>12. QED
  BY ONLY <1>3, <1>11, Zenon

-----------------------------------------------------------------------------
(* The inductive invariant: a tree, its bytes counted, within its bounds.  *)

Good(t, u) ==
    /\ IsTree(t) /\ Len(t) <= MaxNodes
    /\ u = Total(t) /\ (Quota > 0 => u <= Quota)

LEMMA GoodIs ==
    ASSUME NEW t, NEW u, Good(t, u)
    PROVE  /\ t \in Seq(Node) /\ Unique(t) /\ Closed(Range(t)) /\ Len(t) \in Nat
           /\ Total(t) \in Nat /\ u \in Nat /\ Quota \in Nat /\ MaxNodes \in Nat
BY TotalType, DataAssumption, VfsAssumption DEF Good, IsTree

LEMMA BytesType ==
    ASSUME NEW t \in Seq(Node), NEW i \in DOMAIN t
    PROVE  /\ Bytes(t[i]) \in Nat /\ Freed(t, i) = Bytes(t[i]) /\ t[i] \in Node
           /\ t[i] \in Range(t) /\ t[i].type \in {"file", "dir"}
           /\ t[i].path \in Seq(Names) /\ t[i].data \in Data
<1>1. Counts(t)[i] = Bytes(t[i]) /\ Counts(t)[i] \in Nat
  BY CountsIs DEF Counts
<1>2. t[i] \in Range(t) /\ t[i] \in Node
  BY RangeIs
<1>3. QED
  BY <1>1, <1>2, NodeIs DEF Freed, Bytes

LEMMA ReturnsKeeps ==
    ASSUME Good(nodes, usage), NEW r, Returns(r)
    PROVE  Good(nodes', usage') /\ ok' \in BOOLEAN
<1>1. nodes' = nodes /\ usage' = usage /\ ok' \in BOOLEAN
  BY DEF Returns
<1>2. QED
  BY ONLY <1>1, Good(nodes, usage), Zenon

\* A file is written whose path was free, or a directory made.
LEMMA AddKeeps ==
    ASSUME Good(nodes, usage), NEW p \in Seq(Names), p # Root, Find(nodes, p) = 0,
           NEW c \in Creds, NEW parents \in BOOLEAN, ParentError(nodes, p, parents) = "OK",
           NEW v \in Node, v.path = p, v.type = "dir" => v.data = Empty,
           Fits(Len(Chain(c, p, parents)) + 1),
           Quota > 0 => usage + Bytes(v) <= Quota
    PROVE  Good(Append(nodes \o Chain(c, p, parents), v), usage + Bytes(v))
<1>1. /\ nodes \in Seq(Node) /\ Len(nodes) \in Nat /\ IsTree(nodes) /\ usage = Total(nodes)
      /\ MaxNodes \in Nat
  BY GoodIs DEF Good
<1>2. PICK chain : chain = Chain(c, p, parents)
  OBVIOUS
<1>3. PICK t : t = nodes \o chain
  OBVIOUS
<1>4. /\ chain \in Seq(Node) /\ IsTree(t) /\ DirIn(Range(t), Parent(p))
      /\ \A i \in DOMAIN t : t[i].path # p
      /\ \A i \in DOMAIN chain : Bytes(chain[i]) = 0
  BY <1>1, <1>2, <1>3, ChainIs
<1>5. t \in Seq(Node) /\ Len(t) = Len(nodes) + Len(chain) /\ Len(chain) \in Nat
  BY <1>1, <1>3, <1>4, ConcatIs
<1>6. Total(t) = Total(nodes)
  BY <1>1, <1>3, <1>4, TotalConcat
<1>7. PICK u : u = Append(t, v)
  OBVIOUS
<1>8. IsTree(u)
  BY <1>4, <1>7, TreeGrows
<1>9. Total(u) = Total(t) + Bytes(v)
  BY <1>5, <1>7, TotalAppend
<1>10. Len(u) = Len(t) + 1
  BY <1>5, <1>7
<1>11. Len(nodes) + (Len(chain) + 1) <= MaxNodes
  BY <1>2 DEF Fits
<1>12. Len(u) <= MaxNodes
  BY <1>1, <1>5, <1>10, <1>11
<1>13. Good(u, usage + Bytes(v))
  BY <1>1, <1>6, <1>8, <1>9, <1>12 DEF Good
<1>14. QED
  BY <1>2, <1>3, <1>7, <1>13

\* A file's contents are replaced.
LEMMA OverwriteKeeps ==
    ASSUME NEW t, NEW m, Good(t, m), NEW i \in DOMAIN t, t[i].type = "file", NEW d \in Data,
           Quota > 0 => m - Size[t[i].data] + Size[d] <= Quota
    PROVE  Good([t EXCEPT ![i].data = d], m - Size[t[i].data] + Size[d])
<1>1. /\ t \in Seq(Node) /\ Len(t) \in Nat /\ m \in Nat /\ IsTree(t) /\ Len(t) <= MaxNodes
      /\ m = Total(t)
  BY GoodIs DEF Good
<1>2. PICK u : u = [t EXCEPT ![i].data = d]
  OBVIOUS
<1>3. t[i] \in Node /\ Bytes(t[i]) = Size[t[i].data]
  BY <1>1, BytesType DEF Bytes
<1>4. PICK w : w = [t[i] EXCEPT !.data = d]
  OBVIOUS
<1>5. w \in Node /\ w.path = t[i].path /\ w.type = t[i].type /\ w.data = d
  BY <1>3, <1>4 DEF Node
<1>6. u = [t EXCEPT ![i] = w]
  BY <1>2, <1>4
<1>7. /\ u \in Seq(Node) /\ DOMAIN u = DOMAIN t /\ Len(u) = Len(t) /\ u[i] = w
      /\ \A j \in DOMAIN t : j # i => u[j] = t[j]
  BY <1>1, <1>5, <1>6
<1>8. IsTree(u)
  <2>1. \A j \in DOMAIN t : /\ u[j].path = t[j].path /\ u[j].type = t[j].type
                            /\ u[j].type = "dir" => u[j].data = t[j].data
    BY <1>5, <1>7
  <2>2. QED
    BY <1>1, <1>7, <2>1, TreeStays
<1>9. Total(u) = Total(t) - Bytes(t[i]) + Bytes(u[i])
  BY <1>1, <1>7, TotalReplace
<1>10. Bytes(u[i]) = Size[d]
  BY <1>5, <1>7 DEF Bytes
<1>11. Good(u, m - Size[t[i].data] + Size[d])
  BY <1>1, <1>3, <1>7, <1>8, <1>9, <1>10 DEF Good
<1>12. QED
  BY <1>2, <1>11

LEMMA NewNodeIs ==
    ASSUME NEW c \in Creds, NEW p \in Seq(Names), NEW d \in Data
    PROVE  /\ NewNode(p, "file", FileMode, c, d) \in Node
           /\ NewNode(p, "file", FileMode, c, d).path = p
           /\ NewNode(p, "file", FileMode, c, d).type = "file"
           /\ Bytes(NewNode(p, "file", FileMode, c, d)) = Size[d]
           /\ NewNode(p, "dir", DirMode, c, Empty) \in Node
           /\ NewNode(p, "dir", DirMode, c, Empty).path = p
           /\ NewNode(p, "dir", DirMode, c, Empty).data = Empty
           /\ Bytes(NewNode(p, "dir", DirMode, c, Empty)) = 0
<1>1. /\ c.uid \in Nat /\ DirMode \in SUBSET Perms /\ FileMode \in SUBSET Perms
      /\ Empty \in Data
  BY CredAssumption, ModeAssumption, DataAssumption
<1>2. QED
  BY <1>1 DEF NewNode, Node, Bytes

\* vfs_write, with memory to be had.
LEMMA WriteKeeps ==
    ASSUME ~ NoMem, Good(nodes, usage), NEW p \in Seq(Names), NEW d \in Data,
           NEW c \in Creds, NEW parents \in BOOLEAN, DoWrite(c, p, d, parents)
    PROVE  Good(nodes', usage') /\ ok' \in BOOLEAN
<1>1. /\ nodes \in Seq(Node) /\ Unique(nodes) /\ IsTree(nodes) /\ usage \in Nat
      /\ Size[d] \in Nat
  BY GoodIs, DataAssumption DEF Good
<1>2. CASE WriteError(c, p, d, parents) # "OK"
  <2>1. Returns(WriteError(c, p, d, parents))
    BY <1>2 DEF DoWrite
  <2>2. QED
    BY <2>1, ReturnsKeeps
<1>3. CASE WriteError(c, p, d, parents) = "OK"
  <2> DEFINE i == Find(nodes, p)
  <2>1. WriteDone(c, p, d, Chain(c, p, parents))
    BY <1>3 DEF DoWrite, RunsOut
  <2>2. /\ ~ IsDirNode(nodes, p) /\ ParentError(nodes, p, parents) = "OK"
        /\ Quota > 0 => usage - OldSize(p) + Size[d] <= Quota
    <3>1. ~ IsDirNode(nodes, p)
      BY <1>3 DEF WriteError
    <3>2. ParentError(nodes, p, parents) = "OK"
      BY <1>3 DEF WriteError
    <3>3. ~ (Quota > 0 /\ usage - OldSize(p) + Size[d] > Quota)
      BY <1>3 DEF WriteError
    <3>4. OldSize(p) \in Nat /\ Quota \in Nat
      <4>1. CASE i = 0
        BY <4>1, DataAssumption DEF OldSize
      <4>2. CASE i # 0
        <5>1. nodes[i].data \in Data
          BY <1>1, <4>2, FindIs, BytesType
        <5>2. QED
          BY <4>2, <5>1, DataAssumption DEF OldSize
      <4>3. QED
        BY <4>1, <4>2
    <3>5. QED
      BY <1>1, <3>1, <3>2, <3>3, <3>4
  <2>3. p # Root /\ ok' = TRUE /\ usage' = usage - OldSize(p) + Size[d]
    BY <2>1, <2>2 DEF IsDirNode, WriteDone
  <2>4. CASE i # 0
    <3>1. i \in DOMAIN nodes /\ nodes[i].type # "dir"
      BY <1>1, <2>2, <2>4, FindIs DEF IsDirNode
    <3>2. nodes[i].type = "file"
      BY <1>1, <3>1, BytesType
    <3>3. Chain(c, p, parents) = <<>>
      BY <1>1, <2>4, NoChain
    <3>4. PICK u : u = [nodes EXCEPT ![i].data = d]
      OBVIOUS
    <3>5. usage' = usage - Size[nodes[i].data] + Size[d]
      BY <2>3, <2>4 DEF OldSize
    <3>6. Quota > 0 => usage - Size[nodes[i].data] + Size[d] <= Quota
      BY <2>2, <2>4 DEF OldSize
    <3>7. Good(u, usage - Size[nodes[i].data] + Size[d])
      BY <3>1, <3>2, <3>4, <3>6, OverwriteKeeps
    <3>8. nodes' = u \o <<>>
      BY <2>1, <2>4, <3>3, <3>4 DEF WriteDone, Overwrite
    <3>9. u \in Seq(Node)
      BY <3>7, GoodIs
    <3>10. nodes' = u
      BY <3>8, <3>9
    <3>11. QED
      BY <2>3, <3>5, <3>7, <3>10
  <2>5. CASE i = 0
    <3>1. PICK v : v = NewNode(p, "file", FileMode, c, d)
      OBVIOUS
    <3>2. v \in Node /\ v.path = p /\ v.type = "file" /\ Bytes(v) = Size[d]
      BY <3>1, NewNodeIs
    <3>3. usage' = usage + Bytes(v) /\ (Quota > 0 => usage + Bytes(v) <= Quota)
      BY <1>1, <2>2, <2>3, <2>5, <3>2 DEF OldSize
    <3>4. /\ nodes' = Append(nodes \o Chain(c, p, parents), v)
          /\ Fits(Len(Chain(c, p, parents)) + 1)
      BY <2>1, <2>5, <3>1 DEF WriteDone
    <3>5. Good(Append(nodes \o Chain(c, p, parents), v), usage + Bytes(v))
      BY <2>2, <2>3, <2>5, <3>2, <3>3, <3>4, AddKeeps
    <3>6. QED
      BY <2>3, <3>3, <3>4, <3>5
  <2>6. QED
    BY <2>4, <2>5
<1>4. QED
  BY <1>2, <1>3

LEMMA MkdirKeeps ==
    ASSUME ~ NoMem, Good(nodes, usage), NEW p \in Seq(Names),
           NEW c \in Creds, NEW parents \in BOOLEAN, Mkdir(c, p, parents)
    PROVE  Good(nodes', usage') /\ ok' \in BOOLEAN
<1>1. CASE p = Root \/ (parents /\ IsDirNode(nodes, p))
  <2>1. Returns("OK")
    BY <1>1 DEF Mkdir
  <2>2. QED
    BY <2>1, ReturnsKeeps
<1>2. CASE ~ (p = Root \/ (parents /\ IsDirNode(nodes, p)))
  <2>1. CASE MkdirError(p, parents) # "OK"
    <3>1. Returns(MkdirError(p, parents))
      BY <1>2, <2>1 DEF Mkdir
    <3>2. QED
      BY <3>1, ReturnsKeeps
  <2>2. CASE MkdirError(p, parents) = "OK"
    <3>1. PICK v : v = NewNode(p, "dir", DirMode, c, Empty)
      OBVIOUS
    <3>2. v \in Node /\ v.path = p /\ v.data = Empty /\ Bytes(v) = 0
      BY <3>1, NewNodeIs, DataAssumption
    <3>3. /\ Fits(Len(Chain(c, p, parents)) + 1) /\ ok' = TRUE /\ usage' = usage
          /\ nodes' = Append(nodes \o Chain(c, p, parents), v)
      BY <1>2, <2>2, <3>1 DEF Mkdir, RunsOut
    <3>4. Find(nodes, p) = 0 /\ ParentError(nodes, p, parents) = "OK"
      BY <2>2 DEF MkdirError
    <3>5. usage + Bytes(v) = usage /\ (Quota > 0 => usage + Bytes(v) <= Quota)
      BY <3>2, GoodIs DEF Good
    <3>6. Good(Append(nodes \o Chain(c, p, parents), v), usage + Bytes(v))
      BY <1>2, <3>2, <3>3, <3>4, <3>5, AddKeeps
    <3>7. Good(nodes', usage')
      BY ONLY <3>3, <3>5, <3>6, Zenon
    <3>8. QED
      BY <3>3, <3>7
  <2>3. QED
    BY <2>1, <2>2
<1>3. QED
  BY <1>1, <1>2

LEMMA CopyKeeps ==
    ASSUME ~ NoMem, Good(nodes, usage), NEW s \in Seq(Names), NEW p \in Seq(Names),
           NEW c \in Creds, NEW parents \in BOOLEAN, Copy(c, s, p, parents)
    PROVE  Good(nodes', usage') /\ ok' \in BOOLEAN
<1>1. CASE CopyError(c, s) # "OK"
  <2>1. Returns(CopyError(c, s))
    BY <1>1 DEF Copy
  <2>2. QED
    BY <2>1, ReturnsKeeps
<1>2. CASE CopyError(c, s) = "OK"
  <2>1. DoWrite(c, p, nodes[Find(nodes, s)].data, parents)
    BY <1>2 DEF Copy
  <2>2. Find(nodes, s) # 0
    BY <1>2 DEF CopyError
  <2>3. nodes[Find(nodes, s)].data \in Data
    BY <2>2, GoodIs, FindIs, BytesType
  <2>4. QED
    BY <2>1, <2>3, WriteKeeps
<1>3. QED
  BY <1>1, <1>2

\* A node with nothing below it is removed, and its bytes with it.
LEMMA RemoveKeeps ==
    ASSUME NEW t, NEW m, Good(t, m), NEW i \in DOMAIN t,
           \A v \in Range(t) : ~ Under(t[i].path, v.path)
    PROVE  Good(RemoveNode(t, i), m - Freed(t, i))
<1>1. /\ t \in Seq(Node) /\ Len(t) \in Nat /\ IsTree(t) /\ m = Total(t) /\ m \in Nat
      /\ Len(t) <= MaxNodes /\ MaxNodes \in Nat /\ Quota \in Nat
      /\ Quota > 0 => m <= Quota
  BY GoodIs DEF Good
<1>2. IsTree(RemoveNode(t, i))
  BY <1>1, TreeShrinks
<1>3. Len(RemoveNode(t, i)) = Len(t) - 1
  BY <1>1, RemoveIs
<1>4. Total(RemoveNode(t, i)) = Total(t) - Bytes(t[i])
  BY <1>1, TotalRemove
<1>5. Bytes(t[i]) \in Nat /\ Freed(t, i) = Bytes(t[i])
  BY <1>1, BytesType
<1>6. QED
  BY <1>1, <1>2, <1>3, <1>4, <1>5 DEF Good

\* A node has nothing below it that is a file, or a directory without
\* children.
LEMMA LeafIs ==
    ASSUME NEW t, IsTree(t), NEW p, Find(t, p) # 0,
           ~ (t[Find(t, p)].type = "dir" /\ Children(t, p) # {})
    PROVE  \A v \in Range(t) : ~ Under(p, v.path)
<1>1. t \in Seq(Node) /\ Unique(t)
  BY DEF IsTree
<1>2. PICK i \in DOMAIN t : i = Find(t, p) /\ t[i].path = p
  BY <1>1, FindIs
<1>3. p \in Seq(Names) /\ p # Root /\ t[i].type \in {"file", "dir"} /\ t[i] \in Range(t)
  BY <1>1, <1>2, BytesType DEF IsTree, Closed
<1>4. CASE t[i].type = "dir"
  <2>1. Children(t, p) = {}
    BY <1>2, <1>4
  <2>2. QED
    BY <1>1, <2>1, RangeIs DEF Children
<1>5. CASE t[i].type = "file"
  <2>1. ASSUME NEW v \in Range(t), v.path = p PROVE v.type = "file"
    <3>1. PICK j \in DOMAIN t : v = t[j]
      BY <1>1, RangeIs
    <3>2. j = i
      BY <1>1, <1>2, <2>1, <3>1 DEF Unique
    <3>3. QED
      BY <1>5, <3>1, <3>2
  <2>2. QED
    BY <1>3, <2>1, NothingBelow
<1>6. QED
  BY <1>3, <1>4, <1>5

LEMMA DeleteKeeps ==
    ASSUME Good(nodes, usage), NEW p \in Seq(Names), NEW c, Delete(c, p)
    PROVE  Good(nodes', usage') /\ ok' \in BOOLEAN
<1>1. CASE DeleteError(c, p) # "OK"
  <2>1. Returns(DeleteError(c, p))
    BY <1>1 DEF Delete
  <2>2. QED
    BY <2>1, ReturnsKeeps
<1>2. CASE DeleteError(c, p) = "OK"
  <2>1. CASE nodes[Find(nodes, p)].type = "dir" /\ Children(nodes, p) # {}
    <3>1. Returns("ENOTEMPTY")
      BY <1>2, <2>1 DEF Delete
    <3>2. QED
      BY <3>1, ReturnsKeeps
  <2>2. CASE ~ (nodes[Find(nodes, p)].type = "dir" /\ Children(nodes, p) # {})
    <3>1. Removed(Find(nodes, p)) /\ Find(nodes, p) # 0
      BY <1>2, <2>2 DEF Delete, DeleteError
    <3>2. PICK i \in DOMAIN nodes : i = Find(nodes, p) /\ nodes[i].path = p
      BY <3>1, GoodIs, FindIs
    <3>3. \A v \in Range(nodes) : ~ Under(p, v.path)
      BY <2>2, <3>1, LeafIs DEF Good
    <3>4. Good(RemoveNode(nodes, i), usage - Freed(nodes, i))
      BY <3>2, <3>3, RemoveKeeps
    <3>5. QED
      BY <3>1, <3>2, <3>4 DEF Removed
  <2>3. QED
    BY <2>1, <2>2
<1>3. QED
  BY <1>1, <1>2

\* What the loop leaves is a tree in which p has nothing below it.
LEMMA LoopGood ==
    ASSUME Good(nodes, usage), NEW p \in Seq(Names), NEW s, s = DropBelow(p)
    PROVE  /\ Good(s.t, s.u) /\ \A v \in Range(s.t) : ~ Under(p, v.path)
           /\ \A v \in Range(nodes) : ~ Under(p, v.path) <=> v \in Range(s.t)
<1>1. /\ nodes \in Seq(Node) /\ Unique(nodes) /\ Closed(Range(nodes)) /\ usage \in Nat
      /\ usage = Total(nodes) /\ Len(nodes) \in Nat /\ Len(nodes) <= MaxNodes
      /\ MaxNodes \in Nat /\ Quota \in Nat /\ (Quota > 0 => usage <= Quota)
  BY GoodIs DEF Good
<1>2. LoopInv(p, s, 1)
  BY <1>1, LoopDrops
<1>3. /\ s.t \in Seq(Node) /\ Unique(s.t)
      /\ \A k \in DOMAIN s.t : k >= 1 => ~ Under(p, s.t[k].path)
      /\ Range(s.t) \subseteq Range(nodes)
      /\ \A v \in Range(nodes) : ~ Under(p, v.path) => v \in Range(s.t)
      /\ s.u = Total(s.t) /\ s.u <= Total(nodes) /\ Len(s.t) <= Len(nodes)
  BY <1>2 DEF LoopInv
<1>4. \A v \in Range(s.t) : ~ Under(p, v.path)
  <2>1. DOMAIN s.t = 1..Len(s.t) /\ \A v \in Range(s.t) : \E k \in DOMAIN s.t : v = s.t[k]
    BY <1>3, RangeIs
  <2>2. QED
    BY <1>3, <2>1
<1>5. ASSUME NEW v \in Range(s.t)
      PROVE  /\ v.path # Root /\ DirIn(Range(s.t), Parent(v.path))
             /\ v.type = "dir" => v.data = Empty
  <2>1. /\ v \in Range(nodes) /\ v.path # Root /\ DirIn(Range(nodes), Parent(v.path))
        /\ v.path \in Seq(Names) /\ (v.type = "dir" => v.data = Empty)
    BY <1>1, <1>3, RangeIs, NodeIs DEF Closed, Good, IsTree
  <2>2. ~ Under(p, Parent(v.path))
    BY <1>4, <2>1, UnderParent
  <2>3. DirIn(Range(s.t), Parent(v.path))
    BY <1>3, <2>1, <2>2 DEF DirIn
  <2>4. QED
    BY <2>1, <2>3
<1>6. IsTree(s.t)
  BY <1>3, <1>5 DEF IsTree, Closed
<1>7. Len(s.t) <= MaxNodes /\ (Quota > 0 => s.u <= Quota)
  <2>1. Len(s.t) \in Nat /\ s.u \in Nat
    BY <1>3, TotalType
  <2>2. QED
    BY <1>1, <1>3, <2>1
<1>8. QED
  BY <1>3, <1>4, <1>6, <1>7 DEF Good

LEMMA DeleteRecursiveKeeps ==
    ASSUME Good(nodes, usage), NEW p \in Seq(Names), NEW c, DeleteRecursive(c, p)
    PROVE  Good(nodes', usage') /\ ok' \in BOOLEAN
<1>1. CASE DeleteError(c, p) # "OK"
  <2>1. Returns(DeleteError(c, p))
    BY <1>1 DEF DeleteRecursive
  <2>2. QED
    BY <2>1, ReturnsKeeps
<1>2. CASE DeleteError(c, p) = "OK"
  <2>1. PICK i \in DOMAIN nodes : i = Find(nodes, p) /\ nodes[i].path = p /\ i # 0
    BY <1>2, GoodIs, FindIs DEF DeleteError
  <2>2. nodes \in Seq(Node) /\ nodes[i] \in Range(nodes) /\ Unique(nodes)
    BY GoodIs, BytesType
  <2>3. CASE nodes[i].type # "dir"
    <3>1. Removed(i)
      BY <1>2, <2>1, <2>3 DEF DeleteRecursive
    <3>2. \A v \in Range(nodes) : ~ Under(p, v.path)
      BY <2>1, <2>3, LeafIs DEF Good
    <3>3. Good(RemoveNode(nodes, i), usage - Freed(nodes, i))
      BY <2>1, <3>2, RemoveKeeps
    <3>4. QED
      BY <3>1, <3>3 DEF Removed
  <2>4. CASE nodes[i].type = "dir"
    <3>1. PICK s : s = DropBelow(p)
      OBVIOUS
    <3>2. nodes' = RemoveNode(s.t, Find(s.t, p)) /\ usage' = s.u /\ ok' = TRUE
      BY <1>2, <2>1, <2>4, <3>1 DEF DeleteRecursive
    <3>3. /\ Good(s.t, s.u) /\ \A v \in Range(s.t) : ~ Under(p, v.path)
          /\ \A v \in Range(nodes) : ~ Under(p, v.path) <=> v \in Range(s.t)
      BY <3>1, LoopGood
    <3>4. s.t \in Seq(Node) /\ Unique(s.t) /\ s.u \in Nat
      BY <3>3, GoodIs
    <3>5. nodes[i] \in Range(s.t)
      BY <2>1, <2>2, <3>3, UnderIs
    <3>6. PICK j \in DOMAIN s.t : s.t[j] = nodes[i]
      BY <3>4, <3>5, RangeIs
    <3>7. Find(s.t, p) = j
      BY <2>1, <3>4, <3>6, FindUnique
    <3>8. Good(RemoveNode(s.t, j), s.u - Freed(s.t, j))
      BY <2>1, <3>3, <3>6, RemoveKeeps
    <3>9. Freed(s.t, j) = 0 /\ s.u - 0 = s.u
      BY <2>4, <3>4, <3>6 DEF Freed
    <3>10. Good(nodes', usage')
      BY ONLY <3>2, <3>7, <3>8, <3>9, Zenon
    <3>11. QED
      BY <3>2, <3>10
  <2>5. QED
    BY <2>3, <2>4
<1>3. QED
  BY <1>1, <1>2

\* What was at the new name is gone, and the rest is still there.
LEMMA ClearedIs ==
    ASSUME Good(nodes, usage), NEW o \in Seq(Names), NEW n \in Seq(Names), o # n,
           NEW c, RenameError(c, o, n) = "OK", NEW s, s = Cleared(n)
    PROVE  /\ Good(s.t, s.u) /\ Find(s.t, o) # 0
           /\ Range(s.t) = {v \in Range(nodes) : v.path # n}
<1>1. nodes \in Seq(Node) /\ Unique(nodes) /\ IsTree(nodes)
  BY GoodIs DEF Good
<1>2. Find(nodes, o) # 0
  BY DEF RenameError
<1>3. PICK i \in DOMAIN nodes : i = Find(nodes, o) /\ nodes[i].path = o
  BY <1>1, <1>2, FindIs
<1>4. CASE Find(nodes, n) = 0
  <2>1. s.t = nodes /\ s.u = usage
    BY <1>4 DEF Cleared
  <2>2. \A v \in Range(nodes) : v.path # n
    BY <1>1, <1>4, FindIs, RangeIs
  <2>3. QED
    BY <1>2, <2>1, <2>2
<1>5. CASE Find(nodes, n) # 0
  <2>1. PICK j \in DOMAIN nodes : j = Find(nodes, n) /\ nodes[j].path = n
    BY <1>1, <1>5, FindIs
  <2>2. s = [t |-> RemoveNode(nodes, j), u |-> usage - Freed(nodes, j)]
    BY <1>5, <2>1 DEF Cleared
  <2>3. s.t = RemoveNode(nodes, j) /\ s.u = usage - Freed(nodes, j)
    BY <2>2
  <2>4. ~ (nodes[Find(nodes, n)].type = "dir" /\ Children(nodes, n) # {})
    BY <1>5 DEF RenameError
  <2>5. \A v \in Range(nodes) : ~ Under(n, v.path)
    BY <1>1, <1>5, <2>4, LeafIs
  <2>6. Good(s.t, s.u)
    BY <2>1, <2>3, <2>5, RemoveKeeps
  <2>7. Range(s.t) = Range(nodes) \ {nodes[j]}
    BY <1>1, <2>3, RemoveUnique
  <2>8. ASSUME NEW v \in Range(nodes) PROVE v.path # n <=> v # nodes[j]
    <3>1. PICK k \in DOMAIN nodes : v = nodes[k]
      BY <1>1, RangeIs
    <3>2. QED
      BY <1>1, <2>1, <3>1 DEF Unique
  <2>9. s.t \in Seq(Node) /\ nodes[i] \in Range(nodes)
    BY <1>1, <2>6, GoodIs, BytesType
  <2>10. nodes[i] \in Range(s.t)
    BY <1>3, <2>1, <2>7, <2>9
  <2>11. PICK k \in DOMAIN s.t : s.t[k].path = o
    BY <1>3, <2>9, <2>10, RangeIs
  <2>12. Find(s.t, o) # 0
    BY <2>9, <2>11, FindIs
  <2>13. QED
    BY <2>6, <2>7, <2>8, <2>12
<1>6. QED
  BY <1>4, <1>5

\* All of what moves: the node and, if it is a directory, what is below it.
LEMMA MovingIs ==
    ASSUME NEW t, IsTree(t), NEW o, Find(t, o) # 0
    PROVE  (IF t[Find(t, o)].type = "dir" THEN Children(t, o) ELSE {}) \cup {Find(t, o)}
           = Moving(t, o)
<1>1. t \in Seq(Node) /\ Unique(t)
  BY DEF IsTree
<1>2. PICK i \in DOMAIN t : i = Find(t, o) /\ t[i].path = o
  BY <1>1, FindIs
<1>3. \A j \in DOMAIN t : t[j].path = o <=> j = i
  BY <1>1, <1>2 DEF Unique
<1>4. CASE t[i].type = "dir"
  BY <1>2, <1>3, <1>4 DEF Children, Moving
<1>5. CASE t[i].type # "dir"
  <2>1. \A v \in Range(t) : ~ Under(o, v.path)
    BY <1>2, <1>5, LeafIs
  <2>2. \A j \in DOMAIN t : ~ Under(o, t[j].path)
    BY <1>1, <2>1, RangeIs
  <2>3. QED
    BY <1>2, <1>3, <1>5, <2>2 DEF Moving
<1>6. QED
  BY <1>4, <1>5

LEMMA RelabelKeeps ==
    ASSUME NEW t, NEW m, Good(t, m), NEW o \in Seq(Names), NEW n \in Seq(Names),
           o # Root, n # Root, ~ Under(o, n), o # n,
           \A v \in Range(t) : v.path # n, DirIn(Range(t), Parent(n))
    PROVE  Good(Relabel(t, Moving(t, o), o, n), m)
<1>1. PICK u : u = Relabel(t, Moving(t, o), o, n)
  OBVIOUS
<1>2. t \in Seq(Node) /\ IsTree(t)
  BY GoodIs DEF Good
<1>3. IsTree(u)
  BY <1>1, <1>2, TreeMoves
<1>4. u \in Seq(Node) /\ DOMAIN u = DOMAIN t
  BY <1>1, <1>3 DEF IsTree, Relabel
<1>5. ASSUME NEW i \in DOMAIN t PROVE Bytes(u[i]) = Bytes(t[i])
  <2>1. CASE i \in Moving(t, o)
    <3>1. u[i] = [t[i] EXCEPT !.path = Moved(o, n, t[i].path)] /\ t[i] \in Node
      BY <1>1, <1>2, <2>1, BytesType DEF Relabel
    <3>2. u[i].type = t[i].type /\ u[i].data = t[i].data
      BY <3>1 DEF Node
    <3>3. QED
      BY <3>2 DEF Bytes
  <2>2. CASE i \notin Moving(t, o)
    BY <1>1, <2>2 DEF Relabel
  <2>3. QED
    BY <2>1, <2>2
<1>6. Total(u) = Total(t)
  BY <1>2, <1>4, <1>5, TotalSame
<1>7. Len(u) = Len(t)
  BY <1>2, <1>4
<1>8. Good(u, m)
  BY <1>3, <1>6, <1>7 DEF Good
<1>9. QED
  BY <1>1, <1>8

LEMMA RenameKeeps ==
    ASSUME ~ NoMem, Good(nodes, usage), NEW o \in Seq(Names), NEW n \in Seq(Names),
           NEW c, Rename(c, o, n)
    PROVE  Good(nodes', usage') /\ ok' \in BOOLEAN
<1>1. CASE o = n /\ o # Root
  <2>1. Returns("OK")
    BY <1>1 DEF Rename
  <2>2. QED
    BY <2>1, ReturnsKeeps
<1>2. CASE ~ (o = n /\ o # Root) /\ RenameError(c, o, n) # "OK"
  <2>1. Returns(RenameError(c, o, n))
    BY <1>2 DEF Rename
  <2>2. QED
    BY <2>1, ReturnsKeeps
<1>3. CASE ~ (o = n /\ o # Root) /\ RenameError(c, o, n) = "OK"
  <2>1. o # Root /\ n # Root /\ ~ Under(o, n) /\ o # n
    BY <1>3 DEF RenameError
  <2>2. PICK s : s = Cleared(n)
    OBVIOUS
  <2>3. /\ usage' = s.u
        /\ IF ParentError(s.t, n, FALSE) # "OK" THEN nodes' = s.t /\ ok' = FALSE
           ELSE Relabelled(s.t, o, n)
    BY <1>3, <2>2 DEF Rename
  <2>4. /\ Good(s.t, s.u) /\ Find(s.t, o) # 0
        /\ Range(s.t) = {v \in Range(nodes) : v.path # n}
    BY <1>3, <2>1, <2>2, ClearedIs
  <2>5. CASE ParentError(s.t, n, FALSE) # "OK"
    BY <2>3, <2>4, <2>5
  <2>6. CASE ParentError(s.t, n, FALSE) = "OK"
    <3>1. IsDirNode(s.t, Parent(n))
      BY <2>6 DEF ParentError
    <3>2. DirIn(Range(s.t), Parent(n))
      BY <2>4, <3>1, GoodIs, DirNodeIs
    <3>3. \A v \in Range(s.t) : v.path # n
      BY <2>4
    <3>4. Good(Relabel(s.t, Moving(s.t, o), o, n), s.u)
      BY <2>1, <2>4, <3>2, <3>3, RelabelKeeps
    <3>5. Relabelled(s.t, o, n)
      BY <2>3, <2>6
    <3>6. /\ ok' = TRUE
          /\ nodes' = Relabel(s.t, (IF s.t[Find(s.t, o)].type = "dir"
                                    THEN Children(s.t, o) ELSE {}) \cup {Find(s.t, o)}, o, n)
      BY <3>5 DEF Relabelled
    <3>7. (IF s.t[Find(s.t, o)].type = "dir" THEN Children(s.t, o) ELSE {})
             \cup {Find(s.t, o)} = Moving(s.t, o)
      BY <2>4, MovingIs DEF Good
    <3>8. nodes' = Relabel(s.t, Moving(s.t, o), o, n)
      BY ONLY <3>6, <3>7, Zenon
    <3>9. Good(nodes', usage')
      BY ONLY <2>3, <3>4, <3>8, Zenon
    <3>10. QED
      BY <3>6, <3>9
  <2>7. QED
    BY <2>5, <2>6
<1>4. QED
  BY <1>1, <1>2, <1>3

LEMMA ChmodKeeps ==
    ASSUME Good(nodes, usage), NEW p, NEW c, NEW m \in Modes, Chmod(c, p, m)
    PROVE  Good(nodes', usage') /\ ok' \in BOOLEAN
<1>1. CASE ~ c.admin
  <2>1. Returns("EPERM")
    BY <1>1 DEF Chmod
  <2>2. QED
    BY <2>1, ReturnsKeeps
<1>2. CASE c.admin /\ Find(nodes, p) = 0
  <2>1. Returns("ENOTFOUND")
    BY <1>2 DEF Chmod
  <2>2. QED
    BY <2>1, ReturnsKeeps
<1>3. CASE c.admin /\ Find(nodes, p) # 0
  <2>1. nodes \in Seq(Node) /\ IsTree(nodes)
    BY GoodIs DEF Good
  <2>2. PICK i \in DOMAIN nodes : i = Find(nodes, p)
    BY <1>3, <2>1, FindIs
  <2>3. PICK u : u = [nodes EXCEPT ![i].mode = m]
    OBVIOUS
  <2>4. nodes' = u /\ ok' = TRUE /\ usage' = usage
    BY <1>3, <2>2, <2>3 DEF Chmod
  <2>5. PICK w : w = [nodes[i] EXCEPT !.mode = m]
    OBVIOUS
  <2>6. nodes[i] \in Node /\ m \in SUBSET Perms
    BY <2>1, BytesType, ModeAssumption
  <2>7. w \in Node /\ w.path = nodes[i].path /\ w.type = nodes[i].type /\ w.data = nodes[i].data
    BY <2>5, <2>6 DEF Node
  <2>8. u = [nodes EXCEPT ![i] = w]
    BY <2>3, <2>5
  <2>9. /\ u \in Seq(Node) /\ DOMAIN u = DOMAIN nodes /\ Len(u) = Len(nodes) /\ u[i] = w
        /\ \A j \in DOMAIN nodes : j # i => u[j] = nodes[j]
    BY <2>1, <2>7, <2>8
  <2>10. \A j \in DOMAIN nodes : /\ u[j].path = nodes[j].path /\ u[j].type = nodes[j].type
                                 /\ u[j].data = nodes[j].data
    BY <2>7, <2>9
  <2>11. IsTree(u)
    BY <2>1, <2>9, <2>10, TreeStays
  <2>12. Total(u) = Total(nodes)
    <3>1. \A j \in DOMAIN nodes : Bytes(u[j]) = Bytes(nodes[j])
      BY <2>10 DEF Bytes
    <3>2. QED
      BY <2>1, <2>9, <3>1, TotalSame
  <2>13. Good(u, usage)
    BY <2>9, <2>11, <2>12 DEF Good
  <2>14. QED
    BY <2>4, <2>13
<1>4. QED
  BY <1>1, <1>2, <1>3

-----------------------------------------------------------------------------
(* The invariant.                                                          *)

CallNames == {"none", "write", "copy", "mkdir", "delete", "delete_recursive",
              "rename", "chmod"}

\* The listing that is open, if one is.
Listing ==
    /\ lpos \in Nat /\ (ldir = {} \/ \E p : ldir = {p})
    /\ lseen \subseteq Seq(Names) /\ lall \subseteq Seq(Names)

VInv == Good(nodes, usage) /\ ok \in BOOLEAN /\ call[1] \in CallNames /\ Listing

\* What a call does; a listing is left alone.
LEMMA CallIs ==
    ASSUME NEW op, NEW k, Called(op, k), k[1] \in CallNames
    PROVE  call'[1] \in CallNames /\ UNCHANGED listVars /\ (ldir = {} \/ op \in InCallback)
BY DEF Called

LEMMA ChildPathsIs ==
    ASSUME NEW t \in Seq(Node), NEW p
    PROVE  /\ ChildPaths(t, p) \subseteq Seq(Names)
           /\ \A q \in ChildPaths(t, p) : \E i \in DOMAIN t : t[i].path = q
BY BytesType DEF ChildPaths, Children

LEMMA ListAheadIs ==
    ASSUME nodes \in Seq(Node), NEW p, ListAhead(p) # {}
    PROVE  /\ Min(ListAhead(p)) \in ListAhead(p) /\ Min(ListAhead(p)) \in DOMAIN nodes
           /\ \A j \in ListAhead(p) : Min(ListAhead(p)) <= j
<1>1. ListAhead(p) \in SUBSET Nat
  BY RangeIs DEF ListAhead
<1>2. \E x \in ListAhead(p) : \A y \in ListAhead(p) : x <= y
  BY <1>1, LeastNatural
<1>3. /\ Min(ListAhead(p)) \in ListAhead(p)
      /\ \A j \in ListAhead(p) : Min(ListAhead(p)) <= j
  BY <1>2 DEF Min
<1>4. QED
  BY <1>3 DEF ListAhead

LEMMA InitVInv == Init => VInv
<1> SUFFICES ASSUME Init PROVE VInv
  OBVIOUS
<1>1. nodes = <<>> /\ usage = 0 /\ call = <<"none">> /\ ok = TRUE
  BY DEF Init, NoCall
<1>2. Listing
  BY DEF Init, Listing
<1>3. nodes \in Seq(Node) /\ Len(nodes) = 0 /\ DOMAIN nodes = {} /\ Range(nodes) = {}
  BY <1>1 DEF Range
<1>4. IsTree(nodes)
  BY <1>3 DEF IsTree, Unique, Closed
<1>5. Total(nodes) = 0
  <2>1. IsFiniteSet({}) /\ Counts(nodes) \in [{} -> Nat]
    BY <1>3, FS_EmptySet DEF Counts
  <2>2. Total(nodes) = Cardinality(Pile(Counts(nodes)))
    BY <2>1, SumIsPile DEF Total
  <2>3. Pile(Counts(nodes)) = {}
    BY <2>1 DEF Pile
  <2>4. Cardinality({}) = 0
    BY FS_EmptySet
  <2>5. QED
    BY ONLY <2>2, <2>3, <2>4, Zenon
<1>6. Good(nodes, usage)
  BY <1>1, <1>3, <1>4, <1>5, DataAssumption, VfsAssumption DEF Good
<1>7. call[1] \in CallNames
  BY <1>1 DEF CallNames
<1>8. QED
  BY <1>1, <1>2, <1>6, <1>7 DEF VInv

LEMMA StepVInv ==
    ASSUME ~ NoMem, VInv, [Next]_vars
    PROVE  VInv'
<1>1. Good(nodes, usage) /\ ok \in BOOLEAN /\ call[1] \in CallNames /\ Listing
  BY DEF VInv
<1>2. nodes \in Seq(Node)
  BY <1>1, GoodIs
<1>3. ASSUME Good(nodes', usage'), ok' \in BOOLEAN, call'[1] \in CallNames, Listing'
      PROVE  VInv'
  BY <1>3 DEF VInv
<1>4. ASSUME UNCHANGED listVars PROVE Listing'
  BY <1>1, <1>4 DEF listVars, Listing
<1>5. ASSUME UNCHANGED <<nodes, usage, call, ok>>
      PROVE  Good(nodes', usage') /\ ok' \in BOOLEAN /\ call'[1] \in CallNames
  <2>1. nodes' = nodes /\ usage' = usage /\ call' = call /\ ok' = ok
    BY <1>5
  <2>2. QED
    BY ONLY <1>1, <2>1, Zenon
<1>6. ASSUME NEW c \in Creds, NEW p \in Paths, NEW d \in Data, NEW b \in BOOLEAN,
             Write(c, p, d, b)
      PROVE  VInv'
  <2>1. Called("write", WriteCall(c, p, d, b)) /\ DoWrite(c, p, d, b)
    BY <1>6 DEF Write
  <2>2. Good(nodes', usage') /\ ok' \in BOOLEAN
    BY <1>1, <2>1, PathsAreSequences, WriteKeeps
  <2>3. WriteCall(c, p, d, b)[1] \in CallNames
    BY Zenon DEF WriteCall, CallNames
  <2>4. QED
    BY <1>3, <1>4, <2>1, <2>2, <2>3, CallIs
<1>7. ASSUME NEW c \in Creds, NEW p \in Paths, NEW b \in BOOLEAN, Mkdir(c, p, b)
      PROVE  VInv'
  <2>1. Called("mkdir", MkdirCall(c, p, b))
    BY <1>7 DEF Mkdir
  <2>2. Good(nodes', usage') /\ ok' \in BOOLEAN
    BY <1>1, <1>7, PathsAreSequences, MkdirKeeps
  <2>3. MkdirCall(c, p, b)[1] \in CallNames
    BY Zenon DEF MkdirCall, CallNames
  <2>4. QED
    BY <1>3, <1>4, <2>1, <2>2, <2>3, CallIs
<1>8. ASSUME NEW c \in Creds, NEW p \in Paths, Delete(c, p)
      PROVE  VInv'
  <2>1. Called("delete", DeleteCall(c, p))
    BY <1>8 DEF Delete
  <2>2. Good(nodes', usage') /\ ok' \in BOOLEAN
    BY <1>1, <1>8, PathsAreSequences, DeleteKeeps
  <2>3. DeleteCall(c, p)[1] \in CallNames
    BY Zenon DEF DeleteCall, CallNames
  <2>4. QED
    BY <1>3, <1>4, <2>1, <2>2, <2>3, CallIs
<1>9. ASSUME NEW c \in Creds, NEW p \in Paths, DeleteRecursive(c, p)
      PROVE  VInv'
  <2>1. Called("delete", RecursiveCall(c, p))
    BY <1>9 DEF DeleteRecursive
  <2>2. Good(nodes', usage') /\ ok' \in BOOLEAN
    BY <1>1, <1>9, PathsAreSequences, DeleteRecursiveKeeps
  <2>3. RecursiveCall(c, p)[1] \in CallNames
    BY Zenon DEF RecursiveCall, CallNames
  <2>4. QED
    BY <1>3, <1>4, <2>1, <2>2, <2>3, CallIs
<1>10. ASSUME NEW c \in Creds, NEW p \in Paths, NEW q \in Paths, Rename(c, p, q)
       PROVE  VInv'
  <2>1. Called("rename", RenameCall(c, p, q))
    BY <1>10 DEF Rename
  <2>2. Good(nodes', usage') /\ ok' \in BOOLEAN
    BY <1>1, <1>10, PathsAreSequences, RenameKeeps
  <2>3. RenameCall(c, p, q)[1] \in CallNames
    BY Zenon DEF RenameCall, CallNames
  <2>4. QED
    BY <1>3, <1>4, <2>1, <2>2, <2>3, CallIs
<1>11. ASSUME NEW c \in Creds, NEW p \in Paths, NEW q \in Paths, NEW b \in BOOLEAN,
              Copy(c, p, q, b)
       PROVE  VInv'
  <2>1. Called("write", CopyCall(c, p, q, b))
    BY <1>11 DEF Copy
  <2>2. Good(nodes', usage') /\ ok' \in BOOLEAN
    BY <1>1, <1>11, PathsAreSequences, CopyKeeps
  <2>3. CopyCall(c, p, q, b)[1] \in CallNames
    BY Zenon DEF CopyCall, CallNames
  <2>4. QED
    BY <1>3, <1>4, <2>1, <2>2, <2>3, CallIs
<1>12. ASSUME NEW c \in Creds, NEW p \in Paths, NEW m \in Modes, Chmod(c, p, m)
       PROVE  VInv'
  <2>1. Called("chmod", ChmodCall(c, p, m))
    BY <1>12 DEF Chmod
  <2>2. Good(nodes', usage') /\ ok' \in BOOLEAN
    BY <1>1, <1>12, ChmodKeeps
  <2>3. ChmodCall(c, p, m)[1] \in CallNames
    BY Zenon DEF ChmodCall, CallNames
  <2>4. QED
    BY <1>3, <1>4, <2>1, <2>2, <2>3, CallIs
<1>13. ASSUME NEW c \in Listers, NEW p \in Paths, ListBegin(c, p)
       PROVE  VInv'
  <2>1. Listing'
    BY <1>2, <1>13, ChildPathsIs DEF ListBegin, Listing
  <2>2. UNCHANGED <<nodes, usage, call, ok>>
    BY <1>13 DEF ListBegin
  <2>3. QED
    BY <1>3, <1>5, <2>1, <2>2
<1>14. ASSUME ListVisit PROVE VInv'
  <2>1. PICK p \in ldir : ListAhead(p) # {} /\
            LET i == Min(ListAhead(p)) IN
            /\ lseen' = lseen \cup {nodes[i].path} /\ lpos' = i + 1
            /\ UNCHANGED <<nodes, usage, call, ok, ldir, lall>>
    BY <1>14 DEF ListVisit
  <2>2. PICK i \in DOMAIN nodes : i = Min(ListAhead(p))
    BY <1>2, <2>1, ListAheadIs
  <2>3. nodes[i].path \in Seq(Names) /\ i \in Nat
    BY <1>2, BytesType, RangeIs
  <2>4. Listing'
    <3>1. /\ lpos' \in Nat /\ lseen' = lseen \cup {nodes[i].path}
          /\ ldir' = ldir /\ lall' = lall
      BY <2>1, <2>2, <2>3
    <3>2. (ldir = {} \/ \E q : ldir = {q}) /\ lseen' \subseteq Seq(Names)
      BY <1>1, <2>3, <3>1 DEF Listing
    <3>3. ldir' = {} \/ \E q : ldir' = {q}
      BY ONLY <3>1, <3>2, Zenon
    <3>4. QED
      BY <1>1, <3>1, <3>2, <3>3 DEF Listing
  <2>5. QED
    BY <1>3, <1>5, <2>1, <2>4
<1>15. ASSUME ListStop \/ ListDone PROVE VInv'
  <2>1. /\ ldir' = {} /\ lpos' = 0 /\ lseen' = {} /\ lall' = {}
        /\ UNCHANGED <<nodes, usage, call, ok>>
    BY <1>15 DEF ListStop, ListDone
  <2>2. Listing'
    BY <2>1 DEF Listing
  <2>3. QED
    BY <1>3, <1>5, <2>1, <2>2
<1>16. CASE UNCHANGED vars
  BY <1>3, <1>4, <1>5, <1>16 DEF vars
<1>17. QED
  BY <1>6, <1>7, <1>8, <1>9, <1>10, <1>11, <1>12, <1>13, <1>14, <1>15, <1>16 DEF Next

\* What the invariant says of the array.
LEMMA VInvShows ==
    ASSUME VInv
    PROVE  TreeShape /\ UsageExact
<1>1. Good(nodes, usage) /\ ok \in BOOLEAN /\ call[1] \in CallNames /\ Listing
  BY DEF VInv
<1>2. /\ nodes \in Seq(Node) /\ Unique(nodes) /\ Closed(Range(nodes)) /\ usage \in Nat
  BY <1>1, GoodIs
<1>3. TypeOK
  <2>1. Cardinality(ldir) <= 1
    <3>1. CASE ldir = {}
      <4>1. Cardinality({}) = 0
        BY FS_EmptySet
      <4>2. Cardinality(ldir) = 0
        BY ONLY <3>1, <4>1, Zenon
      <4>3. QED
        BY <4>2
    <3>2. ASSUME NEW p, ldir = {p} PROVE Cardinality(ldir) <= 1
      <4>1. Cardinality({p}) = 1
        BY FS_Singleton
      <4>2. Cardinality(ldir) = 1
        BY ONLY <3>2, <4>1, Zenon
      <4>3. QED
        BY <4>2
    <3>3. QED
      BY <1>1, <3>1, <3>2 DEF Listing
  <2>2. Len(nodes) <= MaxNodes
    BY <1>1 DEF Good
  <2>3. QED
    BY <1>1, <1>2, <2>1, <2>2 DEF TypeOK, Listing, CallNames
<1>4. ASSUME NEW i \in DOMAIN nodes
      PROVE  nodes[i].path # Root /\ IsDirNode(nodes, Parent(nodes[i].path))
  <2>1. nodes[i] \in Range(nodes)
    BY <1>2, BytesType
  <2>2. nodes[i].path # Root /\ DirIn(Range(nodes), Parent(nodes[i].path))
    BY <1>2, <2>1 DEF Closed
  <2>3. QED
    BY <1>2, <2>2, DirNodeIs
<1>5. TreeShape
  BY <1>2, <1>3, <1>4 DEF TreeShape, Unique
<1>6. usage = SumFunction([i \in DOMAIN nodes |-> Freed(nodes, i)])
  <2>1. [i \in DOMAIN nodes |-> Freed(nodes, i)] = Counts(nodes)
    BY <1>2, CountsIs
  <2>2. usage = SumFunction(Counts(nodes))
    BY <1>1 DEF Good, Total
  <2>3. QED
    BY ONLY <2>1, <2>2, Zenon
<1>7. UsageExact
  BY <1>1, <1>6 DEF UsageExact, Good
<1>8. QED
  BY <1>5, <1>7

\* The array of nodes that vfs.c keeps is a tree after every call, among
\* them the recursive delete that swaps nodes about under its own loop and
\* the rename that rewrites paths one by one.
THEOREM AlwaysTree ==
    ASSUME ~ NoMem
    PROVE  Spec => []TreeShape
<1>1. Init => VInv
  BY InitVInv
<1>2. VInv /\ [Next]_vars => VInv'
  BY StepVInv
<1>3. VInv => TreeShape
  BY VInvShows
<1>4. QED
  BY <1>1, <1>2, <1>3, PTL DEF Spec

\* The bytes counted for the quota are those of the files that are there,
\* after every call, and never more than the quota.
THEOREM UsageAlwaysExact ==
    ASSUME ~ NoMem
    PROVE  Spec => []UsageExact
<1>1. Init => VInv
  BY InitVInv
<1>2. VInv /\ [Next]_vars => VInv'
  BY StepVInv
<1>3. VInv => UsageExact
  BY VInvShows
<1>4. QED
  BY <1>1, <1>2, <1>3, PTL DEF Spec

-----------------------------------------------------------------------------
(* Listings.                                                               *)

\* The nodes there were are where they were, with their paths.
InPlace == \A i \in DOMAIN nodes : i \in DOMAIN nodes' /\ nodes'[i].path = nodes[i].path

LEMMA AddInPlace ==
    ASSUME Good(nodes, usage), NEW p \in Seq(Names), p # Root, Find(nodes, p) = 0,
           NEW c \in Creds, NEW parents \in BOOLEAN, ParentError(nodes, p, parents) = "OK",
           NEW v \in Node, nodes' = Append(nodes \o Chain(c, p, parents), v)
    PROVE  InPlace
<1>1. nodes \in Seq(Node) /\ IsTree(nodes)
  BY GoodIs DEF Good
<1>2. PICK chain : chain = Chain(c, p, parents)
  OBVIOUS
<1>3. chain \in Seq(Node)
  BY <1>1, <1>2, ChainIs
<1>4. PICK t : t = nodes \o chain
  OBVIOUS
<1>5. /\ t \in Seq(Node) /\ Len(t) = Len(nodes) + Len(chain)
      /\ \A i \in 1..(Len(nodes) + Len(chain)) :
            t[i] = IF i <= Len(nodes) THEN nodes[i] ELSE chain[i - Len(nodes)]
  BY <1>1, <1>3, <1>4, ConcatIs, ConcatProperties
<1>6. /\ DOMAIN nodes = 1..Len(nodes) /\ Len(nodes) \in Nat /\ Len(chain) \in Nat
      /\ DOMAIN t = 1..(Len(nodes) + Len(chain))
  BY <1>1, <1>3, <1>5
<1>7. \A i \in DOMAIN nodes : i \in DOMAIN t /\ t[i] = nodes[i]
  BY <1>5, <1>6
<1>8. nodes' = Append(t, v)
  BY <1>2, <1>4
<1>9. \A i \in DOMAIN t : i \in DOMAIN nodes' /\ nodes'[i] = t[i]
  BY <1>5, <1>8
<1>10. QED
  BY <1>7, <1>9 DEF InPlace

LEMMA ReplacedInPlace ==
    ASSUME nodes \in Seq(Node), NEW i \in DOMAIN nodes, NEW w, w.path = nodes[i].path,
           nodes' = [nodes EXCEPT ![i] = w]
    PROVE  InPlace
BY DEF InPlace

LEMMA ReturnsInPlace ==
    ASSUME NEW r, Returns(r)
    PROVE  InPlace
BY DEF Returns, InPlace

LEMMA WriteInPlace ==
    ASSUME ~ NoMem, Good(nodes, usage), NEW p \in Seq(Names), NEW d \in Data,
           NEW c \in Creds, NEW parents \in BOOLEAN, DoWrite(c, p, d, parents)
    PROVE  InPlace
<1>1. nodes \in Seq(Node) /\ IsTree(nodes)
  BY GoodIs DEF Good
<1>2. CASE WriteError(c, p, d, parents) # "OK"
  <2>1. Returns(WriteError(c, p, d, parents))
    BY <1>2 DEF DoWrite
  <2>2. QED
    BY <2>1, ReturnsInPlace
<1>3. CASE WriteError(c, p, d, parents) = "OK"
  <2>1. WriteDone(c, p, d, Chain(c, p, parents))
    BY <1>3 DEF DoWrite, RunsOut
  <2>2. p # Root /\ ParentError(nodes, p, parents) = "OK"
    BY <1>3 DEF WriteError, IsDirNode
  <2>3. CASE Find(nodes, p) = 0
    <3>1. nodes' = Append(nodes \o Chain(c, p, parents), NewNode(p, "file", FileMode, c, d))
      BY <2>1, <2>3 DEF WriteDone
    <3>2. NewNode(p, "file", FileMode, c, d) \in Node
      BY NewNodeIs
    <3>3. QED
      BY <2>2, <2>3, <3>1, <3>2, AddInPlace
  <2>4. CASE Find(nodes, p) # 0
    <3>1. PICK i \in DOMAIN nodes : i = Find(nodes, p) /\ i # 0
      BY <1>1, <2>4, FindIs
    <3>2. Chain(c, p, parents) = <<>>
      BY <1>1, <2>4, NoChain
    <3>3. PICK w : w = [nodes[i] EXCEPT !.data = d]
      OBVIOUS
    <3>4. w \in Node /\ w.path = nodes[i].path
      <4>1. nodes[i] \in Node
        BY <1>1, BytesType
      <4>2. QED
        BY <3>3, <4>1 DEF Node
    <3>5. PICK u : u = [nodes EXCEPT ![i].data = d]
      OBVIOUS
    <3>6. nodes' = u \o <<>>
      BY <2>1, <3>1, <3>2, <3>5 DEF WriteDone, Overwrite
    <3>7. u = [nodes EXCEPT ![i] = w]
      BY <3>3, <3>5
    <3>8. u \in Seq(Node)
      BY <1>1, <3>4, <3>7
    <3>9. nodes' = u
      BY <3>6, <3>8
    <3>10. QED
      BY <1>1, <3>4, <3>7, <3>9, ReplacedInPlace
  <2>5. QED
    BY <2>3, <2>4
<1>4. QED
  BY <1>2, <1>3

LEMMA MkdirInPlace ==
    ASSUME ~ NoMem, Good(nodes, usage), NEW p \in Seq(Names),
           NEW c \in Creds, NEW parents \in BOOLEAN, Mkdir(c, p, parents)
    PROVE  InPlace
<1>1. CASE p = Root \/ (parents /\ IsDirNode(nodes, p)) \/ MkdirError(p, parents) # "OK"
  <2>1. Returns("OK") \/ Returns(MkdirError(p, parents))
    BY <1>1 DEF Mkdir
  <2>2. QED
    BY <2>1, ReturnsInPlace
<1>2. CASE ~ (p = Root \/ (parents /\ IsDirNode(nodes, p))) /\ MkdirError(p, parents) = "OK"
  <2>1. nodes' = Append(nodes \o Chain(c, p, parents), NewNode(p, "dir", DirMode, c, Empty))
    BY <1>2 DEF Mkdir, RunsOut
  <2>2. NewNode(p, "dir", DirMode, c, Empty) \in Node
    BY NewNodeIs, DataAssumption
  <2>3. Find(nodes, p) = 0 /\ ParentError(nodes, p, parents) = "OK"
    BY <1>2 DEF MkdirError
  <2>4. QED
    BY <1>2, <2>1, <2>2, <2>3, AddInPlace
<1>3. QED
  BY <1>1, <1>2

LEMMA CopyInPlace ==
    ASSUME ~ NoMem, Good(nodes, usage), NEW s \in Seq(Names), NEW p \in Seq(Names),
           NEW c \in Creds, NEW parents \in BOOLEAN, Copy(c, s, p, parents)
    PROVE  InPlace
<1>1. CASE CopyError(c, s) # "OK"
  <2>1. Returns(CopyError(c, s))
    BY <1>1 DEF Copy
  <2>2. QED
    BY <2>1, ReturnsInPlace
<1>2. CASE CopyError(c, s) = "OK"
  <2>1. DoWrite(c, p, nodes[Find(nodes, s)].data, parents) /\ Find(nodes, s) # 0
    BY <1>2 DEF Copy, CopyError
  <2>2. nodes[Find(nodes, s)].data \in Data
    BY <2>1, GoodIs, FindIs, BytesType
  <2>3. QED
    BY <2>1, <2>2, WriteInPlace
<1>3. QED
  BY <1>1, <1>2

LEMMA ChmodInPlace ==
    ASSUME Good(nodes, usage), NEW p, NEW c, NEW m \in Modes, Chmod(c, p, m)
    PROVE  InPlace
<1>1. CASE ~ c.admin \/ Find(nodes, p) = 0
  <2>1. Returns("EPERM") \/ Returns("ENOTFOUND")
    BY <1>1 DEF Chmod
  <2>2. QED
    BY <2>1, ReturnsInPlace
<1>2. CASE c.admin /\ Find(nodes, p) # 0
  <2>1. nodes \in Seq(Node)
    BY GoodIs
  <2>2. PICK i \in DOMAIN nodes : i = Find(nodes, p)
    BY <1>2, <2>1, FindIs
  <2>3. PICK w : w = [nodes[i] EXCEPT !.mode = m]
    OBVIOUS
  <2>4. w.path = nodes[i].path
    <3>1. nodes[i] \in Node
      BY <2>1, BytesType
    <3>2. QED
      BY <2>3, <3>1 DEF Node
  <2>5. nodes' = [nodes EXCEPT ![i] = w]
    BY <1>2, <2>2, <2>3 DEF Chmod
  <2>6. QED
    BY <2>1, <2>4, <2>5, ReplacedInPlace
<1>3. QED
  BY <1>1, <1>2

IsChild(p, q) == Under(p, q) /\ Len(q) = Len(p) + 1

LEMMA ChildIs ==
    ASSUME NEW t, NEW p, NEW i \in DOMAIN t
    PROVE  t[i].path \in ChildPaths(t, p) <=> IsChild(p, t[i].path)
<1>1. ASSUME IsChild(p, t[i].path) PROVE t[i].path \in ChildPaths(t, p)
  BY <1>1 DEF IsChild, ChildPaths, Children
<1>2. ASSUME t[i].path \in ChildPaths(t, p) PROVE IsChild(p, t[i].path)
  <2>1. PICK j \in {k \in Children(t, p) : Len(t[k].path) = Len(p) + 1} : t[j].path = t[i].path
    BY <1>2 DEF ChildPaths
  <2>2. Under(p, t[j].path) /\ Len(t[j].path) = Len(p) + 1
    BY <2>1 DEF Children
  <2>3. QED
    BY ONLY <2>1, <2>2, Zenon DEF IsChild
<1>3. QED
  BY <1>1, <1>2

\* The callback has been given every child behind the listing's position
\* that was there when the listing began.
Passed ==
    \A p \in ldir :
        /\ lpos <= Len(nodes) + 1
        /\ \A i \in DOMAIN nodes :
            i < lpos /\ nodes[i].path \in lall /\ IsChild(p, nodes[i].path)
                => nodes[i].path \in lseen

LEMMA InPlacePassed ==
    ASSUME VInv, VInv', Passed, InPlace, UNCHANGED listVars
    PROVE  Passed'
<1>1. nodes \in Seq(Node) /\ nodes' \in Seq(Node)
  <2>1. Good(nodes, usage) /\ Good(nodes', usage')
    BY DEF VInv
  <2>2. QED
    BY <2>1, GoodIs
<1>2. /\ DOMAIN nodes = 1..Len(nodes) /\ Len(nodes) \in Nat
      /\ DOMAIN nodes' = 1..Len(nodes') /\ Len(nodes') \in Nat
  BY <1>1
<1>3. Len(nodes) <= Len(nodes')
  <2>1. CASE Len(nodes) = 0
    BY <1>2, <2>1
  <2>2. CASE Len(nodes) # 0
    <3>1. Len(nodes) \in DOMAIN nodes
      BY <1>2, <2>2
    <3>2. Len(nodes) \in DOMAIN nodes'
      BY <3>1 DEF InPlace
    <3>3. QED
      BY <1>2, <3>2
  <2>3. QED
    BY <2>1, <2>2
<1>4. ldir' = ldir /\ lpos' = lpos /\ lall' = lall /\ lseen' = lseen /\ lpos \in Nat
  BY DEF listVars, VInv, Listing
<1>5. ASSUME NEW p \in ldir
      PROVE  /\ lpos <= Len(nodes') + 1
             /\ \A i \in DOMAIN nodes' :
                    i < lpos /\ nodes'[i].path \in lall /\ IsChild(p, nodes'[i].path)
                        => nodes'[i].path \in lseen
  <2>1. /\ lpos <= Len(nodes) + 1
        /\ \A i \in DOMAIN nodes :
            i < lpos /\ nodes[i].path \in lall /\ IsChild(p, nodes[i].path)
                => nodes[i].path \in lseen
    BY DEF Passed
  <2>2. ASSUME NEW i \in DOMAIN nodes', i < lpos, nodes'[i].path \in lall,
               IsChild(p, nodes'[i].path)
        PROVE  nodes'[i].path \in lseen
    <3>1. i \in DOMAIN nodes
      BY <1>2, <1>4, <2>1, <2>2
    <3>2. nodes'[i].path = nodes[i].path
      BY <3>1 DEF InPlace
    <3>3. QED
      BY <2>1, <2>2, <3>1, <3>2
  <2>3. QED
    BY <1>2, <1>3, <1>4, <2>1, <2>2
<1>6. QED
  BY <1>4, <1>5 DEF Passed

LEMMA StepPassed ==
    ASSUME ~ NoMem, "delete" \notin InCallback, "rename" \notin InCallback,
           VInv, VInv', Passed, [Next]_vars
    PROVE  Passed'
<1>1. Good(nodes, usage) /\ Listing
  BY DEF VInv
<1>2. nodes \in Seq(Node)
  BY <1>1, GoodIs
<1>3. ASSUME NEW c \in Creds, NEW p \in Paths, NEW d \in Data, NEW b \in BOOLEAN,
             Write(c, p, d, b)
      PROVE  Passed'
  <2>1. DoWrite(c, p, d, b) /\ UNCHANGED listVars
    BY <1>3 DEF Write, Called
  <2>2. InPlace
    BY <1>1, <2>1, PathsAreSequences, WriteInPlace
  <2>3. QED
    BY <2>1, <2>2, InPlacePassed
<1>4. ASSUME NEW c \in Creds, NEW p \in Paths, NEW b \in BOOLEAN, Mkdir(c, p, b)
      PROVE  Passed'
  <2>1. UNCHANGED listVars
    BY <1>4 DEF Mkdir, Called
  <2>2. InPlace
    BY <1>1, <1>4, PathsAreSequences, MkdirInPlace
  <2>3. QED
    BY <2>1, <2>2, InPlacePassed
<1>5. ASSUME NEW c \in Creds, NEW p \in Paths, NEW q \in Paths, NEW b \in BOOLEAN,
             Copy(c, p, q, b)
      PROVE  Passed'
  <2>1. UNCHANGED listVars
    BY <1>5 DEF Copy, Called
  <2>2. InPlace
    BY <1>1, <1>5, PathsAreSequences, CopyInPlace
  <2>3. QED
    BY <2>1, <2>2, InPlacePassed
<1>6. ASSUME NEW c \in Creds, NEW p \in Paths, NEW m \in Modes, Chmod(c, p, m)
      PROVE  Passed'
  <2>1. UNCHANGED listVars
    BY <1>6 DEF Chmod, Called
  <2>2. InPlace
    BY <1>1, <1>6, ChmodInPlace
  <2>3. QED
    BY <2>1, <2>2, InPlacePassed
<1>7. ASSUME NEW op, NEW k, Called(op, k), op \in {"delete", "rename"}
      PROVE  Passed'
  <2>1. ldir' = {}
    BY <1>7 DEF Called, listVars
  <2>2. QED
    BY <2>1 DEF Passed
<1>8. ASSUME NEW c \in Creds, NEW p \in Paths, Delete(c, p) \/ DeleteRecursive(c, p)
      PROVE  Passed'
  BY <1>7, <1>8 DEF Delete, DeleteRecursive
<1>9. ASSUME NEW c \in Creds, NEW p \in Paths, NEW q \in Paths, Rename(c, p, q)
      PROVE  Passed'
  BY <1>7, <1>9 DEF Rename
<1>10. ASSUME NEW c \in Listers, NEW p \in Paths, ListBegin(c, p)
       PROVE  Passed'
  <2>1. lpos' = 0 /\ nodes' = nodes
    BY <1>10 DEF ListBegin
  <2>2. Len(nodes) \in Nat /\ \A i \in DOMAIN nodes : ~ (i < 0)
    BY <1>2, RangeIs
  <2>3. QED
    BY <2>1, <2>2 DEF Passed
<1>11. ASSUME ListVisit PROVE Passed'
  <2>1. PICK p \in ldir : ListAhead(p) # {} /\
            LET i == Min(ListAhead(p)) IN
            /\ lseen' = lseen \cup {nodes[i].path} /\ lpos' = i + 1
            /\ UNCHANGED <<nodes, usage, call, ok, ldir, lall>>
    BY <1>11 DEF ListVisit
  <2>2. PICK i \in DOMAIN nodes : /\ i = Min(ListAhead(p)) /\ i \in ListAhead(p)
                                  /\ \A j \in ListAhead(p) : i <= j
    BY <1>2, <2>1, ListAheadIs
  <2>3. /\ lseen' = lseen \cup {nodes[i].path} /\ lpos' = i + 1
        /\ nodes' = nodes /\ ldir' = ldir /\ lall' = lall
    BY <2>1, <2>2
  <2>4. DOMAIN nodes = 1..Len(nodes) /\ Len(nodes) \in Nat /\ lpos \in Nat
    BY <1>1, <1>2 DEF Listing
  <2>5. \A q \in ldir : q = p
    BY <1>1 DEF Listing
  <2>6. ASSUME NEW j \in DOMAIN nodes, j < i + 1, nodes[j].path \in lall,
               IsChild(p, nodes[j].path)
        PROVE  nodes[j].path \in lseen \cup {nodes[i].path}
    <3>1. CASE j = i
      BY <3>1
    <3>2. CASE j # i
      <4>1. j \notin ListAhead(p)
        BY <2>2, <2>4, <2>6, <3>2
      <4>2. nodes[j].path \in ChildPaths(nodes, p)
        BY <2>6, ChildIs
      <4>3. j < lpos
        BY <2>4, <4>1, <4>2 DEF ListAhead
      <4>4. QED
        BY <2>6, <4>3 DEF Passed
    <3>3. QED
      BY <3>1, <3>2
  <2>7. i + 1 <= Len(nodes) + 1
    BY <2>4
  <2>8. ASSUME NEW q \in ldir
        PROVE  /\ i + 1 <= Len(nodes) + 1
               /\ \A j \in DOMAIN nodes :
                    j < i + 1 /\ nodes[j].path \in lall /\ IsChild(q, nodes[j].path)
                        => nodes[j].path \in lseen \cup {nodes[i].path}
    BY <2>5, <2>6, <2>7
  <2>9. QED
    BY <2>3, <2>8 DEF Passed
<1>12. ASSUME ListStop \/ ListDone PROVE Passed'
  <2>1. ldir' = {}
    BY <1>12 DEF ListStop, ListDone
  <2>2. QED
    BY <2>1 DEF Passed
<1>13. CASE UNCHANGED vars
  <2>1. UNCHANGED listVars /\ InPlace
    BY <1>13 DEF vars, InPlace
  <2>2. QED
    BY <2>1, InPlacePassed
<1>14. QED
  BY <1>3, <1>4, <1>5, <1>6, <1>8, <1>9, <1>10, <1>11, <1>12, <1>13 DEF Next

\* A listing whose callback deletes and renames nothing misses no child that
\* was there at the start: whatever the callback writes or makes goes to
\* the end of the array, ahead of the listing's index.
THEOREM ListingVisitsAll ==
    ASSUME ~ NoMem, "delete" \notin InCallback, "rename" \notin InCallback
    PROVE  Spec => ListVisitsAll
<1>1. Init => VInv /\ Passed
  BY InitVInv DEF Init, Passed
<1>2. VInv /\ Passed /\ [Next]_vars => (VInv /\ Passed)'
  BY StepVInv, StepPassed
<1>3. ASSUME VInv, Passed, NEW p \in ldir, ListDone
      PROVE  lall \cap ChildPaths(nodes, p) \subseteq lseen
  <2>1. nodes \in Seq(Node) /\ lpos \in Nat /\ \A q \in ldir : q = p
    BY <1>3, GoodIs DEF VInv, Listing
  <2>2. ListAhead(p) = {}
    BY <1>3, <2>1 DEF ListDone
  <2>3. ASSUME NEW x \in lall, x \in ChildPaths(nodes, p) PROVE x \in lseen
    <3>1. PICK i \in DOMAIN nodes : nodes[i].path = x
      BY <2>1, <2>3, ChildPathsIs
    <3>2. i < lpos
      BY <2>1, <2>2, <2>3, <3>1, RangeIs DEF ListAhead
    <3>3. IsChild(p, nodes[i].path)
      BY <2>3, <3>1, ChildIs
    <3>4. QED
      BY <1>3, <2>3, <3>1, <3>2, <3>3 DEF Passed
  <2>4. QED
    BY <2>3
<1>4. VInv /\ Passed /\ [Next]_vars
        => [\A p \in ldir : ListDone => lall \cap ChildPaths(nodes, p) \subseteq lseen]_vars
  BY <1>3
<1>5. QED
  BY <1>1, <1>2, <1>4, PTL DEF Spec, ListVisitsAll

-----------------------------------------------------------------------------
(* The map that an array stands for.                                       *)

\* VfsMap is built on the same paths, permissions and calls.
LEMMA SameBase ==
    /\ \A p, q : Tree!Under(p, q) <=> Under(p, q)
    /\ \A p : Tree!Parent(p) = Parent(p)
    /\ \A o, n, q : Tree!Moved(o, n, q) = Moved(o, n, q)
    /\ Tree!Root = Root /\ Tree!Paths = Paths
    /\ \A v, c, w : Tree!CheckPerm(v, c, w) <=> CheckPerm(v, c, w)
BY DEF Tree!Under, Under, Tree!Parent, Parent, Tree!Moved, Moved, Tree!Root, Root,
       Tree!Paths, Paths, Tree!CheckPerm, CheckPerm

\* A node without its path.
Bare(v) == [type |-> v.type, mode |-> v.mode, owner |-> v.owner, data |-> v.data]

PathsOf(R) == {v.path : v \in R}

MapOf(t) == [p \in {t[i].path : i \in DOMAIN t} |-> Bare(t[Find(t, p)])]

\* The map m has the nodes R at their paths.
IsMap(m, R) ==
    m = [p \in PathsOf(R) |-> m[p]] /\ \A v \in R : m[v.path] = Bare(v)

LEMMA MapIsUnique ==
    ASSUME NEW R, NEW m, IsMap(m, R), NEW n, IsMap(n, R)
    PROVE  m = n
<1>1. \A p \in PathsOf(R) : m[p] = n[p]
  BY DEF IsMap, PathsOf
<1>2. QED
  BY <1>1 DEF IsMap

LEMMA MapOfIs ==
    ASSUME NEW t \in Seq(Node), Unique(t)
    PROVE  IsMap(MapOf(t), Range(t))
<1>1. {t[i].path : i \in DOMAIN t} = PathsOf(Range(t))
  BY DEF PathsOf, Range
<1>2. ASSUME NEW v \in Range(t) PROVE MapOf(t)[v.path] = Bare(v)
  <2>1. PICK i \in DOMAIN t : v = t[i]
    BY RangeIs
  <2>2. Find(t, v.path) = i
    BY <2>1, FindUnique
  <2>3. QED
    BY <2>1, <2>2 DEF MapOf
<1>3. MapOf(t) = [p \in PathsOf(Range(t)) |-> MapOf(t)[p]]
  BY <1>1 DEF MapOf
<1>4. QED
  BY <1>2, <1>3 DEF IsMap

LEMMA FsMapIs == FsMap = MapOf(nodes) /\ FsMap' = MapOf(nodes')
BY DEF FsMap, MapOf, Bare

\* Nodes Q, all alike, at the paths S.
LEMMA WithMaps ==
    ASSUME NEW R, NEW m, IsMap(m, R), NEW S, NEW w, NEW Q, PathsOf(Q) = S,
           \A v \in Q : Bare(v) = w
    PROVE  IsMap(Tree!With(m, S, w), {v \in R : v.path \notin S} \cup Q)
<1> DEFINE x == Tree!With(m, S, w)
           T == {v \in R : v.path \notin S} \cup Q
<1>1. x = [p \in DOMAIN m \cup S |-> IF p \in S THEN w ELSE m[p]]
  BY DEF Tree!With
<1>2. DOMAIN m = PathsOf(R)
  BY DEF IsMap
<1>3. PathsOf(T) = DOMAIN m \cup S
  BY <1>2 DEF PathsOf
<1>4. ASSUME NEW v \in T PROVE x[v.path] = Bare(v)
  <2>1. CASE v \in Q
    BY <1>1, <2>1 DEF PathsOf
  <2>2. CASE v \in R /\ v.path \notin S
    BY <1>1, <1>2, <2>2 DEF PathsOf, IsMap
  <2>3. QED
    BY <2>1, <2>2
<1> HIDE DEF T
<1>5. x = [p \in PathsOf(T) |-> x[p]]
  BY <1>1, <1>3
<1> HIDE DEF x
<1>6. IsMap(x, T)
  BY <1>4, <1>5 DEF IsMap
<1>7. QED
  BY <1>6 DEF x, T

LEMMA WithoutMaps ==
    ASSUME NEW R, NEW m, IsMap(m, R), NEW S
    PROVE  IsMap(Tree!Without(m, S), {v \in R : v.path \notin S})
<1> DEFINE x == Tree!Without(m, S)
           T == {v \in R : v.path \notin S}
<1>1. x = [p \in DOMAIN m \ S |-> m[p]]
  BY DEF Tree!Without
<1>2. DOMAIN m = PathsOf(R)
  BY DEF IsMap
<1>3. PathsOf(T) = DOMAIN m \ S
  BY <1>2 DEF PathsOf
<1>4. ASSUME NEW v \in T PROVE x[v.path] = Bare(v)
  BY <1>1, <1>2 DEF PathsOf, IsMap
<1> HIDE DEF T
<1>5. x = [p \in PathsOf(T) |-> x[p]]
  BY <1>1, <1>3
<1> HIDE DEF x
<1>6. IsMap(x, T)
  BY <1>4, <1>5 DEF IsMap
<1>7. QED
  BY <1>6 DEF x, T

\* What the array's questions say of the map.
LEMMA AskedOfMap ==
    ASSUME NEW t, IsTree(t), NEW m, m = MapOf(t), NEW p
    PROVE  /\ p \in DOMAIN m <=> Find(t, p) # 0
           /\ Find(t, p) # 0 => /\ m[p] = Bare(t[Find(t, p)])
                                /\ m[p].data = t[Find(t, p)].data
                                /\ p \in Seq(Names) /\ p # Root
           /\ Find(t, p) # 0 => \A c, w : Tree!CheckPerm(m[p], c, w)
                                            <=> CheckPerm(t[Find(t, p)], c, w)
           /\ Tree!IsDir(m, p) <=> IsDirNode(t, p)
           /\ Tree!Below(m, p) = {} <=> \A v \in Range(t) : ~ Under(p, v.path)
<1>1. t \in Seq(Node) /\ Unique(t) /\ Closed(Range(t))
  BY DEF IsTree
<1>2. IsMap(m, Range(t))
  BY <1>1, MapOfIs
<1>3. DOMAIN m = PathsOf(Range(t))
  BY <1>2 DEF IsMap
<1>4. p \in DOMAIN m <=> Find(t, p) # 0
  BY <1>1, <1>3, FindIs, RangeIs DEF PathsOf
<1>5. ASSUME Find(t, p) # 0
      PROVE  /\ m[p] = Bare(t[Find(t, p)]) /\ p \in Seq(Names) /\ p # Root
  <2>1. PICK i \in DOMAIN t : i = Find(t, p) /\ t[i].path = p
    BY <1>1, <1>5, FindIs
  <2>2. t[i] \in Range(t)
    BY <1>1, RangeIs
  <2>3. m[p] = Bare(t[i])
    BY <1>2, <2>1, <2>2 DEF IsMap
  <2>4. p \in Seq(Names) /\ p # Root
    BY <1>1, <2>1, <2>2, BytesType DEF Closed
  <2>5. QED
    BY <2>1, <2>3, <2>4
<1>6. ASSUME Find(t, p) # 0
      PROVE  /\ m[p].type = t[Find(t, p)].type /\ m[p].mode = t[Find(t, p)].mode
             /\ m[p].owner = t[Find(t, p)].owner /\ m[p].data = t[Find(t, p)].data
  BY <1>5, <1>6 DEF Bare
<1>7. ASSUME Find(t, p) # 0, NEW c, NEW w
      PROVE  Tree!CheckPerm(m[p], c, w) <=> CheckPerm(t[Find(t, p)], c, w)
  <2>1. /\ m[p].mode = t[Find(t, p)].mode /\ m[p].owner = t[Find(t, p)].owner
    BY <1>6, <1>7
  <2>2. QED
    BY <2>1 DEF Tree!CheckPerm, CheckPerm
<1>8. Tree!IsDir(m, p) <=> IsDirNode(t, p)
  BY <1>4, <1>6, SameBase DEF Tree!IsDir, IsDirNode
<1>9. Tree!Below(m, p) = {} <=> \A v \in Range(t) : ~ Under(p, v.path)
  BY <1>3, SameBase DEF Tree!Below, PathsOf
<1>10. QED
  BY <1>4, <1>5, <1>6, <1>7, <1>8, <1>9

-----------------------------------------------------------------------------
(* Parents, on the map.                                                    *)

\* Down to the lowest existing ancestor they all exist, and all above it
\* are directories.
LEMMA UpToDepth ==
    ASSUME IsTree(nodes), NEW p \in Seq(Names), NEW k \in 1..(Len(p) - 1)
    PROVE  /\ Find(nodes, SubSeq(p, 1, k)) # 0 <=> k <= Depth(p)
           /\ k < Depth(p) => IsDirNode(nodes, SubSeq(p, 1, k))
<1>1. nodes \in Seq(Node) /\ Unique(nodes)
  BY DEF IsTree
<1>2. /\ Depth(p) \in There(p) /\ Depth(p) \in Nat /\ \A j \in There(p) : j <= Depth(p)
  BY DepthIs
<1>3. PICK a : a = SubSeq(p, 1, k)
  OBVIOUS
<1>4. a \in Seq(Names) /\ Len(a) = k /\ \A j \in 1..k : a[j] = p[j]
  BY <1>3, PrefixIs
<1>5. ASSUME Find(nodes, a) # 0 PROVE k <= Depth(p)
  <2>1. k \in There(p)
    BY <1>3, <1>5 DEF There
  <2>2. QED
    BY <1>2, <2>1
<1>6. ASSUME k <= Depth(p)
      PROVE  Find(nodes, SubSeq(p, 1, Depth(p))) # 0 /\ Depth(p) \in 1..(Len(p) - 1)
  <2>1. Depth(p) # 0
    BY <1>2, <1>6
  <2>2. QED
    BY <1>2, <2>1 DEF There
<1>7. ASSUME k < Depth(p) PROVE IsDirNode(nodes, a) /\ Find(nodes, a) # 0
  <2>1. Find(nodes, SubSeq(p, 1, Depth(p))) # 0 /\ Depth(p) \in 1..(Len(p) - 1)
    BY <1>2, <1>6, <1>7
  <2>2. PICK b : b = SubSeq(p, 1, Depth(p))
    OBVIOUS
  <2>3. b \in Seq(Names) /\ Len(b) = Depth(p) /\ \A j \in 1..Depth(p) : b[j] = p[j]
    BY <2>1, <2>2, PrefixIs
  <2>4. Under(a, b)
    <3>1. Len(a) < Len(b) /\ \A j \in 1..Len(a) : b[j] = a[j]
      BY <1>2, <1>4, <1>7, <2>3
    <3>2. QED
      BY <1>4, <2>3, <3>1, UnderIs
  <2>5. Find(nodes, b) # 0
    BY ONLY <2>1, <2>2, Zenon
  <2>6. PICK i \in DOMAIN nodes : nodes[i].path = b
    BY <1>1, <2>5, FindIs
  <2>7. nodes[i] \in Range(nodes)
    BY <1>1, RangeIs
  <2>8. DirIn(Range(nodes), a)
    BY <1>4, <2>4, <2>6, <2>7, AncestorsAreDirs
  <2>9. IsDirNode(nodes, a) /\ a # Root
    BY <1>1, <1>4, <2>8, DirNodeIs DEF Root
  <2>10. QED
    BY <2>9 DEF IsDirNode
<1>8. Find(nodes, a) # 0 <=> k <= Depth(p)
  <2>1. ASSUME k = Depth(p) PROVE Find(nodes, a) # 0
    BY <1>3, <1>6, <2>1
  <2>2. QED
    BY <1>2, <1>5, <1>7, <2>1
<1>9. QED
  BY <1>3, <1>7, <1>8

\* ensure_parents and its test, on the map.
LEMMA RoomIs ==
    ASSUME IsTree(nodes), NEW p \in Seq(Names), p # Root, NEW parents \in BOOLEAN
    PROVE  Tree!Room(FsMap, p, parents) <=> ParentError(nodes, p, parents) = "OK"
<1>1. \A q : /\ q \in DOMAIN FsMap <=> Find(nodes, q) # 0
             /\ Tree!IsDir(FsMap, q) <=> IsDirNode(nodes, q)
  BY FsMapIs, AskedOfMap
<1>2. CASE ~ parents
  BY <1>1, <1>2, SameBase DEF Tree!Room, ParentError
<1>3. CASE parents
  <2>1. ParentError(nodes, p, parents) = "OK" <=> IsDirNode(nodes, SubSeq(p, 1, Depth(p)))
    BY <1>3 DEF ParentError
  <2>2. Tree!Room(FsMap, p, parents) <=>
            \A k \in 1..(Len(p) - 1) : Find(nodes, SubSeq(p, 1, k)) # 0
                                         => IsDirNode(nodes, SubSeq(p, 1, k))
    BY <1>1, <1>3 DEF Tree!Room, Tree!Ancestors
  <2>3. /\ Depth(p) \in There(p) /\ Depth(p) \in Nat
    BY DepthIs
  <2>4. CASE Depth(p) = 0
    <3>1. SubSeq(p, 1, 0) = <<>>
      BY PrefixIs
    <3>2. IsDirNode(nodes, SubSeq(p, 1, Depth(p)))
      BY <2>4, <3>1 DEF IsDirNode, Root
    <3>3. \A k \in 1..(Len(p) - 1) : ~ (Find(nodes, SubSeq(p, 1, k)) # 0)
      BY <2>4, UpToDepth
    <3>4. QED
      BY <2>1, <2>2, <3>2, <3>3
  <2>5. CASE Depth(p) # 0
    <3>1. Depth(p) \in 1..(Len(p) - 1) /\ Find(nodes, SubSeq(p, 1, Depth(p))) # 0
      BY <2>3, <2>5 DEF There
    <3>2. ASSUME IsDirNode(nodes, SubSeq(p, 1, Depth(p))), NEW k \in 1..(Len(p) - 1),
                 Find(nodes, SubSeq(p, 1, k)) # 0
          PROVE  IsDirNode(nodes, SubSeq(p, 1, k))
      <4>1. k <= Depth(p) /\ (k < Depth(p) => IsDirNode(nodes, SubSeq(p, 1, k)))
        BY <3>2, UpToDepth
      <4>2. CASE k = Depth(p)
        BY <3>2, <4>2
      <4>3. QED
        BY <2>3, <4>1, <4>2
    <3>3. QED
      BY <2>1, <2>2, <3>1, <3>2
  <2>6. QED
    BY <2>4, <2>5
<1>4. QED
  BY <1>2, <1>3

\* The directories it adds are those missing from the map.
LEMMA ChainMaps ==
    ASSUME IsTree(nodes), NEW p \in Seq(Names), p # Root, NEW c \in Creds,
           NEW parents \in BOOLEAN
    PROVE  LET chain == Chain(c, p, parents) IN
           /\ PathsOf(Range(chain)) = IF parents THEN Tree!Missing(FsMap, p) ELSE {}
           /\ \A v \in Range(chain) : Bare(v) = Tree!NewDir(c)
<1> DEFINE d == Depth(p)
           n == IF parents THEN Len(p) - 1 - d ELSE 0
           chain == Chain(c, p, parents)
<1>1. Len(p) \in Nat \ {0} /\ d \in Nat /\ d <= Len(p) - 1
  BY ParentIs, DepthIs DEF There
<1>2. n \in Nat /\ n <= Len(p) - 1 - d
  BY <1>1
<1>3. chain = [k \in 1..n |-> NewNode(SubSeq(p, 1, d + k), "dir", DirMode, c, Empty)]
  BY DEF Chain
<1>4. \A q : q \in DOMAIN FsMap <=> Find(nodes, q) # 0
  BY FsMapIs, AskedOfMap
<1>5. \A k \in 1..(Len(p) - 1) : Find(nodes, SubSeq(p, 1, k)) # 0 <=> k <= d
  BY UpToDepth
<1> HIDE DEF d, chain
<1>6. Range(chain) = {NewNode(SubSeq(p, 1, d + k), "dir", DirMode, c, Empty) : k \in 1..n}
  BY <1>3 DEF Range
<1>7. ASSUME NEW q PROVE NewNode(q, "dir", DirMode, c, Empty).path = q
  BY DEF NewNode
<1>8. ASSUME NEW q PROVE Bare(NewNode(q, "dir", DirMode, c, Empty)) = Tree!NewDir(c)
  BY DEF Bare, NewNode, Tree!NewDir
<1>9. PathsOf(Range(chain)) = {SubSeq(p, 1, d + k) : k \in 1..n}
  <2>1. ASSUME NEW v \in Range(chain) PROVE \E k \in 1..n : v.path = SubSeq(p, 1, d + k)
    <3>1. PICK k \in 1..n : v = NewNode(SubSeq(p, 1, d + k), "dir", DirMode, c, Empty)
      BY <1>6
    <3>2. v.path = SubSeq(p, 1, d + k)
      BY ONLY <1>7, <3>1, Zenon
    <3>3. QED
      BY <3>2
  <2>2. ASSUME NEW k \in 1..n PROVE \E v \in Range(chain) : v.path = SubSeq(p, 1, d + k)
    <3>1. PICK v : v = NewNode(SubSeq(p, 1, d + k), "dir", DirMode, c, Empty)
      OBVIOUS
    <3>2. v.path = SubSeq(p, 1, d + k)
      BY ONLY <1>7, <3>1, Zenon
    <3>3. v \in Range(chain)
      BY <1>6, <3>1
    <3>4. QED
      BY <3>2, <3>3
  <2>3. QED
    BY ONLY <2>1, <2>2, Zenon DEF PathsOf
<1>10. CASE ~ parents
  <2>1. 1..n = {}
    BY <1>10
  <2>2. PathsOf(Range(chain)) = {}
    BY <1>9, <2>1
  <2>3. QED
    BY <1>6, <1>8, <1>10, <2>2 DEF chain
<1>11. CASE parents
  <2>1. n = Len(p) - 1 - d
    BY <1>11
  <2> HIDE DEF n
  <2>2. Tree!Missing(FsMap, p) =
            {SubSeq(p, 1, k) : k \in {j \in 1..(Len(p) - 1) : ~ (j <= d)}}
    BY <1>4, <1>5 DEF Tree!Missing, Tree!Ancestors
  <2>3. ASSUME NEW k \in 1..n PROVE d + k \in 1..(Len(p) - 1) /\ ~ (d + k <= d)
    BY <1>1, <1>2, <2>1
  <2>4. ASSUME NEW j \in 1..(Len(p) - 1), ~ (j <= d)
        PROVE  j - d \in 1..n /\ d + (j - d) = j
    BY <1>1, <1>2, <2>1, <2>4
  <2>5. {SubSeq(p, 1, d + k) : k \in 1..n}
          \subseteq {SubSeq(p, 1, k) : k \in {j \in 1..(Len(p) - 1) : ~ (j <= d)}}
    BY <2>3
  <2>6. ASSUME NEW j \in 1..(Len(p) - 1), ~ (j <= d)
        PROVE  \E k \in 1..n : SubSeq(p, 1, d + k) = SubSeq(p, 1, j)
    BY <2>4, <2>6, Zenon
  <2>7. PathsOf(Range(chain)) = Tree!Missing(FsMap, p)
    <3>1. {SubSeq(p, 1, k) : k \in {j \in 1..(Len(p) - 1) : ~ (j <= d)}}
            \subseteq {SubSeq(p, 1, d + k) : k \in 1..n}
      BY ONLY <2>6, Zenon
    <3>2. {SubSeq(p, 1, k) : k \in {j \in 1..(Len(p) - 1) : ~ (j <= d)}}
            = {SubSeq(p, 1, d + k) : k \in 1..n}
      BY ONLY <2>5, <3>1, Zenon
    <3>3. QED
      BY ONLY <1>9, <2>2, <3>2, Zenon
  <2>8. QED
    BY <1>6, <1>8, <1>11, <2>7 DEF chain
<1>12. QED
  BY <1>10, <1>11

-----------------------------------------------------------------------------
(* The bytes in a map.                                                     *)

Sizes(m) == [p \in DOMAIN m |-> Size[m[p].data]]

LEMMA UsedIsSum ==
    ASSUME NEW m
    PROVE  Tree!Used(m) = SumFunction(Sizes(m))
<1> DEFINE f == Sizes(m)
           I(it) == [s \in SUBSET DOMAIN m |-> IF s = {} THEN 0
                       ELSE Size[m[CHOOSE x \in s : TRUE].data]
                              + it[s \ {CHOOSE x \in s : TRUE}]]
           J(it) == [s \in SUBSET DOMAIN f |-> IF s = {} THEN 0
                       ELSE f[CHOOSE x \in s : TRUE] + it[s \ {CHOOSE x \in s : TRUE}]]
<1>1. Tree!Used(m) = (CHOOSE it : it = I(it))[DOMAIN m]
  BY DEF Tree!Used, Tree!MapThenSumSet, Tree!MapThenFoldSet
<1>2. SumFunction(f) = (CHOOSE it : it = J(it))[DOMAIN f]
  BY DEF SumFunction, SumFunctionOnSet, FoldFunctionOnSet, MapThenFoldSet
<1>3. DOMAIN f = DOMAIN m /\ \A p \in DOMAIN m : f[p] = Size[m[p].data]
  BY DEF Sizes
<1> HIDE DEF f
<1>4. ASSUME NEW it PROVE I(it) = J(it)
  <2>1. ASSUME NEW s \in SUBSET DOMAIN m, s # {}
        PROVE  f[CHOOSE x \in s : TRUE] = Size[m[CHOOSE x \in s : TRUE].data]
    <3>1. PICK y \in s : y = CHOOSE x \in s : TRUE
      BY <2>1
    <3>2. f[y] = Size[m[y].data]
      BY <1>3, <3>1
    <3>3. QED
      BY ONLY <3>1, <3>2, Zenon
  <2>2. QED
    BY <1>3, <2>1
<1> HIDE DEF I, J
<1>5. (CHOOSE it : it = I(it)) = (CHOOSE it : it = J(it))
  BY <1>4
<1>6. QED
  BY <1>1, <1>2, <1>3, <1>5 DEF f

\* The same numbers in another order have the same sum.
LEMMA SumReordered ==
    ASSUME NEW D, IsFiniteSet(D), NEW f \in [D -> Nat],
           NEW E, IsFiniteSet(E), NEW g \in [E -> Nat],
           NEW b \in Bijection(D, E), \A x \in D : g[b[x]] = f[x]
    PROVE  SumFunction(f) = SumFunction(g)
<1>1. /\ b \in [D -> E] /\ \A x, y \in D : b[x] = b[y] => x = y
      /\ \A z \in E : \E x \in D : b[x] = z
  BY DEF Bijection, Injection, Surjection, IsInjective
<1> DEFINE P == Pile(f)
           Q == Pile(g)
           h == [x \in P |-> <<b[x[1]], x[2]>>]
<1>2. /\ \A x \in D : \A k : <<x, k>> \in P <=> k \in 1..f[x]
      /\ \A x \in P : x = <<x[1], x[2]>> /\ x[1] \in D /\ x[2] \in 1..f[x[1]]
  BY DEF Pile
<1>3. /\ \A x \in E : \A k : <<x, k>> \in Q <=> k \in 1..g[x]
      /\ \A x \in Q : x = <<x[1], x[2]>> /\ x[1] \in E /\ x[2] \in 1..g[x[1]]
  BY DEF Pile
<1> HIDE DEF P, Q
<1>4. h \in [P -> Q]
  <2>1. ASSUME NEW x \in P PROVE <<b[x[1]], x[2]>> \in Q
    BY <1>1, <1>2, <1>3
  <2>2. QED
    BY <2>1
<1>5. ASSUME NEW x \in P, NEW y \in P, h[x] = h[y] PROVE x = y
  BY <1>1, <1>2, <1>5
<1>6. ASSUME NEW z \in Q PROVE \E x \in P : h[x] = z
  <2>1. PICK a \in D : b[a] = z[1]
    BY <1>1, <1>3
  <2>2. <<a, z[2]>> \in P
    BY <1>2, <1>3, <2>1
  <2>3. h[<<a, z[2]>>] = z
    BY <1>3, <2>1, <2>2
  <2>4. QED
    BY <2>2, <2>3
<1> HIDE DEF h
<1>7. h \in Bijection(P, Q)
  BY <1>4, <1>5, <1>6 DEF Bijection, Injection, Surjection, IsInjective
<1>8. IsFiniteSet(P) /\ SumFunction(f) = Cardinality(P)
  BY SumIsPile DEF P
<1>9. IsFiniteSet(Q) /\ SumFunction(g) = Cardinality(Q)
  BY SumIsPile DEF Q
<1>10. Cardinality(P) = Cardinality(Q)
  BY <1>7, <1>8, FS_Bijection DEF ExistsBijection
<1>11. QED
  BY <1>8, <1>9, <1>10

\* The map has the bytes of the array.
LEMMA UsedIsTotal ==
    ASSUME NEW t, IsTree(t), NEW m, m = MapOf(t)
    PROVE  /\ Tree!Used(m) = Total(t) /\ IsFiniteSet(DOMAIN m)
           /\ Sizes(m) \in [DOMAIN m -> Nat]
<1>1. t \in Seq(Node) /\ Unique(t)
  BY DEF IsTree
<1>2. IsMap(m, Range(t))
  BY <1>1, MapOfIs
<1>3. DOMAIN m = PathsOf(Range(t))
  BY <1>2 DEF IsMap
<1>4. IsFiniteSet(DOMAIN t) /\ Counts(t) \in [DOMAIN t -> Nat]
  BY <1>1, CountsIs
<1> DEFINE b == [i \in DOMAIN t |-> t[i].path]
<1>5. b \in Bijection(DOMAIN t, DOMAIN m)
  <2>1. ASSUME NEW i \in DOMAIN t PROVE b[i] \in DOMAIN m
    BY <1>1, <1>3, RangeIs DEF PathsOf
  <2>2. ASSUME NEW p \in DOMAIN m PROVE \E i \in DOMAIN t : b[i] = p
    BY <1>1, <1>3, RangeIs DEF PathsOf
  <2>3. ASSUME NEW i \in DOMAIN t, NEW j \in DOMAIN t, b[i] = b[j] PROVE i = j
    BY <1>1, <2>3 DEF Unique
  <2>4. b \in [DOMAIN t -> DOMAIN m]
    BY <2>1
  <2> HIDE DEF b
  <2>5. QED
    BY <2>2, <2>3, <2>4 DEF Bijection, Injection, Surjection, IsInjective
<1>6. ASSUME NEW i \in DOMAIN t PROVE Sizes(m)[b[i]] = Counts(t)[i] /\ b[i] \in DOMAIN m
  <2>1. t[i] \in Range(t) /\ t[i].path \in DOMAIN m
    BY <1>1, <1>3, RangeIs DEF PathsOf
  <2>2. m[t[i].path] = Bare(t[i])
    BY <1>2, <2>1 DEF IsMap
  <2>3. m[t[i].path].data = t[i].data
    BY <2>2 DEF Bare
  <2>4. Sizes(m)[t[i].path] = Size[t[i].data]
    BY <2>1, <2>3 DEF Sizes
  <2>5. Bytes(t[i]) = Size[t[i].data]
    <3>1. CASE t[i].type = "file"
      BY <3>1 DEF Bytes
    <3>2. CASE t[i].type # "file"
      <4>1. t[i].data = Empty
        BY <1>1, <2>1, <3>2, BytesType DEF IsTree
      <4>2. QED
        BY <3>2, <4>1, DataAssumption DEF Bytes
    <3>3. QED
      BY <3>1, <3>2
  <2>6. QED
    BY <2>1, <2>4, <2>5 DEF Counts
<1>7. Sizes(m) \in [DOMAIN m -> Nat]
  <2>1. ASSUME NEW p \in DOMAIN m PROVE Sizes(m)[p] \in Nat
    <3>1. PICK i \in DOMAIN t : b[i] = p
      BY <1>1, <1>3, RangeIs DEF PathsOf
    <3>2. QED
      BY <1>4, <1>6, <3>1
  <2>2. QED
    BY <2>1 DEF Sizes
<1> HIDE DEF b
<1>8. IsFiniteSet(DOMAIN m)
  BY <1>4, <1>5, FS_Bijection DEF ExistsBijection
<1>9. SumFunction(Counts(t)) = SumFunction(Sizes(m))
  BY <1>4, <1>5, <1>6, <1>7, <1>8, SumReordered
<1>10. Tree!Used(m) = SumFunction(Sizes(m))
  BY UsedIsSum
<1>11. QED
  BY <1>7, <1>8, <1>9, <1>10 DEF Total

\* The bytes there would be with contents d at p.
LEMMA UsedWith ==
    ASSUME Good(nodes, usage), NEW p, NEW d \in Data, NEW w, w.data = d
    PROVE  Tree!Used(Tree!With(FsMap, {p}, w)) = usage - OldSize(p) + Size[d]
<1>1. PICK m : m = FsMap
  OBVIOUS
<1>2. IsTree(nodes) /\ usage = Total(nodes) /\ usage \in Nat /\ Size[d] \in Nat
  BY GoodIs, DataAssumption DEF Good
<1>3. /\ Tree!Used(m) = usage /\ IsFiniteSet(DOMAIN m) /\ Sizes(m) \in [DOMAIN m -> Nat]
  BY <1>1, <1>2, FsMapIs, UsedIsTotal
<1>4. PICK x : x = Tree!With(m, {p}, w)
  OBVIOUS
<1>5. /\ DOMAIN x = DOMAIN m \cup {p} /\ x[p] = w
      /\ \A q \in DOMAIN m : q # p => x[q] = m[q]
  BY <1>4 DEF Tree!With
<1>6. /\ DOMAIN Sizes(x) = DOMAIN m \cup {p} /\ Sizes(x)[p] = Size[d]
      /\ \A q \in DOMAIN m : q # p => Sizes(x)[q] = Sizes(m)[q]
  BY <1>5 DEF Sizes
<1>7. IsFiniteSet(DOMAIN m \cup {p}) /\ Sizes(x) \in [DOMAIN m \cup {p} -> Nat]
  <2>1. IsFiniteSet(DOMAIN m \cup {p})
    BY <1>3, FS_AddElement
  <2>2. \A q \in DOMAIN m \cup {p} : Sizes(x)[q] \in Nat
    BY <1>2, <1>3, <1>6
  <2>3. QED
    BY <1>5, <2>1, <2>2 DEF Sizes
<1>8. /\ SumFunction(Sizes(x)) = Sizes(x)[p] + SumFunction(But(Sizes(x), p))
      /\ SumFunction(But(Sizes(x), p)) \in Nat
  BY <1>7, SumSplit
<1>9. Tree!Used(x) = SumFunction(Sizes(x)) /\ Tree!Used(m) = SumFunction(Sizes(m))
  BY UsedIsSum
<1>10. CASE Find(nodes, p) = 0
  <2>1. p \notin DOMAIN m /\ OldSize(p) = 0
    BY <1>1, <1>2, <1>10, FsMapIs, AskedOfMap DEF OldSize
  <2>2. But(Sizes(x), p) = Sizes(m)
    BY <1>3, <1>6, <2>1 DEF But
  <2>3. SumFunction(But(Sizes(x), p)) = usage
    BY ONLY <1>3, <1>9, <2>2, Zenon
  <2>4. QED
    BY <1>1, <1>2, <1>4, <1>6, <1>8, <1>9, <2>1, <2>3
<1>11. CASE Find(nodes, p) # 0
  <2>1. p \in DOMAIN m /\ m[p].data = nodes[Find(nodes, p)].data
    BY <1>1, <1>2, <1>11, FsMapIs, AskedOfMap
  <2>2. Sizes(m)[p] = OldSize(p) /\ OldSize(p) \in Nat
    BY <1>3, <1>11, <2>1 DEF Sizes, OldSize
  <2>3. But(Sizes(x), p) = But(Sizes(m), p)
    BY <1>3, <1>6, <2>1 DEF But
  <2>4. SumFunction(But(Sizes(x), p)) = SumFunction(But(Sizes(m), p))
    BY ONLY <2>3, Zenon
  <2>5. SumFunction(Sizes(m)) = Sizes(m)[p] + SumFunction(But(Sizes(m), p))
    BY <1>3, <2>1, SumSplit
  <2>6. QED
    BY <1>1, <1>2, <1>3, <1>4, <1>6, <1>8, <1>9, <2>2, <2>4, <2>5
<1>12. QED
  BY <1>10, <1>11

-----------------------------------------------------------------------------
(* Each call, on the map.                                                  *)

\* The map after a call, from the nodes there are.
LEMMA MapAfter ==
    ASSUME Good(nodes', usage'), NEW x, NEW R, R = Range(nodes'), IsMap(x, R)
    PROVE  FsMap' = x
<1>1. nodes' \in Seq(Node) /\ Unique(nodes')
  BY GoodIs
<1>2. IsMap(MapOf(nodes'), R)
  BY <1>1, MapOfIs
<1>3. MapOf(nodes') = x
  BY <1>2, MapIsUnique
<1>4. QED
  BY <1>3, FsMapIs

LEMMA MapBefore ==
    ASSUME Good(nodes, usage)
    PROVE  IsMap(FsMap, Range(nodes))
BY GoodIs, MapOfIs, FsMapIs

LEMMA ReturnsMaps ==
    ASSUME NEW r, Returns(r)
    PROVE  FsMap' = FsMap /\ (ok' <=> r = "OK") /\ ok' \in BOOLEAN
<1>1. nodes' = nodes
  BY DEF Returns
<1>2. MapOf(nodes') = MapOf(nodes)
  BY ONLY <1>1, Zenon
<1>3. FsMap' = FsMap
  BY ONLY <1>2, FsMapIs, Zenon
<1>4. QED
  BY <1>3 DEF Returns

LEMMA CanWriteIs ==
    ASSUME Good(nodes, usage), NEW p \in Seq(Names), NEW d \in Data,
           NEW c \in Creds, NEW parents \in BOOLEAN
    PROVE  Tree!CanWrite(FsMap, c, p, d, parents) <=> WriteError(c, p, d, parents) = "OK"
<1>1. IsTree(nodes) /\ usage \in Nat /\ Quota \in Nat
  BY GoodIs DEF Good
<1>2. /\ p \in DOMAIN FsMap <=> Find(nodes, p) # 0
      /\ Find(nodes, p) # 0 => (Tree!CheckPerm(FsMap[p], c, "W")
                                  <=> CheckPerm(nodes[Find(nodes, p)], c, "W"))
      /\ Tree!IsDir(FsMap, p) <=> IsDirNode(nodes, p)
  BY <1>1, FsMapIs, AskedOfMap
<1>3. Tree!Used(Tree!With(FsMap, {p}, Tree!NewFile(c, d))) = usage - OldSize(p) + Size[d]
  <2>1. Tree!NewFile(c, d).data = d
    BY DEF Tree!NewFile
  <2>2. QED
    BY <2>1, UsedWith
<1>4. usage - OldSize(p) + Size[d] \in Int
  <2>1. OldSize(p) \in Nat /\ Size[d] \in Nat
    <3>1. CASE Find(nodes, p) = 0
      BY <3>1, DataAssumption DEF OldSize
    <3>2. CASE Find(nodes, p) # 0
      <4>1. nodes[Find(nodes, p)].data \in Data
        BY <3>2, GoodIs, FindIs, BytesType
      <4>2. QED
        BY <3>2, <4>1, DataAssumption DEF OldSize
    <3>3. QED
      BY <3>1, <3>2
  <2>2. QED
    BY <1>1, <2>1
<1>5. Tree!CanWrite(FsMap, c, p, d, parents) <=>
          /\ ~ IsDirNode(nodes, p)
          /\ Find(nodes, p) # 0 => CheckPerm(nodes[Find(nodes, p)], c, "W")
          /\ Quota > 0 => usage - OldSize(p) + Size[d] <= Quota
          /\ Tree!Room(FsMap, p, parents)
  BY <1>2, <1>3 DEF Tree!CanWrite
<1>6. CASE p = Root
  BY <1>5, <1>6 DEF WriteError, IsDirNode
<1>7. CASE p # Root
  <2>1. Tree!Room(FsMap, p, parents) <=> ParentError(nodes, p, parents) = "OK"
    BY <1>1, <1>7, RoomIs
  <2>2. WriteError(c, p, d, parents) = "OK" <=>
          /\ ~ IsDirNode(nodes, p)
          /\ Find(nodes, p) # 0 => CheckPerm(nodes[Find(nodes, p)], c, "W")
          /\ ~ (Quota > 0 /\ usage - OldSize(p) + Size[d] > Quota)
          /\ ParentError(nodes, p, parents) = "OK"
    BY DEF WriteError
  <2>3. ~ (Quota > 0 /\ usage - OldSize(p) + Size[d] > Quota)
          <=> (Quota > 0 => usage - OldSize(p) + Size[d] <= Quota)
    BY <1>1, <1>4
  <2>4. QED
    BY <1>5, <2>1, <2>2, <2>3
<1>8. QED
  BY <1>6, <1>7

\* A new node and the directories it needs.
LEMMA AddMaps ==
    ASSUME Good(nodes, usage), Good(nodes', usage'), NEW p \in Seq(Names), p # Root,
           Find(nodes, p) = 0, NEW c \in Creds, NEW parents \in BOOLEAN,
           ParentError(nodes, p, parents) = "OK", NEW v \in Node, v.path = p,
           nodes' = Append(nodes \o Chain(c, p, parents), v)
    PROVE  FsMap' = Tree!With(Tree!MadeDirs(FsMap, c, p, parents), {p}, Bare(v))
<1>1. nodes \in Seq(Node) /\ IsTree(nodes)
  BY GoodIs DEF Good
<1>2. PICK chain : chain = Chain(c, p, parents)
  OBVIOUS
<1>3. PICK t : t = nodes \o chain
  OBVIOUS
<1>4. chain \in Seq(Node) /\ IsTree(t) /\ \A i \in DOMAIN t : t[i].path # p
  BY <1>1, <1>2, <1>3, ChainIs
<1>5. t \in Seq(Node) /\ Range(t) = Range(nodes) \cup Range(chain) /\ Unique(t)
  BY <1>1, <1>3, <1>4, ConcatIs DEF IsTree
<1>6. nodes' = Append(t, v)
  BY <1>2, <1>3
<1>7. Range(nodes') = Range(t) \cup {v}
  BY <1>5, <1>6, AppendIs
<1> DEFINE S == IF parents THEN Tree!Missing(FsMap, p) ELSE {}
           x == Tree!MadeDirs(FsMap, c, p, parents)
<1>8. PathsOf(Range(chain)) = S /\ \A w \in Range(chain) : Bare(w) = Tree!NewDir(c)
  BY <1>1, <1>2, ChainMaps
<1>9. x = Tree!With(FsMap, S, Tree!NewDir(c))
  BY DEF Tree!MadeDirs
<1>10. S \cap DOMAIN FsMap = {}
  BY DEF Tree!Missing
<1> HIDE DEF S, x
<1>11. IsMap(x, {w \in Range(nodes) : w.path \notin S} \cup Range(chain))
  BY <1>8, <1>9, MapBefore, WithMaps
<1>12. {w \in Range(nodes) : w.path \notin S} = Range(nodes)
  <2>1. DOMAIN FsMap = PathsOf(Range(nodes))
    BY MapBefore DEF IsMap
  <2>2. QED
    BY <1>10, <2>1 DEF PathsOf
<1>13. IsMap(x, Range(t))
  BY <1>5, <1>11, <1>12
<1>14. PathsOf({v}) = {p} /\ \A w \in {v} : Bare(w) = Bare(v)
  BY DEF PathsOf
<1>15. IsMap(Tree!With(x, {p}, Bare(v)), {w \in Range(t) : w.path \notin {p}} \cup {v})
  BY ONLY <1>13, <1>14, WithMaps, Zenon
<1>16. {w \in Range(t) : w.path \notin {p}} = Range(t)
  BY <1>4, <1>5, RangeIs
<1>17. IsMap(Tree!With(x, {p}, Bare(v)), Range(nodes'))
  BY <1>7, <1>15, <1>16
<1>18. QED
  BY <1>17, MapAfter DEF x

\* A node replaced by one with the same path.
LEMMA ReplaceMaps ==
    ASSUME Good(nodes, usage), Good(nodes', usage'), NEW i \in DOMAIN nodes, NEW w \in Node,
           w.path = nodes[i].path, nodes' = [nodes EXCEPT ![i] = w]
    PROVE  FsMap' = Tree!With(FsMap, {w.path}, Bare(w))
<1>1. nodes \in Seq(Node) /\ Unique(nodes)
  BY GoodIs
<1>2. Range(nodes') = {v \in Range(nodes) : v.path \notin {w.path}} \cup {w}
  <2>1. /\ DOMAIN nodes' = DOMAIN nodes /\ nodes'[i] = w
        /\ \A j \in DOMAIN nodes : j # i => nodes'[j] = nodes[j]
    OBVIOUS
  <2>2. \A j \in DOMAIN nodes : nodes[j].path = w.path <=> j = i
    BY <1>1 DEF Unique
  <2>3. QED
    BY <2>1, <2>2 DEF Range
<1>3. PathsOf({w}) = {w.path}
  BY DEF PathsOf
<1>4. IsMap(Tree!With(FsMap, {w.path}, Bare(w)),
            {v \in Range(nodes) : v.path \notin {w.path}} \cup {w})
  <2>1. PICK m, R, p : m = FsMap /\ R = Range(nodes) /\ p = w.path
    OBVIOUS
  <2>2. IsMap(m, R)
    BY <2>1, MapBefore
  <2>3. PathsOf({w}) = {p}
    BY <1>3, <2>1
  <2>4. \A v \in {w} : Bare(v) = Bare(w)
    OBVIOUS
  <2>5. IsMap(Tree!With(m, {p}, Bare(w)), {v \in R : v.path \notin {p}} \cup {w})
    BY ONLY <2>2, <2>3, <2>4, WithMaps, Zenon
  <2>6. QED
    BY ONLY <2>1, <2>5, Zenon
<1>5. QED
  BY <1>2, <1>4, MapAfter

\* What a call does: what the tree would.
Effect(can, x) ==
    \/ can /\ FsMap' = x /\ ok' = TRUE
    \/ ~ can /\ FsMap' = FsMap /\ ok' = FALSE

LEMMA WriteMaps ==
    ASSUME ~ NoMem, Good(nodes, usage), Good(nodes', usage'), NEW p \in Seq(Names),
           NEW d \in Data, NEW c \in Creds, NEW parents \in BOOLEAN, DoWrite(c, p, d, parents)
    PROVE  Effect(Tree!CanWrite(FsMap, c, p, d, parents), Tree!Written(FsMap, c, p, d, parents))
<1>1. nodes \in Seq(Node) /\ Unique(nodes) /\ IsTree(nodes)
  BY GoodIs DEF Good
<1>2. CASE WriteError(c, p, d, parents) # "OK"
  <2>1. Returns(WriteError(c, p, d, parents))
    BY <1>2 DEF DoWrite
  <2>2. FsMap' = FsMap /\ ok' = FALSE
    BY <1>2, <2>1, ReturnsMaps
  <2>3. QED
    BY <1>2, <2>2, CanWriteIs DEF Effect
<1>3. CASE WriteError(c, p, d, parents) = "OK"
  <2>1. WriteDone(c, p, d, Chain(c, p, parents)) /\ ok' = TRUE
    BY <1>3 DEF DoWrite, RunsOut, WriteDone
  <2>2. p # Root /\ ParentError(nodes, p, parents) = "OK"
    BY <1>3 DEF WriteError, IsDirNode
  <2>3. FsMap' = Tree!Written(FsMap, c, p, d, parents)
    <3>1. CASE Find(nodes, p) = 0
      <4>1. PICK v : v = NewNode(p, "file", FileMode, c, d)
        OBVIOUS
      <4>2. v \in Node /\ v.path = p
        BY <4>1, NewNodeIs
      <4>3. nodes' = Append(nodes \o Chain(c, p, parents), v)
        BY <2>1, <3>1, <4>1 DEF WriteDone
      <4>4. Bare(v) = Tree!NewFile(c, d)
        BY <4>1 DEF Bare, NewNode, Tree!NewFile
      <4>5. p \notin DOMAIN FsMap
        BY <1>1, <3>1, FsMapIs, AskedOfMap
      <4>6. FsMap' = Tree!With(Tree!MadeDirs(FsMap, c, p, parents), {p}, Bare(v))
        BY <2>2, <3>1, <4>2, <4>3, AddMaps
      <4>7. QED
        BY <4>4, <4>5, <4>6 DEF Tree!Written
    <3>2. CASE Find(nodes, p) # 0
      <4>1. PICK i \in DOMAIN nodes : i = Find(nodes, p) /\ i # 0 /\ nodes[i].path = p
        BY <1>1, <3>2, FindIs
      <4>2. Chain(c, p, parents) = <<>>
        BY <1>1, <3>2, NoChain
      <4>3. PICK w : w = [nodes[i] EXCEPT !.data = d]
        OBVIOUS
      <4>4. nodes[i] \in Node
        BY <1>1, BytesType
      <4>5. w \in Node /\ w.path = p
        BY <4>1, <4>3, <4>4 DEF Node
      <4>6. PICK u : u = [nodes EXCEPT ![i].data = d]
        OBVIOUS
      <4>7. nodes' = u \o <<>>
        BY <2>1, <4>1, <4>2, <4>6 DEF WriteDone, Overwrite
      <4>8. u = [nodes EXCEPT ![i] = w]
        BY <4>3, <4>6
      <4>9. u \in Seq(Node)
        BY <1>1, <4>5, <4>8
      <4>10. nodes' = [nodes EXCEPT ![i] = w]
        BY <4>7, <4>8, <4>9
      <4>11. FsMap' = Tree!With(FsMap, {p}, Bare(w))
        BY <4>1, <4>5, <4>10, ReplaceMaps
      <4>12. p \in DOMAIN FsMap /\ FsMap[p] = Bare(nodes[i])
        BY <1>1, <3>2, <4>1, FsMapIs, AskedOfMap
      <4>13. Bare(w) = [FsMap[p] EXCEPT !.data = d]
        BY <4>3, <4>4, <4>12 DEF Bare, Node
      <4>14. Tree!MadeDirs(FsMap, c, p, parents) = FsMap
        <5> DEFINE S == IF parents THEN Tree!Missing(FsMap, p) ELSE {}
        <5>1. PathsOf(Range(<<>>)) = S
          BY <1>1, <2>2, <4>2, ChainMaps
        <5>2. S = {}
          BY <5>1 DEF PathsOf, Range
        <5>3. Tree!MadeDirs(FsMap, c, p, parents) = Tree!With(FsMap, S, Tree!NewDir(c))
          BY DEF Tree!MadeDirs
        <5>4. FsMap = [q \in DOMAIN FsMap |-> FsMap[q]]
          BY FsMapIs DEF MapOf
        <5>5. Tree!With(FsMap, {}, Tree!NewDir(c)) = FsMap
          BY <5>4 DEF Tree!With
        <5>6. QED
          BY ONLY <5>2, <5>3, <5>5, Zenon
      <4>15. QED
        BY <4>11, <4>12, <4>13, <4>14 DEF Tree!Written
    <3>3. QED
      BY <3>1, <3>2
  <2>4. QED
    BY <1>3, <2>1, <2>3, CanWriteIs DEF Effect
<1>4. QED
  BY <1>2, <1>3

LEMMA MkdirMaps ==
    ASSUME ~ NoMem, Good(nodes, usage), Good(nodes', usage'), NEW p \in Seq(Names),
           NEW c \in Creds, NEW parents \in BOOLEAN, Mkdir(c, p, parents)
    PROVE  Effect(Tree!CanMkdir(FsMap, p, parents), Tree!Made(FsMap, c, p, parents))
<1>1. IsTree(nodes)
  BY DEF Good
<1>2. /\ p \in DOMAIN FsMap <=> Find(nodes, p) # 0
      /\ Tree!IsDir(FsMap, p) <=> IsDirNode(nodes, p)
  BY <1>1, FsMapIs, AskedOfMap
<1>3. Tree!There(FsMap, p, parents) <=> p = Root \/ (parents /\ IsDirNode(nodes, p))
  BY <1>2, SameBase DEF Tree!There, IsDirNode
<1>4. CASE p = Root \/ (parents /\ IsDirNode(nodes, p))
  <2>1. Returns("OK")
    BY <1>4 DEF Mkdir
  <2>2. FsMap' = FsMap /\ ok' = TRUE
    BY <2>1, ReturnsMaps
  <2>3. QED
    BY <1>3, <1>4, <2>2 DEF Effect, Tree!CanMkdir, Tree!Made
<1>5. CASE ~ (p = Root \/ (parents /\ IsDirNode(nodes, p)))
  <2>1. Tree!CanMkdir(FsMap, p, parents) <=> MkdirError(p, parents) = "OK"
    <3>1. Tree!Room(FsMap, p, parents) <=> ParentError(nodes, p, parents) = "OK"
      BY <1>1, <1>5, RoomIs
    <3>2. QED
      BY <1>2, <1>3, <1>5, <3>1, SameBase DEF Tree!CanMkdir, MkdirError
  <2>2. CASE MkdirError(p, parents) # "OK"
    <3>1. Returns(MkdirError(p, parents))
      BY <1>5, <2>2 DEF Mkdir
    <3>2. FsMap' = FsMap /\ ok' = FALSE
      BY <2>2, <3>1, ReturnsMaps
    <3>3. QED
      BY <2>1, <2>2, <3>2 DEF Effect
  <2>3. CASE MkdirError(p, parents) = "OK"
    <3>1. PICK v : v = NewNode(p, "dir", DirMode, c, Empty)
      OBVIOUS
    <3>2. v \in Node /\ v.path = p
      BY <3>1, NewNodeIs, DataAssumption
    <3>3. nodes' = Append(nodes \o Chain(c, p, parents), v) /\ ok' = TRUE
      BY <1>5, <2>3, <3>1 DEF Mkdir, RunsOut
    <3>4. Find(nodes, p) = 0 /\ ParentError(nodes, p, parents) = "OK"
      BY <2>3 DEF MkdirError
    <3>5. FsMap' = Tree!With(Tree!MadeDirs(FsMap, c, p, parents), {p}, Bare(v))
      BY <1>5, <3>2, <3>3, <3>4, AddMaps
    <3>6. Bare(v) = Tree!NewDir(c)
      BY <3>1 DEF Bare, NewNode, Tree!NewDir
    <3>7. FsMap' = Tree!Made(FsMap, c, p, parents)
      BY <1>3, <1>5, <3>5, <3>6 DEF Tree!Made
    <3>8. QED
      BY <2>1, <2>3, <3>3, <3>7 DEF Effect
  <2>4. QED
    BY <2>2, <2>3
<1>6. QED
  BY <1>4, <1>5

LEMMA CanRemoveIs ==
    ASSUME Good(nodes, usage), NEW p, NEW c
    PROVE  Tree!CanRemove(FsMap, c, p) <=> DeleteError(c, p) = "OK"
<1>1. IsTree(nodes)
  BY DEF Good
<1>2. /\ p \in DOMAIN FsMap <=> Find(nodes, p) # 0
      /\ Find(nodes, p) # 0 => p # Root
      /\ Find(nodes, p) # 0 => (Tree!CheckPerm(FsMap[p], c, "W")
                                  <=> CheckPerm(nodes[Find(nodes, p)], c, "W"))
  BY <1>1, FsMapIs, AskedOfMap
<1>3. QED
  BY <1>2 DEF Tree!CanRemove, DeleteError

\* The map without the paths of S, when those of the nodes are gone that
\* have such paths.
LEMMA RemoveMaps ==
    ASSUME Good(nodes, usage), Good(nodes', usage'), NEW S,
           Range(nodes') = {v \in Range(nodes) : v.path \notin S}
    PROVE  FsMap' = Tree!Without(FsMap, S)
<1>1. IsMap(Tree!Without(FsMap, S), {v \in Range(nodes) : v.path \notin S})
  BY MapBefore, WithoutMaps
<1>2. QED
  BY <1>1, MapAfter

LEMMA RemovedPath ==
    ASSUME NEW t \in Seq(Node), Unique(t), NEW i \in DOMAIN t
    PROVE  Range(RemoveNode(t, i)) = {v \in Range(t) : v.path # t[i].path}
<1>1. Range(RemoveNode(t, i)) = Range(t) \ {t[i]}
  BY RemoveUnique
<1>2. ASSUME NEW v \in Range(t) PROVE v # t[i] <=> v.path # t[i].path
  <2>1. PICK j \in DOMAIN t : v = t[j]
    BY RangeIs
  <2>2. QED
    BY <2>1 DEF Unique
<1>3. QED
  BY <1>1, <1>2

LEMMA DeleteMaps ==
    ASSUME Good(nodes, usage), Good(nodes', usage'), NEW p \in Seq(Names), NEW c, Delete(c, p)
    PROVE  Effect(Tree!CanRemove(FsMap, c, p) /\ Tree!Below(FsMap, p) = {},
                  Tree!Without(FsMap, {p}))
<1>1. nodes \in Seq(Node) /\ Unique(nodes) /\ IsTree(nodes)
  BY GoodIs DEF Good
<1>2. Tree!CanRemove(FsMap, c, p) <=> DeleteError(c, p) = "OK"
  BY CanRemoveIs
<1>3. Tree!Below(FsMap, p) = {} <=> \A v \in Range(nodes) : ~ Under(p, v.path)
  BY <1>1, FsMapIs, AskedOfMap
<1>4. CASE DeleteError(c, p) # "OK"
  <2>1. Returns(DeleteError(c, p))
    BY <1>4 DEF Delete
  <2>2. FsMap' = FsMap /\ ok' = FALSE
    BY <1>4, <2>1, ReturnsMaps
  <2>3. QED
    BY <1>2, <1>4, <2>2 DEF Effect
<1>5. CASE DeleteError(c, p) = "OK" /\ nodes[Find(nodes, p)].type = "dir"
                                    /\ Children(nodes, p) # {}
  <2>1. Returns("ENOTEMPTY")
    BY <1>5 DEF Delete
  <2>2. FsMap' = FsMap /\ ok' = FALSE
    BY <2>1, ReturnsMaps
  <2>3. \E v \in Range(nodes) : Under(p, v.path)
    BY <1>1, <1>5, RangeIs DEF Children
  <2>4. QED
    BY <1>3, <2>2, <2>3 DEF Effect
<1>6. CASE DeleteError(c, p) = "OK" /\ ~ (/\ nodes[Find(nodes, p)].type = "dir"
                                          /\ Children(nodes, p) # {})
  <2>1. Removed(Find(nodes, p)) /\ Find(nodes, p) # 0
    BY <1>6 DEF Delete, DeleteError
  <2>2. PICK i \in DOMAIN nodes : i = Find(nodes, p) /\ nodes[i].path = p
    BY <1>1, <2>1, FindIs
  <2>3. Tree!Below(FsMap, p) = {}
    BY <1>1, <1>3, <1>6, <2>1, LeafIs
  <2>4. nodes' = RemoveNode(nodes, i) /\ ok' = TRUE
    BY <2>1, <2>2 DEF Removed
  <2>5. Range(nodes') = {v \in Range(nodes) : v.path \notin {p}}
    BY <1>1, <2>2, <2>4, RemovedPath
  <2>6. FsMap' = Tree!Without(FsMap, {p})
    BY ONLY <2>5, RemoveMaps, Good(nodes, usage), Good(nodes', usage'), Zenon
  <2>7. QED
    BY <1>2, <1>6, <2>3, <2>4, <2>6 DEF Effect
<1>7. QED
  BY <1>4, <1>5, <1>6

LEMMA DeleteRecursiveMaps ==
    ASSUME Good(nodes, usage), Good(nodes', usage'), NEW p \in Seq(Names), NEW c,
           DeleteRecursive(c, p)
    PROVE  Effect(Tree!CanRemove(FsMap, c, p),
                  Tree!Without(FsMap, Tree!Below(FsMap, p) \cup {p}))
<1>1. nodes \in Seq(Node) /\ Unique(nodes) /\ IsTree(nodes)
  BY GoodIs DEF Good
<1>2. Tree!CanRemove(FsMap, c, p) <=> DeleteError(c, p) = "OK"
  BY CanRemoveIs
<1>3. CASE DeleteError(c, p) # "OK"
  <2>1. Returns(DeleteError(c, p))
    BY <1>3 DEF DeleteRecursive
  <2>2. FsMap' = FsMap /\ ok' = FALSE
    BY <1>3, <2>1, ReturnsMaps
  <2>3. QED
    BY <1>2, <1>3, <2>2 DEF Effect
<1>4. CASE DeleteError(c, p) = "OK"
  <2>1. PICK i \in DOMAIN nodes : i = Find(nodes, p) /\ nodes[i].path = p /\ i # 0
    BY <1>1, <1>4, FindIs DEF DeleteError
  <2>2. ok' = TRUE /\ Range(nodes') = {v \in Range(nodes) : ~ Under(p, v.path) /\ v.path # p}
    <3>1. CASE nodes[i].type # "dir"
      <4>1. nodes' = RemoveNode(nodes, i) /\ ok' = TRUE
        BY <1>4, <2>1, <3>1 DEF DeleteRecursive, Removed
      <4>2. \A v \in Range(nodes) : ~ Under(p, v.path)
        BY <1>1, <2>1, <3>1, LeafIs
      <4>3. Range(nodes') = {v \in Range(nodes) : v.path # p}
        BY <1>1, <2>1, <4>1, RemovedPath
      <4>4. QED
        BY <4>1, <4>2, <4>3
    <3>2. CASE nodes[i].type = "dir"
      <4>1. PICK s : s = DropBelow(p)
        OBVIOUS
      <4>2. nodes' = RemoveNode(s.t, Find(s.t, p)) /\ ok' = TRUE
        BY <1>4, <2>1, <3>2, <4>1 DEF DeleteRecursive
      <4>3. /\ Good(s.t, s.u)
            /\ \A v \in Range(nodes) : ~ Under(p, v.path) <=> v \in Range(s.t)
        BY <4>1, LoopGood
      <4>4. s.t \in Seq(Node) /\ Unique(s.t) /\ Range(s.t) \subseteq Range(nodes)
        <5>1. LoopInv(p, s, 1)
          BY <1>1, <4>1, LoopDrops DEF Good
        <5>2. QED
          BY <5>1 DEF LoopInv
      <4>5. nodes[i] \in Range(s.t)
        <5>1. nodes[i] \in Range(nodes) /\ ~ Under(p, p)
          BY <1>1, RangeIs, UnderIs
        <5>2. QED
          BY <2>1, <4>3, <5>1
      <4>6. PICK j \in DOMAIN s.t : s.t[j] = nodes[i]
        BY <4>4, <4>5, RangeIs
      <4>7. Find(s.t, p) = j
        BY <2>1, <4>4, <4>6, FindUnique
      <4>8. Range(RemoveNode(s.t, j)) = {v \in Range(s.t) : v.path # p}
        BY <2>1, <4>4, <4>6, RemovedPath
      <4>9. QED
        BY <4>2, <4>3, <4>4, <4>7, <4>8
    <3>3. QED
      BY <3>1, <3>2
  <2>3. PICK S : S = Tree!Below(FsMap, p) \cup {p}
    OBVIOUS
  <2>4. ASSUME NEW v \in Range(nodes)
        PROVE  v.path \notin S <=> ~ Under(p, v.path) /\ v.path # p
    <3>1. v.path \in DOMAIN FsMap
      BY MapBefore DEF IsMap, PathsOf
    <3>2. QED
      BY <2>3, <3>1, SameBase DEF Tree!Below
  <2>5. Range(nodes') = {v \in Range(nodes) : v.path \notin S}
    BY <2>2, <2>4
  <2>6. FsMap' = Tree!Without(FsMap, S)
    BY ONLY <2>5, RemoveMaps, Good(nodes, usage), Good(nodes', usage'), Zenon
  <2>7. FsMap' = Tree!Without(FsMap, Tree!Below(FsMap, p) \cup {p})
    BY ONLY <2>3, <2>6, Zenon
  <2>8. QED
    BY <1>2, <1>4, <2>2, <2>7 DEF Effect
<1>5. QED
  BY <1>3, <1>4

LEMMA CopyMaps ==
    ASSUME ~ NoMem, Good(nodes, usage), Good(nodes', usage'),
           NEW s \in Seq(Names), NEW p \in Seq(Names),
           NEW c \in Creds, NEW parents \in BOOLEAN, Copy(c, s, p, parents)
    PROVE  Effect(/\ s \in DOMAIN FsMap /\ ~ Tree!IsDir(FsMap, s)
                  /\ Tree!CheckPerm(FsMap[s], c, "R")
                  /\ Tree!CanWrite(FsMap, c, p, FsMap[s].data, parents),
                  Tree!Written(FsMap, c, p, FsMap[s].data, parents))
<1>1. IsTree(nodes) /\ nodes \in Seq(Node)
  BY GoodIs DEF Good
<1>2. /\ s \in DOMAIN FsMap <=> Find(nodes, s) # 0
      /\ Find(nodes, s) # 0 => /\ FsMap[s].data = nodes[Find(nodes, s)].data /\ s # Root
                               /\ Tree!CheckPerm(FsMap[s], c, "R")
                                    <=> CheckPerm(nodes[Find(nodes, s)], c, "R")
      /\ Tree!IsDir(FsMap, s) <=> IsDirNode(nodes, s)
  BY <1>1, FsMapIs, AskedOfMap
<1>3. CopyError(c, s) = "OK" <=> /\ s \in DOMAIN FsMap /\ ~ Tree!IsDir(FsMap, s)
                                 /\ Tree!CheckPerm(FsMap[s], c, "R")
  BY <1>2 DEF CopyError, IsDirNode
<1>4. CASE CopyError(c, s) # "OK"
  <2>1. Returns(CopyError(c, s))
    BY <1>4 DEF Copy
  <2>2. FsMap' = FsMap /\ ok' = FALSE
    BY <1>4, <2>1, ReturnsMaps
  <2>3. QED
    BY <1>3, <1>4, <2>2 DEF Effect
<1>5. CASE CopyError(c, s) = "OK"
  <2>1. PICK d : d = nodes[Find(nodes, s)].data
    OBVIOUS
  <2>2. DoWrite(c, p, d, parents) /\ Find(nodes, s) # 0
    BY <1>5, <2>1 DEF Copy, CopyError
  <2>3. d \in Data /\ FsMap[s].data = d
    BY <1>1, <1>2, <2>1, <2>2, FindIs, BytesType
  <2>4. Effect(Tree!CanWrite(FsMap, c, p, d, parents), Tree!Written(FsMap, c, p, d, parents))
    BY <2>2, <2>3, WriteMaps
  <2>5. QED
    BY <1>3, <1>5, <2>3, <2>4 DEF Effect
<1>6. QED
  BY <1>4, <1>5

LEMMA ChmodMaps ==
    ASSUME Good(nodes, usage), Good(nodes', usage'), NEW p, NEW c, NEW m \in Modes,
           Chmod(c, p, m)
    PROVE  Effect(c.admin /\ p \in DOMAIN FsMap, [FsMap EXCEPT ![p].mode = m])
<1>1. IsTree(nodes) /\ nodes \in Seq(Node)
  BY GoodIs DEF Good
<1>2. /\ p \in DOMAIN FsMap <=> Find(nodes, p) # 0
      /\ Find(nodes, p) # 0 => FsMap[p] = Bare(nodes[Find(nodes, p)])
  BY <1>1, FsMapIs, AskedOfMap
<1>3. CASE ~ (c.admin /\ Find(nodes, p) # 0)
  <2>1. Returns("EPERM") \/ Returns("ENOTFOUND")
    BY <1>3 DEF Chmod
  <2>2. FsMap' = FsMap /\ ok' = FALSE
    BY <2>1, ReturnsMaps
  <2>3. QED
    BY <1>2, <1>3, <2>2 DEF Effect
<1>4. CASE c.admin /\ Find(nodes, p) # 0
  <2>1. PICK i \in DOMAIN nodes : i = Find(nodes, p) /\ nodes[i].path = p
    BY <1>1, <1>4, FindIs
  <2>2. PICK w : w = [nodes[i] EXCEPT !.mode = m]
    OBVIOUS
  <2>3. nodes[i] \in Node /\ m \in SUBSET Perms
    BY <1>1, BytesType, ModeAssumption
  <2>4. w \in Node /\ w.path = p
    BY <2>1, <2>2, <2>3 DEF Node
  <2>5. nodes' = [nodes EXCEPT ![i] = w] /\ ok' = TRUE
    BY <1>4, <2>1, <2>2 DEF Chmod
  <2>6. FsMap' = Tree!With(FsMap, {p}, Bare(w))
    BY <2>1, <2>4, <2>5, ReplaceMaps
  <2>7. Bare(w) = [FsMap[p] EXCEPT !.mode = m]
    BY <1>2, <1>4, <2>1, <2>2, <2>3 DEF Bare, Node
  <2>8. FsMap = [q \in DOMAIN FsMap |-> FsMap[q]]
    BY FsMapIs DEF MapOf
  <2>9. Tree!With(FsMap, {p}, Bare(w)) = [FsMap EXCEPT ![p] = Bare(w)]
    BY <1>2, <1>4, <2>8 DEF Tree!With
  <2>10. QED
    BY <1>2, <1>4, <2>5, <2>6, <2>7, <2>9 DEF Effect
<1>5. QED
  BY <1>3, <1>4

\* There and back again.
LEMMA MovedBack ==
    ASSUME NEW o \in Seq(Names), NEW n \in Seq(Names), NEW q \in Seq(Names),
           Under(o, q) \/ q = o
    PROVE  Moved(n, o, Moved(o, n, q)) = q
<1>1. PICK x : x = Moved(o, n, q) /\ IsMoved(o, n, q, x)
  BY MovedIs
<1>2. Under(n, x) \/ x = n
  BY <1>1, MovedUnder, MovedRoot
<1>3. /\ x \in Seq(Names) /\ Len(x) = Len(n) + (Len(q) - Len(o)) /\ Len(o) <= Len(q)
      /\ \A k \in (Len(o) + 1)..Len(q) : x[k - Len(o) + Len(n)] = q[k]
  BY <1>1 DEF IsMoved
<1>4. PICK y : y = Moved(n, o, x) /\ IsMoved(n, o, x, y)
  BY <1>2, <1>3, MovedIs
<1>5. /\ y \in Seq(Names) /\ Len(y) = Len(o) + (Len(x) - Len(n))
      /\ \A k \in 1..Len(o) : y[k] = o[k]
      /\ \A k \in (Len(n) + 1)..Len(x) : y[k - Len(n) + Len(o)] = x[k]
  BY <1>4 DEF IsMoved
<1>6. Len(o) \in Nat /\ Len(n) \in Nat /\ Len(q) \in Nat /\ Len(y) = Len(q)
  BY <1>3, <1>5
<1>7. \A k \in 1..Len(o) : q[k] = o[k]
  BY UnderIs
<1>8. ASSUME NEW k \in 1..Len(q) PROVE y[k] = q[k]
  <2>1. CASE k <= Len(o)
    BY <1>5, <1>7, <2>1
  <2>2. CASE k > Len(o)
    <3>1. PICK j : j = k - Len(o) + Len(n)
      OBVIOUS
    <3>2. j - Len(n) + Len(o) = k /\ j \in (Len(n) + 1)..Len(x) /\ k \in (Len(o) + 1)..Len(q)
      BY <1>3, <1>6, <2>2, <3>1
    <3>3. x[j] = q[k]
      BY <1>3, <3>1, <3>2
    <3>4. y[j - Len(n) + Len(o)] = x[j]
      BY <1>5, <3>2
    <3>5. QED
      BY <3>2, <3>3, <3>4
  <2>3. QED
    BY <1>6, <2>1, <2>2
<1>9. QED
  BY <1>1, <1>4, <1>5, <1>6, <1>8, SeqEqual

\* The map of the moved nodes.
LEMMA RelabelMaps ==
    ASSUME Good(nodes, usage), NEW t, NEW u, Good(t, u),
           NEW o \in Seq(Names), NEW n \in Seq(Names), o # n, ~ Under(o, n),
           Range(t) = {v \in Range(nodes) : v.path # n},
           \A v \in Range(nodes) : ~ Under(n, v.path),
           \E v \in Range(nodes) : v.path = o,
           NEW w, w = Relabel(t, Moving(t, o), o, n), w \in Seq(Node)
    PROVE  IsMap(Tree!Renamed(FsMap, o, n), Range(w))
<1> DEFINE all  == Tree!Below(FsMap, o) \cup {o}
           stay == DOMAIN FsMap \ (all \cup {n})
           x    == Tree!Renamed(FsMap, o, n)
<1>1. /\ x = [q \in stay \cup {Moved(o, n, y) : y \in all} |->
                IF q \in stay THEN FsMap[q] ELSE FsMap[Moved(n, o, q)]]
  BY SameBase DEF Tree!Renamed
<1>2. IsMap(FsMap, Range(nodes)) /\ nodes \in Seq(Node) /\ t \in Seq(Node) /\ IsTree(t)
  BY MapBefore, GoodIs DEF Good
<1>3. /\ DOMAIN FsMap = PathsOf(Range(nodes))
      /\ \A v \in Range(nodes) : FsMap[v.path] = Bare(v)
  BY <1>2 DEF IsMap
<1>4. \A q : q \in all <=> q \in PathsOf(Range(nodes)) /\ (Under(o, q) \/ q = o)
  BY <1>3, SameBase DEF Tree!Below, PathsOf
<1>5. \A q : q \in stay <=> /\ q \in PathsOf(Range(nodes)) /\ q # n
                            /\ ~ (Under(o, q) \/ q = o)
  BY <1>3, <1>4
<1>6. DOMAIN x = stay \cup {Moved(o, n, y) : y \in all}
  BY <1>1
<1>7. /\ \A q \in stay : x[q] = FsMap[q]
      /\ \A y \in all : Moved(o, n, y) \notin stay
                          => x[Moved(o, n, y)] = FsMap[Moved(n, o, Moved(o, n, y))]
  BY <1>1
<1>8. x = [q \in DOMAIN x |-> x[q]]
  BY <1>1
<1> HIDE DEF all, stay, x
<1>9. ASSUME NEW i \in DOMAIN t
      PROVE  /\ t[i] \in Range(nodes) /\ t[i] \in Node /\ t[i].path \in Seq(Names)
             /\ t[i].path # n /\ t[i].path \in PathsOf(Range(nodes))
  <2>1. t[i] \in Range(t) /\ t[i] \in Node
    BY <1>2, RangeIs
  <2>2. t[i].path \in Seq(Names)
    BY <2>1, NodeIs
  <2>3. QED
    BY <2>1, <2>2 DEF PathsOf
<1>10. DOMAIN w = DOMAIN t
  BY DEF Relabel
<1>11. ASSUME NEW i \in DOMAIN t, i \in Moving(t, o)
       PROVE  /\ w[i].path = Moved(o, n, t[i].path) /\ t[i].path \in all
              /\ w[i].path \in DOMAIN x /\ x[w[i].path] = Bare(w[i])
  <2>1. w[i] = [t[i] EXCEPT !.path = Moved(o, n, t[i].path)]
    BY <1>11 DEF Relabel
  <2>2. /\ w[i].path = Moved(o, n, t[i].path) /\ Bare(w[i]) = Bare(t[i])
    BY <1>9, <2>1 DEF Node, Bare
  <2>3. Under(o, t[i].path) \/ t[i].path = o
    BY <1>11 DEF Moving
  <2>4. t[i].path \in all
    BY <1>4, <1>9, <2>3
  <2>5. Under(n, w[i].path) \/ w[i].path = n
    BY <1>9, <2>2, <2>3, MovedUnder, MovedRoot
  <2>6. w[i].path \notin stay
    BY <1>5, <2>5 DEF PathsOf
  <2>7. Moved(n, o, Moved(o, n, t[i].path)) = t[i].path
    BY <1>9, <2>3, MovedBack
  <2>8. x[w[i].path] = FsMap[t[i].path]
    BY <1>7, <2>2, <2>4, <2>6, <2>7
  <2>9. x[w[i].path] = Bare(w[i])
    BY <1>3, <1>9, <2>2, <2>8
  <2>10. QED
    BY <1>6, <2>2, <2>4, <2>9
<1>12. ASSUME NEW i \in DOMAIN t, i \notin Moving(t, o)
       PROVE  /\ w[i] = t[i] /\ w[i].path \in DOMAIN x /\ x[w[i].path] = Bare(w[i])
  <2>1. w[i] = t[i]
    BY <1>12 DEF Relabel
  <2>2. w[i].path \in stay
    BY <1>5, <1>9, <1>12, <2>1 DEF Moving
  <2>3. QED
    BY <1>3, <1>6, <1>7, <1>9, <2>1, <2>2
<1>13. ASSUME NEW q \in PathsOf(Range(nodes)), q # n
       PROVE  \E i \in DOMAIN t : t[i].path = q
  <2>1. PICK v \in Range(t) : v.path = q
    BY <1>13 DEF PathsOf
  <2>2. QED
    BY <1>2, <2>1, RangeIs
<1>14. ASSUME NEW q \in DOMAIN x PROVE q \in PathsOf(Range(w))
  <2>1. \E i \in DOMAIN t : w[i].path = q
    <3>1. CASE q \in stay
      <4>1. PICK i \in DOMAIN t : t[i].path = q
        BY <1>5, <1>13, <3>1
      <4>2. i \notin Moving(t, o)
        BY <1>5, <3>1, <4>1 DEF Moving
      <4>3. QED
        BY <1>12, <4>1, <4>2
    <3>2. CASE q \notin stay
      <4>1. PICK y \in all : q = Moved(o, n, y)
        BY <1>6, <1>14, <3>2
      <4>2. y \in PathsOf(Range(nodes)) /\ (Under(o, y) \/ y = o) /\ y # n
        BY <1>4
      <4>3. PICK i \in DOMAIN t : t[i].path = y
        BY <1>13, <4>2
      <4>4. i \in Moving(t, o)
        BY <4>2, <4>3 DEF Moving
      <4>5. QED
        BY <1>11, <4>1, <4>3, <4>4
    <3>3. QED
      BY <3>1, <3>2
  <2>2. PICK i \in DOMAIN w : w[i].path = q
    BY <1>10, <2>1
  <2>3. w[i] \in Range(w)
    BY RangeIs
  <2>4. QED
    BY <2>2, <2>3 DEF PathsOf
<1>15. ASSUME NEW v \in Range(w) PROVE v.path \in DOMAIN x /\ x[v.path] = Bare(v)
  <2>1. PICK i \in DOMAIN t : v = w[i]
    BY <1>10, RangeIs
  <2>2. QED
    BY <1>11, <1>12, <2>1
<1>16. DOMAIN x = PathsOf(Range(w))
  BY <1>14, <1>15 DEF PathsOf
<1>17. IsMap(x, Range(w))
  <2>1. PICK P : P = PathsOf(Range(w))
    OBVIOUS
  <2>2. x = [q \in P |-> x[q]]
    BY ONLY <1>8, <1>16, <2>1, Zenon
  <2>3. QED
    BY <1>15, <2>1, <2>2 DEF IsMap
<1>18. QED
  BY <1>17 DEF x

\* The errors that vfs_rename finds ahead of the look at the new parent.
LEMMA RenameErrorIs ==
    ASSUME Good(nodes, usage), NEW o \in Seq(Names), NEW n \in Seq(Names), o # n, NEW c
    PROVE  RenameError(c, o, n) = "OK"
             <=> /\ o # Root /\ n # Root /\ ~ Under(o, n) /\ Tree!CanRemove(FsMap, c, o)
                 /\ ~ (Tree!IsDir(FsMap, n) /\ Tree!Below(FsMap, n) # {})
<1>1. IsTree(nodes) /\ nodes \in Seq(Node)
  BY GoodIs DEF Good
<1>2. Tree!CanRemove(FsMap, c, o) <=> DeleteError(c, o) = "OK"
  BY CanRemoveIs
<1>3. /\ Tree!IsDir(FsMap, n) <=> IsDirNode(nodes, n)
      /\ Tree!Below(FsMap, n) = {} <=> \A v \in Range(nodes) : ~ Under(n, v.path)
  BY <1>1, FsMapIs, AskedOfMap
<1>4. (\A v \in Range(nodes) : ~ Under(n, v.path)) <=> Children(nodes, n) = {}
  BY <1>1, RangeIs DEF Children
<1>5. QED
  BY <1>2, <1>3, <1>4 DEF RenameError, DeleteError, IsDirNode

LEMMA RenameMaps ==
    ASSUME ~ NoMem, Good(nodes, usage), Good(nodes', usage'),
           NEW o \in Seq(Names), NEW n \in Seq(Names), NEW c, Rename(c, o, n)
    PROVE  Effect(/\ o # Root /\ n # Root
                  /\ o # n => /\ ~ Under(o, n) /\ Tree!CanRemove(FsMap, c, o)
                              /\ ~ (Tree!IsDir(FsMap, n) /\ Tree!Below(FsMap, n) # {})
                              /\ Tree!IsDir(FsMap, Parent(n)),
                  IF o = n THEN FsMap ELSE Tree!Renamed(FsMap, o, n))
<1>1. CASE o = n /\ o # Root
  <2>1. Returns("OK")
    BY <1>1 DEF Rename
  <2>2. FsMap' = FsMap /\ ok' = TRUE
    BY <2>1, ReturnsMaps
  <2>3. QED
    BY <1>1, <2>2 DEF Effect
<1>2. CASE ~ (o = n /\ o # Root) /\ RenameError(c, o, n) # "OK"
  <2>1. Returns(RenameError(c, o, n))
    BY <1>2 DEF Rename
  <2>2. FsMap' = FsMap /\ ok' = FALSE
    BY <1>2, <2>1, ReturnsMaps
  <2>3. o # n => ~ (/\ o # Root /\ n # Root /\ ~ Under(o, n) /\ Tree!CanRemove(FsMap, c, o)
                    /\ ~ (Tree!IsDir(FsMap, n) /\ Tree!Below(FsMap, n) # {}))
    BY <1>2, RenameErrorIs
  <2>4. QED
    BY <1>2, <2>2, <2>3 DEF Effect
<1>3. CASE ~ (o = n /\ o # Root) /\ RenameError(c, o, n) = "OK"
  <2>1. o # Root /\ n # Root /\ ~ Under(o, n) /\ o # n /\ Find(nodes, o) # 0
    BY <1>3 DEF RenameError
  <2>2. /\ Tree!CanRemove(FsMap, c, o)
        /\ ~ (Tree!IsDir(FsMap, n) /\ Tree!Below(FsMap, n) # {})
    BY <1>3, <2>1, RenameErrorIs
  <2>3. IsTree(nodes) /\ nodes \in Seq(Node) /\ Unique(nodes) /\ Closed(Range(nodes))
    BY GoodIs DEF Good, IsTree
  <2>4. PICK s : s = Cleared(n)
    OBVIOUS
  <2>5. /\ usage' = s.u
        /\ IF ParentError(s.t, n, FALSE) # "OK" THEN nodes' = s.t /\ ok' = FALSE
           ELSE Relabelled(s.t, o, n)
    BY <1>3, <2>4 DEF Rename
  <2>6. /\ Good(s.t, s.u) /\ Find(s.t, o) # 0
        /\ Range(s.t) = {v \in Range(nodes) : v.path # n}
    BY <1>3, <2>1, <2>4, ClearedIs
  <2>7. Tree!IsDir(FsMap, Parent(n)) <=> DirIn(Range(nodes), Parent(n))
    BY <2>3, FsMapIs, AskedOfMap, DirNodeIs
  <2>8. ParentError(s.t, n, FALSE) = "OK" <=> DirIn(Range(nodes), Parent(n))
    <3>1. ParentError(s.t, n, FALSE) = "OK" <=> IsDirNode(s.t, Parent(n))
      BY DEF ParentError
    <3>2. IsDirNode(s.t, Parent(n)) <=> DirIn(Range(s.t), Parent(n))
      BY <2>6, GoodIs, DirNodeIs
    <3>3. Parent(n) # n
      BY <2>1, ParentIs
    <3>4. DirIn(Range(s.t), Parent(n)) <=> DirIn(Range(nodes), Parent(n))
      BY <2>6, <3>3 DEF DirIn
    <3>5. QED
      BY <3>1, <3>2, <3>4
  <2>9. CASE ParentError(s.t, n, FALSE) # "OK"
    <3>1. \A v \in Range(nodes) : v.path # n
      BY <2>3, <2>8, <2>9 DEF Closed
    <3>2. Find(nodes, n) = 0
      BY <2>3, <3>1, FindIs, RangeIs
    <3>3. s.t = nodes
      BY <2>4, <3>2 DEF Cleared
    <3>4. nodes' = nodes /\ ok' = FALSE
      BY <2>5, <2>9, <3>3
    <3>5. FsMap' = FsMap
      BY ONLY <3>4, FsMapIs, Zenon
    <3>6. ~ Tree!IsDir(FsMap, Parent(n))
      BY <2>7, <2>8, <2>9
    <3>7. QED
      BY <2>1, <3>4, <3>5, <3>6 DEF Effect
  <2>10. CASE ParentError(s.t, n, FALSE) = "OK"
    <3>1. /\ ok' = TRUE
          /\ nodes' = Relabel(s.t, (IF s.t[Find(s.t, o)].type = "dir"
                                    THEN Children(s.t, o) ELSE {}) \cup {Find(s.t, o)}, o, n)
      BY <2>5, <2>10 DEF Relabelled
    <3>2. (IF s.t[Find(s.t, o)].type = "dir" THEN Children(s.t, o) ELSE {})
             \cup {Find(s.t, o)} = Moving(s.t, o)
      BY <2>6, MovingIs DEF Good
    <3>3. nodes' = Relabel(s.t, Moving(s.t, o), o, n)
      BY ONLY <3>1, <3>2, Zenon
    <3>4. \A v \in Range(nodes) : ~ Under(n, v.path)
      <4>1. CASE Find(nodes, n) = 0
        <5>1. \A v \in Range(nodes) : v.path # n
          BY <2>3, <4>1, FindIs, RangeIs
        <5>2. QED
          BY <2>1, <2>3, <5>1, NothingBelow
      <4>2. CASE Find(nodes, n) # 0
        <5>1. ~ (nodes[Find(nodes, n)].type = "dir" /\ Children(nodes, n) # {})
          BY <1>3, <4>2 DEF RenameError
        <5>2. QED
          BY <2>3, <4>2, <5>1, LeafIs
      <4>3. QED
        BY <4>1, <4>2
    <3>5. \E v \in Range(nodes) : v.path = o
      BY <2>1, <2>3, FindIs, RangeIs
    <3>6. PICK w : w = nodes'
      OBVIOUS
    <3>7. PICK x : x = Tree!Renamed(FsMap, o, n)
      OBVIOUS
    <3>8. w \in Seq(Node) /\ w = Relabel(s.t, Moving(s.t, o), o, n)
      BY <3>3, <3>6, GoodIs
    <3>9. IsMap(x, Range(w))
      <4>1. PICK t, u : t = s.t /\ u = s.u
        OBVIOUS
      <4>2. /\ Good(t, u) /\ Range(t) = {v \in Range(nodes) : v.path # n}
            /\ w = Relabel(t, Moving(t, o), o, n)
        BY ONLY <2>6, <3>8, <4>1, Zenon
      <4>3. IsMap(Tree!Renamed(FsMap, o, n), Range(w))
        BY <2>1, <3>4, <3>5, <3>8, <4>2, RelabelMaps
      <4>4. QED
        BY ONLY <3>7, <4>3, Zenon
    <3>10. PICK R : R = Range(w)
      OBVIOUS
    <3>11. R = Range(nodes') /\ IsMap(x, R)
      BY ONLY <3>6, <3>9, <3>10, Zenon
    <3>12. FsMap' = x
      BY <3>11, MapAfter
    <3>13. Tree!IsDir(FsMap, Parent(n))
      BY <2>7, <2>8, <2>10
    <3>14. QED
      BY <2>1, <2>2, <3>1, <3>7, <3>12, <3>13 DEF Effect
  <2>11. QED
    BY <2>9, <2>10
<1>4. QED
  BY <1>1, <1>2, <1>3

-----------------------------------------------------------------------------
(* Every step of the array is a step of the tree, or none.                 *)

LEMMA DoesIs ==
    ASSUME NEW k, call' = k, NEW can, NEW x, Effect(can, x)
    PROVE  Tree!Does(k, can, x)
BY DEF Effect, Tree!Does

LEMMA SameCalls ==
    /\ \A c, p, d, b : Tree!WriteCall(c, p, d, b) = WriteCall(c, p, d, b)
    /\ \A c, s, p, b : Tree!CopyCall(c, s, p, b) = CopyCall(c, s, p, b)
    /\ \A c, p, b : Tree!MkdirCall(c, p, b) = MkdirCall(c, p, b)
    /\ \A c, p : Tree!DeleteCall(c, p) = DeleteCall(c, p)
    /\ \A c, p : Tree!RecursiveCall(c, p) = RecursiveCall(c, p)
    /\ \A c, o, n : Tree!RenameCall(c, o, n) = RenameCall(c, o, n)
    /\ \A c, p, m : Tree!ChmodCall(c, p, m) = ChmodCall(c, p, m)
    /\ Tree!NoCall = NoCall
BY Zenon DEF Tree!WriteCall, WriteCall, Tree!CopyCall, CopyCall, Tree!MkdirCall, MkdirCall,
       Tree!DeleteCall, DeleteCall, Tree!RecursiveCall, RecursiveCall,
       Tree!RenameCall, RenameCall, Tree!ChmodCall, ChmodCall, Tree!NoCall, NoCall

LEMMA InitMaps == Init => Tree!Init
<1> SUFFICES ASSUME Init PROVE Tree!Init
  OBVIOUS
<1>1. nodes = <<>> /\ call = NoCall /\ ok = TRUE
  BY DEF Init
<1>2. {nodes[i].path : i \in DOMAIN nodes} = {}
  BY <1>1
<1>3. FsMap = [p \in {} |-> {}]
  BY <1>2 DEF FsMap
<1>4. QED
  BY <1>1, <1>3, SameCalls DEF Tree!Init

LEMMA StepMaps ==
    ASSUME ~ NoMem, VInv, VInv', [Next]_vars
    PROVE  [Tree!Next]_<<FsMap, call, ok>>
<1>1. Good(nodes, usage) /\ Good(nodes', usage')
  BY DEF VInv
<1>2. \A p \in Paths : p \in Seq(Names)
  BY PathsAreSequences
<1>3. ASSUME NEW m, m = FsMap, NEW c \in Creds, NEW p \in Paths,
             \/ \E d \in Data, b \in BOOLEAN : Tree!Write(m, c, p, d, b)
             \/ \E b \in BOOLEAN : Tree!Mkdir(m, c, p, b)
             \/ Tree!Delete(m, c, p) \/ Tree!DeleteRecursive(m, c, p)
             \/ \E q \in Paths : Tree!Rename(m, c, p, q)
             \/ \E q \in Paths, b \in BOOLEAN : Tree!Copy(m, c, p, q, b)
             \/ \E mode \in Modes : Tree!Chmod(m, c, p, mode)
      PROVE  Tree!Next
  <2>1. p \in Tree!Paths /\ Tree!Paths = Paths
    BY SameBase
  <2>2. QED
    BY <1>3, <2>1 DEF Tree!Next
<1>4. ASSUME UNCHANGED <<nodes, call, ok>> PROVE UNCHANGED <<FsMap, call, ok>>
  <2>1. nodes' = nodes
    BY <1>4
  <2>2. FsMap' = FsMap
    BY ONLY <2>1, FsMapIs, Zenon
  <2>3. QED
    BY <1>4, <2>2
<1>5. ASSUME NEW c \in Creds, NEW p \in Paths, NEW d \in Data, NEW b \in BOOLEAN,
             Write(c, p, d, b)
      PROVE  Tree!Next
  <2>1. call' = Tree!WriteCall(c, p, d, b) /\ DoWrite(c, p, d, b)
    BY <1>5, SameCalls DEF Write, Called
  <2>2. Effect(Tree!CanWrite(FsMap, c, p, d, b), Tree!Written(FsMap, c, p, d, b))
    BY <1>1, <1>2, <2>1, WriteMaps
  <2>3. Tree!Write(FsMap, c, p, d, b)
    BY <2>1, <2>2, DoesIs DEF Tree!Write
  <2>4. QED
    BY <1>3, <2>3
<1>6. ASSUME NEW c \in Creds, NEW p \in Paths, NEW b \in BOOLEAN, Mkdir(c, p, b)
      PROVE  Tree!Next
  <2>1. call' = Tree!MkdirCall(c, p, b)
    BY <1>6, SameCalls DEF Mkdir, Called
  <2>2. Effect(Tree!CanMkdir(FsMap, p, b), Tree!Made(FsMap, c, p, b))
    BY <1>1, <1>2, <1>6, MkdirMaps
  <2>3. Tree!Mkdir(FsMap, c, p, b)
    BY <2>1, <2>2, DoesIs DEF Tree!Mkdir
  <2>4. QED
    BY <1>3, <2>3
<1>7. ASSUME NEW c \in Creds, NEW p \in Paths, Delete(c, p)
      PROVE  Tree!Next
  <2>1. call' = Tree!DeleteCall(c, p)
    BY <1>7, SameCalls DEF Delete, Called
  <2>2. Effect(Tree!CanRemove(FsMap, c, p) /\ Tree!Below(FsMap, p) = {},
               Tree!Without(FsMap, {p}))
    BY <1>1, <1>2, <1>7, DeleteMaps
  <2>3. Tree!Delete(FsMap, c, p)
    BY <2>1, <2>2, DoesIs DEF Tree!Delete
  <2>4. QED
    BY <1>3, <2>3
<1>8. ASSUME NEW c \in Creds, NEW p \in Paths, DeleteRecursive(c, p)
      PROVE  Tree!Next
  <2>1. call' = Tree!RecursiveCall(c, p)
    BY <1>8, SameCalls DEF DeleteRecursive, Called
  <2>2. Effect(Tree!CanRemove(FsMap, c, p),
               Tree!Without(FsMap, Tree!Below(FsMap, p) \cup {p}))
    BY <1>1, <1>2, <1>8, DeleteRecursiveMaps
  <2>3. Tree!DeleteRecursive(FsMap, c, p)
    BY <2>1, <2>2, DoesIs DEF Tree!DeleteRecursive
  <2>4. QED
    BY <1>3, <2>3
<1>9. ASSUME NEW c \in Creds, NEW p \in Paths, NEW q \in Paths, Rename(c, p, q)
      PROVE  Tree!Next
  <2>1. call' = Tree!RenameCall(c, p, q)
    BY <1>9, SameCalls DEF Rename, Called
  <2>2. PICK can : can =
          (/\ p # Root /\ q # Root
           /\ p # q => /\ ~ Under(p, q) /\ Tree!CanRemove(FsMap, c, p)
                       /\ ~ (Tree!IsDir(FsMap, q) /\ Tree!Below(FsMap, q) # {})
                       /\ Tree!IsDir(FsMap, Parent(q)))
    OBVIOUS
  <2>3. PICK x : x = (IF p = q THEN FsMap ELSE Tree!Renamed(FsMap, p, q))
    OBVIOUS
  <2>4. Effect(can, x)
    BY <1>1, <1>2, <1>9, <2>2, <2>3, RenameMaps DEF Effect
  <2>5. Tree!Does(Tree!RenameCall(c, p, q), can, x)
    BY <2>1, <2>4, DoesIs
  <2>6. Tree!Rename(FsMap, c, p, q)
    BY <2>2, <2>3, <2>5, SameBase DEF Tree!Rename, Tree!Does
  <2>7. QED
    BY <1>3, <2>6
<1>10. ASSUME NEW c \in Creds, NEW p \in Paths, NEW q \in Paths, NEW b \in BOOLEAN,
              Copy(c, p, q, b)
       PROVE  Tree!Next
  <2>1. call' = Tree!CopyCall(c, p, q, b)
    BY <1>10, SameCalls DEF Copy, Called
  <2>2. Effect(/\ p \in DOMAIN FsMap /\ ~ Tree!IsDir(FsMap, p)
               /\ Tree!CheckPerm(FsMap[p], c, "R")
               /\ Tree!CanWrite(FsMap, c, q, FsMap[p].data, b),
               Tree!Written(FsMap, c, q, FsMap[p].data, b))
    BY <1>1, <1>2, <1>10, CopyMaps
  <2>3. Tree!Copy(FsMap, c, p, q, b)
    BY <2>1, <2>2, DoesIs DEF Tree!Copy
  <2>4. QED
    BY <1>3, <2>3
<1>11. ASSUME NEW c \in Creds, NEW p \in Paths, NEW m \in Modes, Chmod(c, p, m)
       PROVE  Tree!Next
  <2>1. call' = Tree!ChmodCall(c, p, m)
    BY <1>11, SameCalls DEF Chmod, Called
  <2>2. Effect(c.admin /\ p \in DOMAIN FsMap, [FsMap EXCEPT ![p].mode = m])
    BY <1>1, <1>11, ChmodMaps
  <2>3. Tree!Chmod(FsMap, c, p, m)
    BY <2>1, <2>2, DoesIs DEF Tree!Chmod
  <2>4. QED
    BY <1>3, <2>3
<1>12. ASSUME \/ \E c \in Listers, p \in Paths : ListBegin(c, p)
              \/ ListVisit \/ ListStop \/ ListDone
       PROVE  UNCHANGED <<FsMap, call, ok>>
  <2>1. UNCHANGED <<nodes, call, ok>>
    BY <1>12 DEF ListBegin, ListVisit, ListStop, ListDone
  <2>2. QED
    BY <1>4, <2>1
<1>13. CASE UNCHANGED vars
  <2>1. UNCHANGED <<nodes, call, ok>>
    BY <1>13 DEF vars
  <2>2. UNCHANGED <<FsMap, call, ok>>
    BY <1>4, <2>1
  <2>3. QED
    BY <2>2
<1>14. CASE Next
  BY <1>5, <1>6, <1>7, <1>8, <1>9, <1>10, <1>11, <1>12, <1>14 DEF Next
<1>15. QED
  BY <1>13, <1>14

\* The array, searched from the front, emptied by moving its last node into
\* the hole and renamed by rewriting paths, does what the tree of module
\* VfsMap promises: every call of vfs.c has the effect and the outcome the
\* tree has, whole or not at all.
THEOREM ArrayImplementsTree ==
    ASSUME ~ NoMem
    PROVE  Spec => ImplementsTree
<1>1. Init => VInv /\ Tree!Init
  BY InitVInv, InitMaps
<1>2. VInv /\ [Next]_vars => VInv'
  BY StepVInv
<1>3. VInv /\ VInv' /\ [Next]_vars => [Tree!Next]_<<FsMap, call, ok>>
  BY StepMaps
<1>4. QED
  BY <1>1, <1>2, <1>3, PTL DEF Spec, ImplementsTree, Tree!Spec

=============================================================================
