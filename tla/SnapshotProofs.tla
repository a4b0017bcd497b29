--------------------------- MODULE SnapshotProofs ---------------------------
(***************************************************************************)
(* Proofs about Snapshot, for any names, depth, contents and callers: what *)
(* the objects made of a filesystem are, what a commit publishes, what a   *)
(* checkout leaves behind however it ends, and what the checks find.       *)
(***************************************************************************)
EXTENDS Snapshot, FiniteInduction, SequenceTheorems, TLAPS

-----------------------------------------------------------------------------
(* Paths.                                                                  *)

LEMMA PathIs ==
    \A p : p \in Paths <=> p \in Seq(Names) /\ Len(p) <= PathMax
<1> SUFFICES ASSUME NEW p PROVE p \in Paths <=> p \in Seq(Names) /\ Len(p) <= PathMax
  OBVIOUS
<1>1. PathMax \in Nat \ {0}
  BY DataAssumption
<1>2. ASSUME p \in Paths PROVE p \in Seq(Names) /\ Len(p) <= PathMax
  <2>1. PICK n \in 0..PathMax : p \in [1..n -> Names]
    BY <1>2 DEF Paths
  <2>2. p \in Seq(Names) /\ Len(p) = n
    BY <2>1, <1>1
  <2>3. QED
    BY <2>1, <2>2, <1>1
<1>3. ASSUME p \in Seq(Names), Len(p) <= PathMax PROVE p \in Paths
  <2>1. Len(p) \in 0..PathMax /\ p \in [1..Len(p) -> Names]
    BY <1>1, <1>3
  <2>2. QED
    BY <2>1 DEF Paths
<1>4. QED
  BY <1>2, <1>3

\* One component more.
LEMMA AppendIs ==
    ASSUME NEW p \in Seq(Names), NEW n \in Names
    PROVE  /\ Append(p, n) \in Seq(Names) /\ Len(Append(p, n)) = Len(p) + 1
           /\ Append(p, n) # Root /\ Under(p, Append(p, n))
           /\ Base(Append(p, n)) = n /\ Parent(Append(p, n)) = p
<1>1. /\ Append(p, n) \in Seq(Names) /\ Len(Append(p, n)) = Len(p) + 1
      /\ Append(p, n)[Len(p) + 1] = n /\ Len(p) \in Nat
      /\ \A k \in 1..Len(p) : Append(p, n)[k] = p[k]
  OBVIOUS
<1>2. PICK q : q = Append(p, n)
  OBVIOUS
<1>3. SubSeq(q, 1, Len(p)) = p
  <2> DEFINE s == SubSeq(q, 1, Len(p))
  <2>1. s \in Seq(Names) /\ Len(s) = Len(p) /\ \A k \in 1..Len(p) : s[k] = q[k]
    BY <1>1, <1>2
  <2> HIDE DEF s
  <2>2. s = p
    BY <1>1, <1>2, <2>1, SeqEqual
  <2>3. QED
    BY <2>2 DEF s
<1>4. Len(q) - 1 = Len(p)
  BY <1>1, <1>2
<1>5. Parent(q) = p
  BY <1>3, <1>4 DEF Parent
<1>6. Under(p, q) /\ q # Root
  BY <1>1, <1>2, <1>3 DEF Under, Root
<1>7. QED
  BY <1>1, <1>2, <1>5, <1>6 DEF Base

\* A path but the root is its parent and a component.
LEMMA SplitIs ==
    ASSUME NEW q \in Seq(Names), q # Root
    PROVE  /\ Parent(q) \in Seq(Names) /\ Base(q) \in Names /\ q = Append(Parent(q), Base(q))
           /\ Len(q) \in Nat \ {0} /\ Len(Parent(q)) = Len(q) - 1
<1>1. Len(q) \in Nat \ {0}
  BY DEF Root
<1>2. PICK k \in Nat : Len(q) = k + 1
  <2>1. Len(q) - 1 \in Nat /\ Len(q) = (Len(q) - 1) + 1
    BY <1>1
  <2>2. QED
    BY <2>1
<1>3. PICK r : r = SubSeq(q, 1, k)
  OBVIOUS
<1>4. r \in Seq(Names) /\ Len(r) = k /\ \A i \in 1..k : r[i] = q[i]
  BY <1>2, <1>3
<1>5. Parent(q) = r
  <2>1. Len(q) - 1 = k
    BY <1>2
  <2>2. QED
    BY <1>3, <2>1 DEF Parent
<1>6. Base(q) \in Names /\ Base(q) = q[k + 1]
  BY <1>1, <1>2 DEF Base
<1>7. q = Append(r, Base(q))
  <2> DEFINE s == Append(r, Base(q))
  <2>1. s \in Seq(Names) /\ Len(s) = k + 1 /\ s[k + 1] = Base(q) /\ \A i \in 1..k : s[i] = r[i]
    BY <1>4, <1>6
  <2> HIDE DEF s
  <2>2. \A i \in 1..Len(s) : s[i] = q[i]
    BY <1>4, <1>6, <2>1
  <2>3. s = q
    BY <1>2, <2>1, <2>2, SeqEqual
  <2>4. QED
    BY <2>3 DEF s
<1>8. QED
  BY <1>1, <1>2, <1>4, <1>5, <1>6, <1>7

\* The children of p in m are the nodes that are p and one component.
LEMMA ChildrenIs ==
    ASSUME NEW m, DOMAIN m \subseteq Paths, NEW p \in Paths
    PROVE  /\ \A q \in Children(m, p) :
                 /\ q \in DOMAIN m /\ q \in Paths /\ q # Root /\ Base(q) \in Names
                 /\ q = Append(p, Base(q)) /\ Len(q) = Len(p) + 1 /\ Parent(q) = p
           /\ \A n \in Names : Append(p, n) \in DOMAIN m => Append(p, n) \in Children(m, p)
<1>1. p \in Seq(Names) /\ Len(p) \in Nat
  BY PathIs
<1>2. ASSUME NEW q \in Children(m, p)
      PROVE  /\ q \in DOMAIN m /\ q \in Paths /\ q # Root /\ Base(q) \in Names
             /\ q = Append(p, Base(q)) /\ Len(q) = Len(p) + 1 /\ Parent(q) = p
  <2>1. q \in DOMAIN m /\ q \in Paths /\ Len(q) = Len(p) + 1 /\ Under(p, q)
    BY DEF Children
  <2>2. q \in Seq(Names) /\ q # Root
    BY <1>1, <2>1, PathIs DEF Root
  <2>3. Parent(q) = p
    <3>1. Len(q) - 1 = Len(p)
      BY <1>1, <2>1
    <3>2. QED
      BY <2>1, <3>1 DEF Under, Parent
  <2>4. QED
    BY <2>1, <2>2, <2>3, SplitIs
<1>3. ASSUME NEW n \in Names, Append(p, n) \in DOMAIN m
      PROVE  Append(p, n) \in Children(m, p)
  BY <1>1, <1>3, AppendIs DEF Children
<1>4. QED
  BY <1>2, <1>3


-----------------------------------------------------------------------------
(* Filesystems, and the objects made of them.                              *)

Node == [type : {"file", "dir"}, mode : SUBSET Perms, owner : Nat, data : Data]

IsMap(m) == m = [p \in DOMAIN m |-> m[p]]

\* A filesystem: every node lies in a directory, and directories are empty
\* files.
GoodTree(m) ==
    /\ DOMAIN m \subseteq Paths \ {Root}
    /\ IsMap(m)
    /\ \A p \in DOMAIN m : m[p] \in Node /\ (m[p].type = "dir" => m[p].data = Empty)
    /\ \A p \in DOMAIN m : M!IsDir(m, Parent(p))

\* What snap_dir makes of p when f are the objects of its children.
MakeObject(m, f, p) ==
    IF p \in DOMAIN m /\ m[p].type = "file" THEN Blob(m[p].data)
    ELSE Tree([n \in {Base(q) : q \in Children(m, p)} |->
                  LET q == Append(p, n) IN
                  [type |-> m[q].type, mode |-> m[q].mode,
                   uid |-> m[q].owner, hash |-> f[q]]])

IsObjects(f, m) == f = [p \in Paths |-> MakeObject(m, f, p)]
Objects(m) == CHOOSE f : IsObjects(f, m)

\* The entry of the node at q.
EntryAt(m, q) ==
    [type |-> m[q].type, mode |-> m[q].mode, uid |-> m[q].owner, hash |-> Objects(m)[q]]

LEMMA SnapDirIs == \A m : SnapDir(m) = Objects(m)[Root]
BY DEF SnapDir, Objects, IsObjects, MakeObject

\* Only the children's objects matter.
LEMMA MakeObjectSame ==
    ASSUME NEW m, DOMAIN m \subseteq Paths, NEW f, NEW g, NEW p \in Paths,
           \A q \in Children(m, p) : f[q] = g[q]
    PROVE  MakeObject(m, f, p) = MakeObject(m, g, p)
<1> DEFINE N == {Base(q) : q \in Children(m, p)}
           E(h) == [n \in N |-> LET q == Append(p, n) IN
                      [type |-> m[q].type, mode |-> m[q].mode,
                       uid |-> m[q].owner, hash |-> h[q]]]
<1>1. ASSUME NEW n \in N PROVE f[Append(p, n)] = g[Append(p, n)]
  <2>1. PICK q \in Children(m, p) : n = Base(q)
    OBVIOUS
  <2>2. q = Append(p, n)
    BY <2>1, ChildrenIs
  <2>3. QED
    BY <2>2
<1>2. E(f) = E(g)
  BY <1>1
<1>3. \A h : MakeObject(m, h, p) = IF p \in DOMAIN m /\ m[p].type = "file"
                                   THEN Blob(m[p].data) ELSE Tree(E(h))
  BY DEF MakeObject
<1> HIDE DEF E
<1>4. QED
  BY ONLY <1>2, <1>3, Zenon

LEMMA ObjectsExist ==
    ASSUME NEW m, DOMAIN m \subseteq Paths
    PROVE  IsObjects(Objects(m), m)
<1> DEFINE Deep(f, k) == \A p \in Paths : Len(p) + k > PathMax => f[p] = MakeObject(m, f, p)
           G == {k \in Nat : \E f : Deep(f, k)}
<1>1. PathMax \in Nat /\ \A p \in Paths : Len(p) \in 0..PathMax
  BY DataAssumption, PathIs
<1>2. 0 \in G
  BY <1>1
<1>3. ASSUME NEW k \in Nat, k \in G PROVE k + 1 \in G
  <2>1. PICK f : Deep(f, k)
    BY <1>3
  <2> DEFINE g == [p \in Paths |-> IF Len(p) + (k + 1) > PathMax THEN MakeObject(m, f, p) ELSE f[p]]
  <2>2. ASSUME NEW p \in Paths, Len(p) + (k + 1) > PathMax
        PROVE  g[p] = MakeObject(m, g, p)
    <3>1. ASSUME NEW q \in Children(m, p) PROVE f[q] = g[q]
      <4>1. q \in Paths /\ Len(q) = Len(p) + 1
        BY ChildrenIs
      <4>2. Len(q) + k > PathMax /\ Len(q) + (k + 1) > PathMax
        BY <1>1, <2>2, <4>1
      <4>3. f[q] = MakeObject(m, f, q)
        BY <2>1, <4>1, <4>2
      <4>4. QED
        BY <4>1, <4>2, <4>3
    <3>2. g[p] = MakeObject(m, f, p)
      BY <2>2
    <3> HIDE DEF g
    <3>3. MakeObject(m, f, p) = MakeObject(m, g, p)
      BY <3>1, MakeObjectSame
    <3>4. QED
      BY <3>2, <3>3
  <2> HIDE DEF g
  <2>3. Deep(g, k + 1)
    BY <2>2
  <2>4. QED
    BY <2>3
<1> HIDE DEF G
<1>4. PathMax + 1 \in G
  BY <1>1, <1>2, <1>3, NatSetInduction
<1>5. PICK f : Deep(f, PathMax + 1)
  BY <1>4 DEF G
<1> DEFINE g == [p \in Paths |-> f[p]]
<1>6. ASSUME NEW p \in Paths PROVE g[p] = MakeObject(m, g, p)
  <2>1. f[p] = MakeObject(m, f, p)
    BY <1>1, <1>5
  <2>2. \A q \in Children(m, p) : f[q] = g[q]
    BY ChildrenIs
  <2>3. g[p] = f[p]
    OBVIOUS
  <2> HIDE DEF g
  <2>4. QED
    BY <2>1, <2>2, <2>3, MakeObjectSame
<1>7. g = [p \in Paths |-> g[p]]
  OBVIOUS
<1> HIDE DEF g
<1>8. IsObjects(g, m)
  BY <1>6, <1>7 DEF IsObjects
<1>9. QED
  BY <1>8, Zenon DEF Objects


LEMMA ObjectIs ==
    ASSUME NEW m, DOMAIN m \subseteq Paths, NEW p \in Paths
    PROVE  Objects(m)[p] = MakeObject(m, Objects(m), p)
BY ObjectsExist, Zenon DEF IsObjects

\* The object of a file.
LEMMA FileObject ==
    ASSUME NEW m, DOMAIN m \subseteq Paths, NEW p \in DOMAIN m, m[p].type = "file"
    PROVE  /\ Objects(m)[p] = Blob(m[p].data) /\ Objects(m)[p][2] = m[p].data
           /\ ~ IsTree(Objects(m)[p]) /\ Objects(m)[p] # None
           /\ DOMAIN Entries(Objects(m)[p]) = {} /\ Kids(Objects(m)[p]) = {}
<1>1. Objects(m)[p] = Blob(m[p].data)
  BY ObjectIs DEF MakeObject
<1> DEFINE o == Objects(m)[p]
<1> HIDE DEF o
<1>2. o = <<"blob", m[p].data>>
  BY <1>1 DEF Blob, o
<1>3. o[1] = "blob" /\ o[2] = m[p].data /\ o # None
  BY <1>2 DEF None
<1>4. ~ IsTree(o)
  BY <1>3 DEF IsTree
<1>5. DOMAIN Entries(o) = {}
  BY <1>4 DEF Entries
<1>6. Kids(o) = {}
  BY <1>5 DEF Kids
<1>7. QED
  BY <1>1, <1>3, <1>4, <1>5, <1>6 DEF o

\* The object of a directory.
LEMMA DirObject ==
    ASSUME NEW m, DOMAIN m \subseteq Paths, NEW p \in Paths,
           ~ (p \in DOMAIN m /\ m[p].type = "file")
    PROVE  /\ IsTree(Objects(m)[p]) /\ Objects(m)[p] # None
           /\ \A n : n \in DOMAIN Entries(Objects(m)[p])
                        <=> n \in Names /\ Append(p, n) \in DOMAIN m
           /\ \A n \in DOMAIN Entries(Objects(m)[p]) :
                 Entries(Objects(m)[p])[n] = EntryAt(m, Append(p, n))
           /\ Kids(Objects(m)[p]) = {Objects(m)[q] : q \in Children(m, p)}
<1> DEFINE o == Objects(m)[p]
           N == {Base(q) : q \in Children(m, p)}
           E == [n \in N |-> EntryAt(m, Append(p, n))]
<1>1. o = Tree(E)
  <2>1. o = MakeObject(m, Objects(m), p)
    BY ObjectIs
  <2>2. MakeObject(m, Objects(m), p)
          = Tree([n \in N |-> LET q == Append(p, n) IN
                     [type |-> m[q].type, mode |-> m[q].mode,
                      uid |-> m[q].owner, hash |-> Objects(m)[q]]])
    BY DEF MakeObject
  <2>3. E = [n \in N |-> LET q == Append(p, n) IN
                [type |-> m[q].type, mode |-> m[q].mode,
                 uid |-> m[q].owner, hash |-> Objects(m)[q]]]
    BY DEF EntryAt
  <2> HIDE DEF o, E, N
  <2>4. QED
    BY ONLY <2>1, <2>2, <2>3, Zenon
<1> HIDE DEF o, E
<1>2. o = <<"tree", E>>
  BY <1>1 DEF Tree
<1>3. o[1] = "tree" /\ o[2] = E
  BY <1>2
<1>4. IsTree(o) /\ o # None
  BY <1>2, <1>3 DEF IsTree, None
<1>5. Entries(o) = E
  BY <1>3, <1>4 DEF Entries
<1>6. ASSUME NEW n PROVE n \in N <=> n \in Names /\ Append(p, n) \in DOMAIN m
  <2>1. ASSUME n \in N PROVE n \in Names /\ Append(p, n) \in DOMAIN m
    <3>1. PICK q \in Children(m, p) : n = Base(q)
      BY <2>1
    <3>2. q \in DOMAIN m /\ Base(q) \in Names /\ q = Append(p, Base(q))
      BY ChildrenIs
    <3>3. QED
      BY <3>1, <3>2
  <2>2. ASSUME n \in Names, Append(p, n) \in DOMAIN m PROVE n \in N
    <3>1. Append(p, n) \in Children(m, p)
      BY <2>2, ChildrenIs
    <3>2. Base(Append(p, n)) = n
      BY <2>2, AppendIs, PathIs
    <3>3. QED
      BY <3>1, <3>2
  <2>3. QED
    BY <2>1, <2>2
<1>7. DOMAIN E = N /\ \A n \in N : E[n] = EntryAt(m, Append(p, n))
  BY DEF E
<1>8. ASSUME NEW n \in N PROVE E[n].hash = Objects(m)[Append(p, n)]
  <2>1. \A q : EntryAt(m, q).hash = Objects(m)[q]
    BY DEF EntryAt
  <2>2. QED
    BY <1>7, <2>1
<1>9. Kids(o) = {E[n].hash : n \in N}
  BY <1>5, <1>7 DEF Kids
<1>10. Kids(o) = {Objects(m)[q] : q \in Children(m, p)}
  <2>1. ASSUME NEW x \in Kids(o) PROVE x \in {Objects(m)[q] : q \in Children(m, p)}
    <3>1. PICK n \in N : x = E[n].hash
      BY <1>9
    <3>2. Append(p, n) \in Children(m, p)
      BY <1>6, ChildrenIs
    <3>3. QED
      BY <1>8, <3>1, <3>2
  <2>2. ASSUME NEW q \in Children(m, p) PROVE Objects(m)[q] \in Kids(o)
    <3>1. Base(q) \in N /\ q = Append(p, Base(q))
      BY ChildrenIs
    <3>2. QED
      BY <1>8, <1>9, <3>1
  <2>3. QED
    BY <2>1, <2>2
<1>11. QED
  BY <1>4, <1>5, <1>6, <1>7, <1>10 DEF o

\* In a filesystem a node's children are there when it is a directory.
LEMMA TreeIs ==
    ASSUME NEW m, GoodTree(m)
    PROVE  /\ DOMAIN m \subseteq Paths /\ Root \notin DOMAIN m /\ Root \in Paths
           /\ \A p \in DOMAIN m : /\ m[p] \in Node /\ p \in Seq(Names) /\ Len(p) \in 1..PathMax
                                  /\ Parent(p) \in DOMAIN m \cup {Root}
                                  /\ Len(Parent(p)) = Len(p) - 1
                                  /\ p = Append(Parent(p), Base(p)) /\ Base(p) \in Names
                                  /\ p \in Children(m, Parent(p))
           /\ \A p \in DOMAIN m : Parent(p) = Root \/ m[Parent(p)].type = "dir"
<1>1. DOMAIN m \subseteq Paths /\ Root \notin DOMAIN m /\ \A p \in DOMAIN m : m[p] \in Node
  BY DEF GoodTree
<1>2. Root \in Paths
  <2>1. Root \in Seq(Names) /\ Len(Root) <= PathMax
    BY DataAssumption DEF Root
  <2>2. QED
    BY <2>1, PathIs
<1>3. \A p \in DOMAIN m : Parent(p) = Root \/ (Parent(p) \in DOMAIN m /\ m[Parent(p)].type = "dir")
  BY DEF GoodTree, M!IsDir, M!Root, Root
<1>4. ASSUME NEW p \in DOMAIN m
      PROVE  /\ p \in Seq(Names) /\ Len(p) \in 1..PathMax /\ Len(Parent(p)) = Len(p) - 1
             /\ p = Append(Parent(p), Base(p)) /\ Base(p) \in Names
             /\ p \in Children(m, Parent(p))
  <2>1. p \in Seq(Names) /\ Len(p) <= PathMax /\ p # Root
    BY <1>1, PathIs
  <2>2. /\ Parent(p) \in Seq(Names) /\ Base(p) \in Names /\ p = Append(Parent(p), Base(p))
        /\ Len(p) \in Nat \ {0} /\ Len(Parent(p)) = Len(p) - 1
    BY <2>1, SplitIs
  <2>3. Parent(p) \in Paths
    BY <1>1, <1>2, <1>3
  <2>4. p \in Children(m, Parent(p))
    <3>1. Append(Parent(p), Base(p)) \in Children(m, Parent(p))
      <4>1. Append(Parent(p), Base(p)) \in DOMAIN m
        BY <2>2
      <4>2. QED
        BY <1>1, <2>2, <2>3, <4>1, ChildrenIs
    <3>2. QED
      BY <2>2, <3>1
  <2>5. PathMax \in Nat
    BY DataAssumption
  <2>6. QED
    BY <2>1, <2>2, <2>4, <2>5
<1>5. QED
  BY <1>1, <1>2, <1>3, <1>4


LEMMA EntryAtIs ==
    \A m, q : /\ EntryAt(m, q).type = m[q].type /\ EntryAt(m, q).hash = Objects(m)[q]
              /\ EntryAt(m, q).mode = m[q].mode /\ EntryAt(m, q).uid = m[q].owner
BY DEF EntryAt

\* Being a directory, for the one map or the other.
LEMMA IsDirIs ==
    \A m, p : M!IsDir(m, p) <=> p = Root \/ (p \in DOMAIN m /\ m[p].type = "dir")
BY DEF M!IsDir, M!Root, Root

-----------------------------------------------------------------------------
(* The objects below an object.                                            *)

\* The nodes of m, and its root, down to level k.
Upto(m, k) == {p \in DOMAIN m \cup {Root} : Len(p) <= k}
Nodes(m) == DOMAIN m \cup {Root}

IsWithin(f, o) ==
    f = [k \in 0..PathMax |->
            IF k = 0 THEN {o} ELSE f[k - 1] \cup UNION {Kids(x) : x \in f[k - 1]}]

LEMMA UptoIs ==
    ASSUME NEW m, GoodTree(m)
    PROVE  /\ Upto(m, 0) = {Root} /\ Upto(m, PathMax) = Nodes(m)
           /\ \A k \in 1..PathMax :
                 /\ Upto(m, k - 1) \subseteq Upto(m, k)
                 /\ \A p \in Upto(m, k) : p = Root \/ (p \in DOMAIN m /\ Parent(p) \in Upto(m, k - 1))
                 /\ \A p \in Upto(m, k - 1) : \A q \in Children(m, p) : q \in Upto(m, k) /\ q \in DOMAIN m
<1>1. /\ PathMax \in Nat \ {0} /\ Len(Root) = 0
      /\ \A p \in DOMAIN m : Len(p) \in 1..PathMax /\ Len(Parent(p)) = Len(p) - 1
                             /\ Parent(p) \in DOMAIN m \cup {Root}
  BY TreeIs, DataAssumption DEF Root
<1>2. Upto(m, 0) = {Root} /\ Upto(m, PathMax) = Nodes(m)
  BY <1>1 DEF Upto, Nodes
<1>3. ASSUME NEW k \in 1..PathMax
      PROVE  /\ Upto(m, k - 1) \subseteq Upto(m, k)
             /\ \A p \in Upto(m, k) : p = Root \/ (p \in DOMAIN m /\ Parent(p) \in Upto(m, k - 1))
  <2>1. \A p \in DOMAIN m \cup {Root} : Len(p) \in Nat
    BY <1>1
  <2>2. ASSUME NEW p \in Upto(m, k), p # Root
        PROVE  p \in DOMAIN m /\ Parent(p) \in Upto(m, k - 1)
    <3>1. p \in DOMAIN m /\ Len(p) <= k
      BY <2>2 DEF Upto
    <3>2. Parent(p) \in DOMAIN m \cup {Root} /\ Len(Parent(p)) <= k - 1
      BY <1>1, <3>1
    <3>3. QED
      BY <3>1, <3>2 DEF Upto
  <2>3. QED
    BY <2>1, <2>2 DEF Upto
<1>4. ASSUME NEW k \in 1..PathMax, NEW p \in Upto(m, k - 1), NEW q \in Children(m, p)
      PROVE  q \in Upto(m, k) /\ q \in DOMAIN m
  <2>1. Len(p) <= k - 1 /\ Len(p) \in Nat /\ q \in DOMAIN m /\ Len(q) = Len(p) + 1
    BY <1>1 DEF Upto, Children
  <2>2. QED
    BY <2>1 DEF Upto
<1>5. QED
  BY <1>2, <1>3, <1>4

LEMMA RootObject ==
    ASSUME NEW m, GoodTree(m)
    PROVE  IsTree(SnapDir(m)) /\ SnapDir(m) # None
<1>1. DOMAIN m \subseteq Paths /\ Root \in Paths /\ Root \notin DOMAIN m
  BY TreeIs
<1>2. QED
  BY <1>1, DirObject, SnapDirIs

\* The children's objects are what is directly below.
LEMMA KidsIs ==
    ASSUME NEW m, GoodTree(m), NEW p \in Nodes(m)
    PROVE  Kids(Objects(m)[p]) = {Objects(m)[q] : q \in Children(m, p)}
<1>1. DOMAIN m \subseteq Paths /\ Root \in Paths /\ Root \notin DOMAIN m
  BY TreeIs
<1>2. CASE p \in DOMAIN m /\ m[p].type = "file"
  <2>1. Kids(Objects(m)[p]) = {}
    BY <1>1, <1>2, FileObject
  <2>2. ASSUME NEW q \in Children(m, p) PROVE FALSE
    <3>1. q \in DOMAIN m /\ Parent(q) = p
      BY <1>1, <1>2, ChildrenIs
    <3>2. p = Root \/ m[p].type = "dir"
      BY <3>1, TreeIs
    <3>3. QED
      BY <1>1, <1>2, <3>2
  <2>3. QED
    BY <2>1, <2>2
<1>3. CASE ~ (p \in DOMAIN m /\ m[p].type = "file")
  <2>1. p \in Paths
    BY <1>1 DEF Nodes
  <2>2. QED
    BY <1>1, <1>3, <2>1, DirObject
<1>4. QED
  BY <1>2, <1>3

LEMMA WithinIs ==
    ASSUME NEW m, GoodTree(m)
    PROVE  \E f : IsWithin(f, SnapDir(m)) /\ f[PathMax] = {Objects(m)[p] : p \in Nodes(m)}
<1> DEFINE Of(k) == {Objects(m)[p] : p \in Upto(m, k)}
           f == [k \in 0..PathMax |-> Of(k)]
           o == SnapDir(m)
<1>1. PathMax \in Nat
  BY DataAssumption
<1>2. Of(0) = {o}
  BY UptoIs, SnapDirIs
<1>3. ASSUME NEW k \in 1..PathMax
      PROVE  Of(k) = Of(k - 1) \cup UNION {Kids(x) : x \in Of(k - 1)}
  <2>1. ASSUME NEW x \in Of(k)
        PROVE  x \in Of(k - 1) \/ \E y \in Of(k - 1) : x \in Kids(y)
    <3>1. PICK p \in Upto(m, k) : x = Objects(m)[p]
      OBVIOUS
    <3>2. CASE p = Root
      <4>1. p \in Upto(m, 0) /\ x \in Of(0)
        BY <3>1, <3>2, UptoIs
      <4>2. p \in Upto(m, k - 1)
        BY <1>1, <3>2 DEF Upto, Root
      <4>3. QED
        BY <3>1, <4>2
    <3>3. CASE p # Root
      <4>1. p \in DOMAIN m /\ Parent(p) \in Upto(m, k - 1)
        BY <3>3, UptoIs
      <4>2. p \in Children(m, Parent(p)) /\ Parent(p) \in Nodes(m)
        BY <4>1, TreeIs DEF Nodes
      <4>3. x \in Kids(Objects(m)[Parent(p)])
        <5>1. PICK r : r = Parent(p)
          OBVIOUS
        <5>2. Kids(Objects(m)[r]) = {Objects(m)[q] : q \in Children(m, r)}
          BY <4>2, <5>1, KidsIs
        <5>3. p \in Children(m, r)
          BY <4>2, <5>1
        <5>4. x \in Kids(Objects(m)[r])
          BY <3>1, <5>2, <5>3
        <5>5. QED
          BY <5>1, <5>4
      <4>4. QED
        BY <4>1, <4>3
    <3>4. QED
      BY <3>2, <3>3
  <2>2. Of(k - 1) \subseteq Of(k)
    BY UptoIs
  <2>3. ASSUME NEW y \in Of(k - 1), NEW x \in Kids(y) PROVE x \in Of(k)
    <3>1. PICK p \in Upto(m, k - 1) : y = Objects(m)[p]
      OBVIOUS
    <3>2. p \in Nodes(m)
      BY DEF Upto, Nodes
    <3>3. PICK q \in Children(m, p) : x = Objects(m)[q]
      BY <3>1, <3>2, KidsIs
    <3>4. q \in Upto(m, k)
      BY UptoIs
    <3>5. QED
      BY <3>3, <3>4
  <2> HIDE DEF Of
  <2>4. QED
    BY <2>1, <2>2, <2>3
<1>4. f[PathMax] = {Objects(m)[p] : p \in Nodes(m)}
  BY <1>1, UptoIs
<1> HIDE DEF Of, o
<1>5. \A k \in 0..PathMax : f[k] = IF k = 0 THEN {o} ELSE f[k - 1] \cup UNION {Kids(x) : x \in f[k - 1]}
  <2>1. ASSUME NEW k \in 1..PathMax
        PROVE  f[k] = f[k - 1] \cup UNION {Kids(x) : x \in f[k - 1]}
    <3>1. f[k] = Of(k) /\ f[k - 1] = Of(k - 1)
      BY <1>1
    <3> HIDE DEF f
    <3>2. QED
      BY ONLY <1>3, <3>1, <2>1, Zenon
  <2>2. f[0] = {o}
    BY <1>1, <1>2
  <2>3. 0 \in 0..PathMax /\ \A k \in 0..PathMax : k = 0 \/ k \in 1..PathMax
    BY <1>1
  <2> HIDE DEF f
  <2>4. SUFFICES ASSUME NEW k \in 0..PathMax
                 PROVE  f[k] = IF k = 0 THEN {o} ELSE f[k - 1] \cup UNION {Kids(x) : x \in f[k - 1]}
    OBVIOUS
  <2>5. CASE k = 0
    BY ONLY <2>2, <2>5, Zenon
  <2>6. CASE k # 0
    <3>1. k \in 1..PathMax
      BY <2>3, <2>6
    <3>2. QED
      BY ONLY <2>1, <2>6, <3>1, Zenon
  <2>7. QED
    BY <2>5, <2>6
<1>6. f = [k \in 0..PathMax |-> f[k]]
  OBVIOUS
<1> HIDE DEF f
<1>7. IsWithin(f, o)
  BY ONLY <1>5, <1>6, Zenon DEF IsWithin
<1>8. QED
  BY <1>4, <1>7 DEF o


\* Everything below the object of a filesystem is the object of one of its
\* nodes.
LEMMA ClosureIs ==
    ASSUME NEW m, GoodTree(m)
    PROVE  Closure(SnapDir(m)) = {Objects(m)[p] : p \in Nodes(m)}
<1> DEFINE o == SnapDir(m)
           g == CHOOSE f : IsWithin(f, o)
<1>1. PICK f : IsWithin(f, o) /\ f[PathMax] = {Objects(m)[p] : p \in Nodes(m)}
  BY WithinIs
<1>2. IsWithin(g, o)
  BY <1>1, Zenon
<1>3. Closure(o) = g[PathMax]
  <2>1. Closure(o) = IF o = None THEN {} ELSE g[PathMax]
    BY DEF Closure, IsWithin
  <2>2. o # None
    BY RootObject
  <2> HIDE DEF g, o
  <2>3. QED
    BY <2>1, <2>2
<1> HIDE DEF g, o
<1>4. PathMax \in Nat
  BY DataAssumption
<1>5. \A k \in 0..PathMax : f[k] = g[k]
  <2>1. f[0] = g[0]
    BY <1>1, <1>2, <1>4 DEF IsWithin
  <2>2. ASSUME NEW k \in 1..PathMax, f[k - 1] = g[k - 1] PROVE f[k] = g[k]
    <3>1. k \in 0..PathMax /\ k # 0
      BY <1>4
    <3>2. f[k] = f[k - 1] \cup UNION {Kids(x) : x \in f[k - 1]}
      BY ONLY <1>1, <3>1, Zenon DEF IsWithin
    <3>3. g[k] = g[k - 1] \cup UNION {Kids(x) : x \in g[k - 1]}
      BY ONLY <1>2, <3>1, Zenon DEF IsWithin
    <3>4. QED
      BY ONLY <2>2, <3>2, <3>3, Zenon
  <2>3. QED
    BY <1>4, <2>1, <2>2, SameByLevels
<1>6. f[PathMax] = g[PathMax]
  BY <1>4, <1>5
<1>7. Closure(o) = {Objects(m)[p] : p \in Nodes(m)}
  BY ONLY <1>1, <1>3, <1>6, Zenon
<1>8. QED
  BY <1>7 DEF o

LEMMA ClosureNone == Closure(None) = {}
BY DEF Closure

\* What is below one of them is one of them.
LEMMA ClosureClosed ==
    ASSUME NEW m, GoodTree(m), NEW p \in Nodes(m)
    PROVE  /\ Objects(m)[p] \in Closure(SnapDir(m))
           /\ Kids(Objects(m)[p]) \subseteq Closure(SnapDir(m))
<1>1. Closure(SnapDir(m)) = {Objects(m)[q] : q \in Nodes(m)}
  BY ClosureIs
<1>2. Children(m, p) \subseteq Nodes(m)
  BY DEF Children, Nodes
<1>3. Kids(Objects(m)[p]) = {Objects(m)[q] : q \in Children(m, p)}
  BY KidsIs
<1>4. QED
  BY <1>1, <1>2, <1>3

-----------------------------------------------------------------------------
(* The tree object lists the filesystem it was made of.                    *)

PairsNext(S) ==
    S \cup UNION {{<<Append(x[1], n), [type |-> Entries(x[2].hash)[n].type,
                                       hash |-> Entries(x[2].hash)[n].hash]>> :
                      n \in DOMAIN Entries(x[2].hash)} : x \in S}

IsPairs(f, root) ==
    f = [k \in 0..PathMax |->
            IF k = 0 THEN {<<Root, [type |-> "dir", hash |-> root]>>} ELSE PairsNext(f[k - 1])]

\* The pair of a node.
PairAt(m, p) ==
    <<p, [type |-> IF p = Root THEN "dir" ELSE m[p].type, hash |-> Objects(m)[p]]>>

LEMMA PairAtIs ==
    ASSUME NEW m, NEW p
    PROVE  /\ PairAt(m, p)[1] = p /\ PairAt(m, p)[2].hash = Objects(m)[p]
           /\ PairAt(m, p)[2].type = IF p = Root THEN "dir" ELSE m[p].type
BY DEF PairAt

\* The entries of a directory lead to the pairs of its children.
LEMMA PairsBelow ==
    ASSUME NEW m, GoodTree(m), NEW p \in Nodes(m)
    PROVE  {<<Append(p, n), [type |-> Entries(Objects(m)[p])[n].type,
                             hash |-> Entries(Objects(m)[p])[n].hash]>> :
                n \in DOMAIN Entries(Objects(m)[p])}
             = {PairAt(m, q) : q \in Children(m, p)}
<1> DEFINE o == Objects(m)[p]
           pair(n) == <<Append(p, n), [type |-> Entries(o)[n].type, hash |-> Entries(o)[n].hash]>>
<1>1. DOMAIN m \subseteq Paths /\ Root \in Paths /\ Root \notin DOMAIN m /\ p \in Paths
  BY TreeIs DEF Nodes
<1>2. CASE p \in DOMAIN m /\ m[p].type = "file"
  <2>1. DOMAIN Entries(o) = {}
    BY <1>1, <1>2, FileObject
  <2>2. ASSUME NEW q \in Children(m, p) PROVE FALSE
    <3>1. q \in DOMAIN m /\ Parent(q) = p
      BY <1>1, ChildrenIs
    <3>2. p = Root \/ m[p].type = "dir"
      BY <3>1, TreeIs
    <3>3. QED
      BY <1>1, <1>2, <3>2
  <2>3. QED
    BY <2>1, <2>2
<1>3. CASE ~ (p \in DOMAIN m /\ m[p].type = "file")
  <2>1. /\ \A n : n \in DOMAIN Entries(o) <=> n \in Names /\ Append(p, n) \in DOMAIN m
        /\ \A n \in DOMAIN Entries(o) : Entries(o)[n] = EntryAt(m, Append(p, n))
    BY <1>1, <1>3, DirObject
  <2>2. ASSUME NEW n \in DOMAIN Entries(o)
        PROVE  pair(n) = PairAt(m, Append(p, n)) /\ Append(p, n) \in Children(m, p)
    <3>1. PICK q : q = Append(p, n)
      OBVIOUS
    <3>2. n \in Names /\ q \in DOMAIN m /\ q \in Children(m, p) /\ q # Root
      BY <1>1, <2>1, <3>1, ChildrenIs
    <3>3. Entries(o)[n] = EntryAt(m, q)
      BY <2>1, <3>1
    <3>4. Entries(o)[n].type = m[q].type /\ Entries(o)[n].hash = Objects(m)[q]
      BY <3>3, EntryAtIs
    <3>5. pair(n) = <<q, [type |-> m[q].type, hash |-> Objects(m)[q]]>>
      BY <3>1, <3>4
    <3>6. QED
      BY <3>1, <3>2, <3>5 DEF PairAt
  <2>3. ASSUME NEW q \in Children(m, p)
        PROVE  \E n \in DOMAIN Entries(o) : Append(p, n) = q
    <3>1. q \in DOMAIN m /\ Base(q) \in Names /\ q = Append(p, Base(q))
      BY <1>1, ChildrenIs
    <3>2. Base(q) \in DOMAIN Entries(o)
      BY <2>1, <3>1
    <3>3. QED
      BY <3>1, <3>2
  <2>4. ASSUME NEW q \in Children(m, p)
        PROVE  \E n \in DOMAIN Entries(o) : pair(n) = PairAt(m, q)
    BY <2>2, <2>3
  <2> HIDE DEF pair, o
  <2>5. {pair(n) : n \in DOMAIN Entries(o)} = {PairAt(m, q) : q \in Children(m, p)}
    BY <2>2, <2>4
  <2>6. QED
    BY <2>5 DEF pair, o
<1>4. QED
  BY <1>2, <1>3


LEMMA PairsIs ==
    ASSUME NEW m, GoodTree(m)
    PROVE  \E f : IsPairs(f, SnapDir(m)) /\ f[PathMax] = {PairAt(m, p) : p \in Nodes(m)}
<1> DEFINE Of(k) == {PairAt(m, p) : p \in Upto(m, k)}
           f == [k \in 0..PathMax |-> Of(k)]
           start == {<<Root, [type |-> "dir", hash |-> SnapDir(m)]>>}
<1>1. PathMax \in Nat
  BY DataAssumption
<1>2. Of(0) = start
  <2>1. Of(0) = {PairAt(m, Root)}
    BY UptoIs
  <2>2. PairAt(m, Root) = <<Root, [type |-> "dir", hash |-> SnapDir(m)]>>
    BY SnapDirIs DEF PairAt
  <2> HIDE DEF Of
  <2>3. QED
    BY ONLY <2>1, <2>2, Zenon DEF start
<1>3. ASSUME NEW k \in 1..PathMax
      PROVE  Of(k) = PairsNext(Of(k - 1))
  <2> DEFINE Next2(x) == {<<Append(x[1], n), [type |-> Entries(x[2].hash)[n].type,
                                              hash |-> Entries(x[2].hash)[n].hash]>> :
                             n \in DOMAIN Entries(x[2].hash)}
  <2>1. ASSUME NEW p \in Nodes(m)
        PROVE  Next2(PairAt(m, p)) = {PairAt(m, q) : q \in Children(m, p)}
    <3>1. PairAt(m, p)[1] = p /\ PairAt(m, p)[2].hash = Objects(m)[p]
      BY PairAtIs
    <3>2. {<<Append(p, n), [type |-> Entries(Objects(m)[p])[n].type,
                            hash |-> Entries(Objects(m)[p])[n].hash]>> :
                n \in DOMAIN Entries(Objects(m)[p])}
             = {PairAt(m, q) : q \in Children(m, p)}
      BY PairsBelow
    <3>3. QED
      BY ONLY <3>1, <3>2, Zenon
  <2>2. \A p \in Upto(m, k - 1) : p \in Nodes(m)
    BY DEF Upto, Nodes
  <2>3. PairsNext(Of(k - 1)) = Of(k - 1) \cup UNION {Next2(x) : x \in Of(k - 1)}
    BY DEF PairsNext
  <2> HIDE DEF Next2
  <2>4. Of(k - 1) \subseteq Of(k)
    BY UptoIs
  <2>5. ASSUME NEW y \in Of(k - 1), NEW x \in Next2(y) PROVE x \in Of(k)
    <3>1. PICK p \in Upto(m, k - 1) : y = PairAt(m, p)
      OBVIOUS
    <3>2. x \in {PairAt(m, q) : q \in Children(m, p)}
      BY <2>1, <2>2, <3>1
    <3>3. PICK q \in Children(m, p) : x = PairAt(m, q)
      BY <3>2
    <3>4. q \in Upto(m, k)
      BY UptoIs
    <3>5. QED
      BY <3>3, <3>4
  <2>6. ASSUME NEW x \in Of(k)
        PROVE  x \in Of(k - 1) \/ \E y \in Of(k - 1) : x \in Next2(y)
    <3>1. PICK p \in Upto(m, k) : x = PairAt(m, p)
      OBVIOUS
    <3>2. CASE p = Root
      <4>1. p \in Upto(m, k - 1)
        BY <1>1, <3>2 DEF Upto, Root
      <4>2. QED
        BY <3>1, <4>1
    <3>3. CASE p # Root
      <4>1. p \in DOMAIN m /\ Parent(p) \in Upto(m, k - 1)
        BY <3>3, UptoIs
      <4>2. PICK r : r = Parent(p)
        OBVIOUS
      <4>3. p \in Children(m, r) /\ r \in Nodes(m) /\ r \in Upto(m, k - 1)
        BY <2>2, <4>1, <4>2, TreeIs
      <4>4. x \in {PairAt(m, q) : q \in Children(m, r)}
        BY <3>1, <4>3
      <4>5. x \in Next2(PairAt(m, r))
        BY <2>1, <4>3, <4>4
      <4>6. QED
        BY <4>3, <4>5
    <3>4. QED
      BY <3>2, <3>3
  <2> HIDE DEF Of
  <2>7. Of(k) = Of(k - 1) \cup UNION {Next2(x) : x \in Of(k - 1)}
    BY <2>4, <2>5, <2>6
  <2>8. QED
    BY ONLY <2>3, <2>7, Zenon
<1>4. f[PathMax] = {PairAt(m, p) : p \in Nodes(m)}
  BY <1>1, UptoIs
<1> HIDE DEF Of, start
<1>5. ASSUME NEW k \in 0..PathMax
      PROVE  f[k] = IF k = 0 THEN start ELSE PairsNext(f[k - 1])
  <2>1. CASE k = 0
    <3>1. f[k] = Of(0)
      BY <2>1
    <3> HIDE DEF f
    <3>2. QED
      BY ONLY <1>2, <2>1, <3>1, Zenon
  <2>2. CASE k # 0
    <3>1. k \in 1..PathMax /\ f[k] = Of(k) /\ f[k - 1] = Of(k - 1)
      BY <1>1, <2>2
    <3> HIDE DEF f
    <3>2. QED
      BY ONLY <1>3, <2>2, <3>1, Zenon
  <2>3. QED
    BY <2>1, <2>2
<1>6. f = [k \in 0..PathMax |-> f[k]]
  OBVIOUS
<1> HIDE DEF f
<1>7. f = [k \in 0..PathMax |-> IF k = 0 THEN start ELSE PairsNext(f[k - 1])]
  BY ONLY <1>5, <1>6, Zenon
<1>8. IsPairs(f, SnapDir(m))
  BY ONLY <1>7, Zenon DEF IsPairs, start
<1>9. QED
  BY <1>4, <1>8

\* What a stored filesystem's root object says is the filesystem.
LEMMA FlatIs ==
    ASSUME NEW m, GoodTree(m)
    PROVE  Flat(SnapDir(m)) = Contents(m)
<1> DEFINE o == SnapDir(m)
           g == CHOOSE f : IsPairs(f, o)
           S == {PairAt(m, p) : p \in Nodes(m)}
           Map(T) == [p \in {x[1] : x \in T} \ {Root} |->
                        LET e == (CHOOSE x \in T : x[1] = p)[2] IN
                        [type |-> e.type, data |-> IF e.type = "file" THEN e.hash[2] ELSE Empty]]
<1>1. PICK f : IsPairs(f, o) /\ f[PathMax] = S
  BY PairsIs
<1>2. IsPairs(g, o)
  BY <1>1, Zenon
<1>3. Flat(o) = Map(g[PathMax])
  BY DEF Flat, IsPairs, PairsNext
<1> HIDE DEF g, o, S, Map
<1>4. PathMax \in Nat
  BY DataAssumption
<1>5. \A k \in 0..PathMax : f[k] = g[k]
  <2>1. f[0] = g[0]
    <3>1. 0 \in 0..PathMax
      BY <1>4
    <3>2. QED
      BY ONLY <1>1, <1>2, <3>1, Zenon DEF IsPairs
  <2>2. ASSUME NEW k \in 1..PathMax, f[k - 1] = g[k - 1] PROVE f[k] = g[k]
    <3>1. k \in 0..PathMax /\ k # 0
      BY <1>4
    <3>2. f[k] = PairsNext(f[k - 1])
      BY ONLY <1>1, <3>1, Zenon DEF IsPairs
    <3>3. g[k] = PairsNext(g[k - 1])
      BY ONLY <1>2, <3>1, Zenon DEF IsPairs
    <3>4. QED
      BY ONLY <2>2, <3>2, <3>3, Zenon
  <2>3. QED
    BY <1>4, <2>1, <2>2, SameByLevels
<1>6. g[PathMax] = S
  BY <1>1, <1>4, <1>5
<1> DEFINE V(p) == LET e == (CHOOSE x \in S : x[1] = p)[2] IN
                   [type |-> e.type, data |-> IF e.type = "file" THEN e.hash[2] ELSE Empty]
<1>7. Flat(o) = [p \in {x[1] : x \in S} \ {Root} |-> V(p)]
  <2>1. Flat(o) = Map(S)
    BY ONLY <1>3, <1>6, Zenon
  <2>2. Map(S) = [p \in {x[1] : x \in S} \ {Root} |-> V(p)]
    BY DEF Map
  <2>3. QED
    BY ONLY <2>1, <2>2, Zenon
<1>8. {x[1] : x \in S} \ {Root} = DOMAIN m
  <2>1. {x[1] : x \in S} = Nodes(m)
    <3>1. \A p \in Nodes(m) : PairAt(m, p)[1] = p
      BY PairAtIs
    <3>2. QED
      BY <3>1 DEF S
  <2>2. QED
    BY <2>1, TreeIs DEF Nodes
<1>9. ASSUME NEW p \in DOMAIN m
      PROVE  V(p) = [type |-> m[p].type, data |-> m[p].data]
  <2>1. p \in Nodes(m) /\ p # Root /\ DOMAIN m \subseteq Paths
    BY TreeIs DEF Nodes
  <2>2. PairAt(m, p) \in S /\ PairAt(m, p)[1] = p
    BY <2>1, PairAtIs DEF S
  <2>3. PICK x \in S : x = (CHOOSE y \in S : y[1] = p) /\ x[1] = p
    BY <2>2
  <2>4. x = PairAt(m, p)
    <3>1. PICK q \in Nodes(m) : x = PairAt(m, q)
      BY <2>3 DEF S
    <3>2. q = p
      BY <2>3, <3>1, PairAtIs
    <3>3. QED
      BY <3>1, <3>2
  <2>5. x[2].type = m[p].type /\ x[2].hash = Objects(m)[p]
    BY <2>1, <2>4, PairAtIs
  <2>6. (IF x[2].type = "file" THEN x[2].hash[2] ELSE Empty) = m[p].data
    <3>1. CASE m[p].type = "file"
      BY <2>1, <2>5, <3>1, FileObject
    <3>2. CASE m[p].type # "file"
      <4>1. m[p].type = "dir" /\ m[p].data = Empty
        BY <3>2 DEF GoodTree, Node
      <4>2. QED
        BY <2>5, <4>1
    <3>3. QED
      BY <3>1, <3>2
  <2>7. V(p) = [type |-> x[2].type, data |-> IF x[2].type = "file" THEN x[2].hash[2] ELSE Empty]
    BY ONLY <2>3, Zenon
  <2>8. QED
    BY ONLY <2>5, <2>6, <2>7, Zenon
<1> HIDE DEF V
<1>10. [p \in DOMAIN m |-> V(p)] = Contents(m)
  <2>1. [p \in DOMAIN m |-> V(p)] = [p \in DOMAIN m |-> [type |-> m[p].type, data |-> m[p].data]]
    BY <1>9
  <2>2. QED
    BY <2>1 DEF Contents
<1>11. QED
  BY ONLY <1>7, <1>8, <1>10, Zenon DEF o


-----------------------------------------------------------------------------
(* The filesystem's calls keep it a filesystem.                            *)

\* The directories above a path.
LEMMA AncestorsIs ==
    ASSUME NEW p \in Paths, p # Root
    PROVE  /\ \A q \in M!Ancestors(p) :
                 /\ q \in Paths /\ q # Root /\ q # p /\ Under(q, p) /\ Len(q) < Len(p)
                 /\ Parent(q) \in M!Ancestors(p) \cup {Root}
           /\ Parent(p) \in M!Ancestors(p) \cup {Root}
           /\ Parent(p) \in Paths
<1>1. p \in Seq(Names) /\ Len(p) <= PathMax /\ Len(p) \in Nat \ {0} /\ PathMax \in Nat
  <2>1. p \in Seq(Names) /\ Len(p) <= PathMax /\ PathMax \in Nat
    BY PathIs, DataAssumption
  <2>2. QED
    BY <2>1 DEF Root
<1>2. ASSUME NEW k \in 1..(Len(p) - 1), NEW q, q = SubSeq(p, 1, k)
      PROVE  /\ q \in Paths /\ q # Root /\ q # p /\ Under(q, p) /\ Len(q) < Len(p)
             /\ Parent(q) \in M!Ancestors(p) \cup {Root}
  <2>1. q \in Seq(Names) /\ Len(q) = k /\ (\A j \in 1..k : q[j] = p[j]) /\ k \in Nat /\ k >= 1
    BY <1>1, <1>2
  <2>2. q \in Paths /\ Len(q) < Len(p) /\ Len(q) # 0
    <3>1. Len(q) <= PathMax
      BY <1>1, <2>1
    <3>2. QED
      BY <1>1, <2>1, <3>1, PathIs
  <2>3. q # Root /\ q # p
    BY <1>1, <2>2 DEF Root
  <2>4. Under(q, p)
    BY <1>1, <1>2, <2>1 DEF Under
  <2>5. Parent(q) \in M!Ancestors(p) \cup {Root}
    <3>1. PICK j \in 0..(Len(p) - 2) : k = j + 1
      <4>1. k - 1 \in 0..(Len(p) - 2) /\ k = (k - 1) + 1
        BY <1>1
      <4>2. QED
        BY <4>1
    <3>2. PICK r : r = SubSeq(p, 1, j)
      OBVIOUS
    <3>3. r \in Seq(Names) /\ Len(r) = j /\ \A i \in 1..j : r[i] = p[i]
      BY <1>1, <3>1, <3>2
    <3>4. Parent(q) \in Seq(Names) /\ Len(Parent(q)) = j /\ \A i \in 1..j : Parent(q)[i] = q[i]
      <4>1. Parent(q) = SubSeq(q, 1, j)
        <5>1. Len(q) - 1 = j
          BY <2>1, <3>1
        <5>2. QED
          BY <5>1 DEF Parent
      <4>2. QED
        BY <2>1, <3>1, <4>1
    <3>5. Parent(q) = r
      <4>1. \A i \in 1..j : Parent(q)[i] = r[i]
        BY <2>1, <3>1, <3>3, <3>4
      <4>2. QED
        BY <3>3, <3>4, <4>1, SeqEqual
    <3>6. CASE j = 0
      BY <3>3, <3>5, <3>6, EmptySeq DEF Root
    <3>7. CASE j # 0
      <4>1. j \in 1..(Len(p) - 1)
        BY <1>1, <3>1, <3>7
      <4>2. QED
        BY <3>2, <3>5, <4>1 DEF M!Ancestors
    <3>8. QED
      BY <3>6, <3>7
  <2>6. QED
    BY <2>2, <2>3, <2>4, <2>5
<1>3. ASSUME NEW q \in M!Ancestors(p)
      PROVE  /\ q \in Paths /\ q # Root /\ q # p /\ Under(q, p) /\ Len(q) < Len(p)
             /\ Parent(q) \in M!Ancestors(p) \cup {Root}
  <2>1. PICK k \in 1..(Len(p) - 1) : q = SubSeq(p, 1, k)
    BY DEF M!Ancestors
  <2>2. QED
    BY <1>2, <2>1
<1>4. Parent(p) \in M!Ancestors(p) \cup {Root}
  <2>1. Parent(p) \in Seq(Names) /\ Len(Parent(p)) = Len(p) - 1
    BY <1>1, SplitIs
  <2>2. CASE Len(p) = 1
    BY <2>1, <2>2, EmptySeq DEF Root
  <2>3. CASE Len(p) # 1
    <3>1. PICK k : k = Len(p) - 1
      OBVIOUS
    <3>2. k \in 1..(Len(p) - 1) /\ Parent(p) = SubSeq(p, 1, k)
      BY <1>1, <2>3, <3>1 DEF Parent
    <3>3. QED
      BY <3>2 DEF M!Ancestors
  <2>4. QED
    BY <2>2, <2>3
<1>5. Parent(p) \in Paths
  <2>1. Parent(p) \in Seq(Names) /\ Len(Parent(p)) = Len(p) - 1
    BY <1>1, SplitIs
  <2>2. QED
    BY <1>1, <2>1, PathIs
<1>6. QED
  BY <1>3, <1>4, <1>5


\* m with v at p and with directories made above it.
Grown(m, c, p, v) == M!With(M!MadeDirs(m, c, p, TRUE), {p}, v)

IsGrown(g, m, c, p, v) ==
    /\ DOMAIN g = DOMAIN m \cup M!Missing(m, p) \cup {p}
    /\ \A q \in DOMAIN g : g[q] = IF q = p THEN v
                                  ELSE IF q \in DOMAIN m THEN m[q] ELSE M!NewDir(c)
    /\ IsMap(g)
    /\ M!Missing(m, p) \subseteq M!Ancestors(p)
    /\ \A q \in M!Missing(m, p) : q \notin DOMAIN m

LEMMA GrownIs == \A m, c, p, v : IsGrown(Grown(m, c, p, v), m, c, p, v)
<1> SUFFICES ASSUME NEW m, NEW c, NEW p, NEW v PROVE IsGrown(Grown(m, c, p, v), m, c, p, v)
  OBVIOUS
<1>1. M!Missing(m, p) = M!Ancestors(p) \ DOMAIN m
  BY DEF M!Missing
<1> DEFINE A == M!Missing(m, p)
           d == M!MadeDirs(m, c, p, TRUE)
           g == Grown(m, c, p, v)
<1>2. d = [q \in DOMAIN m \cup A |-> IF q \in A THEN M!NewDir(c) ELSE m[q]]
  BY DEF M!MadeDirs, M!With
<1>3. g = [q \in DOMAIN d \cup {p} |-> IF q \in {p} THEN v ELSE d[q]]
  BY DEF Grown, M!With
<1> HIDE DEF A, d, g
<1>4. DOMAIN g = DOMAIN m \cup A \cup {p}
  BY <1>2, <1>3
<1>5. ASSUME NEW q \in DOMAIN g
      PROVE  g[q] = IF q = p THEN v ELSE IF q \in DOMAIN m THEN m[q] ELSE M!NewDir(c)
  <2>1. \A r \in A : r \notin DOMAIN m
    BY <1>1 DEF A
  <2>2. QED
    BY <1>2, <1>3, <1>4, <2>1
<1>6. IsMap(g)
  BY <1>3 DEF IsMap
<1>7. QED
  BY <1>1, <1>4, <1>5, <1>6 DEF A, g, IsGrown

LEMMA NewNodes ==
    ASSUME NEW c \in Creds, NEW d \in Data
    PROVE  /\ M!NewDir(c) \in Node /\ M!NewDir(c).type = "dir" /\ M!NewDir(c).data = Empty
           /\ M!NewFile(c, d) \in Node /\ M!NewFile(c, d).type = "file"
           /\ M!NewFile(c, d).data = d
<1>1. c.uid \in Nat /\ DirMode \in SUBSET Perms /\ FileMode \in SUBSET Perms /\ Empty \in Data
  <2>1. DirMode \in SUBSET Perms /\ FileMode \in SUBSET Perms
    BY ModeAssumption
  <2>2. QED
    BY <2>1, CredAssumption, DataAssumption
<1>2. QED
  BY <1>1 DEF M!NewDir, M!NewFile, Node

\* Room above p: nothing there is a file.
LEMMA GrownTree ==
    ASSUME NEW m, GoodTree(m), NEW c \in Creds, NEW p \in Paths, p # Root,
           M!Room(m, p, TRUE),
           NEW v \in Node, v.type = "dir" => v.data = Empty,
           p \in DOMAIN m => v.type = m[p].type
    PROVE  GoodTree(Grown(m, c, p, v))
<1> DEFINE g == Grown(m, c, p, v)
<1>1. /\ DOMAIN m \subseteq Paths \ {Root}
      /\ \A q \in DOMAIN m : m[q] \in Node /\ (m[q].type = "dir" => m[q].data = Empty)
      /\ \A q \in DOMAIN m : Parent(q) = Root \/ (Parent(q) \in DOMAIN m /\ m[Parent(q)].type = "dir")
  BY IsDirIs DEF GoodTree
<1>2. /\ \A q \in M!Ancestors(p) :
            /\ q \in Paths /\ q # Root /\ q # p
            /\ Parent(q) \in M!Ancestors(p) \cup {Root}
      /\ Parent(p) \in M!Ancestors(p) \cup {Root}
  BY AncestorsIs
<1>3. \A q \in M!Ancestors(p) : q \in DOMAIN m => m[q].type = "dir"
  BY <1>1, IsDirIs DEF M!Room
<1>4. /\ DOMAIN g = DOMAIN m \cup M!Missing(m, p) \cup {p}
      /\ \A q \in DOMAIN g : g[q] = IF q = p THEN v
                                    ELSE IF q \in DOMAIN m THEN m[q] ELSE M!NewDir(c)
      /\ IsMap(g)
      /\ M!Missing(m, p) \subseteq M!Ancestors(p)
  <2>1. IsGrown(g, m, c, p, v)
    BY ONLY GrownIs, Zenon
  <2> HIDE DEF g
  <2>2. QED
    BY <2>1 DEF IsGrown
<1>5. M!Ancestors(p) \subseteq DOMAIN g
  BY <1>4 DEF M!Missing
<1>6. M!NewDir(c) \in Node /\ M!NewDir(c).type = "dir" /\ M!NewDir(c).data = Empty
  BY NewNodes, DataAssumption
<1> HIDE DEF g
<1>7. \A q \in M!Ancestors(p) : g[q].type = "dir"
  BY <1>2, <1>3, <1>4, <1>5, <1>6
<1>8. DOMAIN g \subseteq Paths \ {Root}
  BY <1>1, <1>2, <1>4
<1>9. \A q \in DOMAIN g : g[q] \in Node /\ (g[q].type = "dir" => g[q].data = Empty)
  BY <1>1, <1>4, <1>6
<1>10. ASSUME NEW q \in DOMAIN g
       PROVE  Parent(q) = Root \/ (Parent(q) \in DOMAIN g /\ g[Parent(q)].type = "dir")
  <2>1. CASE q = p \/ q \in M!Missing(m, p)
    <3>1. Parent(q) \in M!Ancestors(p) \cup {Root}
      BY <1>2, <1>4, <2>1
    <3>2. QED
      BY <1>5, <1>7, <3>1
  <2>2. CASE q # p /\ q \in DOMAIN m
    <3>1. CASE Parent(q) # Root
      <4>1. Parent(q) \in DOMAIN m /\ m[Parent(q)].type = "dir" /\ Parent(q) \in DOMAIN g
        BY <1>1, <1>4, <2>2, <3>1
      <4>2. CASE Parent(q) = p
        BY <1>4, <4>1, <4>2
      <4>3. CASE Parent(q) # p
        BY <1>4, <4>1, <4>3
      <4>4. QED
        BY <4>1, <4>2, <4>3
    <3>2. QED
      BY <3>1
  <2>3. QED
    BY <1>4, <2>1, <2>2
<1>11. GoodTree(g)
  <2>1. \A q \in DOMAIN g : M!IsDir(g, Parent(q))
    BY <1>10, IsDirIs
  <2>2. QED
    BY <1>4, <1>8, <1>9, <2>1 DEF GoodTree
<1>12. QED
  BY <1>11 DEF g

\* vfs_write.
LEMMA WrittenIs ==
    ASSUME NEW m, GoodTree(m), NEW c \in Creds, NEW p \in Paths, NEW d \in Data,
           M!CanWrite(m, c, p, d, TRUE)
    PROVE  /\ p # Root /\ GoodTree(M!Written(m, c, p, d, TRUE))
           /\ p \in DOMAIN m => m[p].type = "file"
           /\ M!Written(m, c, p, d, TRUE)
                = Grown(m, c, p, IF p \in DOMAIN m THEN [m[p] EXCEPT !.data = d]
                                 ELSE M!NewFile(c, d))
<1> DEFINE v == IF p \in DOMAIN m THEN [m[p] EXCEPT !.data = d] ELSE M!NewFile(c, d)
<1>1. ~ M!IsDir(m, p) /\ M!Room(m, p, TRUE)
  BY DEF M!CanWrite
<1>2. p # Root /\ (p \in DOMAIN m => m[p] \in Node /\ m[p].type = "file")
  <2>1. p # Root /\ (p \in DOMAIN m => m[p].type # "dir")
    BY <1>1, IsDirIs
  <2>2. \A n \in Node : n.type = "file" \/ n.type = "dir"
    BY DEF Node
  <2>3. p \in DOMAIN m => m[p] \in Node
    BY TreeIs
  <2>4. QED
    BY <2>1, <2>2, <2>3
<1>3. v \in Node /\ v.type = "file"
  <2>1. CASE p \in DOMAIN m
    <3>1. \A n \in Node : [n EXCEPT !.data = d] \in Node /\ [n EXCEPT !.data = d].type = n.type
      BY DEF Node
    <3>2. QED
      BY <1>2, <2>1, <3>1
  <2>2. CASE p \notin DOMAIN m
    BY <2>2, NewNodes
  <2>3. QED
    BY <2>1, <2>2
<1>4. M!Written(m, c, p, d, TRUE) = Grown(m, c, p, v)
  BY DEF M!Written, Grown
<1> HIDE DEF v
<1>5. GoodTree(Grown(m, c, p, v))
  BY <1>1, <1>2, <1>3, GrownTree
<1>6. GoodTree(M!Written(m, c, p, d, TRUE))
  BY ONLY <1>4, <1>5, Zenon
<1>7. QED
  BY <1>2, <1>4, <1>6 DEF v

\* vfs_mkdir, which finds a directory or makes one.
LEMMA MadeIs ==
    ASSUME NEW m, GoodTree(m), NEW c \in Creds, NEW p \in Paths, M!CanMkdir(m, p, TRUE)
    PROVE  /\ GoodTree(M!Made(m, c, p, TRUE))
           /\ M!IsDir(m, p) => M!Made(m, c, p, TRUE) = m
           /\ ~ M!IsDir(m, p) =>
                 p \notin DOMAIN m /\ p # Root /\ M!Made(m, c, p, TRUE) = Grown(m, c, p, M!NewDir(c))
<1>1. CASE M!IsDir(m, p)
  BY <1>1 DEF M!Made, M!There
<1>2. CASE ~ M!IsDir(m, p)
  <2>1. p \notin DOMAIN m /\ p # Root /\ M!Room(m, p, TRUE)
    BY <1>2 DEF M!CanMkdir, M!There, M!Root, Root
  <2>2. M!Made(m, c, p, TRUE) = Grown(m, c, p, M!NewDir(c))
    BY <1>2 DEF M!Made, M!There, Grown
  <2>3. M!NewDir(c) \in Node /\ M!NewDir(c).type = "dir" /\ M!NewDir(c).data = Empty
    BY NewNodes, DataAssumption
  <2>4. GoodTree(Grown(m, c, p, M!NewDir(c)))
    BY <2>1, <2>3, GrownTree
  <2>5. QED
    BY <1>2, <2>1, <2>2, <2>4
<1>3. QED
  BY <1>1, <1>2

\* vfs_delete_recursive, and vfs_chmod.
LEMMA WithoutTree ==
    ASSUME NEW m, GoodTree(m), NEW p \in DOMAIN m
    PROVE  GoodTree(M!Without(m, M!Below(m, p) \cup {p}))
<1> DEFINE S == M!Below(m, p) \cup {p}
           g == M!Without(m, S)
<1>1. /\ DOMAIN m \subseteq Paths \ {Root}
      /\ \A q \in DOMAIN m : m[q] \in Node /\ (m[q].type = "dir" => m[q].data = Empty)
      /\ \A q \in DOMAIN m : Parent(q) = Root \/ (Parent(q) \in DOMAIN m /\ m[Parent(q)].type = "dir")
  BY IsDirIs DEF GoodTree
<1>2. g = [q \in DOMAIN m \ S |-> m[q]]
  BY DEF M!Without
<1>3. ASSUME NEW q \in DOMAIN m, Parent(q) \in S PROVE q \in S
  <2>1. Parent(q) = p \/ Under(p, Parent(q))
    BY <1>3 DEF M!Below, M!Under, Under
  <2>2. Under(p, q)
    <3>1. PICK r : r = Parent(q)
      OBVIOUS
    <3>2. PICK b \in Names : q = Append(r, b)
      BY <3>1, TreeIs
    <3>3. /\ q \in Seq(Names) /\ r \in Seq(Names) /\ p \in Seq(Names)
          /\ Len(p) \in Nat /\ Len(q) \in Nat /\ Len(r) \in Nat
          /\ Len(r) = Len(q) - 1 /\ \A i \in 1..Len(r) : r[i] = q[i]
      <4>1. q \in Seq(Names) /\ p \in Seq(Names) /\ q # Root
        BY <1>1, TreeIs
      <4>2. r \in Seq(Names)
        BY <3>1, <4>1, SplitIs
      <4>3. QED
        BY <3>2, <4>1, <4>2
    <3>4. Len(p) <= Len(r) /\ SubSeq(r, 1, Len(p)) = p
      <4>1. CASE r = p
        <5>1. SubSeq(p, 1, Len(p)) = p
          BY <3>3
        <5>2. QED
          BY <3>3, <4>1, <5>1
      <4>2. CASE Under(p, r)
        BY <3>3, <4>2 DEF Under
      <4>3. QED
        BY <2>1, <3>1, <4>1, <4>2
    <3>5. Len(q) > Len(p)
      BY <3>3, <3>4
    <3>6. SubSeq(q, 1, Len(p)) = SubSeq(r, 1, Len(p))
      <4>1. PICK k \in Nat : k = Len(p) /\ k <= Len(r) /\ k < Len(q)
        BY <3>3, <3>4, <3>5
      <4>2. /\ SubSeq(q, 1, k) \in Seq(Names) /\ Len(SubSeq(q, 1, k)) = k
            /\ \A i \in 1..k : SubSeq(q, 1, k)[i] = q[i]
        BY <3>3, <4>1
      <4>3. /\ SubSeq(r, 1, k) \in Seq(Names) /\ Len(SubSeq(r, 1, k)) = k
            /\ \A i \in 1..k : SubSeq(r, 1, k)[i] = r[i]
        BY <3>3, <4>1
      <4>4. \A i \in 1..k : SubSeq(q, 1, k)[i] = SubSeq(r, 1, k)[i]
        BY <3>3, <4>1, <4>2, <4>3
      <4>5. SubSeq(q, 1, k) = SubSeq(r, 1, k)
        BY <4>2, <4>3, <4>4, SeqEqual
      <4>6. QED
        BY <4>1, <4>5
    <3>7. QED
      BY <3>4, <3>5, <3>6 DEF Under
  <2>3. QED
    BY <2>2 DEF M!Below, M!Under, Under
<1> HIDE DEF S
<1>4. DOMAIN g = DOMAIN m \ S /\ (\A q \in DOMAIN g : g[q] = m[q]) /\ IsMap(g)
  BY <1>2 DEF IsMap
<1> HIDE DEF g
<1>5. \A q \in DOMAIN g : M!IsDir(g, Parent(q))
  BY <1>1, <1>3, <1>4, IsDirIs
<1>6. GoodTree(g)
  BY <1>1, <1>4, <1>5 DEF GoodTree
<1>7. QED
  BY <1>6 DEF g, S

LEMMA ChmodTree ==
    ASSUME NEW m, GoodTree(m), NEW p \in DOMAIN m, NEW mode \in Modes
    PROVE  GoodTree([m EXCEPT ![p].mode = mode])
<1> DEFINE g == [m EXCEPT ![p].mode = mode]
           v == [m[p] EXCEPT !.mode = mode]
<1>1. /\ DOMAIN m \subseteq Paths \ {Root} /\ m = [q \in DOMAIN m |-> m[q]]
      /\ \A q \in DOMAIN m : m[q] \in Node /\ (m[q].type = "dir" => m[q].data = Empty)
      /\ \A q \in DOMAIN m : Parent(q) = Root \/ (Parent(q) \in DOMAIN m /\ m[Parent(q)].type = "dir")
  BY IsDirIs DEF GoodTree, IsMap
<1>2. \A n \in Node : LET w == [n EXCEPT !.mode = mode] IN
                      w \in Node /\ w.type = n.type /\ w.data = n.data
  <2>1. mode \in SUBSET Perms
    BY ModeAssumption
  <2>2. QED
    BY <2>1 DEF Node
<1>3. v \in Node /\ v.type = m[p].type /\ v.data = m[p].data
  BY <1>1, <1>2
<1>4. /\ DOMAIN g = DOMAIN m /\ IsMap(g)
      /\ \A q \in DOMAIN g : g[q] = IF q = p THEN v ELSE m[q]
  BY <1>1 DEF IsMap
<1> HIDE DEF g, v
<1>5. \A q \in DOMAIN g : g[q] \in Node /\ g[q].type = m[q].type /\ g[q].data = m[q].data
  BY <1>1, <1>3, <1>4
<1>6. \A q \in DOMAIN g : M!IsDir(g, Parent(q))
  BY <1>1, <1>4, <1>5, IsDirIs
<1>7. GoodTree(g)
  BY <1>1, <1>4, <1>5, <1>6 DEF GoodTree
<1>8. QED
  BY <1>7 DEF g


-----------------------------------------------------------------------------
(* The entries of a tree object, as a checkout visits them.                *)

VisitOf(p, o, n) == <<Append(p, n), Entries(o)[n]>>
VisitNext(p, o, s, n) == IF n \notin DOMAIN Entries(o) THEN s ELSE Append(s, VisitOf(p, o, n))

IsVisits(f, p, o, N) ==
    f = [i \in 0..N |-> IF i = 0 THEN <<>> ELSE VisitNext(p, o, f[i - 1], NameOrder[i])]

LEMMA VisitsExist == \A p, o : \A N \in Nat : \E f : IsVisits(f, p, o, N)
<1> SUFFICES ASSUME NEW p, NEW o PROVE \A N \in Nat : \E f : IsVisits(f, p, o, N)
  OBVIOUS
<1> DEFINE G == {N \in Nat : \E f : IsVisits(f, p, o, N)}
           At(f, i) == IF i = 0 THEN <<>> ELSE VisitNext(p, o, f[i - 1], NameOrder[i])
<1>1. 0 \in G
  <2> DEFINE f == [i \in 0..0 |-> <<>>]
  <2>1. \A i \in 0..0 : f[i] = At(f, i)
    OBVIOUS
  <2>2. f = [i \in 0..0 |-> f[i]]
    OBVIOUS
  <2> HIDE DEF f
  <2>3. IsVisits(f, p, o, 0)
    BY <2>1, <2>2 DEF IsVisits
  <2>4. QED
    BY <2>3
<1>2. ASSUME NEW N \in Nat, N \in G PROVE N + 1 \in G
  <2>1. PICK f : IsVisits(f, p, o, N)
    BY <1>2
  <2> DEFINE g == [i \in 0..(N + 1) |-> IF i <= N THEN f[i]
                                        ELSE VisitNext(p, o, f[i - 1], NameOrder[i])]
  <2>2. \A i \in 0..N : f[i] = At(f, i)
    BY <2>1 DEF IsVisits
  <2>3. ASSUME NEW i \in 0..(N + 1) PROVE g[i] = At(g, i)
    <3>1. CASE i = 0
      BY <2>2, <3>1
    <3>2. CASE i # 0
      <4>1. i - 1 \in 0..N /\ g[i - 1] = f[i - 1]
        BY <3>2
      <4>2. g[i] = VisitNext(p, o, f[i - 1], NameOrder[i])
        BY <2>2, <3>2
      <4>3. QED
        BY <3>2, <4>1, <4>2
    <3>3. QED
      BY <3>1, <3>2
  <2>4. g = [i \in 0..(N + 1) |-> g[i]]
    OBVIOUS
  <2> HIDE DEF g
  <2>5. IsVisits(g, p, o, N + 1)
    BY <2>3, <2>4 DEF IsVisits
  <2>6. QED
    BY <2>5
<1> HIDE DEF G
<1>3. \A N \in Nat : N \in G
  BY <1>1, <1>2, NatSetInduction
<1>4. QED
  BY <1>3 DEF G

\* Every entry, and nothing else.
LEMMA VisitsAre ==
    ASSUME NEW p, NEW o, DOMAIN Entries(o) \subseteq Names
    PROVE  /\ Visits(p, o) \in Seq({VisitOf(p, o, n) : n \in DOMAIN Entries(o)})
           /\ \A n \in DOMAIN Entries(o) :
                 \E j \in 1..Len(Visits(p, o)) : Visits(p, o)[j] = VisitOf(p, o, n)
<1> DEFINE N == Len(NameOrder)
           T == {VisitOf(p, o, n) : n \in DOMAIN Entries(o)}
           f == CHOOSE g : IsVisits(g, p, o, N)
<1>1. N \in Nat /\ NameOrder \in Seq(Names) /\ \A n \in Names : \E k \in 1..N : NameOrder[k] = n
  BY SnapAssumption
<1>2. IsVisits(f, p, o, N)
  BY <1>1, VisitsExist, Zenon
<1>3. Visits(p, o) = f[N]
  BY DEF Visits, IsVisits, VisitNext, VisitOf
<1> HIDE DEF N, f, T
<1>4. f[0] = <<>> /\ \A i \in 1..N : f[i] = VisitNext(p, o, f[i - 1], NameOrder[i])
  <2>1. \A i \in 0..N : f[i] = IF i = 0 THEN <<>> ELSE VisitNext(p, o, f[i - 1], NameOrder[i])
    BY <1>2, Zenon DEF IsVisits
  <2>2. 0 \in 0..N /\ \A i \in 1..N : i \in 0..N /\ i # 0
    BY <1>1
  <2>3. QED
    BY <2>1, <2>2
<1> DEFINE Has(s, n) == \E j \in 1..Len(s) : s[j] = VisitOf(p, o, n)
           Upon(i) == /\ f[i] \in Seq(T)
                      /\ \A k \in 1..i : NameOrder[k] \in DOMAIN Entries(o) => Has(f[i], NameOrder[k])
           G == {i \in Nat : i <= N => Upon(i)}
<1>5. 0 \in G
  <2>1. f[0] \in Seq(T) /\ \A k \in 1..0 : FALSE
    BY <1>4
  <2> HIDE DEF Has
  <2>2. Upon(0)
    BY <2>1
  <2> HIDE DEF Upon
  <2>3. QED
    BY <2>2
<1>6. ASSUME NEW i \in Nat, i \in G PROVE i + 1 \in G
  <2>1. SUFFICES ASSUME i + 1 <= N PROVE Upon(i + 1)
    <3> HIDE DEF Upon
    <3>1. QED
      OBVIOUS
  <2>2. PICK j : j = i + 1
    OBVIOUS
  <2>3. j \in 1..N /\ j - 1 = i /\ Upon(i)
    <3> HIDE DEF Upon
    <3>1. j \in 1..N /\ j - 1 = i /\ i <= N
      BY <1>1, <2>1, <2>2
    <3>2. QED
      BY <1>6, <3>1
  <2>4. f[j] = VisitNext(p, o, f[i], NameOrder[j])
    BY <1>4, <2>3
  <2>5. CASE NameOrder[j] \notin DOMAIN Entries(o)
    <3>1. f[j] = f[i]
      BY <2>4, <2>5 DEF VisitNext
    <3> HIDE DEF Has
    <3>2. \A k \in 1..j : NameOrder[k] \in DOMAIN Entries(o) => Has(f[i], NameOrder[k])
      BY <2>2, <2>3, <2>5
    <3>3. QED
      BY <2>2, <2>3, <3>1, <3>2
  <2>6. CASE NameOrder[j] \in DOMAIN Entries(o)
    <3>1. PICK s : s = f[i]
      OBVIOUS
    <3>2. PICK v : v = VisitOf(p, o, NameOrder[j])
      OBVIOUS
    <3>3. v \in T /\ s \in Seq(T)
      BY <2>3, <2>6, <3>1, <3>2 DEF T
    <3>4. f[j] = Append(s, v)
      BY <2>4, <2>6, <3>1, <3>2 DEF VisitNext
    <3>5. /\ Append(s, v) \in Seq(T) /\ Len(Append(s, v)) = Len(s) + 1 /\ Len(s) \in Nat
          /\ Append(s, v)[Len(s) + 1] = v /\ \A k \in 1..Len(s) : Append(s, v)[k] = s[k]
      BY <3>3
    <3>6. Has(Append(s, v), NameOrder[j])
      BY <3>2, <3>5
    <3>7. \A n : Has(s, n) => Has(Append(s, v), n)
      BY <3>5
    <3> HIDE DEF Has
    <3>8. \A k \in 1..j : NameOrder[k] \in DOMAIN Entries(o) => Has(f[j], NameOrder[k])
      <4>1. ASSUME NEW k \in 1..j, NameOrder[k] \in DOMAIN Entries(o)
            PROVE  Has(f[j], NameOrder[k])
        <5>1. CASE k = j
          BY <3>4, <3>6, <5>1
        <5>2. CASE k # j
          <6>1. k \in 1..i
            BY <2>2, <5>2
          <6>2. Has(s, NameOrder[k])
            BY <2>3, <3>1, <4>1, <6>1
          <6>3. QED
            BY <3>4, <3>7, <6>2
        <5>3. QED
          BY <5>1, <5>2
      <4>2. QED
        BY <4>1
    <3>9. QED
      BY <2>2, <3>4, <3>5, <3>8
  <2>7. QED
    BY <2>5, <2>6
<1> HIDE DEF G
<1>7. N \in G
  BY <1>1, <1>5, <1>6, NatSetInduction
<1>8. Upon(N)
  BY <1>1, <1>7 DEF G
<1>9. ASSUME NEW n \in DOMAIN Entries(o) PROVE Has(f[N], n)
  <2>1. PICK k \in 1..N : NameOrder[k] = n
    BY <1>1
  <2> HIDE DEF Has
  <2>2. QED
    BY <1>8, <2>1
<1>10. QED
  BY <1>3, <1>8, <1>9 DEF T


-----------------------------------------------------------------------------
(* Where nodes are restored to.                                            *)

\* Appending to the second path.
LEMMA AppendConcat ==
    ASSUME NEW b \in Seq(Names), NEW q \in Seq(Names), NEW n \in Names
    PROVE  Append(b \o q, n) = b \o Append(q, n)
<1>1. <<n>> \in Seq(Names) /\ b \o q \in Seq(Names)
  BY ConcatProperties
<1>2. Append(b \o q, n) = (b \o q) \o <<n>> /\ Append(q, n) = q \o <<n>>
  BY <1>1, AppendIsConcat
<1>3. (b \o q) \o <<n>> = b \o (q \o <<n>>)
  BY <1>1, ConcatAssociative
<1>4. QED
  BY ONLY <1>2, <1>3, Zenon

LEMMA LandsIs ==
    ASSUME NEW b \in Seq(Names), NEW q \in Seq(Names)
    PROVE  /\ b \o q \in Seq(Names) /\ Len(b \o q) = Len(b) + Len(q)
           /\ b \o Root = b
           /\ \A n \in Names : Append(b \o q, n) = b \o Append(q, n)
           /\ SubSeq(b \o q, Len(b) + 1, Len(b \o q)) = q
           /\ q # Root => /\ Under(b, b \o q) /\ b \o q # Root /\ b \o q # b
                          /\ Parent(b \o q) = b \o Parent(q)
<1>1. /\ b \o q \in Seq(Names) /\ Len(b \o q) = Len(b) + Len(q)
      /\ Len(b) \in Nat /\ Len(q) \in Nat
      /\ \A k \in 1..(Len(b) + Len(q)) :
            (b \o q)[k] = IF k <= Len(b) THEN b[k] ELSE q[k - Len(b)]
  BY ConcatProperties
<1>2. b \o Root = b
  BY ConcatEmptySeq DEF Root
<1>3. \A n \in Names : Append(b \o q, n) = b \o Append(q, n)
  BY AppendConcat
<1>4. SubSeq(b \o q, Len(b) + 1, Len(b \o q)) = q
  <2>1. PICK x : x = b \o q
    OBVIOUS
  <2>2. PICK s : s = SubSeq(x, Len(b) + 1, Len(x))
    OBVIOUS
  <2>3. s \in Seq(Names) /\ Len(s) = Len(q) /\ \A k \in 1..Len(q) : s[k] = x[Len(b) + k]
    BY <1>1, <2>1, <2>2
  <2>4. ASSUME NEW k \in 1..Len(q) PROVE s[k] = q[k]
    <3>1. PICK j : j = Len(b) + k
      OBVIOUS
    <3>2. j \in 1..(Len(b) + Len(q)) /\ ~ (j <= Len(b)) /\ j - Len(b) = k
      BY <1>1, <3>1
    <3>3. x[j] = q[k]
      BY <1>1, <2>1, <3>2
    <3>4. QED
      BY <2>3, <3>1, <3>3
  <2>5. s = q
    BY <2>3, <2>4, SeqEqual
  <2>6. QED
    BY <2>1, <2>2, <2>5
<1>5. ASSUME q # Root
      PROVE  /\ Under(b, b \o q) /\ b \o q # Root /\ b \o q # b
             /\ Parent(b \o q) = b \o Parent(q)
  <2>1. PICK x : x = b \o q
    OBVIOUS
  <2>2. /\ Parent(q) \in Seq(Names) /\ Base(q) \in Names /\ q = Append(Parent(q), Base(q))
        /\ Len(q) \in Nat \ {0}
    BY <1>5, SplitIs
  <2>3. x # Root /\ x # b /\ Len(x) > Len(b)
    BY <1>1, <2>1, <2>2 DEF Root
  <2>4. SubSeq(x, 1, Len(b)) = b
    <3>1. PICK s : s = SubSeq(x, 1, Len(b))
      OBVIOUS
    <3>2. s \in Seq(Names) /\ Len(s) = Len(b) /\ \A k \in 1..Len(b) : s[k] = x[k]
      BY <1>1, <2>1, <2>3, <3>1
    <3>3. \A k \in 1..Len(b) : s[k] = b[k]
      BY <1>1, <2>1, <3>2
    <3>4. s = b
      BY <3>2, <3>3, SeqEqual
    <3>5. QED
      BY <3>1, <3>4
  <2>5. Parent(x) = b \o Parent(q)
    <3>1. PICK r \in Seq(Names), n \in Names : r = Parent(q) /\ q = Append(r, n)
      BY <2>2
    <3>2. b \o r \in Seq(Names) /\ Append(b \o r, n) = b \o Append(r, n)
      BY AppendConcat, ConcatProperties
    <3>3. Parent(Append(b \o r, n)) = b \o r
      BY <3>2, AppendIs
    <3>4. QED
      BY <2>1, <3>1, <3>2, <3>3
  <2>6. QED
    BY <2>1, <2>3, <2>4, <2>5 DEF Under
<1>6. QED
  BY <1>1, <1>2, <1>3, <1>4, <1>5


\* With its parent all directories above a path are there.
LEMMA AncestorsThere ==
    ASSUME NEW f, GoodTree(f), NEW p \in Paths, p # Root, Parent(p) \in Nodes(f)
    PROVE  M!Missing(f, p) = {}
<1> DEFINE At(j) == SubSeq(p, 1, (Len(p) - 1) - j)
           G == {j \in Nat : j < Len(p) - 1 => At(j) \in DOMAIN f}
<1>1. p \in Seq(Names) /\ Len(p) \in Nat \ {0}
  BY PathIs DEF Root
<1>2. 0 \in G
  <2>1. SUFFICES ASSUME 0 < Len(p) - 1 PROVE At(0) \in DOMAIN f
    OBVIOUS
  <2>2. At(0) = Parent(p)
    BY <1>1 DEF Parent
  <2>3. Len(Parent(p)) = Len(p) - 1 /\ Parent(p) # Root
    BY <1>1, <2>1, SplitIs DEF Root
  <2>4. QED
    BY <2>2, <2>3 DEF Nodes
<1>3. ASSUME NEW j \in Nat, j \in G PROVE j + 1 \in G
  <2>1. SUFFICES ASSUME j + 1 < Len(p) - 1 PROVE At(j + 1) \in DOMAIN f
    OBVIOUS
  <2>2. At(j) \in DOMAIN f
    BY <1>1, <1>3, <2>1
  <2> DEFINE k == (Len(p) - 1) - (j + 1)
  <2>3. k \in Nat /\ k >= 1 /\ k < Len(p) /\ (Len(p) - 1) - j = k + 1
    BY <1>1, <2>1
  <2>4. PICK q : q = SubSeq(p, 1, k + 1)
    OBVIOUS
  <2>5. PICK r : r = SubSeq(p, 1, k)
    OBVIOUS
  <2>6. q \in DOMAIN f /\ At(j + 1) = r
    BY <2>2, <2>3, <2>4, <2>5
  <2> HIDE DEF k
  <2>7. q \in Seq(Names) /\ Len(q) = k + 1 /\ \A i \in 1..(k + 1) : q[i] = p[i]
    BY <1>1, <2>3, <2>4
  <2>8. r \in Seq(Names) /\ Len(r) = k /\ \A i \in 1..k : r[i] = p[i]
    BY <1>1, <2>3, <2>5
  <2>9. Parent(q) = r
    <3>1. Parent(q) = SubSeq(q, 1, k)
      <4>1. Len(q) - 1 = k
        BY <2>3, <2>7
      <4>2. QED
        BY <4>1 DEF Parent
    <3>2. PICK s : s = SubSeq(q, 1, k)
      OBVIOUS
    <3>3. s \in Seq(Names) /\ Len(s) = k /\ \A i \in 1..k : s[i] = q[i]
      BY <2>3, <2>7, <3>2
    <3>4. \A i \in 1..k : s[i] = r[i]
      BY <2>3, <2>7, <2>8, <3>3
    <3>5. s = r
      BY <2>8, <3>3, <3>4, SeqEqual
    <3>6. QED
      BY <3>1, <3>2, <3>5
  <2>10. r # Root
    BY <2>3, <2>8 DEF Root
  <2>11. r \in DOMAIN f
    BY <2>6, <2>9, <2>10, TreeIs
  <2>12. QED
    BY <2>6, <2>11
<1> HIDE DEF G
<1>4. \A j \in Nat : j \in G
  BY <1>2, <1>3, NatSetInduction
<1>5. ASSUME NEW k \in 1..(Len(p) - 1) PROVE SubSeq(p, 1, k) \in DOMAIN f
  <2> DEFINE j == (Len(p) - 1) - k
  <2>1. j \in Nat /\ j < Len(p) - 1 /\ (Len(p) - 1) - j = k
    BY <1>1
  <2>2. At(j) \in DOMAIN f
    BY <1>4, <2>1 DEF G
  <2>3. QED
    BY <2>1, <2>2
<1>6. QED
  BY <1>5 DEF M!Missing, M!Ancestors

-----------------------------------------------------------------------------
(* One step of a checkout, on the filesystem f: w is the filesystem it     *)
(* began with, b the directory it restores m under.                        *)

Landed(f, b, m, q) ==
    b \o q \in DOMAIN f /\ f[b \o q].type = m[q].type /\ f[b \o q].data = m[q].data

\* What a checkout may have done to p.
Added(f, w, b, m, p) ==
    \/ p \in DOMAIN w /\ f[p] = w[p]
    \/ p \notin DOMAIN w /\ (p = b \/ Under(p, b))
    \/ \E q \in DOMAIN m :
          /\ p = b \o q /\ f[p].type = m[q].type /\ f[p].data = m[q].data
          /\ p \in DOMAIN w => f[p] = [w[p] EXCEPT !.data = m[q].data]

OnlyAdds(f, w, b, m) ==
    DOMAIN w \subseteq DOMAIN f /\ \A p \in DOMAIN f : Added(f, w, b, m, p)

\* The directory the node q is restored in is there.
Ready(f, b, q) == b \o Parent(q) \in Nodes(f)

\* g is f with one more node or other contents of one node.
OneNode(f, g, p) ==
    /\ DOMAIN g = DOMAIN f \cup {p}
    /\ \A r \in DOMAIN f : r # p => g[r] = f[r]

LEMMA GrownOne ==
    ASSUME NEW f, GoodTree(f), NEW p \in Paths, p # Root, Parent(p) \in Nodes(f),
           NEW c, NEW v
    PROVE  OneNode(f, Grown(f, c, p, v), p) /\ Grown(f, c, p, v)[p] = v
<1> DEFINE g == Grown(f, c, p, v)
<1>1. M!Missing(f, p) = {}
  BY AncestorsThere
<1>2. IsGrown(g, f, c, p, v)
  BY ONLY GrownIs, Zenon
<1> HIDE DEF g
<1>3. /\ DOMAIN g = DOMAIN f \cup M!Missing(f, p) \cup {p}
      /\ \A q \in DOMAIN g : g[q] = IF q = p THEN v
                                    ELSE IF q \in DOMAIN f THEN f[q] ELSE M!NewDir(c)
  BY <1>2 DEF IsGrown
<1>4. OneNode(f, g, p) /\ g[p] = v
  BY <1>1, <1>3 DEF OneNode
<1>5. QED
  BY <1>4 DEF g

\* Nodes at other places stay.
LEMMA OneNodeKeeps ==
    ASSUME NEW f, NEW g, NEW p, OneNode(f, g, p), NEW w, NEW b, NEW m,
           OnlyAdds(f, w, b, m), Added(g, w, b, m, p)
    PROVE  OnlyAdds(g, w, b, m)
<1>1. DOMAIN w \subseteq DOMAIN g
  BY DEF OneNode, OnlyAdds
<1>2. ASSUME NEW r \in DOMAIN g, r # p PROVE Added(g, w, b, m, r)
  <2>1. r \in DOMAIN f /\ g[r] = f[r] /\ Added(f, w, b, m, r)
    BY <1>2 DEF OneNode, OnlyAdds
  <2>2. QED
    BY ONLY <2>1, Zenon DEF Added
<1>3. QED
  BY <1>1, <1>2 DEF OnlyAdds

LEMMA OneNodeLanded ==
    ASSUME NEW f, NEW g, NEW b \in Seq(Names), NEW m, GoodTree(m), NEW q \in DOMAIN m,
           OneNode(f, g, b \o q), Landed(g, b, m, q),
           NEW r \in DOMAIN m, Landed(f, b, m, r)
    PROVE  Landed(g, b, m, r)
<1>1. CASE b \o r = b \o q
  <2>1. q \in Seq(Names) /\ r \in Seq(Names)
    BY TreeIs
  <2>2. SubSeq(b \o q, Len(b) + 1, Len(b \o q)) = q
    BY <2>1, LandsIs
  <2>3. SubSeq(b \o r, Len(b) + 1, Len(b \o r)) = r
    BY <2>1, LandsIs
  <2>4. r = q
    BY <1>1, <2>2, <2>3
  <2>5. QED
    BY <2>4
<1>2. CASE b \o r # b \o q
  <2>1. PICK x : x = b \o r
    OBVIOUS
  <2>2. x \in DOMAIN f /\ x # b \o q /\ x \in DOMAIN g /\ g[x] = f[x]
    BY <1>2, <2>1 DEF OneNode, Landed
  <2>3. f[x].type = m[r].type /\ f[x].data = m[r].data
    BY <2>1 DEF Landed
  <2>4. QED
    BY <2>1, <2>2, <2>3 DEF Landed
<1>3. QED
  BY <1>1, <1>2

-----------------------------------------------------------------------------
(* A checkout: D is what has been restored, t what is left to visit.       *)

\* What the visit of the node q is given.
Item(m, b, q) == <<b \o q, EntryAt(m, q)>>

\* The nodes whose directory has been restored.
Waiting(m, b, D) == {Item(m, b, q) : q \in {x \in DOMAIN m : Parent(x) \in D}}

Pending(b, m, D, t) ==
    /\ t \in Seq(Waiting(m, b, D))
    /\ \A q \in DOMAIN m : Parent(q) \in D =>
          q \in D \/ \E i \in 1..Len(t) : t[i] = Item(m, b, q)

Placed(f, b, w, m, D) ==
    /\ GoodTree(f) /\ GoodTree(w) /\ GoodTree(m)
    /\ b \in Paths /\ M!IsDir(f, b)
    /\ D \subseteq Nodes(m) /\ Root \in D
    /\ \A q \in D \ {Root} : Landed(f, b, m, q)
    /\ OnlyAdds(f, w, b, m)

\* What a visit is given tells the node.
LEMMA ItemIs ==
    ASSUME NEW m, NEW b \in Seq(Names), NEW q \in Seq(Names)
    PROVE  /\ Item(m, b, q)[1] = b \o q /\ Item(m, b, q)[2] = EntryAt(m, q)
           /\ \A r \in Seq(Names) : Item(m, b, r) = Item(m, b, q) => r = q
<1>1. \A r : Item(m, b, r)[1] = b \o r /\ Item(m, b, r)[2] = EntryAt(m, r)
  BY DEF Item
<1>2. ASSUME NEW r \in Seq(Names), Item(m, b, r) = Item(m, b, q) PROVE r = q
  <2>1. b \o r = b \o q
    BY <1>1, <1>2
  <2>2. SubSeq(b \o q, Len(b) + 1, Len(b \o q)) = q
    BY LandsIs
  <2>3. SubSeq(b \o r, Len(b) + 1, Len(b \o r)) = r
    BY LandsIs
  <2>4. QED
    BY <2>1, <2>2, <2>3
<1>3. QED
  BY <1>1, <1>2

\* A further node has been restored.
LEMMA PlacedMore ==
    ASSUME NEW f, NEW b, NEW w, NEW m, NEW D, Placed(f, b, w, m, D),
           NEW q \in DOMAIN m, NEW g, GoodTree(g),
           OneNode(f, g, b \o q), Landed(g, b, m, q), Added(g, w, b, m, b \o q)
    PROVE  Placed(g, b, w, m, D \cup {q})
<1>1. /\ GoodTree(f) /\ GoodTree(w) /\ GoodTree(m) /\ b \in Paths /\ M!IsDir(f, b)
      /\ D \subseteq Nodes(m) /\ Root \in D /\ OnlyAdds(f, w, b, m)
      /\ \A r \in D \ {Root} : Landed(f, b, m, r)
  BY DEF Placed
<1>2. b \in Seq(Names) /\ q \in Seq(Names) /\ q # Root
  BY <1>1, PathIs, TreeIs
<1>3. OnlyAdds(g, w, b, m)
  BY <1>1, OneNodeKeeps
<1>4. M!IsDir(g, b)
  <2>1. b # b \o q
    BY <1>2, LandsIs
  <2>2. b = Root \/ (b \in DOMAIN f /\ f[b].type = "dir")
    BY <1>1, IsDirIs
  <2>3. b \in DOMAIN f => b \in DOMAIN g /\ g[b] = f[b]
    BY <2>1 DEF OneNode
  <2>4. QED
    BY <2>2, <2>3, IsDirIs
<1>5. ASSUME NEW r \in (D \cup {q}) \ {Root} PROVE Landed(g, b, m, r)
  <2>1. CASE r = q
    BY <2>1
  <2>2. CASE r # q
    <3>1. r \in DOMAIN m /\ Landed(f, b, m, r)
      BY <1>1, <1>5, <2>2 DEF Nodes
    <3>2. QED
      BY <1>1, <1>2, <3>1, OneNodeLanded
  <2>3. QED
    BY <2>1, <2>2
<1>6. D \cup {q} \subseteq Nodes(m) /\ Root \in D \cup {q}
  BY <1>1 DEF Nodes
<1>7. QED
  BY <1>1, <1>3, <1>4, <1>5, <1>6 DEF Placed

\* Where the next node goes its directory is already.
LEMMA PlacedReady ==
    ASSUME NEW f, NEW b, NEW w, NEW m, NEW D, Placed(f, b, w, m, D),
           NEW q \in DOMAIN m, Parent(q) \in D
    PROVE  /\ b \o q # Root /\ Parent(b \o q) \in Nodes(f)
           /\ b \in Seq(Names) /\ q \in Seq(Names)
<1>1. /\ GoodTree(m) /\ b \in Paths /\ M!IsDir(f, b)
      /\ \A r \in D \ {Root} : Landed(f, b, m, r)
  BY DEF Placed
<1>2. b \in Seq(Names) /\ q \in Seq(Names) /\ q # Root
  BY <1>1, PathIs, TreeIs
<1>3. b \o q # Root /\ Parent(b \o q) = b \o Parent(q)
  BY <1>2, LandsIs
<1>4. CASE Parent(q) = Root
  <2>1. b \o Parent(q) = b
    BY <1>2, <1>4, LandsIs
  <2>2. b \in Nodes(f)
    BY <1>1, IsDirIs DEF Nodes
  <2>3. QED
    BY <1>2, <1>3, <2>1, <2>2
<1>5. CASE Parent(q) # Root
  <2>1. Landed(f, b, m, Parent(q))
    BY <1>1, <1>5
  <2>2. b \o Parent(q) \in DOMAIN f
    BY <2>1 DEF Landed
  <2>3. QED
    BY <1>2, <1>3, <2>2 DEF Nodes
<1>6. QED
  BY <1>4, <1>5

\* RestoreFile, on the filesystem.
LEMMA PutFile ==
    ASSUME NEW f, NEW b, NEW w, NEW m, NEW D, Placed(f, b, w, m, D),
           NEW q \in DOMAIN m, Parent(q) \in D, m[q].type = "file",
           NEW c \in Creds, b \o q \in Paths,
           M!CanWrite(f, c, b \o q, m[q].data, TRUE)
    PROVE  Placed(M!Written(f, c, b \o q, m[q].data, TRUE), b, w, m, D \cup {q})
<1> DEFINE d == m[q].data
<1>1. PICK p : p = b \o q
  OBVIOUS
<1>2. /\ GoodTree(f) /\ GoodTree(w) /\ GoodTree(m) /\ OnlyAdds(f, w, b, m)
  BY DEF Placed
<1>3. p # Root /\ Parent(p) \in Nodes(f) /\ p \in Paths
  BY <1>1, PlacedReady
<1>4. d \in Data
  BY <1>2, TreeIs DEF Node
<1> HIDE DEF d
<1> DEFINE v == IF p \in DOMAIN f THEN [f[p] EXCEPT !.data = d] ELSE M!NewFile(c, d)
           g == M!Written(f, c, p, d, TRUE)
<1>5. M!CanWrite(f, c, p, d, TRUE)
  BY ONLY <1>1, M!CanWrite(f, c, b \o q, m[q].data, TRUE), Zenon DEF d
<1>6. /\ GoodTree(g) /\ g = Grown(f, c, p, v)
      /\ p \in DOMAIN f => f[p].type = "file"
  BY <1>2, <1>3, <1>4, <1>5, WrittenIs
<1>7. OneNode(f, Grown(f, c, p, v), p) /\ Grown(f, c, p, v)[p] = v
  <2> HIDE DEF v
  <2>1. QED
    BY <1>2, <1>3, GrownOne
<1> HIDE DEF g, v
<1>8. OneNode(f, g, p) /\ g[p] = v
  BY ONLY <1>6, <1>7, Zenon
<1>9. v.type = "file" /\ v.data = d
  <2>1. CASE p \in DOMAIN f
    <3>1. f[p] \in Node
      BY <1>2, <2>1, TreeIs
    <3>2. v = [f[p] EXCEPT !.data = d]
      BY <2>1 DEF v
    <3>3. QED
      BY <1>6, <2>1, <3>1, <3>2 DEF Node
  <2>2. CASE p \notin DOMAIN f
    <3>1. v = M!NewFile(c, d)
      BY <2>2 DEF v
    <3>2. QED
      BY <1>4, <3>1, NewNodes
  <2>3. QED
    BY <2>1, <2>2
<1>10. Landed(g, b, m, q)
  <2>1. p \in DOMAIN g /\ g[p].type = m[q].type /\ g[p].data = m[q].data
    BY <1>8, <1>9 DEF OneNode, d
  <2>2. QED
    BY <1>1, <2>1 DEF Landed
<1>11. p \in DOMAIN w => g[p] = [w[p] EXCEPT !.data = d]
  <2>1. SUFFICES ASSUME p \in DOMAIN w PROVE g[p] = [w[p] EXCEPT !.data = d]
    OBVIOUS
  <2>2. p \in DOMAIN f /\ w[p] \in Node /\ Added(f, w, b, m, p)
    BY <1>2, <2>1, TreeIs DEF OnlyAdds
  <2>3. g[p] = [f[p] EXCEPT !.data = d]
    BY <1>8, <2>2 DEF v
  <2>4. CASE f[p] = w[p]
    BY <2>3, <2>4
  <2>5. CASE \E r \in DOMAIN m : f[p] = [w[p] EXCEPT !.data = m[r].data]
    <3>1. PICK e : f[p] = [w[p] EXCEPT !.data = e]
      BY <2>5
    <3>2. QED
      BY <2>2, <2>3, <3>1 DEF Node
  <2>6. QED
    BY <2>1, <2>2, <2>4, <2>5 DEF Added
<1>12. Added(g, w, b, m, p)
  <2>1. g[p].type = m[q].type /\ g[p].data = m[q].data
    BY <1>1, <1>10 DEF Landed
  <2>2. QED
    BY <1>1, <1>11, <2>1 DEF Added, d
<1>13. OneNode(f, g, b \o q) /\ Added(g, w, b, m, b \o q)
  BY ONLY <1>1, <1>8, <1>12, Zenon
<1>14. Placed(g, b, w, m, D \cup {q})
  BY <1>6, <1>10, <1>13, PlacedMore
<1>15. M!Written(f, c, b \o q, m[q].data, TRUE) = g
  BY ONLY <1>1, Zenon DEF g, d
<1>16. QED
  BY <1>14, <1>15

\* RestoreDir, on the filesystem.
LEMMA PutDir ==
    ASSUME NEW f, NEW b, NEW w, NEW m, NEW D, Placed(f, b, w, m, D),
           NEW q \in DOMAIN m, Parent(q) \in D, m[q].type = "dir",
           NEW c \in Creds, b \o q \in Paths, M!CanMkdir(f, b \o q, TRUE)
    PROVE  Placed(M!Made(f, c, b \o q, TRUE), b, w, m, D \cup {q})
<1>1. PICK p : p = b \o q
  OBVIOUS
<1> DEFINE g == M!Made(f, c, p, TRUE)
<1>2. /\ GoodTree(f) /\ GoodTree(w) /\ GoodTree(m) /\ OnlyAdds(f, w, b, m)
  BY DEF Placed
<1>3. p # Root /\ Parent(p) \in Nodes(f) /\ p \in Paths
  BY <1>1, PlacedReady
<1>4. M!CanMkdir(f, p, TRUE)
  BY ONLY <1>1, M!CanMkdir(f, b \o q, TRUE), Zenon
<1>5. /\ GoodTree(g)
      /\ M!IsDir(f, p) => g = f
      /\ ~ M!IsDir(f, p) => p \notin DOMAIN f /\ g = Grown(f, c, p, M!NewDir(c))
  BY <1>2, <1>3, <1>4, MadeIs
<1>6. m[q].data = Empty
  BY <1>2 DEF GoodTree
<1> HIDE DEF g
<1>7. /\ OneNode(f, g, p) /\ g[p].type = "dir" /\ g[p].data = Empty
      /\ p \in DOMAIN f => g[p] = f[p]
  <2>1. CASE M!IsDir(f, p)
    <3>1. p \in DOMAIN f /\ f[p].type = "dir"
      BY <1>3, <2>1, IsDirIs
    <3>2. f[p].data = Empty
      BY <1>2, <3>1 DEF GoodTree
    <3>3. OneNode(f, f, p)
      BY <3>1 DEF OneNode
    <3>4. g = f
      BY <1>5, <2>1
    <3>5. QED
      BY ONLY <3>1, <3>2, <3>3, <3>4, Zenon
  <2>2. CASE ~ M!IsDir(f, p)
    <3>1. PICK v : v = M!NewDir(c)
      OBVIOUS
    <3>2. v.type = "dir" /\ v.data = Empty
      <4>1. Empty \in Data
        BY DataAssumption
      <4>2. QED
        BY <3>1, <4>1, NewNodes
    <3>3. OneNode(f, Grown(f, c, p, v), p) /\ Grown(f, c, p, v)[p] = v
      BY <1>2, <1>3, GrownOne
    <3>4. g = Grown(f, c, p, v) /\ p \notin DOMAIN f
      BY ONLY <1>5, <2>2, <3>1, Zenon
    <3>5. QED
      BY ONLY <3>2, <3>3, <3>4, Zenon
  <2>3. QED
    BY <2>1, <2>2
<1>8. Landed(g, b, m, q)
  <2>1. p \in DOMAIN g /\ g[p].type = m[q].type /\ g[p].data = m[q].data
    BY <1>6, <1>7 DEF OneNode
  <2>2. QED
    BY <1>1, <2>1 DEF Landed
<1>9. Added(g, w, b, m, p)
  <2>1. CASE p \in DOMAIN w
    <3>1. p \in DOMAIN f /\ Added(f, w, b, m, p) /\ g[p] = f[p]
      BY <1>2, <1>7, <2>1 DEF OnlyAdds
    <3>2. QED
      BY ONLY <2>1, <3>1, Zenon DEF Added
  <2>2. CASE p \notin DOMAIN w
    <3>1. g[p].type = m[q].type /\ g[p].data = m[q].data
      BY <1>1, <1>8 DEF Landed
    <3>2. QED
      BY <1>1, <2>2, <3>1 DEF Added
  <2>3. QED
    BY <2>1, <2>2
<1>10. OneNode(f, g, b \o q) /\ Added(g, w, b, m, b \o q)
  BY ONLY <1>1, <1>7, <1>9, Zenon
<1>11. Placed(g, b, w, m, D \cup {q})
  BY <1>5, <1>8, <1>10, PlacedMore
<1>12. M!Made(f, c, b \o q, TRUE) = g
  BY ONLY <1>1, Zenon DEF g
<1>13. QED
  BY <1>11, <1>12

\* The visits of a directory are one for each child.
LEMMA VisitsIs ==
    ASSUME NEW m, GoodTree(m), NEW p \in Nodes(m), ~ (p \in DOMAIN m /\ m[p].type = "file"),
           NEW b \in Seq(Names)
    PROVE  /\ Visits(b \o p, Objects(m)[p]) \in Seq({Item(m, b, q) : q \in Children(m, p)})
           /\ \A q \in Children(m, p) :
                 \E j \in 1..Len(Visits(b \o p, Objects(m)[p])) :
                    Visits(b \o p, Objects(m)[p])[j] = Item(m, b, q)
<1> DEFINE V == Visits(b \o p, Objects(m)[p])
<1>1. PICK o : o = Objects(m)[p]
  OBVIOUS
<1>2. PICK x : x = b \o p
  OBVIOUS
<1>3. DOMAIN m \subseteq Paths /\ p \in Paths /\ p \in Seq(Names)
  BY TreeIs, PathIs DEF Nodes
<1>4. /\ \A n : n \in DOMAIN Entries(o) <=> n \in Names /\ Append(p, n) \in DOMAIN m
      /\ \A n \in DOMAIN Entries(o) : Entries(o)[n] = EntryAt(m, Append(p, n))
  <2>1. /\ \A n : n \in DOMAIN Entries(Objects(m)[p])
                     <=> n \in Names /\ Append(p, n) \in DOMAIN m
        /\ \A n \in DOMAIN Entries(Objects(m)[p]) :
              Entries(Objects(m)[p])[n] = EntryAt(m, Append(p, n))
    BY <1>3, DirObject
  <2>2. QED
    BY ONLY <1>1, <2>1, Zenon
<1>5. \A n \in DOMAIN Entries(o) : VisitOf(x, o, n) = Item(m, b, Append(p, n))
  <2>1. SUFFICES ASSUME NEW n \in DOMAIN Entries(o)
                 PROVE  VisitOf(x, o, n) = Item(m, b, Append(p, n))
    OBVIOUS
  <2>2. Append(x, n) = b \o Append(p, n)
    <3>1. p \in Seq(Names) /\ n \in Names
      BY <1>3, <1>4
    <3>2. Append(b \o p, n) = b \o Append(p, n)
      BY <3>1, AppendConcat
    <3>3. QED
      BY ONLY <1>2, <3>2, Zenon
  <2>3. Entries(o)[n] = EntryAt(m, Append(p, n))
    BY <1>4
  <2>4. QED
    BY ONLY <2>2, <2>3, Zenon DEF VisitOf, Item
<1>6. \A q \in Children(m, p) : Base(q) \in DOMAIN Entries(o) /\ q = Append(p, Base(q))
  <2>1. \A q \in Children(m, p) : q \in DOMAIN m /\ Base(q) \in Names /\ q = Append(p, Base(q))
    BY <1>3, ChildrenIs
  <2>2. QED
    BY ONLY <1>4, <2>1, Zenon
<1>7. \A n \in DOMAIN Entries(o) : Append(p, n) \in Children(m, p)
  BY <1>3, <1>4, ChildrenIs
<1>8. /\ Visits(x, o) \in Seq({VisitOf(x, o, n) : n \in DOMAIN Entries(o)})
      /\ \A n \in DOMAIN Entries(o) :
            \E j \in 1..Len(Visits(x, o)) : Visits(x, o)[j] = VisitOf(x, o, n)
  <2>1. DOMAIN Entries(o) \subseteq Names
    BY <1>4
  <2>2. QED
    BY <2>1, VisitsAre
<1>9. {VisitOf(x, o, n) : n \in DOMAIN Entries(o)} \subseteq {Item(m, b, q) : q \in Children(m, p)}
  BY <1>5, <1>7, Zenon
<1>10. V = Visits(x, o)
  BY ONLY <1>1, <1>2, Zenon
<1>11. Visits(x, o) \in Seq({Item(m, b, q) : q \in Children(m, p)})
  <2>1. PICK A : A = {VisitOf(x, o, n) : n \in DOMAIN Entries(o)}
    OBVIOUS
  <2>2. PICK B : B = {Item(m, b, q) : q \in Children(m, p)}
    OBVIOUS
  <2>3. A \subseteq B /\ Visits(x, o) \in Seq(A)
    BY ONLY <1>8, <1>9, <2>1, <2>2, Zenon
  <2>4. Visits(x, o) \in Seq(B)
    BY ONLY <2>3
  <2>5. QED
    BY ONLY <2>2, <2>4, Zenon
<1>12. \A q \in Children(m, p) : \E j \in 1..Len(Visits(x, o)) : Visits(x, o)[j] = Item(m, b, q)
  <2>1. SUFFICES ASSUME NEW q \in Children(m, p)
                 PROVE  \E j \in 1..Len(Visits(x, o)) : Visits(x, o)[j] = Item(m, b, q)
    OBVIOUS
  <2>2. PICK n \in DOMAIN Entries(o) : q = Append(p, n)
    BY <1>6
  <2>3. PICK j \in 1..Len(Visits(x, o)) : Visits(x, o)[j] = VisitOf(x, o, n)
    BY <1>8
  <2>4. Visits(x, o)[j] = Item(m, b, q)
    BY ONLY <1>5, <2>2, <2>3, Zenon
  <2>5. QED
    BY <2>4
<1>13. QED
  BY ONLY <1>10, <1>11, <1>12, Zenon

\* The first visit is of a node whose directory has been restored.
LEMMA PendingFirst ==
    ASSUME NEW b, NEW m, NEW D, NEW t, Pending(b, m, D, t), t # <<>>
    PROVE  /\ Len(t) \in Nat \ {0} /\ Tail(t) \in Seq(Waiting(m, b, D))
           /\ Len(Tail(t)) = Len(t) - 1 /\ \A i \in 2..Len(t) : Tail(t)[i - 1] = t[i]
           /\ \E q \in DOMAIN m : Parent(q) \in D /\ t[1] = Item(m, b, q)
<1>1. PICK W : W = Waiting(m, b, D)
  OBVIOUS
<1>2. t \in Seq(W)
  BY <1>1 DEF Pending
<1>3. /\ Len(t) \in Nat \ {0} /\ Tail(t) \in Seq(W)
      /\ Len(Tail(t)) = Len(t) - 1 /\ \A i \in 2..Len(t) : Tail(t)[i - 1] = t[i]
      /\ t[1] \in W
  <2>1. Len(t) \in Nat \ {0} /\ t[1] \in W
    BY <1>2
  <2>2. Tail(t) \in Seq(W) /\ Len(Tail(t)) = Len(t) - 1
    BY <1>2
  <2>3. \A i \in 2..Len(t) : Tail(t)[i - 1] = t[i]
    BY <1>2, <2>1
  <2>4. QED
    BY <2>1, <2>2, <2>3
<1>4. \E q \in DOMAIN m : Parent(q) \in D /\ t[1] = Item(m, b, q)
  BY <1>1, <1>3, Zenon DEF Waiting
<1>5. QED
  BY <1>1, <1>3, <1>4

\* The first visit was of a file.
LEMMA PendingFile ==
    ASSUME NEW b \in Seq(Names), NEW m, GoodTree(m), NEW D, NEW t, Pending(b, m, D, t), t # <<>>,
           NEW q \in DOMAIN m, t[1] = Item(m, b, q), m[q].type = "file"
    PROVE  Pending(b, m, D \cup {q}, Tail(t))
<1>1. /\ Len(t) \in Nat \ {0} /\ Tail(t) \in Seq(Waiting(m, b, D))
      /\ Len(Tail(t)) = Len(t) - 1 /\ \A i \in 2..Len(t) : Tail(t)[i - 1] = t[i]
  BY PendingFirst
<1>2. Tail(t) \in Seq(Waiting(m, b, D \cup {q}))
  <2>1. Waiting(m, b, D) \subseteq Waiting(m, b, D \cup {q})
    BY Zenon DEF Waiting
  <2>2. PICK A : A = Waiting(m, b, D)
    OBVIOUS
  <2>3. PICK B : B = Waiting(m, b, D \cup {q})
    OBVIOUS
  <2>4. A \subseteq B /\ Tail(t) \in Seq(A)
    BY ONLY <1>1, <2>1, <2>2, <2>3, Zenon
  <2>5. Tail(t) \in Seq(B)
    BY ONLY <2>4
  <2>6. QED
    BY ONLY <2>3, <2>5, Zenon
<1>3. ASSUME NEW r \in DOMAIN m, Parent(r) \in D \cup {q}, r \notin D \cup {q}
      PROVE  \E i \in 1..Len(Tail(t)) : Tail(t)[i] = Item(m, b, r)
  <2>1. r \in Seq(Names) /\ q \in Seq(Names) /\ q # Root
    BY TreeIs
  <2>2. Parent(r) # q
    BY TreeIs, <2>1
  <2>3. PICK i \in 1..Len(t) : t[i] = Item(m, b, r)
    BY <1>3, <2>2 DEF Pending
  <2>4. i # 1
    <3>1. SUFFICES ASSUME i = 1 PROVE FALSE
      OBVIOUS
    <3>2. Item(m, b, r) = Item(m, b, q)
      BY ONLY <2>3, <3>1, t[1] = Item(m, b, q), Zenon
    <3>3. r = q
      BY <2>1, <3>2, ItemIs
    <3>4. QED
      BY <1>3, <3>3
  <2>5. i \in 2..Len(t) /\ i - 1 \in 1..Len(Tail(t))
    BY <1>1, <2>4
  <2>6. Tail(t)[i - 1] = Item(m, b, r)
    BY <1>1, <2>3, <2>5
  <2>7. QED
    BY <2>5, <2>6
<1>4. QED
  BY <1>2, <1>3 DEF Pending

\* A directory has been restored and its entries are visited before the rest.
LEMMA PendingBelow ==
    ASSUME NEW b \in Seq(Names), NEW m, GoodTree(m), NEW q \in Nodes(m),
           ~ (q \in DOMAIN m /\ m[q].type = "file"),
           NEW D, NEW s, s \in Seq(Waiting(m, b, D)),
           \A r \in DOMAIN m : Parent(r) \in D =>
              r \in D \cup {q} \/ \E i \in 1..Len(s) : s[i] = Item(m, b, r)
    PROVE  Pending(b, m, D \cup {q}, Visits(b \o q, Objects(m)[q]) \o s)
<1>1. PICK V : V = Visits(b \o q, Objects(m)[q])
  OBVIOUS
<1>2. PICK A : A = {Item(m, b, r) : r \in Children(m, q)}
  OBVIOUS
<1>3. PICK W : W = Waiting(m, b, D \cup {q})
  OBVIOUS
<1>4. V \in Seq(A) /\ \A r \in Children(m, q) : \E j \in 1..Len(V) : V[j] = Item(m, b, r)
  <2>1. /\ Visits(b \o q, Objects(m)[q]) \in Seq({Item(m, b, r) : r \in Children(m, q)})
        /\ \A r \in Children(m, q) :
              \E j \in 1..Len(Visits(b \o q, Objects(m)[q])) :
                 Visits(b \o q, Objects(m)[q])[j] = Item(m, b, r)
    BY VisitsIs
  <2>2. QED
    BY ONLY <1>1, <1>2, <2>1, Zenon
<1>5. A \subseteq W
  <2>1. q \in Paths /\ DOMAIN m \subseteq Paths
    BY TreeIs DEF Nodes
  <2>2. \A r \in Children(m, q) : r \in DOMAIN m /\ Parent(r) = q
    BY <2>1, ChildrenIs
  <2>3. \A r \in Children(m, q) : Item(m, b, r) \in Waiting(m, b, D \cup {q})
    BY <2>2, Zenon DEF Waiting
  <2>4. QED
    BY ONLY <1>2, <1>3, <2>3, Zenon
<1>6. s \in Seq(W)
  <2>1. Waiting(m, b, D) \subseteq Waiting(m, b, D \cup {q})
    BY Zenon DEF Waiting
  <2>2. PICK X : X = Waiting(m, b, D)
    OBVIOUS
  <2>3. X \subseteq W /\ s \in Seq(X)
    BY ONLY <1>3, <2>1, <2>2, s \in Seq(Waiting(m, b, D)), Zenon
  <2>4. QED
    BY ONLY <2>3
<1>7. /\ V \o s \in Seq(W) /\ Len(V) \in Nat /\ Len(s) \in Nat
      /\ Len(V \o s) = Len(V) + Len(s)
      /\ \A j \in 1..Len(V) : (V \o s)[j] = V[j]
      /\ \A j \in 1..Len(s) : (V \o s)[Len(V) + j] = s[j]
  <2>1. V \in Seq(W)
    BY ONLY <1>4, <1>5
  <2>2. QED
    BY ONLY <1>6, <2>1
<1>8. ASSUME NEW r \in DOMAIN m, Parent(r) \in D \cup {q}, r \notin D \cup {q}
      PROVE  \E i \in 1..Len(V \o s) : (V \o s)[i] = Item(m, b, r)
  <2>1. CASE Parent(r) = q
    <3>1. r \in Children(m, q)
      BY <2>1, TreeIs
    <3>2. PICK j \in 1..Len(V) : V[j] = Item(m, b, r)
      BY <1>4, <3>1
    <3>3. j \in 1..Len(V \o s)
      BY <1>7
    <3>4. (V \o s)[j] = V[j]
      BY <1>7
    <3>5. QED
      BY ONLY <3>2, <3>3, <3>4, Zenon
  <2>2. CASE Parent(r) # q
    <3>1. PICK i \in 1..Len(s) : s[i] = Item(m, b, r)
      BY <1>8, <2>2
    <3>2. (V \o s)[Len(V) + i] = s[i]
      BY <1>7
    <3>3. Len(V) + i \in 1..Len(V \o s)
      BY <1>7
    <3>4. QED
      BY ONLY <3>1, <3>2, <3>3, Zenon
  <2>3. QED
    BY <2>1, <2>2
<1>9. Pending(b, m, D \cup {q}, V \o s)
  BY <1>3, <1>7, <1>8 DEF Pending
<1>10. QED
  BY ONLY <1>1, <1>9, Zenon

\* The first visit was of a directory.
LEMMA PendingDir ==
    ASSUME NEW b \in Seq(Names), NEW m, GoodTree(m), NEW D, NEW t, Pending(b, m, D, t), t # <<>>,
           NEW q \in DOMAIN m, t[1] = Item(m, b, q), m[q].type = "dir"
    PROVE  Pending(b, m, D \cup {q}, Visits(b \o q, Objects(m)[q]) \o Tail(t))
<1>1. /\ Len(t) \in Nat \ {0} /\ Tail(t) \in Seq(Waiting(m, b, D))
      /\ Len(Tail(t)) = Len(t) - 1 /\ \A i \in 2..Len(t) : Tail(t)[i - 1] = t[i]
  BY PendingFirst
<1>2. ASSUME NEW r \in DOMAIN m, Parent(r) \in D, r \notin D \cup {q}
      PROVE  \E i \in 1..Len(Tail(t)) : Tail(t)[i] = Item(m, b, r)
  <2>1. r \in Seq(Names) /\ q \in Seq(Names)
    BY TreeIs
  <2>2. PICK i \in 1..Len(t) : t[i] = Item(m, b, r)
    BY <1>2 DEF Pending
  <2>3. i # 1
    <3>1. SUFFICES ASSUME i = 1 PROVE FALSE
      OBVIOUS
    <3>2. Item(m, b, r) = Item(m, b, q)
      BY ONLY <2>2, <3>1, t[1] = Item(m, b, q), Zenon
    <3>3. r = q
      BY <2>1, <3>2, ItemIs
    <3>4. QED
      BY <1>2, <3>3
  <2>4. i \in 2..Len(t) /\ i - 1 \in 1..Len(Tail(t))
    BY <1>1, <2>3
  <2>5. Tail(t)[i - 1] = Item(m, b, r)
    BY <1>1, <2>2, <2>4
  <2>6. QED
    BY <2>4, <2>5
<1>3. q \in Nodes(m) /\ ~ (q \in DOMAIN m /\ m[q].type = "file")
  BY DEF Nodes
<1>4. QED
  BY <1>1, <1>2, <1>3, PendingBelow

\* CheckoutBegin.
LEMMA PendingBegin ==
    ASSUME NEW b \in Seq(Names), NEW m, GoodTree(m)
    PROVE  Pending(b, m, {Root}, Visits(b, SnapDir(m)) \o <<>>)
<1>1. Root \in Nodes(m) /\ ~ (Root \in DOMAIN m /\ m[Root].type = "file")
  BY TreeIs DEF Nodes
<1>2. <<>> \in Seq(Waiting(m, b, {}))
  OBVIOUS
<1>3. Pending(b, m, {} \cup {Root}, Visits(b \o Root, Objects(m)[Root]) \o <<>>)
  BY <1>1, <1>2, PendingBelow
<1>4. b \o Root = b
  BY LandsIs, <<>> \in Seq(Names) DEF Root
<1>5. {} \cup {Root} = {Root}
  OBVIOUS
<1>6. QED
  BY ONLY <1>3, <1>4, <1>5, SnapDirIs, Zenon

LEMMA PlacedBegin ==
    ASSUME NEW f, GoodTree(f), NEW m, GoodTree(m), NEW c \in Creds, NEW b \in Paths,
           M!CanMkdir(f, b, TRUE)
    PROVE  Placed(M!Made(f, c, b, TRUE), b, f, m, {Root})
<1> DEFINE g == M!Made(f, c, b, TRUE)
<1>1. /\ GoodTree(g)
      /\ M!IsDir(f, b) => g = f
      /\ ~ M!IsDir(f, b) =>
            b \notin DOMAIN f /\ b # Root /\ g = Grown(f, c, b, M!NewDir(c))
  BY MadeIs
<1> HIDE DEF g
<1>2. M!IsDir(g, b) /\ OnlyAdds(g, f, b, m)
  <2>1. CASE M!IsDir(f, b)
    <3>1. g = f
      BY <1>1, <2>1
    <3>2. OnlyAdds(f, f, b, m)
      BY DEF OnlyAdds, Added
    <3>3. QED
      BY ONLY <2>1, <3>1, <3>2, Zenon
  <2>2. CASE ~ M!IsDir(f, b)
    <3>1. PICK v : v = M!NewDir(c)
      OBVIOUS
    <3>2. g = Grown(f, c, b, v) /\ b \notin DOMAIN f /\ b # Root
      BY ONLY <1>1, <2>2, <3>1, Zenon
    <3>3. IsGrown(g, f, c, b, v)
      BY ONLY GrownIs, <3>2, Zenon
    <3>4. /\ DOMAIN g = DOMAIN f \cup M!Missing(f, b) \cup {b}
          /\ \A q \in DOMAIN g : g[q] = IF q = b THEN v
                                        ELSE IF q \in DOMAIN f THEN f[q] ELSE M!NewDir(c)
          /\ M!Missing(f, b) \subseteq M!Ancestors(b)
      BY <3>3 DEF IsGrown
    <3>5. v.type = "dir"
      <4>1. Empty \in Data
        BY DataAssumption
      <4>2. QED
        BY <3>1, <4>1, NewNodes
    <3>6. M!IsDir(g, b)
      BY <3>4, <3>5, IsDirIs
    <3>7. \A q \in M!Ancestors(b) : Under(q, b)
      BY <3>2, AncestorsIs
    <3>8. ASSUME NEW p \in DOMAIN g PROVE Added(g, f, b, m, p)
      <4>1. CASE p \in DOMAIN f
        <5>1. g[p] = f[p]
          BY <3>2, <3>4, <4>1
        <5>2. QED
          BY <4>1, <5>1 DEF Added
      <4>2. CASE p \notin DOMAIN f
        <5>1. p = b \/ Under(p, b)
          BY <3>4, <3>7, <4>2
        <5>2. QED
          BY ONLY <4>2, <5>1, Zenon DEF Added
      <4>3. QED
        BY <4>1, <4>2
    <3>9. QED
      BY <3>4, <3>6, <3>8 DEF OnlyAdds
  <2>3. QED
    BY <2>1, <2>2
<1>3. {Root} \subseteq Nodes(m)
  BY DEF Nodes
<1>4. Placed(g, b, f, m, {Root})
  BY <1>1, <1>2, <1>3 DEF Placed
<1>5. QED
  BY <1>4 DEF g

-----------------------------------------------------------------------------
(* The inductive invariant.                                                *)

\* The ref names a tree that was made of a filesystem.
Committed == head # None => \E m : GoodTree(m) /\ head = SnapDir(m)

Running == IF op.kind = "store" THEN op.root ELSE None
Stock == objs \subseteq Closure(head) \cup Closure(Running)

\* A commit in progress: what need not be put any more is there.
Storing ==
    /\ op = [kind |-> "store", root |-> SnapDir(files), need |-> op.need]
    /\ op.need \subseteq Closure(op.root)
    /\ Closure(op.root) \ op.need \subseteq objs

\* A checkout in progress.
Job(c, b, r, w, t) ==
    [kind |-> "restore", cred |-> c, base |-> b, root |-> r, before |-> w, todo |-> t]

RestoresAt(f, c, b, m, w, D, t) ==
    c \in Creds /\ Placed(f, b, w, m, D) /\ Pending(b, m, D, t)

Restores(f, o) ==
    \E c, b, m, w, D, t :
        o = Job(c, b, SnapDir(m), w, t) /\ RestoresAt(f, c, b, m, w, D, t)

SInv ==
    /\ GoodTree(files)
    /\ Committed
    /\ Stock
    /\ op = Idle \/ Storing \/ Restores(files, op)

LEMMA JobIs ==
    ASSUME NEW c, NEW b, NEW r, NEW w, NEW t
    PROVE  /\ Job(c, b, r, w, t).kind = "restore" /\ Job(c, b, r, w, t).cred = c
           /\ Job(c, b, r, w, t).base = b /\ Job(c, b, r, w, t).root = r
           /\ Job(c, b, r, w, t).before = w /\ Job(c, b, r, w, t).todo = t
           /\ \A s : [Job(c, b, r, w, t) EXCEPT !.todo = s] = Job(c, b, r, w, s)
BY DEF Job

\* The call in progress by its kind.
LEMMA KindIs ==
    ASSUME SInv
    PROVE  /\ op.kind = "idle" => op = Idle
           /\ op.kind = "store" => Storing
           /\ op.kind = "restore" => Restores(files, op)
           /\ op.kind \in {"idle", "store", "restore"}
<1>1. op = Idle => op.kind = "idle"
  BY DEF Idle
<1>2. Storing => op.kind = "store"
  BY DEF Storing
<1>3. Restores(files, op) => op.kind = "restore"
  <2>1. \A c, b, r, w, t : Job(c, b, r, w, t).kind = "restore"
    BY JobIs
  <2>2. QED
    BY ONLY <2>1, Zenon DEF Restores
<1>4. QED
  BY ONLY SInv, <1>1, <1>2, <1>3 DEF SInv

LEMMA SnapInit == ASSUME Init PROVE SInv
<1>1. GoodTree(files)
  BY DEF Init, GoodTree, IsMap
<1>2. Committed /\ Stock
  BY DEF Init, Committed, Stock
<1>3. QED
  BY <1>1, <1>2 DEF Init, SInv

\* No call in progress before and after, nothing else than the filesystem
\* changed.
LEMMA SnapUses ==
    ASSUME SInv, NEW m, GoodTree(m), Uses(m)
    PROVE  SInv'
<1>1. files' = m /\ op = Idle /\ op' = Idle /\ UNCHANGED <<objs, head>>
  BY DEF Uses
<1>2. GoodTree(files')
  BY <1>1
<1>3. Committed' /\ Stock'
  BY ONLY SInv, <1>1, Zenon DEF SInv, Committed, Stock, Running
<1>4. QED
  BY <1>1, <1>2, <1>3 DEF SInv

LEMMA SnapApp ==
    ASSUME SInv, NEW c \in Creds, NEW p \in Paths,
           \/ \E d \in Data : AppWrite(c, p, d)
           \/ AppMkdir(c, p) \/ AppDelete(c, p)
           \/ \E m \in Modes : AppChmod(c, p, m)
    PROVE  SInv'
<1>1. GoodTree(files)
  BY DEF SInv
<1>2. ASSUME NEW d \in Data, AppWrite(c, p, d) PROVE SInv'
  <2>1. GoodTree(M!Written(files, c, p, d, TRUE))
    BY <1>1, <1>2, WrittenIs DEF AppWrite
  <2>2. QED
    BY <1>2, <2>1, SnapUses DEF AppWrite
<1>3. CASE AppMkdir(c, p)
  <2>1. GoodTree(M!Made(files, c, p, TRUE))
    BY <1>1, <1>3, MadeIs DEF AppMkdir
  <2>2. QED
    BY <1>3, <2>1, SnapUses DEF AppMkdir
<1>4. CASE AppDelete(c, p)
  <2>1. GoodTree(M!Without(files, M!Below(files, p) \cup {p}))
    BY <1>1, <1>4, WithoutTree DEF AppDelete, M!CanRemove
  <2>2. QED
    BY <1>4, <2>1, SnapUses DEF AppDelete
<1>5. ASSUME NEW mode \in Modes, AppChmod(c, p, mode) PROVE SInv'
  <2>1. GoodTree([files EXCEPT ![p].mode = mode])
    BY <1>1, <1>5, ChmodTree DEF AppChmod
  <2>2. QED
    BY <1>5, <2>1, SnapUses DEF AppChmod
<1>6. QED
  BY <1>2, <1>3, <1>4, <1>5

LEMMA SnapCommitBegin ==
    ASSUME SInv, NEW c \in Users, CommitBegin(c)
    PROVE  SInv'
<1>1. /\ op = Idle /\ files' = files /\ objs' = objs /\ head' = head
      /\ op' = [kind |-> "store", root |-> SnapDir(files), need |-> Closure(SnapDir(files))]
  BY DEF CommitBegin
<1>2. GoodTree(files')
  BY <1>1 DEF SInv
<1>3. Committed'
  BY ONLY SInv, <1>1, Zenon DEF SInv, Committed
<1>4. Stock'
  <2>1. objs \subseteq Closure(head)
    BY <1>1, ClosureNone DEF SInv, Stock, Running, Idle
  <2>2. QED
    BY <1>1, <2>1 DEF Stock
<1>5. Storing'
  <2>1. SnapDir(files') = SnapDir(files)
    BY <1>1
  <2>2. PICK r : r = SnapDir(files)
    OBVIOUS
  <2>3. op' = [kind |-> "store", root |-> r, need |-> Closure(r)]
    BY ONLY <1>1, <2>2, Zenon
  <2>4. /\ op' = [kind |-> "store", root |-> r, need |-> op'.need]
        /\ op'.need = Closure(r) /\ op'.root = r
    BY ONLY <2>3
  <2>5. op' = [kind |-> "store", root |-> SnapDir(files'), need |-> op'.need]
    BY ONLY <2>1, <2>2, <2>4, Zenon
  <2>6. QED
    BY <2>4, <2>5 DEF Storing
<1>6. QED
  BY <1>2, <1>3, <1>4, <1>5 DEF SInv

LEMMA SnapPut ==
    ASSUME SInv, op.kind = "store", NEW o \in op.need, Put(o)
    PROVE  SInv'
<1>1. /\ objs' = objs \cup {o} /\ op' = [op EXCEPT !.need = @ \ {o}]
      /\ files' = files /\ head' = head
  BY DEF Put
<1>2. Storing /\ Stock /\ Committed /\ GoodTree(files)
  BY KindIs DEF SInv
<1>3. PICK r : r = SnapDir(files)
  OBVIOUS
<1>4. /\ op = [kind |-> "store", root |-> r, need |-> op.need]
      /\ op.need \subseteq Closure(r) /\ Closure(r) \ op.need \subseteq objs
  <2>1. op = [kind |-> "store", root |-> r, need |-> op.need]
    BY ONLY <1>2, <1>3, Zenon DEF Storing
  <2>2. op.root = r
    BY <2>1
  <2>3. QED
    BY ONLY <1>2, <2>1, <2>2, Zenon DEF Storing
<1>5. /\ op' = [kind |-> "store", root |-> r, need |-> op'.need]
      /\ op'.need = op.need \ {o} /\ op'.root = r /\ op'.kind = "store" /\ op.root = r
  BY ONLY <1>1, <1>4
<1>6. Storing'
  <2>1. r = SnapDir(files')
    BY ONLY <1>1, <1>3, Zenon
  <2>2. op' = [kind |-> "store", root |-> SnapDir(files'), need |-> op'.need]
    BY ONLY <1>5, <2>1, Zenon
  <2>3. QED
    BY <1>1, <1>4, <1>5, <2>2 DEF Storing
<1>7. Stock'
  BY <1>1, <1>2, <1>4, <1>5 DEF Stock, Running
<1>8. Committed' /\ GoodTree(files')
  BY ONLY <1>1, <1>2, Zenon DEF Committed
<1>9. QED
  BY <1>6, <1>7, <1>8 DEF SInv

LEMMA SnapStoreEnd ==
    ASSUME SInv, RefCommit \/ StoreFail
    PROVE  SInv'
<1>1. op.kind = "store" /\ op' = Idle /\ files' = files
  BY DEF RefCommit, StoreFail
<1>2. Storing /\ Stock /\ Committed /\ GoodTree(files)
  BY <1>1, KindIs DEF SInv
<1>3. Stock'
  BY DEF RefCommit, StoreFail, Stock
<1>4. Committed'
  <2>1. CASE RefCommit
    <3>1. PICK r : r = SnapDir(files)
      OBVIOUS
    <3>2. op = [kind |-> "store", root |-> r, need |-> op.need]
      BY ONLY <1>2, <3>1, Zenon DEF Storing
    <3>3. op.root = r
      BY <3>2
    <3>4. head' = SnapDir(files)
      BY ONLY <2>1, <3>1, <3>3, Zenon DEF RefCommit
    <3>5. QED
      BY <1>2, <3>4, Zenon DEF Committed
  <2>2. CASE StoreFail
    BY ONLY <1>2, <2>2, Zenon DEF StoreFail, Committed
  <2>3. QED
    BY <2>1, <2>2
<1>5. QED
  BY <1>1, <1>2, <1>3, <1>4 DEF SInv

\* The call in progress has ended, or an object is lost.
LEMMA SnapStops ==
    ASSUME SInv, op.kind # "store", files' = files, head' = head,
           objs' \subseteq objs, op' = op \/ op' = Idle
    PROVE  SInv'
<1>1. GoodTree(files')
  BY DEF SInv
<1>2. Committed'
  BY ONLY SInv, head' = head, Zenon DEF SInv, Committed
<1>3. Running = None /\ Running' = None
  BY DEF Running, Idle
<1>4. Stock'
  BY <1>3, ClosureNone DEF SInv, Stock
<1>5. op' = Idle \/ Restores(files', op')
  <2>1. op = Idle \/ Restores(files, op)
    BY KindIs
  <2>2. QED
    BY ONLY <2>1, files' = files, op' = op \/ op' = Idle, Zenon
<1>6. QED
  BY <1>1, <1>2, <1>4, <1>5 DEF SInv

\* A checkout goes on or has ended.
LEMMA SnapGoesOn ==
    ASSUME SInv, op.kind # "store", UNCHANGED <<objs, head>>, GoodTree(files'),
           op' = Idle \/ Restores(files', op')
    PROVE  SInv'
<1>1. Committed'
  BY ONLY SInv, UNCHANGED <<objs, head>>, Zenon DEF SInv, Committed
<1>2. Running = None /\ Running' = None
  <2>1. \A c, b, r, w, t : Job(c, b, r, w, t).kind = "restore"
    BY JobIs
  <2>2. op' = Idle \/ op'.kind = "restore"
    BY ONLY <2>1, op' = Idle \/ Restores(files', op'), Zenon DEF Restores
  <2>3. QED
    BY <2>2 DEF Running, Idle
<1>3. Stock'
  BY <1>2, ClosureNone DEF SInv, Stock
<1>4. QED
  BY <1>1, <1>3 DEF SInv

LEMMA SnapCheckout ==
    ASSUME SInv, NEW c \in Users, NEW base \in Bases, CheckoutBegin(c, base)
    PROVE  SInv'
<1>1. c \in Creds /\ base \in Paths /\ base \in Seq(Names)
  BY SnapAssumption, PathIs
<1>2. GoodTree(files) /\ op.kind # "store" /\ M!CanMkdir(files, base, TRUE)
  BY DEF SInv, CheckoutBegin, Idle
<1>3. PICK m : GoodTree(m) /\ head = SnapDir(m)
  BY DEF SInv, Committed, CheckoutBegin
<1> DEFINE rest == Job(c, base, head, files, <<>>)
           t == Visits(base, head) \o <<>>
<1>4. /\ files' = M!Made(files, c, base, TRUE)
      /\ op' = IF head \in objs THEN [rest EXCEPT !.todo = Visits(base, head) \o @] ELSE Idle
      /\ UNCHANGED <<objs, head>>
  BY ONLY CheckoutBegin(c, base), Zenon DEF CheckoutBegin, Enter, Job
<1>5. op' = Idle \/ op' = Job(c, base, head, files, t)
  <2>1. PICK V : V = Visits(base, head)
    OBVIOUS
  <2>2. PICK h : h = head
    OBVIOUS
  <2>3. PICK w : w = files
    OBVIOUS
  <2>4. [Job(c, base, h, w, <<>>) EXCEPT !.todo = V \o @] = Job(c, base, h, w, V \o <<>>)
    BY ONLY TRUE DEF Job
  <2>5. QED
    BY ONLY <1>4, <2>1, <2>2, <2>3, <2>4, Zenon
<1> HIDE DEF t, rest
<1>6. Placed(files', base, files, m, {Root})
  <2>1. Placed(M!Made(files, c, base, TRUE), base, files, m, {Root})
    BY <1>1, <1>2, <1>3, PlacedBegin
  <2>2. QED
    BY ONLY <1>4, <2>1, Zenon
<1>7. Pending(base, m, {Root}, t)
  <2>1. Pending(base, m, {Root}, Visits(base, SnapDir(m)) \o <<>>)
    BY <1>1, <1>3, PendingBegin
  <2>2. QED
    BY ONLY <1>3, <2>1, Zenon DEF t
<1>8. op' = Idle \/ Restores(files', op')
  BY ONLY <1>1, <1>3, <1>5, <1>6, <1>7, Zenon DEF Restores, RestoresAt
<1>9. GoodTree(files')
  BY <1>6 DEF Placed
<1>10. QED
  BY <1>2, <1>4, <1>8, <1>9, SnapGoesOn

\* What the next step of a checkout works on.
LEMMA NextIs ==
    ASSUME SInv, Restoring
    PROVE  \E c, b, m, w, D, t, q :
              /\ op = Job(c, b, SnapDir(m), w, t) /\ RestoresAt(files, c, b, m, w, D, t)
              /\ t # <<>> /\ q \in DOMAIN m /\ Parent(q) \in D /\ t[1] = Item(m, b, q)
              /\ Next1 = b \o q /\ Entry1 = EntryAt(m, q) /\ op.cred = c
              /\ Rest = Job(c, b, SnapDir(m), w, Tail(t))
<1>1. Restores(files, op)
  BY KindIs DEF Restoring
<1>2. PICK c, b, m, w, D, t :
          op = Job(c, b, SnapDir(m), w, t) /\ RestoresAt(files, c, b, m, w, D, t)
  BY <1>1 DEF Restores
<1>3. op.todo = t /\ op.cred = c
  BY <1>2, JobIs
<1>4. t # <<>>
  BY <1>3 DEF Restoring
<1>5. PICK q \in DOMAIN m : Parent(q) \in D /\ t[1] = Item(m, b, q)
  BY <1>2, <1>4, PendingFirst DEF RestoresAt
<1>6. Next1 = b \o q /\ Entry1 = EntryAt(m, q)
  <2>1. Next1 = t[1][1] /\ Entry1 = t[1][2]
    BY <1>3 DEF Next1, Entry1
  <2>2. QED
    BY <1>5, <2>1 DEF Item
<1>7. Rest = Job(c, b, SnapDir(m), w, Tail(t))
  <2>1. PICK r : r = SnapDir(m)
    OBVIOUS
  <2>2. op = Job(c, b, r, w, t)
    BY <1>2, <2>1
  <2>3. PICK y : y = Tail(t)
    OBVIOUS
  <2>4. Tail(op.todo) = y
    BY ONLY <1>3, <2>3, Zenon
  <2>5. [op EXCEPT !.todo = y] = Job(c, b, r, w, y)
    BY ONLY <2>2 DEF Job
  <2>6. [op EXCEPT !.todo = Tail(op.todo)] = Job(c, b, r, w, Tail(t))
    BY ONLY <2>3, <2>4, <2>5, Zenon
  <2>7. QED
    BY ONLY <2>1, <2>6, Zenon DEF Rest
<1>8. QED
  BY ONLY <1>2, <1>3, <1>4, <1>5, <1>6, <1>7, Zenon

LEMMA SnapRestoreFile ==
    ASSUME SInv, RestoreFile
    PROVE  SInv'
<1>1. /\ Restoring /\ Entry1.type = "file" /\ op' = Rest /\ UNCHANGED <<objs, head>>
      /\ Next1 \in Paths /\ M!CanWrite(files, op.cred, Next1, Entry1.hash[2], TRUE)
      /\ files' = M!Written(files, op.cred, Next1, Entry1.hash[2], TRUE)
  BY ONLY RestoreFile, Zenon DEF RestoreFile, CanRestoreFile
<1>2. PICK c, b, m, w, D, t, q :
          /\ op = Job(c, b, SnapDir(m), w, t) /\ RestoresAt(files, c, b, m, w, D, t)
          /\ t # <<>> /\ q \in DOMAIN m /\ Parent(q) \in D /\ t[1] = Item(m, b, q)
          /\ Next1 = b \o q /\ Entry1 = EntryAt(m, q) /\ op.cred = c
          /\ Rest = Job(c, b, SnapDir(m), w, Tail(t))
  BY <1>1, NextIs
<1>3. c \in Creds /\ Placed(files, b, w, m, D) /\ Pending(b, m, D, t) /\ GoodTree(m) /\ b \in Seq(Names)
  BY <1>2, PathIs DEF RestoresAt, Placed
<1>4. m[q].type = "file" /\ Entry1.hash[2] = m[q].data
  <2>1. m[q].type = "file" /\ Entry1.hash = Objects(m)[q]
    BY <1>1, <1>2, EntryAtIs
  <2>2. Objects(m)[q][2] = m[q].data
    BY <1>2, <1>3, <2>1, FileObject, TreeIs
  <2>3. QED
    BY ONLY <2>1, <2>2, Zenon
<1>5. /\ b \o q \in Paths /\ M!CanWrite(files, c, b \o q, m[q].data, TRUE)
      /\ files' = M!Written(files, c, b \o q, m[q].data, TRUE)
  BY ONLY <1>1, <1>2, <1>4, Zenon
<1>6. Placed(files', b, w, m, D \cup {q})
  <2>1. Placed(M!Written(files, c, b \o q, m[q].data, TRUE), b, w, m, D \cup {q})
    BY <1>2, <1>3, <1>4, <1>5, PutFile
  <2>2. QED
    BY ONLY <1>5, <2>1, Zenon
<1>7. Pending(b, m, D \cup {q}, Tail(t))
  BY <1>2, <1>3, <1>4, PendingFile
<1>8. Restores(files', op')
  BY ONLY <1>1, <1>2, <1>3, <1>6, <1>7, Zenon DEF Restores, RestoresAt
<1>9. op.kind # "store" /\ GoodTree(files')
  BY <1>1, <1>6 DEF Restoring, Placed
<1>10. QED
  BY <1>1, <1>8, <1>9, SnapGoesOn

LEMMA SnapRestoreDir ==
    ASSUME SInv, RestoreDir
    PROVE  SInv'
<1>1. /\ Restoring /\ Entry1.type = "dir" /\ UNCHANGED <<objs, head>>
      /\ Next1 \in Paths /\ M!CanMkdir(files, Next1, TRUE)
      /\ files' = M!Made(files, op.cred, Next1, TRUE)
      /\ op' = IF Entry1.hash \in objs
               THEN [Rest EXCEPT !.todo = Visits(Next1, Entry1.hash) \o @] ELSE Idle
  BY ONLY RestoreDir, Zenon DEF RestoreDir, CanRestoreDir, Enter
<1>2. PICK c, b, m, w, D, t, q :
          /\ op = Job(c, b, SnapDir(m), w, t) /\ RestoresAt(files, c, b, m, w, D, t)
          /\ t # <<>> /\ q \in DOMAIN m /\ Parent(q) \in D /\ t[1] = Item(m, b, q)
          /\ Next1 = b \o q /\ Entry1 = EntryAt(m, q) /\ op.cred = c
          /\ Rest = Job(c, b, SnapDir(m), w, Tail(t))
  BY <1>1, NextIs
<1>3. c \in Creds /\ Placed(files, b, w, m, D) /\ Pending(b, m, D, t) /\ GoodTree(m) /\ b \in Seq(Names)
  BY <1>2, PathIs DEF RestoresAt, Placed
<1>4. m[q].type = "dir" /\ Entry1.hash = Objects(m)[q]
  BY <1>1, <1>2, EntryAtIs
<1>5. /\ b \o q \in Paths /\ M!CanMkdir(files, b \o q, TRUE)
      /\ files' = M!Made(files, c, b \o q, TRUE)
  BY ONLY <1>1, <1>2, Zenon
<1>6. Placed(files', b, w, m, D \cup {q})
  <2>1. Placed(M!Made(files, c, b \o q, TRUE), b, w, m, D \cup {q})
    BY <1>2, <1>3, <1>4, <1>5, PutDir
  <2>2. QED
    BY ONLY <1>5, <2>1, Zenon
<1> DEFINE s == Visits(b \o q, Objects(m)[q]) \o Tail(t)
<1>7. Pending(b, m, D \cup {q}, s)
  BY <1>2, <1>3, <1>4, PendingDir
<1>8. op' = Idle \/ op' = Job(c, b, SnapDir(m), w, s)
  <2>1. PICK r : r = SnapDir(m)
    OBVIOUS
  <2>2. PICK y : y = Tail(t)
    OBVIOUS
  <2>3. PICK V : V = Visits(b \o q, Objects(m)[q])
    OBVIOUS
  <2>4. V = Visits(Next1, Entry1.hash) /\ Rest = Job(c, b, r, w, y)
    BY ONLY <1>2, <1>4, <2>1, <2>2, <2>3, Zenon
  <2>5. [Rest EXCEPT !.todo = V \o @] = Job(c, b, r, w, V \o y)
    <3>1. PICK z : z = V \o y
      OBVIOUS
    <3>2. Rest.todo = y
      BY ONLY <2>4 DEF Job
    <3>3. V \o Rest.todo = z
      BY ONLY <3>1, <3>2, Zenon
    <3>4. [Rest EXCEPT !.todo = z] = Job(c, b, r, w, z)
      BY ONLY <2>4 DEF Job
    <3>5. [Rest EXCEPT !.todo = V \o Rest.todo] = Job(c, b, r, w, z)
      BY ONLY <3>3, <3>4, Zenon
    <3>6. QED
      BY ONLY <3>1, <3>5, Zenon
  <2>6. op' = Idle \/ op' = Job(c, b, r, w, V \o y)
    BY ONLY <1>1, <2>4, <2>5, Zenon
  <2>7. QED
    BY ONLY <2>1, <2>2, <2>3, <2>6, Zenon
<1> HIDE DEF s
<1>9. op' = Idle \/ Restores(files', op')
  BY ONLY <1>3, <1>6, <1>7, <1>8, Zenon DEF Restores, RestoresAt
<1>10. op.kind # "store" /\ GoodTree(files')
  BY <1>1, <1>6 DEF Restoring, Placed
<1>11. QED
  BY <1>1, <1>9, <1>10, SnapGoesOn

LEMMA SnapStep == SInv /\ [Next]_vars => SInv'
<1> SUFFICES ASSUME SInv, [Next]_vars PROVE SInv'
  OBVIOUS
<1>1. ASSUME NEW c \in Creds, NEW p \in Paths,
             \/ \E d \in Data : AppWrite(c, p, d)
             \/ AppMkdir(c, p) \/ AppDelete(c, p)
             \/ \E m \in Modes : AppChmod(c, p, m)
      PROVE  SInv'
  BY <1>1, SnapApp
<1>2. ASSUME NEW c \in Users, CommitBegin(c) PROVE SInv'
  BY <1>2, SnapCommitBegin
<1>3. ASSUME NEW c \in Users, NEW base \in Bases, CheckoutBegin(c, base) PROVE SInv'
  BY <1>3, SnapCheckout
<1>4. ASSUME NEW o, PutBlob(o) \/ PutTree(o) PROVE SInv'
  BY <1>4, SnapPut DEF PutBlob, PutTree
<1>5. CASE RefCommit \/ StoreFail
  BY <1>5, SnapStoreEnd
<1>6. CASE RestoreFile
  BY <1>6, SnapRestoreFile
<1>7. CASE RestoreDir
  BY <1>7, SnapRestoreDir
<1>8. CASE RestoreFail \/ RestoreDone
  BY <1>8, SnapStops DEF RestoreFail, RestoreDone, Restoring
<1>9. ASSUME NEW o \in objs, Damage(o) PROVE SInv'
  BY <1>9, SnapStops DEF Damage
<1>10. CASE UNCHANGED vars
  BY ONLY SInv, <1>10, Zenon
     DEF SInv, Committed, Stock, Running, Storing, vars
<1>11. QED
  <2>1. CASE Next
    BY ONLY <2>1, <1>1, <1>2, <1>3, <1>4, <1>5, <1>6, <1>7, <1>8, <1>9, Zenon DEF Next
  <2>2. QED
    BY <2>1, <1>10

LEMMA SnapInvariant == Spec => []SInv
<1>1. Init => SInv
  BY SnapInit
<1>2. SInv /\ [Next]_vars => SInv'
  BY SnapStep
<1>3. QED
  BY <1>1, <1>2, PTL DEF Spec

-----------------------------------------------------------------------------
(* The theorems.                                                           *)

LEMMA SnapTypes == ASSUME SInv PROVE TypeOK
<1>1. DOMAIN files \subseteq Paths \ {Root}
  BY DEF SInv, GoodTree
<1>2. objs \subseteq Closure(head) \cup Closure(IF op.kind = "store" THEN op.root ELSE None)
  BY DEF SInv, Stock, Running
<1>3. ASSUME op.kind = "restore", NEW i \in DOMAIN op.todo
      PROVE  op.todo[i][2].hash \in Closure(op.root)
  <2>1. PICK c, b, m, w, D, t :
            op = Job(c, b, SnapDir(m), w, t) /\ RestoresAt(files, c, b, m, w, D, t)
    BY <1>3, KindIs DEF Restores
  <2>2. op.todo = t /\ op.root = SnapDir(m)
    BY <2>1, JobIs
  <2>3. PICK W : W = Waiting(m, b, D)
    OBVIOUS
  <2>4. t \in Seq(W) /\ i \in DOMAIN t /\ GoodTree(m)
    BY ONLY <1>3, <2>1, <2>2, <2>3, Zenon DEF RestoresAt, Pending, Placed
  <2>5. t[i] \in W
    BY ONLY <2>4
  <2>6. PICK q \in DOMAIN m : t[i] = Item(m, b, q)
    BY ONLY <2>3, <2>5, Zenon DEF Waiting
  <2>7. t[i][2].hash = Objects(m)[q]
    <3>1. t[i][2] = EntryAt(m, q)
      BY <2>6 DEF Item
    <3>2. QED
      BY ONLY <3>1, EntryAtIs, Zenon
  <2>8. Objects(m)[q] \in Closure(SnapDir(m))
    BY <2>4, ClosureClosed DEF Nodes
  <2>9. QED
    BY ONLY <2>2, <2>7, <2>8, Zenon
<1>4. QED
  BY <1>1, <1>2, <1>3, KindIs DEF TypeOK

\* Valid paths only; the depot holds nothing but the objects of the committed
\* tree and of the one being stored; and a checkout visits entries of the
\* tree it restores and no others.
THEOREM SnapTypeOK == Spec => []TypeOK
BY SnapInvariant, SnapTypes, PTL

\* What a commit publishes is complete in the depot and is the filesystem,
\* whatever the tree: snap_dir puts an object after all below it.
THEOREM SnapCommittedWhole == Spec => CommittedWhole
<1>1. ASSUME SInv, [Next]_vars, head' # head
      PROVE  Closure(head') \subseteq objs' /\ Flat(head') = Contents(files)
  <2>1. RefCommit
    BY ONLY <1>1, Zenon
       DEF Next, vars, AppWrite, AppMkdir, AppDelete, AppChmod, Uses, CommitBegin,
           CheckoutBegin, Enter, PutBlob, PutTree, Put, StoreFail, RestoreFile, RestoreDir,
           RestoreFail, RestoreDone, Damage
  <2>2. Storing /\ GoodTree(files)
    BY <1>1, <2>1, KindIs DEF RefCommit, SInv
  <2>3. PICK r : r = SnapDir(files)
    OBVIOUS
  <2>4. op = [kind |-> "store", root |-> r, need |-> op.need]
    BY ONLY <2>2, <2>3, Zenon DEF Storing
  <2>5. op.root = r /\ head' = op.root
    BY <2>1, <2>4 DEF RefCommit
  <2>6. Closure(op.root) \subseteq objs /\ objs' = objs \cap Closure(op.root)
    BY <2>1, <2>2 DEF RefCommit, Storing
  <2>7. Closure(head') \subseteq objs'
    BY <2>5, <2>6
  <2>8. Flat(SnapDir(files)) = Contents(files)
    BY <2>2, FlatIs
  <2>9. Flat(head') = Contents(files)
    BY ONLY <2>3, <2>5, <2>8, Zenon
  <2>10. QED
    BY <2>7, <2>9
<1>2. SInv /\ [Next]_vars =>
         [head' # head => /\ Closure(head') \subseteq objs'
                          /\ Flat(head') = Contents(files)]_vars
  BY <1>1
<1>3. QED
  BY <1>2, SnapInvariant, PTL DEF Spec, CommittedWhole

\* What a checkout has done so far, in the words of the property.
Adds(f, w, b, m, p) ==
    LET q == SubSeq(p, Len(b) + 1, Len(p)) IN
    \/ p \in DOMAIN w /\ f[p] = w[p]
    \/ p \notin DOMAIN w /\ (p = b \/ Under(p, b))
    \/ /\ Under(b, p) /\ q \in DOMAIN Contents(m)
       /\ Contents(f)[p] = Contents(m)[q]
       /\ p \in DOMAIN w => f[p] = [w[p] EXCEPT !.data = Contents(m)[q].data]

LEMMA AddsIs ==
    ASSUME NEW f, NEW w, NEW b \in Seq(Names), NEW m, GoodTree(m), OnlyAdds(f, w, b, m),
           NEW p \in DOMAIN f
    PROVE  Adds(f, w, b, m, p)
<1>1. Added(f, w, b, m, p)
  BY DEF OnlyAdds
<1>2. CASE \E q \in DOMAIN m :
              /\ p = b \o q /\ f[p].type = m[q].type /\ f[p].data = m[q].data
              /\ p \in DOMAIN w => f[p] = [w[p] EXCEPT !.data = m[q].data]
  <2>1. PICK q \in DOMAIN m :
              /\ p = b \o q /\ f[p].type = m[q].type /\ f[p].data = m[q].data
              /\ p \in DOMAIN w => f[p] = [w[p] EXCEPT !.data = m[q].data]
    BY <1>2
  <2>2. q \in Seq(Names) /\ q # Root
    BY TreeIs
  <2>3. Under(b, b \o q) /\ SubSeq(b \o q, Len(b) + 1, Len(b \o q)) = q
    BY <2>2, LandsIs
  <2>4. Under(b, p) /\ SubSeq(p, Len(b) + 1, Len(p)) = q
    BY ONLY <2>1, <2>3, Zenon
  <2>5. /\ q \in DOMAIN Contents(m) /\ Contents(f)[p] = Contents(m)[q]
        /\ Contents(m)[q].data = m[q].data
    BY <2>1 DEF Contents
  <2>6. QED
    BY ONLY <2>1, <2>4, <2>5, Zenon DEF Adds
<1>3. QED
  BY ONLY <1>1, <1>2, Zenon DEF Added, Adds

\* At every moment of a checkout, and so wherever it fails: nothing is
\* removed, what was there keeps its kind, mode and owner, and what differs is
\* in the snapshot or above the base it is restored under.
THEOREM SnapRestoreOnlyAdds == Spec => []RestoreOnlyAdds
<1>1. ASSUME SInv PROVE RestoreOnlyAdds
  <2>1. SUFFICES ASSUME op.kind = "restore" PROVE RestoreOnlyAdds
    BY DEF RestoreOnlyAdds
  <2>2. PICK c, b, m, w, D, t :
            op = Job(c, b, SnapDir(m), w, t) /\ RestoresAt(files, c, b, m, w, D, t)
    BY <1>1, <2>1, KindIs DEF Restores
  <2>3. op.base = b /\ op.before = w /\ op.root = SnapDir(m)
    BY <2>2, JobIs
  <2>4. GoodTree(m) /\ b \in Seq(Names) /\ OnlyAdds(files, w, b, m)
    BY <2>2, PathIs DEF RestoresAt, Placed
  <2>5. Flat(op.root) = Contents(m)
    BY <2>3, <2>4, FlatIs
  <2>6. DOMAIN w \subseteq DOMAIN files
    BY <2>4 DEF OnlyAdds
  <2>7. \A p \in DOMAIN files : Adds(files, w, b, m, p)
    BY <2>4, AddsIs
  <2>8. QED
    BY ONLY <2>3, <2>5, <2>6, <2>7, Zenon DEF RestoreOnlyAdds, Adds
<1>2. QED
  BY <1>1, SnapInvariant, PTL

-----------------------------------------------------------------------------
(* cas_tree_fsck_root.                                                     *)

MetNext(S) == S \cup UNION {Kids(x) : x \in S \cap objs}

\* The objects met from root on, level by level.
IsMet(f, root, N) ==
    f = [k \in 0..N |-> IF k = 0 THEN {root} ELSE MetNext(f[k - 1])]

LEMMA MetExist == \A root : \A N \in Nat : \E f : IsMet(f, root, N)
<1> SUFFICES ASSUME NEW root PROVE \A N \in Nat : \E f : IsMet(f, root, N)
  OBVIOUS
<1> DEFINE G == {N \in Nat : \E f : IsMet(f, root, N)}
           At(f, i) == IF i = 0 THEN {root} ELSE MetNext(f[i - 1])
<1>1. 0 \in G
  <2> DEFINE f == [i \in 0..0 |-> {root}]
  <2>1. \A i \in 0..0 : f[i] = At(f, i)
    OBVIOUS
  <2>2. f = [i \in 0..0 |-> f[i]]
    OBVIOUS
  <2> HIDE DEF f
  <2>3. IsMet(f, root, 0)
    BY ONLY <2>1, <2>2, Zenon DEF IsMet
  <2>4. QED
    BY <2>3
<1>2. ASSUME NEW N \in Nat, N \in G PROVE N + 1 \in G
  <2>1. PICK f : IsMet(f, root, N)
    BY <1>2
  <2> DEFINE g == [i \in 0..(N + 1) |-> IF i <= N THEN f[i] ELSE MetNext(f[i - 1])]
  <2>2. \A i \in 0..N : f[i] = At(f, i)
    BY ONLY <2>1, Zenon DEF IsMet
  <2>3. ASSUME NEW i \in 0..(N + 1) PROVE g[i] = At(g, i)
    <3>1. CASE i = 0
      BY <2>2, <3>1
    <3>2. CASE i # 0
      <4>1. i - 1 \in 0..N /\ g[i - 1] = f[i - 1]
        BY <3>2
      <4>2. g[i] = MetNext(f[i - 1])
        BY <2>2, <3>2
      <4>3. QED
        BY <3>2, <4>1, <4>2
    <3>3. QED
      BY <3>1, <3>2
  <2>4. g = [i \in 0..(N + 1) |-> g[i]]
    OBVIOUS
  <2> HIDE DEF g
  <2>5. \A i \in 0..(N + 1) : g[i] = At(g, i)
    BY <2>3
  <2>6. IsMet(g, root, N + 1)
    BY ONLY <2>4, <2>5, Zenon DEF IsMet
  <2>7. QED
    BY <2>6
<1> HIDE DEF G
<1>3. \A N \in Nat : N \in G
  BY <1>1, <1>2, NatSetInduction
<1>4. QED
  BY <1>3 DEF G

LEMMA TreeFsckIs ==
    \A root : \E f : /\ TreeFsck(root) = f[PathMax] \ objs /\ f[0] = {root}
                     /\ \A k \in 1..PathMax : f[k] = MetNext(f[k - 1])
<1> SUFFICES ASSUME NEW root
             PROVE  \E f : /\ TreeFsck(root) = f[PathMax] \ objs /\ f[0] = {root}
                           /\ \A k \in 1..PathMax : f[k] = MetNext(f[k - 1])
  OBVIOUS
<1> DEFINE f == CHOOSE x : IsMet(x, root, PathMax)
<1>1. IsMet(f, root, PathMax)
  <2>1. \E x : IsMet(x, root, PathMax)
    BY MetExist, DataAssumption
  <2>2. QED
    BY ONLY <2>1, Zenon
<1>2. TreeFsck(root) = f[PathMax] \ objs
  BY ONLY TRUE, Zenon DEF TreeFsck, IsMet, MetNext
<1> HIDE DEF f
<1>3. \A k \in 0..PathMax : f[k] = IF k = 0 THEN {root} ELSE MetNext(f[k - 1])
  BY ONLY <1>1, Zenon DEF IsMet
<1>4. f[0] = {root} /\ \A k \in 1..PathMax : f[k] = MetNext(f[k - 1])
  BY <1>3, DataAssumption
<1>5. QED
  BY <1>2, <1>4

\* Nothing is met but what belongs to the tree.
LEMMA MetInTree ==
    ASSUME NEW C, NEW root \in C, \A o \in C : Kids(o) \subseteq C,
           NEW f, f[0] = {root}, \A k \in 1..PathMax : f[k] = MetNext(f[k - 1])
    PROVE  f[PathMax] \subseteq C
<1> DEFINE G == {k \in Nat : k <= PathMax => f[k] \subseteq C}
<1>1. 0 \in G
  OBVIOUS
<1>2. ASSUME NEW k \in Nat, k \in G PROVE k + 1 \in G
  <2>1. SUFFICES ASSUME k + 1 <= PathMax PROVE f[k + 1] \subseteq C
    OBVIOUS
  <2>2. f[k] \subseteq C
    BY <1>2, <2>1, DataAssumption
  <2>3. k + 1 \in 1..PathMax /\ (k + 1) - 1 = k
    BY <2>1, DataAssumption
  <2>4. f[k + 1] = MetNext(f[k])
    BY <2>3
  <2>5. MetNext(f[k]) \subseteq C
    BY <2>2 DEF MetNext
  <2>6. QED
    BY <2>4, <2>5
<1> HIDE DEF G
<1>3. PathMax \in G
  BY <1>1, <1>2, NatSetInduction, DataAssumption
<1>4. QED
  BY <1>3, DataAssumption DEF G

\* As long as all that is met is there, the whole tree is.
LEMMA MetWhole ==
    ASSUME NEW m, GoodTree(m), NEW f, f[0] = {SnapDir(m)},
           \A k \in 1..PathMax : f[k] = MetNext(f[k - 1]),
           f[PathMax] \subseteq objs
    PROVE  Closure(SnapDir(m)) \subseteq objs
<1>1. PathMax \in Nat \ {0}
  BY DataAssumption
<1>2. \A k \in Nat : k <= PathMax => f[PathMax - k] \subseteq objs
  <2> DEFINE H == {k \in Nat : k <= PathMax => f[PathMax - k] \subseteq objs}
  <2>1. 0 \in H
    BY <1>1
  <2>2. ASSUME NEW k \in Nat, k \in H PROVE k + 1 \in H
    <3>1. SUFFICES ASSUME k + 1 <= PathMax PROVE f[PathMax - (k + 1)] \subseteq objs
      OBVIOUS
    <3>2. /\ PathMax - k \in 1..PathMax /\ (PathMax - k) - 1 = PathMax - (k + 1)
          /\ f[PathMax - k] \subseteq objs
      BY <1>1, <2>2, <3>1
    <3>3. f[PathMax - k] = MetNext(f[PathMax - (k + 1)])
      BY <3>2
    <3>4. QED
      BY <3>2, <3>3 DEF MetNext
  <2> HIDE DEF H
  <2>3. \A k \in Nat : k \in H
    BY <2>1, <2>2, NatSetInduction
  <2>4. QED
    BY <2>3 DEF H
<1>3. ASSUME NEW k \in 0..PathMax PROVE f[k] \subseteq objs
  <2>1. PathMax - k \in Nat /\ PathMax - k <= PathMax /\ PathMax - (PathMax - k) = k
    BY <1>1
  <2>2. QED
    BY <1>2, <2>1
<1> DEFINE G == {k \in Nat : k <= PathMax => \A p \in Upto(m, k) : Objects(m)[p] \in f[k]}
<1>4. 0 \in G
  <2>1. \A p \in Upto(m, 0) : p = Root
    BY UptoIs
  <2>2. Objects(m)[Root] = SnapDir(m)
    BY SnapDirIs, Zenon
  <2>3. QED
    BY <2>1, <2>2
<1>5. ASSUME NEW k \in Nat, k \in G PROVE k + 1 \in G
  <2>1. SUFFICES ASSUME k + 1 <= PathMax, NEW p \in Upto(m, k + 1)
                 PROVE  Objects(m)[p] \in f[k + 1]
    OBVIOUS
  <2>2. k + 1 \in 1..PathMax /\ (k + 1) - 1 = k /\ k \in 0..PathMax
    BY <1>1, <2>1
  <2>3. f[k + 1] = MetNext(f[k]) /\ f[k] \subseteq objs
    BY <1>3, <2>2
  <2>4. \A q \in Upto(m, k) : Objects(m)[q] \in f[k]
    BY <1>5, <2>2
  <2>5. p = Root \/ (p \in DOMAIN m /\ Parent(p) \in Upto(m, k))
    <3>1. p = Root \/ (p \in DOMAIN m /\ Parent(p) \in Upto(m, (k + 1) - 1))
      BY <2>2, UptoIs
    <3>2. QED
      BY ONLY <2>2, <3>1, Zenon
  <2>6. CASE p = Root
    <3>1. Root \in Upto(m, k)
      BY <1>1 DEF Upto, Root
    <3>2. Objects(m)[p] \in f[k]
      BY <2>4, <2>6, <3>1
    <3>3. QED
      BY <2>3, <3>2 DEF MetNext
  <2>7. CASE p \in DOMAIN m /\ Parent(p) \in Upto(m, k)
    <3>1. PICK x : x = Objects(m)[Parent(p)]
      OBVIOUS
    <3>2. x \in f[k] /\ x \in objs
      BY <2>3, <2>4, <2>7, <3>1
    <3>3. Parent(p) \in Nodes(m) /\ p \in Children(m, Parent(p))
      BY <2>7, TreeIs DEF Nodes
    <3>4. Kids(Objects(m)[Parent(p)]) = {Objects(m)[q] : q \in Children(m, Parent(p))}
      BY <3>3, KidsIs
    <3>5. Objects(m)[p] \in Kids(x)
      BY ONLY <3>1, <3>3, <3>4, Zenon
    <3>6. QED
      BY <2>3, <3>2, <3>5 DEF MetNext
  <2>8. QED
    BY <2>5, <2>6, <2>7
<1> HIDE DEF G
<1>6. \A k \in Nat : k \in G
  BY <1>4, <1>5, NatSetInduction
<1>7. \A p \in Nodes(m) : Objects(m)[p] \in f[PathMax]
  <2>1. PathMax \in G
    BY <1>1, <1>6
  <2>2. \A p \in Upto(m, PathMax) : Objects(m)[p] \in f[PathMax]
    BY <1>1, <2>1 DEF G
  <2>3. Upto(m, PathMax) = Nodes(m)
    BY UptoIs
  <2>4. QED
    BY ONLY <2>2, <2>3, Zenon
<1>8. Closure(SnapDir(m)) = {Objects(m)[p] : p \in Nodes(m)}
  BY ClosureIs
<1>9. QED
  BY <1>7, <1>8

\* cas_tree_fsck_root finds something missing exactly when the tree has lost
\* an object, however deep.
THEOREM SnapTreeFsckFinds == Spec => []TreeFsckFinds
<1>1. ASSUME SInv PROVE TreeFsckFinds
  <2>1. SUFFICES ASSUME head # None
                 PROVE  TreeFsck(head) = {} <=> Closure(head) \subseteq objs
    BY DEF TreeFsckFinds
  <2>2. PICK m : GoodTree(m) /\ head = SnapDir(m)
    BY <1>1, <2>1 DEF SInv, Committed
  <2>3. PICK f : /\ TreeFsck(head) = f[PathMax] \ objs /\ f[0] = {head}
                 /\ \A k \in 1..PathMax : f[k] = MetNext(f[k - 1])
    BY TreeFsckIs
  <2>4. CASE f[PathMax] \subseteq objs
    <3>1. Closure(SnapDir(m)) \subseteq objs
      BY <2>2, <2>3, <2>4, MetWhole
    <3>2. QED
      BY <2>2, <2>3, <2>4, <3>1
  <2>5. CASE Closure(head) \subseteq objs
    <3>1. PICK C : C = Closure(head)
      OBVIOUS
    <3>2. Closure(SnapDir(m)) = {Objects(m)[p] : p \in Nodes(m)}
      BY <2>2, ClosureIs
    <3>3. \A p \in Nodes(m) : /\ Objects(m)[p] \in Closure(SnapDir(m))
                              /\ Kids(Objects(m)[p]) \subseteq Closure(SnapDir(m))
      BY <2>2, ClosureClosed
    <3>4. Root \in Nodes(m) /\ head = Objects(m)[Root]
      BY <2>2, SnapDirIs, Zenon DEF Nodes
    <3>5. head \in C /\ \A o \in C : Kids(o) \subseteq C
      BY ONLY <2>2, <3>1, <3>2, <3>3, <3>4, Zenon
    <3>6. f[PathMax] \subseteq C
      BY <2>3, <3>5, MetInTree
    <3>7. QED
      BY <2>3, <2>5, <3>1, <3>6
  <2>6. CASE ~ (f[PathMax] \subseteq objs) /\ ~ (Closure(head) \subseteq objs)
    BY <2>3, <2>6
  <2>7. QED
    BY <2>4, <2>5, <2>6
<1>2. QED
  BY <1>1, SnapInvariant, PTL

-----------------------------------------------------------------------------
(* tree_resolve.                                                           *)

\* The first k components of a path.
LEMMA PrefixIs ==
    ASSUME NEW p \in Seq(Names)
    PROVE  /\ SubSeq(p, 1, 0) = Root /\ SubSeq(p, 1, Len(p)) = p
           /\ \A k \in 0..Len(p) : SubSeq(p, 1, k) \in Seq(Names) /\ Len(SubSeq(p, 1, k)) = k
           /\ \A k \in 1..Len(p) :
                 /\ SubSeq(p, 1, k) = Append(SubSeq(p, 1, k - 1), p[k]) /\ p[k] \in Names
                 /\ Parent(SubSeq(p, 1, k)) = SubSeq(p, 1, k - 1)
                 /\ SubSeq(p, 1, k) # Root
<1>1. SubSeq(p, 1, 0) = Root
  BY DEF Root
<1>2. SubSeq(p, 1, Len(p)) = p
  <2>1. PICK q : q = SubSeq(p, 1, Len(p))
    OBVIOUS
  <2>2. q \in Seq(Names) /\ Len(q) = Len(p) /\ \A i \in 1..Len(p) : q[i] = p[i]
    BY <2>1
  <2>3. q = p
    BY <2>2, SeqEqual
  <2>4. QED
    BY <2>1, <2>3
<1>3. \A k \in 0..Len(p) : SubSeq(p, 1, k) \in Seq(Names) /\ Len(SubSeq(p, 1, k)) = k
  OBVIOUS
<1>4. ASSUME NEW k \in 1..Len(p)
      PROVE  /\ SubSeq(p, 1, k) = Append(SubSeq(p, 1, k - 1), p[k]) /\ p[k] \in Names
             /\ Parent(SubSeq(p, 1, k)) = SubSeq(p, 1, k - 1)
             /\ SubSeq(p, 1, k) # Root
  <2>1. PICK q : q = SubSeq(p, 1, k)
    OBVIOUS
  <2>2. PICK r : r = SubSeq(p, 1, k - 1)
    OBVIOUS
  <2>3. q \in Seq(Names) /\ Len(q) = k /\ \A i \in 1..k : q[i] = p[i]
    BY <2>1
  <2>4. r \in Seq(Names) /\ Len(r) = k - 1 /\ \A i \in 1..(k - 1) : r[i] = p[i]
    BY <2>2
  <2>5. PICK n : n = p[k]
    OBVIOUS
  <2>6. n \in Names
    BY <2>5
  <2>7. PICK x : x = Append(r, n)
    OBVIOUS
  <2>8. x \in Seq(Names) /\ Len(x) = k /\ \A i \in 1..k : x[i] = p[i]
    <3>1. x \in Seq(Names) /\ Len(x) = k
      BY <2>4, <2>6, <2>7
    <3>2. x[k] = n /\ \A i \in 1..(k - 1) : x[i] = r[i]
      BY <2>4, <2>6, <2>7
    <3>3. QED
      BY <2>4, <2>5, <3>1, <3>2
  <2>9. q = x
    BY <2>3, <2>8, SeqEqual
  <2>10. Parent(x) = r /\ x # Root
    BY <2>4, <2>6, <2>7, AppendIs
  <2>11. QED
    BY ONLY <2>1, <2>2, <2>5, <2>6, <2>7, <2>9, <2>10, Zenon
<1>5. QED
  BY <1>1, <1>2, <1>3, <1>4

\* Everything above a node is there.
LEMMA PrefixThere ==
    ASSUME NEW m, GoodTree(m), NEW p \in Nodes(m), NEW k \in 0..Len(p)
    PROVE  SubSeq(p, 1, k) \in Nodes(m)
<1>1. p \in Paths /\ p \in Seq(Names) /\ Len(p) \in Nat
  BY TreeIs, PathIs DEF Nodes
<1>2. CASE k = 0 \/ k = Len(p)
  BY <1>1, <1>2, PrefixIs DEF Nodes
<1>3. CASE k \in 1..(Len(p) - 1)
  <2>1. p # Root
    BY <1>1, <1>3 DEF Root
  <2>2. Parent(p) \in Nodes(m)
    BY <2>1, TreeIs DEF Nodes
  <2>3. M!Missing(m, p) = {}
    BY <1>1, <2>1, <2>2, AncestorsThere
  <2>4. SubSeq(p, 1, k) \in DOMAIN m
    BY <1>3, <2>3 DEF M!Missing, M!Ancestors
  <2>5. QED
    BY <2>4 DEF Nodes
<1>4. QED
  BY <1>1, <1>2, <1>3

TreeError(w) == [type |-> "error", why |-> w]
RootEntry(root) == [type |-> "dir", hash |-> root]

\* One component further from entry e.
FoundNext(e, n) ==
    IF e.type = "error" THEN e
    ELSE IF e.type = "file" THEN TreeError("CAS_ETYPE")
    ELSE IF e.hash \notin objs \/ n \notin DOMAIN Entries(e.hash) THEN TreeError("CAS_ENOTFOUND")
    ELSE Entries(e.hash)[n]

IsFound(f, root, p, N) ==
    f = [k \in 0..N |-> IF k = 0 THEN RootEntry(root) ELSE FoundNext(f[k - 1], p[k])]

LEMMA FoundExist == \A root, p : \A N \in Nat : \E f : IsFound(f, root, p, N)
<1> SUFFICES ASSUME NEW root, NEW p PROVE \A N \in Nat : \E f : IsFound(f, root, p, N)
  OBVIOUS
<1> DEFINE G == {N \in Nat : \E f : IsFound(f, root, p, N)}
           At(f, i) == IF i = 0 THEN RootEntry(root) ELSE FoundNext(f[i - 1], p[i])
<1>1. 0 \in G
  <2> DEFINE f == [i \in 0..0 |-> RootEntry(root)]
  <2>1. \A i \in 0..0 : f[i] = At(f, i)
    OBVIOUS
  <2>2. f = [i \in 0..0 |-> f[i]]
    OBVIOUS
  <2> HIDE DEF f
  <2>3. IsFound(f, root, p, 0)
    BY ONLY <2>1, <2>2, Zenon DEF IsFound
  <2>4. QED
    BY <2>3
<1>2. ASSUME NEW N \in Nat, N \in G PROVE N + 1 \in G
  <2>1. PICK f : IsFound(f, root, p, N)
    BY <1>2
  <2> DEFINE g == [i \in 0..(N + 1) |-> IF i <= N THEN f[i] ELSE FoundNext(f[i - 1], p[i])]
  <2>2. \A i \in 0..N : f[i] = At(f, i)
    BY ONLY <2>1, Zenon DEF IsFound
  <2>3. ASSUME NEW i \in 0..(N + 1) PROVE g[i] = At(g, i)
    <3>1. CASE i = 0
      BY <2>2, <3>1
    <3>2. CASE i # 0
      <4>1. i - 1 \in 0..N /\ g[i - 1] = f[i - 1]
        BY <3>2
      <4>2. g[i] = FoundNext(f[i - 1], p[i])
        BY <2>2, <3>2
      <4>3. QED
        BY <3>2, <4>1, <4>2
    <3>3. QED
      BY <3>1, <3>2
  <2>4. g = [i \in 0..(N + 1) |-> g[i]]
    OBVIOUS
  <2> HIDE DEF g
  <2>5. \A i \in 0..(N + 1) : g[i] = At(g, i)
    BY <2>3
  <2>6. IsFound(g, root, p, N + 1)
    BY ONLY <2>4, <2>5, Zenon DEF IsFound
  <2>7. QED
    BY <2>6
<1> HIDE DEF G
<1>3. \A N \in Nat : N \in G
  BY <1>1, <1>2, NatSetInduction
<1>4. QED
  BY <1>3 DEF G

LEMMA ResolveIs ==
    ASSUME NEW root, NEW p \in Seq(Names)
    PROVE  /\ p = Root => Resolve(root, p) = TreeError("CAS_ENOTFOUND")
           /\ p # Root => \E f : /\ Resolve(root, p) = f[Len(p)] /\ f[0] = RootEntry(root)
                                 /\ \A k \in 1..Len(p) : f[k] = FoundNext(f[k - 1], p[k])
<1> DEFINE f == CHOOSE x : IsFound(x, root, p, Len(p))
<1>1. IsFound(f, root, p, Len(p))
  <2>1. Len(p) \in Nat
    OBVIOUS
  <2>2. \E x : IsFound(x, root, p, Len(p))
    BY ONLY <2>1, FoundExist, Zenon
  <2>3. QED
    BY ONLY <2>2, Zenon
<1>2. p # Root => Resolve(root, p) = f[Len(p)]
  BY ONLY TRUE, Zenon DEF Resolve, IsFound, FoundNext, RootEntry, TreeError
<1>3. p = Root => Resolve(root, p) = TreeError("CAS_ENOTFOUND")
  BY ONLY TRUE, Zenon DEF Resolve, TreeError
<1> HIDE DEF f
<1>4. \A k \in 0..Len(p) : f[k] = IF k = 0 THEN RootEntry(root) ELSE FoundNext(f[k - 1], p[k])
  BY ONLY <1>1, Zenon DEF IsFound
<1>5. f[0] = RootEntry(root) /\ \A k \in 1..Len(p) : f[k] = FoundNext(f[k - 1], p[k])
  BY <1>4
<1>6. QED
  BY ONLY <1>2, <1>3, <1>5, Zenon

TreeErrors == {TreeError("CAS_ETYPE"), TreeError("CAS_ENOTFOUND")}

\* The entry of a node as tree_resolve has it on its way.
EntryOf(m, q) == IF q = Root THEN RootEntry(SnapDir(m)) ELSE EntryAt(m, q)

LEMMA EntryOfIs ==
    ASSUME NEW m, GoodTree(m), NEW q \in Nodes(m)
    PROVE  /\ EntryOf(m, q).hash = Objects(m)[q]
           /\ EntryOf(m, q).type = IF q = Root THEN "dir" ELSE m[q].type
           /\ EntryOf(m, q).type \in {"file", "dir"}
<1>1. CASE q = Root
  <2>1. EntryOf(m, q) = RootEntry(SnapDir(m))
    BY <1>1 DEF EntryOf
  <2>2. EntryOf(m, q).hash = SnapDir(m) /\ EntryOf(m, q).type = "dir"
    BY <2>1 DEF RootEntry
  <2>3. SnapDir(m) = Objects(m)[q]
    BY ONLY <1>1, SnapDirIs, Zenon
  <2>4. QED
    BY <1>1, <2>2, <2>3
<1>2. CASE q # Root
  <2>1. EntryOf(m, q) = EntryAt(m, q) /\ q \in DOMAIN m
    BY <1>2 DEF EntryOf, Nodes
  <2>2. m[q].type \in {"file", "dir"}
    BY <2>1, TreeIs DEF Node
  <2>3. QED
    BY <1>2, <2>1, <2>2, EntryAtIs
<1>3. QED
  BY <1>1, <1>2

\* One component further from a node whose object is there.
LEMMA FoundStep ==
    ASSUME NEW m, GoodTree(m), NEW q \in Nodes(m), NEW n \in Names, Objects(m)[q] \in objs
    PROVE  /\ Append(q, n) \in DOMAIN m => FoundNext(EntryOf(m, q), n) = EntryAt(m, Append(q, n))
           /\ Append(q, n) \notin DOMAIN m => FoundNext(EntryOf(m, q), n) \in TreeErrors
<1>1. PICK e : e = EntryOf(m, q)
  OBVIOUS
<1>2. /\ e.hash = Objects(m)[q] /\ e.type = IF q = Root THEN "dir" ELSE m[q].type
      /\ e.type \in {"file", "dir"}
  BY <1>1, EntryOfIs
<1>3. DOMAIN m \subseteq Paths /\ q \in Paths /\ q \in Seq(Names) /\ Root \notin DOMAIN m
  BY TreeIs, PathIs DEF Nodes
<1>4. CASE e.type = "file"
  <2>1. FoundNext(e, n) = TreeError("CAS_ETYPE")
    BY <1>4 DEF FoundNext
  <2>2. Append(q, n) \notin DOMAIN m
    <3>1. SUFFICES ASSUME Append(q, n) \in DOMAIN m PROVE FALSE
      OBVIOUS
    <3>2. Parent(Append(q, n)) = q
      BY <1>3, AppendIs
    <3>3. q = Root \/ m[q].type = "dir"
      BY <3>1, <3>2, TreeIs
    <3>4. QED
      BY <1>2, <1>4, <3>3
  <2>3. QED
    BY <1>1, <2>1, <2>2 DEF TreeErrors
<1>5. CASE e.type = "dir"
  <2>1. ~ (q \in DOMAIN m /\ m[q].type = "file")
    BY <1>2, <1>3, <1>5
  <2>2. /\ n \in DOMAIN Entries(Objects(m)[q]) <=> Append(q, n) \in DOMAIN m
        /\ n \in DOMAIN Entries(Objects(m)[q]) =>
              Entries(Objects(m)[q])[n] = EntryAt(m, Append(q, n))
    BY <1>3, <2>1, DirObject
  <2>3. FoundNext(e, n) = IF n \notin DOMAIN Entries(e.hash) THEN TreeError("CAS_ENOTFOUND")
                          ELSE Entries(e.hash)[n]
    BY <1>2, <1>5 DEF FoundNext
  <2>4. QED
    BY ONLY <1>1, <1>2, <2>2, <2>3, Zenon DEF TreeErrors
<1>6. QED
  BY <1>2, <1>4, <1>5

\* tree_resolve finds a node when the trees above it are there, ...
LEMMA ResolveNode ==
    ASSUME NEW m, GoodTree(m), NEW p \in DOMAIN m,
           \A k \in 0..(Len(p) - 1) : Objects(m)[SubSeq(p, 1, k)] \in objs
    PROVE  Resolve(SnapDir(m), p) = EntryAt(m, p)
<1>1. p \in Seq(Names) /\ p # Root /\ Len(p) \in Nat \ {0}
  BY TreeIs
<1>2. PICK f : /\ Resolve(SnapDir(m), p) = f[Len(p)] /\ f[0] = RootEntry(SnapDir(m))
               /\ \A k \in 1..Len(p) : f[k] = FoundNext(f[k - 1], p[k])
  BY <1>1, ResolveIs
<1> DEFINE G == {k \in Nat : k <= Len(p) => f[k] = EntryOf(m, SubSeq(p, 1, k))}
<1>3. 0 \in G
  <2>1. SubSeq(p, 1, 0) = Root
    BY <1>1, PrefixIs
  <2>2. EntryOf(m, Root) = RootEntry(SnapDir(m))
    BY DEF EntryOf
  <2>3. f[0] = EntryOf(m, SubSeq(p, 1, 0))
    BY ONLY <1>2, <2>1, <2>2, Zenon
  <2>4. QED
    BY <2>3
<1>4. ASSUME NEW k \in Nat, k \in G PROVE k + 1 \in G
  <2>1. SUFFICES ASSUME k + 1 <= Len(p)
                 PROVE  f[k + 1] = EntryOf(m, SubSeq(p, 1, k + 1))
    OBVIOUS
  <2>2. /\ k + 1 \in 1..Len(p) /\ (k + 1) - 1 = k /\ k \in 0..(Len(p) - 1)
        /\ k \in 0..Len(p) /\ k + 1 \in 0..Len(p)
    BY <1>1, <2>1
  <2>3. PICK q : q = SubSeq(p, 1, k)
    OBVIOUS
  <2>4. PICK n : n = p[k + 1]
    OBVIOUS
  <2>5. f[k] = EntryOf(m, q) /\ Objects(m)[q] \in objs
    BY <1>1, <1>4, <2>2, <2>3
  <2>6. SubSeq(p, 1, k + 1) = Append(q, n) /\ n \in Names /\ Append(q, n) # Root
    <3>1. /\ SubSeq(p, 1, k + 1) = Append(SubSeq(p, 1, (k + 1) - 1), p[k + 1])
          /\ p[k + 1] \in Names /\ SubSeq(p, 1, k + 1) # Root
      BY <1>1, <2>2, PrefixIs
    <3>2. QED
      BY ONLY <2>2, <2>3, <2>4, <3>1, Zenon
  <2>7. q \in Nodes(m) /\ Append(q, n) \in DOMAIN m
    <3>1. p \in Nodes(m)
      BY DEF Nodes
    <3>2. SubSeq(p, 1, k) \in Nodes(m) /\ SubSeq(p, 1, k + 1) \in Nodes(m)
      BY <2>2, <3>1, PrefixThere
    <3>3. QED
      BY ONLY <2>3, <2>6, <3>2, Zenon DEF Nodes
  <2>8. f[k + 1] = FoundNext(f[k], n)
    <3>1. f[k + 1] = FoundNext(f[(k + 1) - 1], p[k + 1])
      BY <1>2, <2>2
    <3>2. QED
      BY ONLY <2>2, <2>4, <3>1, Zenon
  <2>9. FoundNext(EntryOf(m, q), n) = EntryAt(m, Append(q, n))
    BY <2>5, <2>6, <2>7, FoundStep
  <2>10. QED
    BY ONLY <2>5, <2>6, <2>8, <2>9, Zenon DEF EntryOf
<1> HIDE DEF G
<1>5. Len(p) \in G
  BY <1>1, <1>3, <1>4, NatSetInduction
<1>6. f[Len(p)] = EntryOf(m, SubSeq(p, 1, Len(p)))
  BY <1>1, <1>5 DEF G
<1>7. SubSeq(p, 1, Len(p)) = p
  BY <1>1, PrefixIs
<1>8. QED
  BY ONLY <1>1, <1>2, <1>6, <1>7, Zenon DEF EntryOf

\* ... and in a tree that is whole finds nothing else.
LEMMA ResolveNothing ==
    ASSUME NEW m, GoodTree(m), NEW p \in Seq(Names), p \notin DOMAIN m,
           Closure(SnapDir(m)) \subseteq objs
    PROVE  Resolve(SnapDir(m), p) \in TreeErrors
<1>1. CASE p = Root
  BY <1>1, ResolveIs DEF TreeErrors
<1>2. CASE p # Root
  <2>1. PICK f : /\ Resolve(SnapDir(m), p) = f[Len(p)] /\ f[0] = RootEntry(SnapDir(m))
                 /\ \A k \in 1..Len(p) : f[k] = FoundNext(f[k - 1], p[k])
    BY <1>2, ResolveIs
  <2>2. Len(p) \in Nat
    OBVIOUS
  <2> DEFINE G == {k \in Nat : k <= Len(p) =>
                      \/ SubSeq(p, 1, k) \in Nodes(m) /\ f[k] = EntryOf(m, SubSeq(p, 1, k))
                      \/ SubSeq(p, 1, k) \notin Nodes(m) /\ f[k] \in TreeErrors}
  <2>3. 0 \in G
    <3>1. SubSeq(p, 1, 0) = Root /\ Root \in Nodes(m)
      BY PrefixIs DEF Nodes
    <3>2. EntryOf(m, Root) = RootEntry(SnapDir(m))
      BY DEF EntryOf
    <3>3. SubSeq(p, 1, 0) \in Nodes(m) /\ f[0] = EntryOf(m, SubSeq(p, 1, 0))
      BY ONLY <2>1, <3>1, <3>2, Zenon
    <3>4. QED
      BY <3>3
  <2>4. ASSUME NEW k \in Nat, k \in G PROVE k + 1 \in G
    <3> SUFFICES ASSUME k + 1 <= Len(p)
                 PROVE  \/ /\ SubSeq(p, 1, k + 1) \in Nodes(m)
                           /\ f[k + 1] = EntryOf(m, SubSeq(p, 1, k + 1))
                        \/ SubSeq(p, 1, k + 1) \notin Nodes(m) /\ f[k + 1] \in TreeErrors
      OBVIOUS
    <3>1. k + 1 \in 1..Len(p) /\ (k + 1) - 1 = k /\ k \in 0..Len(p)
      BY <2>2
    <3>2. PICK q : q = SubSeq(p, 1, k)
      OBVIOUS
    <3>3. PICK n : n = p[k + 1]
      OBVIOUS
    <3>4. /\ SubSeq(p, 1, k + 1) = Append(q, n) /\ n \in Names /\ Append(q, n) # Root
          /\ q \in Seq(Names)
      <4>1. /\ SubSeq(p, 1, k + 1) = Append(SubSeq(p, 1, (k + 1) - 1), p[k + 1])
            /\ p[k + 1] \in Names /\ SubSeq(p, 1, k + 1) # Root
            /\ SubSeq(p, 1, k) \in Seq(Names)
        BY <3>1, PrefixIs
      <4>2. QED
        BY ONLY <3>1, <3>2, <3>3, <4>1, Zenon
    <3>5. f[k + 1] = FoundNext(f[k], n)
      <4>1. f[k + 1] = FoundNext(f[(k + 1) - 1], p[k + 1])
        BY <2>1, <3>1
      <4>2. QED
        BY ONLY <3>1, <3>3, <4>1, Zenon
    <3>6. \/ q \in Nodes(m) /\ f[k] = EntryOf(m, q)
          \/ q \notin Nodes(m) /\ f[k] \in TreeErrors
      BY <2>4, <3>1, <3>2
    <3>7. CASE q \in Nodes(m) /\ f[k] = EntryOf(m, q)
      <4>1. Objects(m)[q] \in objs
        BY <3>7, ClosureClosed
      <4>2. /\ Append(q, n) \in DOMAIN m => FoundNext(EntryOf(m, q), n) = EntryAt(m, Append(q, n))
            /\ Append(q, n) \notin DOMAIN m => FoundNext(EntryOf(m, q), n) \in TreeErrors
        BY <3>4, <3>7, <4>1, FoundStep
      <4>3. Append(q, n) \in Nodes(m) <=> Append(q, n) \in DOMAIN m
        BY <3>4 DEF Nodes
      <4>4. QED
        BY ONLY <3>4, <3>5, <3>7, <4>2, <4>3, Zenon DEF EntryOf
    <3>8. CASE q \notin Nodes(m) /\ f[k] \in TreeErrors
      <4>1. f[k].type = "error"
        BY <3>8 DEF TreeErrors, TreeError
      <4>2. f[k + 1] = f[k]
        BY <3>5, <4>1 DEF FoundNext
      <4>3. Append(q, n) \notin DOMAIN m
        <5>1. Parent(Append(q, n)) = q
          BY <3>4, AppendIs
        <5>2. QED
          BY <3>8, <5>1, TreeIs DEF Nodes
      <4>4. QED
        BY ONLY <3>4, <3>8, <4>2, <4>3, Zenon DEF Nodes
    <3>9. QED
      BY <3>6, <3>7, <3>8
  <2> HIDE DEF G
  <2>5. Len(p) \in G
    BY <2>2, <2>3, <2>4, NatSetInduction
  <2>6. SubSeq(p, 1, Len(p)) = p
    BY PrefixIs
  <2>7. p \notin Nodes(m)
    BY <1>2 DEF Nodes
  <2>8. \/ SubSeq(p, 1, Len(p)) \in Nodes(m)
        \/ SubSeq(p, 1, Len(p)) \notin Nodes(m) /\ f[Len(p)] \in TreeErrors
    BY <2>2, <2>5 DEF G
  <2>9. QED
    BY ONLY <2>1, <2>6, <2>7, <2>8, Zenon
<1>3. QED
  BY <1>1, <1>2

\* In a tree that is whole tree_resolve tells the nodes from the rest.
LEMMA ResolveWhole ==
    ASSUME NEW m, GoodTree(m), Closure(SnapDir(m)) \subseteq objs, NEW p \in Seq(Names)
    PROVE  /\ p \in DOMAIN m => Resolve(SnapDir(m), p) = EntryAt(m, p)
           /\ p \notin DOMAIN m => Resolve(SnapDir(m), p) \in TreeErrors
<1>1. ASSUME p \in DOMAIN m PROVE Resolve(SnapDir(m), p) = EntryAt(m, p)
  <2>1. \A k \in 0..(Len(p) - 1) : SubSeq(p, 1, k) \in Nodes(m)
    <3>1. p \in Nodes(m) /\ \A k \in 0..(Len(p) - 1) : k \in 0..Len(p)
      BY <1>1 DEF Nodes
    <3>2. QED
      BY <3>1, PrefixThere
  <2>2. \A q \in Nodes(m) : Objects(m)[q] \in objs
    BY ClosureClosed
  <2>3. \A k \in 0..(Len(p) - 1) : Objects(m)[SubSeq(p, 1, k)] \in objs
    BY ONLY <2>1, <2>2, Zenon
  <2>4. QED
    BY <1>1, <2>3, ResolveNode
<1>2. QED
  BY <1>1, ResolveNothing

-----------------------------------------------------------------------------
(* vfs_snap_checkfile.                                                     *)

LEMMA CheckFileIs ==
    ASSUME NEW m, GoodTree(m), Closure(SnapDir(m)) \subseteq objs, GoodTree(files),
           NEW c \in Users, Readable(c), NEW p \in Paths
    PROVE  LET same == /\ p \in DOMAIN files \cap DOMAIN m
                       /\ files[p].type = "file" /\ m[p].type = "file"
           IN /\ CheckFile(c, SnapDir(m), p) = "CAS_OK" <=> same /\ files[p].data = m[p].data
              /\ CheckFile(c, SnapDir(m), p) = "CAS_ERR" <=> same /\ files[p].data # m[p].data
<1> DEFINE same == /\ p \in DOMAIN files \cap DOMAIN m
                   /\ files[p].type = "file" /\ m[p].type = "file"
<1>1. PICK e : e = Resolve(SnapDir(m), p)
  OBVIOUS
<1>2. PICK r : r = CheckFile(c, SnapDir(m), p)
  OBVIOUS
<1>3. PICK d : d = M!IsDir(files, p)
  OBVIOUS
<1>4. p \in Seq(Names) /\ Root \notin DOMAIN m /\ Root \notin DOMAIN files
  BY TreeIs, PathIs
<1>5. p \in DOMAIN files => CheckPerm(files[p], c, "R")
  BY DEF Readable
<1>6. r = IF p # Root /\ p \notin DOMAIN files THEN "VFS_ENOTFOUND"
          ELSE IF p # Root /\ ~ CheckPerm(files[p], c, "R") THEN "VFS_EPERM"
          ELSE IF M!IsDir(files, p) THEN "VFS_EISDIR"
          ELSE IF e.type = "error" THEN e.why
          ELSE IF e.type = "dir" THEN "CAS_ETYPE"
          ELSE IF Blob(files[p].data) # e.hash THEN "CAS_ERR"
          ELSE "CAS_OK"
  BY ONLY <1>1, <1>2, Zenon DEF CheckFile
<1>7. M!IsDir(files, p) <=> p = Root \/ (p \in DOMAIN files /\ files[p].type = "dir")
  BY IsDirIs
<1>8. p \in DOMAIN m => /\ e.type = m[p].type /\ e.hash = Objects(m)[p]
                        /\ m[p].type \in {"file", "dir"}
                        /\ m[p].type = "file" => e.hash = <<"blob", m[p].data>>
  <2>1. SUFFICES ASSUME p \in DOMAIN m
                 PROVE  /\ e.type = m[p].type /\ e.hash = Objects(m)[p]
                        /\ m[p].type \in {"file", "dir"}
                        /\ m[p].type = "file" => e.hash = <<"blob", m[p].data>>
    OBVIOUS
  <2>2. e = EntryAt(m, p)
    BY <1>1, <1>4, <2>1, ResolveWhole
  <2>3. e.type = m[p].type /\ e.hash = Objects(m)[p]
    BY ONLY <2>2, EntryAtIs, Zenon
  <2>4. m[p].type \in {"file", "dir"}
    BY <2>1, TreeIs DEF Node
  <2>5. m[p].type = "file" => Objects(m)[p] = <<"blob", m[p].data>>
    BY <2>1, TreeIs, FileObject DEF Blob
  <2>6. QED
    BY <2>3, <2>4, <2>5
<1>9. p \notin DOMAIN m => e.type = "error" /\ e.why \in {"CAS_ETYPE", "CAS_ENOTFOUND"}
  <2>1. p \notin DOMAIN m => e \in TreeErrors
    BY <1>1, <1>4, ResolveWhole
  <2>2. QED
    BY <2>1 DEF TreeErrors, TreeError
<1>10. p \in DOMAIN files => files[p].type \in {"file", "dir"}
  BY TreeIs DEF Node
<1>11. /\ r = "CAS_OK" <=> same /\ files[p].data = m[p].data
       /\ r = "CAS_ERR" <=> same /\ files[p].data # m[p].data
  <2>1. CASE ~ same
    BY <1>4, <1>5, <1>6, <1>7, <1>8, <1>9, <1>10, <2>1
  <2>2. CASE same
    <3>1. r = IF Blob(files[p].data) # e.hash THEN "CAS_ERR" ELSE "CAS_OK"
      BY <1>4, <1>5, <1>6, <1>7, <1>8, <2>2
    <3>2. Blob(files[p].data) = e.hash <=> files[p].data = m[p].data
      BY <1>8, <2>2 DEF Blob
    <3>3. QED
      BY <2>2, <3>1, <3>2
  <2>3. QED
    BY <2>1, <2>2
<1>12. QED
  BY ONLY <1>2, <1>11, Zenon

LEMMA CheckFileHolds == ASSUME SInv PROVE CheckFileExact
<1>1. SUFFICES ASSUME head # None, Closure(head) \subseteq objs PROVE CheckFileExact
  BY DEF CheckFileExact
<1>2. PICK m : GoodTree(m) /\ head = SnapDir(m)
  BY <1>1 DEF SInv, Committed
<1>3. Flat(head) = Contents(m)
  BY <1>2, FlatIs
<1>4. /\ DOMAIN Contents(m) = DOMAIN m
      /\ \A p \in DOMAIN m : Contents(m)[p].type = m[p].type /\ Contents(m)[p].data = m[p].data
  BY DEF Contents
<1>5. GoodTree(files) /\ Closure(SnapDir(m)) \subseteq objs
  BY <1>1, <1>2 DEF SInv
<1> DEFINE Same(p) == /\ p \in DOMAIN files \cap DOMAIN m
                      /\ files[p].type = "file" /\ m[p].type = "file"
           Same2(p) == /\ p \in DOMAIN files \cap DOMAIN Contents(m)
                       /\ files[p].type = "file" /\ Contents(m)[p].type = "file"
<1>6. ASSUME NEW c \in Users, NEW p \in Paths, Readable(c)
      PROVE  /\ CheckFile(c, head, p) = "CAS_OK" <=> Same(p) /\ files[p].data = m[p].data
             /\ CheckFile(c, head, p) = "CAS_ERR" <=> Same(p) /\ files[p].data # m[p].data
  <2>1. /\ CheckFile(c, SnapDir(m), p) = "CAS_OK" <=> Same(p) /\ files[p].data = m[p].data
        /\ CheckFile(c, SnapDir(m), p) = "CAS_ERR" <=> Same(p) /\ files[p].data # m[p].data
    BY <1>2, <1>5, <1>6, CheckFileIs
  <2>2. QED
    BY ONLY <1>2, <2>1, Zenon
<1>7. \A p : /\ Same(p) <=> Same2(p)
             /\ Same(p) => m[p].data = Contents(m)[p].data
  BY <1>4
<1>8. ASSUME NEW c \in Users, NEW p \in Paths, Readable(c)
      PROVE  /\ CheckFile(c, head, p) = "CAS_OK"
                   <=> Same2(p) /\ files[p].data = Contents(m)[p].data
             /\ CheckFile(c, head, p) = "CAS_ERR"
                   <=> Same2(p) /\ files[p].data # Contents(m)[p].data
  <2> HIDE DEF Same, Same2
  <2>1. QED
    BY ONLY <1>6, <1>7, <1>8, Zenon
<1>9. QED
  BY ONLY <1>3, <1>8, Zenon DEF CheckFileExact

-----------------------------------------------------------------------------
(* vfs_snap_fsck.                                                          *)

FsckObject(root, p) == IF p = Root THEN root ELSE Resolve(root, p).hash
FsckListed(c, p) == p = Root \/ (M!IsDir(files, p) /\ CheckPerm(files[p], c, "R"))
FsckStatus(c, root, p, n) == EntryStatus(c, Append(p, n), Entries(FsckObject(root, p))[n])
FsckOf(f, c, root, p, n) ==
    IF FsckStatus(c, root, p, n) = "descend" THEN f[Append(p, n)]
    ELSE {<<Append(p, n), FsckStatus(c, root, p, n)>>}

\* The reports of fsck_dir for p, those of the directories below in f.
FsckBelow(f, c, root, p) ==
    UNION {FsckOf(f, c, root, p, n) :
              n \in {x \in DOMAIN Entries(FsckObject(root, p)) :
                        FsckStatus(c, root, p, x) # "same"}}
FsckExtra(root, p) ==
    {<<q, "ADDED">> : q \in {x \in Children(files, p) :
                                Base(x) \notin DOMAIN Entries(FsckObject(root, p))}}
FsckAt(f, c, root, p) ==
    IF FsckObject(root, p) \notin objs \/ ~ FsckListed(c, p) THEN {}
    ELSE FsckBelow(f, c, root, p) \cup FsckExtra(root, p)

IsFsck(f, c, root) == f = [p \in Paths |-> FsckAt(f, c, root, p)]

LEMMA FsckAtSame ==
    ASSUME DOMAIN files \subseteq Paths, NEW c, NEW root, NEW p \in Paths, NEW f, NEW g,
           \A q \in DOMAIN files : Len(q) = Len(p) + 1 => f[q] = g[q]
    PROVE  FsckAt(f, c, root, p) = FsckAt(g, c, root, p)
<1>1. ASSUME NEW n PROVE FsckOf(f, c, root, p, n) = FsckOf(g, c, root, p, n)
  <2>1. CASE FsckStatus(c, root, p, n) = "descend"
    <3>1. Append(p, n) \in DOMAIN files
      BY <2>1 DEF FsckStatus, EntryStatus
    <3>2. Len(Append(p, n)) = Len(p) + 1
      <4>1. PICK S : S = Names \cup {n}
        OBVIOUS
      <4>2. p \in Seq(Names)
        BY PathIs
      <4>3. p \in Seq(S) /\ n \in S
        BY <4>1, <4>2
      <4>4. QED
        BY <4>3
    <3>3. f[Append(p, n)] = g[Append(p, n)]
      BY <3>1, <3>2
    <3>4. QED
      BY ONLY <2>1, <3>3, Zenon DEF FsckOf
  <2>2. CASE FsckStatus(c, root, p, n) # "descend"
    BY ONLY <2>2, Zenon DEF FsckOf
  <2>3. QED
    BY <2>1, <2>2
<1>2. \A S : UNION {FsckOf(f, c, root, p, n) : n \in S} = UNION {FsckOf(g, c, root, p, n) : n \in S}
  <2>1. \A S : {FsckOf(f, c, root, p, n) : n \in S} = {FsckOf(g, c, root, p, n) : n \in S}
    BY ONLY <1>1, Zenon
  <2>2. QED
    BY ONLY <2>1, Zenon
<1>3. FsckBelow(f, c, root, p) = FsckBelow(g, c, root, p)
  BY ONLY <1>2, Zenon DEF FsckBelow
<1>4. QED
  BY ONLY <1>3, Zenon DEF FsckAt

LEMMA FsckExist ==
    ASSUME DOMAIN files \subseteq Paths, NEW c, NEW root
    PROVE  \E f : IsFsck(f, c, root)
<1> DEFINE Deep(f, k) == \A p \in Paths : Len(p) + k > PathMax => f[p] = FsckAt(f, c, root, p)
           G == {k \in Nat : \E f : Deep(f, k)}
<1>1. PathMax \in Nat /\ \A p \in Paths : Len(p) \in 0..PathMax
  BY DataAssumption, PathIs
<1>2. 0 \in G
  BY <1>1
<1>3. ASSUME NEW k \in Nat, k \in G PROVE k + 1 \in G
  <2>1. PICK f : Deep(f, k)
    BY <1>3
  <2> DEFINE g == [p \in Paths |-> IF Len(p) + (k + 1) > PathMax THEN FsckAt(f, c, root, p)
                                   ELSE f[p]]
  <2>2. ASSUME NEW p \in Paths, Len(p) + (k + 1) > PathMax
        PROVE  g[p] = FsckAt(g, c, root, p)
    <3>1. ASSUME NEW q \in DOMAIN files, Len(q) = Len(p) + 1 PROVE f[q] = g[q]
      <4>1. q \in Paths
        OBVIOUS
      <4>2. Len(q) + k > PathMax /\ Len(q) + (k + 1) > PathMax
        BY <1>1, <2>2, <3>1, <4>1
      <4>3. f[q] = FsckAt(f, c, root, q)
        BY <2>1, <4>1, <4>2
      <4>4. QED
        BY <4>1, <4>2, <4>3
    <3>2. g[p] = FsckAt(f, c, root, p)
      BY <2>2
    <3> HIDE DEF g
    <3>3. FsckAt(f, c, root, p) = FsckAt(g, c, root, p)
      BY <3>1, FsckAtSame
    <3>4. QED
      BY <3>2, <3>3
  <2> HIDE DEF g
  <2>3. Deep(g, k + 1)
    BY <2>2
  <2>4. QED
    BY <2>3
<1> HIDE DEF G
<1>4. PathMax + 1 \in G
  BY <1>1, <1>2, <1>3, NatSetInduction
<1>5. PICK f : Deep(f, PathMax + 1)
  BY <1>4 DEF G
<1> DEFINE g == [p \in Paths |-> f[p]]
<1>6. ASSUME NEW p \in Paths PROVE g[p] = FsckAt(g, c, root, p)
  <2>1. f[p] = FsckAt(f, c, root, p)
    BY <1>1, <1>5
  <2>2. \A q \in DOMAIN files : Len(q) = Len(p) + 1 => f[q] = g[q]
    OBVIOUS
  <2>3. g[p] = f[p]
    OBVIOUS
  <2> HIDE DEF g
  <2>4. QED
    BY <2>1, <2>2, <2>3, FsckAtSame
<1>7. g = [p \in Paths |-> g[p]]
  OBVIOUS
<1> HIDE DEF g
<1>8. IsFsck(g, c, root)
  BY ONLY <1>6, <1>7, Zenon DEF IsFsck
<1>9. QED
  BY <1>8

LEMMA FsckIs ==
    ASSUME DOMAIN files \subseteq Paths, NEW c, NEW root
    PROVE  \E f : Fsck(c, root) = f[Root] /\ \A p \in Paths : f[p] = FsckAt(f, c, root, p)
<1> DEFINE f == CHOOSE x : IsFsck(x, c, root)
<1>1. IsFsck(f, c, root)
  <2>1. \E x : IsFsck(x, c, root)
    BY FsckExist
  <2>2. QED
    BY ONLY <2>1, Zenon
<1>2. Fsck(c, root) = f[Root]
  BY ONLY TRUE, Zenon DEF Fsck, IsFsck, FsckAt, FsckBelow, FsckExtra, FsckOf, FsckStatus, FsckListed, FsckObject
<1> HIDE DEF f
<1>3. \A p \in Paths : f[p] = FsckAt(f, c, root, p)
  BY ONLY <1>1, Zenon DEF IsFsck
<1>4. QED
  BY <1>2, <1>3

\* The trees above p are there, and so those above its children if p is too.
Known(m, p) == \A k \in 0..(Len(p) - 1) : Objects(m)[SubSeq(p, 1, k)] \in objs

LEMMA KnownBelow ==
    ASSUME NEW m, NEW p \in Seq(Names), NEW n \in Names, Known(m, p), Objects(m)[p] \in objs
    PROVE  Known(m, Append(p, n))
<1>1. PICK q : q = Append(p, n)
  OBVIOUS
<1>2. q \in Seq(Names) /\ Len(q) = Len(p) + 1 /\ \A i \in 1..Len(p) : q[i] = p[i]
  BY <1>1
<1>3. ASSUME NEW k \in 0..Len(p) PROVE SubSeq(q, 1, k) = SubSeq(p, 1, k)
  <2>1. PICK x : x = SubSeq(q, 1, k)
    OBVIOUS
  <2>2. PICK y : y = SubSeq(p, 1, k)
    OBVIOUS
  <2>3. x \in Seq(Names) /\ Len(x) = k /\ \A i \in 1..k : x[i] = q[i]
    BY <1>2, <2>1
  <2>4. y \in Seq(Names) /\ Len(y) = k /\ \A i \in 1..k : y[i] = p[i]
    BY <2>2
  <2>5. \A i \in 1..k : x[i] = y[i]
    BY <1>2, <2>3, <2>4
  <2>6. x = y
    BY <2>3, <2>4, <2>5, SeqEqual
  <2>7. QED
    BY <2>1, <2>2, <2>6
<1>4. ASSUME NEW k \in 0..(Len(q) - 1) PROVE Objects(m)[SubSeq(q, 1, k)] \in objs
  <2>1. k \in 0..Len(p) /\ (k = Len(p) \/ k \in 0..(Len(p) - 1))
    BY <1>2
  <2>2. SubSeq(q, 1, k) = SubSeq(p, 1, k)
    BY <1>3, <2>1
  <2>3. SubSeq(p, 1, Len(p)) = p
    BY PrefixIs
  <2>4. Objects(m)[SubSeq(p, 1, k)] \in objs
    BY ONLY <2>1, <2>3, Known(m, p), Objects(m)[p] \in objs, Zenon DEF Known
  <2>5. QED
    BY ONLY <2>2, <2>4, Zenon
<1>5. QED
  BY <1>1, <1>4 DEF Known

\* What fsck_dir says of the node q of the snapshot m.
NodeStatus(c, m, q) == EntryStatus(c, q, EntryAt(m, q))

LEMMA FsckObjectIs ==
    ASSUME NEW m, GoodTree(m), NEW p \in Nodes(m), Known(m, p)
    PROVE  FsckObject(SnapDir(m), p) = Objects(m)[p]
<1>1. CASE p = Root
  BY ONLY <1>1, SnapDirIs, Zenon DEF FsckObject
<1>2. CASE p # Root
  <2>1. Resolve(SnapDir(m), p) = EntryAt(m, p)
    BY <1>2, ResolveNode DEF Known, Nodes
  <2>2. QED
    BY ONLY <1>2, <2>1, EntryAtIs, Zenon DEF FsckObject
<1>3. QED
  BY <1>1, <1>2

\* The reports for a directory of the snapshot whose tree is there.
LEMMA FsckAtIs ==
    ASSUME NEW m, GoodTree(m), GoodTree(files), NEW p \in Nodes(m), Known(m, p),
           p = Root \/ m[p].type = "dir", NEW c, NEW f
    PROVE  /\ Objects(m)[p] \notin objs \/ ~ FsckListed(c, p) => FsckAt(f, c, SnapDir(m), p) = {}
           /\ Objects(m)[p] \in objs /\ FsckListed(c, p) =>
                 \A r : r \in FsckAt(f, c, SnapDir(m), p) <=>
                    \/ \E q \in Children(m, p) : NodeStatus(c, m, q) = "descend" /\ r \in f[q]
                    \/ \E q \in Children(m, p) :
                          /\ NodeStatus(c, m, q) # "descend" /\ NodeStatus(c, m, q) # "same"
                          /\ r = <<q, NodeStatus(c, m, q)>>
                    \/ \E q \in Children(files, p) : q \notin DOMAIN m /\ r = <<q, "ADDED">>
<1>1. PICK root : root = SnapDir(m)
  OBVIOUS
<1>2. PICK o : o = Objects(m)[p]
  OBVIOUS
<1>3. FsckObject(root, p) = o
  <2>1. FsckObject(SnapDir(m), p) = Objects(m)[p]
    BY FsckObjectIs
  <2>2. QED
    BY ONLY <1>1, <1>2, <2>1, Zenon
<1>4. /\ DOMAIN m \subseteq Paths /\ p \in Paths /\ p \in Seq(Names) /\ Root \notin DOMAIN m
      /\ DOMAIN files \subseteq Paths
  BY TreeIs, PathIs DEF Nodes
<1>5. /\ \A n : n \in DOMAIN Entries(o) <=> n \in Names /\ Append(p, n) \in DOMAIN m
      /\ \A n \in DOMAIN Entries(o) : Entries(o)[n] = EntryAt(m, Append(p, n))
  <2>1. ~ (p \in DOMAIN m /\ m[p].type = "file")
    BY <1>4
  <2>2. /\ \A n : n \in DOMAIN Entries(Objects(m)[p])
                     <=> n \in Names /\ Append(p, n) \in DOMAIN m
        /\ \A n \in DOMAIN Entries(Objects(m)[p]) :
              Entries(Objects(m)[p])[n] = EntryAt(m, Append(p, n))
    BY <1>4, <2>1, DirObject
  <2>3. QED
    BY ONLY <1>2, <2>2, Zenon
<1>6. /\ \A q \in Children(m, p) : Base(q) \in DOMAIN Entries(o) /\ q = Append(p, Base(q))
      /\ \A n \in DOMAIN Entries(o) : Append(p, n) \in Children(m, p)
      /\ \A q \in Children(files, p) : Base(q) \notin DOMAIN Entries(o) <=> q \notin DOMAIN m
  <2>1. \A q \in Children(m, p) : q \in DOMAIN m /\ Base(q) \in Names /\ q = Append(p, Base(q))
    BY <1>4, ChildrenIs
  <2>2. \A n \in Names : Append(p, n) \in DOMAIN m => Append(p, n) \in Children(m, p)
    BY <1>4, ChildrenIs
  <2>3. \A q \in Children(files, p) : Base(q) \in Names /\ q = Append(p, Base(q))
    BY <1>4, ChildrenIs
  <2>4. QED
    BY ONLY <1>5, <2>1, <2>2, <2>3, Zenon
<1>7. \A n \in DOMAIN Entries(o) :
         FsckStatus(c, root, p, n) = NodeStatus(c, m, Append(p, n))
  BY ONLY <1>3, <1>5, Zenon DEF FsckStatus, NodeStatus
<1>8. o \notin objs \/ ~ FsckListed(c, p) => FsckAt(f, c, root, p) = {}
  BY ONLY <1>3, Zenon DEF FsckAt
<1>9. ASSUME o \in objs, FsckListed(c, p), NEW r
      PROVE  r \in FsckAt(f, c, root, p) <=>
                    \/ \E q \in Children(m, p) : NodeStatus(c, m, q) = "descend" /\ r \in f[q]
                    \/ \E q \in Children(m, p) :
                          /\ NodeStatus(c, m, q) # "descend" /\ NodeStatus(c, m, q) # "same"
                          /\ r = <<q, NodeStatus(c, m, q)>>
                    \/ \E q \in Children(files, p) : q \notin DOMAIN m /\ r = <<q, "ADDED">>
  <2> DEFINE Below == \E n \in DOMAIN Entries(o) :
                          FsckStatus(c, root, p, n) # "same" /\ r \in FsckOf(f, c, root, p, n)
             Extra == \E q \in Children(files, p) :
                          Base(q) \notin DOMAIN Entries(o) /\ r = <<q, "ADDED">>
  <2>1. r \in FsckAt(f, c, root, p) <=> r \in FsckBelow(f, c, root, p) \/ r \in FsckExtra(root, p)
    <3>1. FsckAt(f, c, root, p) = FsckBelow(f, c, root, p) \cup FsckExtra(root, p)
      BY ONLY <1>3, <1>9, Zenon DEF FsckAt
    <3>2. QED
      BY ONLY <3>1
  <2>2. r \in FsckAt(f, c, root, p) <=> Below \/ Extra
    <3>1. r \in FsckBelow(f, c, root, p) <=> Below
      BY ONLY <1>3, Zenon DEF FsckBelow
    <3>2. r \in FsckExtra(root, p) <=> Extra
      BY ONLY <1>3, Zenon DEF FsckExtra
    <3> HIDE DEF Below, Extra
    <3>3. QED
      BY ONLY <2>1, <3>1, <3>2, Zenon
  <2>3. Extra <=> \E q \in Children(files, p) : q \notin DOMAIN m /\ r = <<q, "ADDED">>
    BY ONLY <1>6, Zenon
  <2>4. ASSUME NEW n \in DOMAIN Entries(o)
        PROVE  (FsckStatus(c, root, p, n) # "same" /\ r \in FsckOf(f, c, root, p, n)) <=>
                  \/ NodeStatus(c, m, Append(p, n)) = "descend" /\ r \in f[Append(p, n)]
                  \/ /\ NodeStatus(c, m, Append(p, n)) # "descend"
                     /\ NodeStatus(c, m, Append(p, n)) # "same"
                     /\ r = <<Append(p, n), NodeStatus(c, m, Append(p, n))>>
    <3>1. PICK s : s = NodeStatus(c, m, Append(p, n))
      OBVIOUS
    <3>2. FsckStatus(c, root, p, n) = s
      BY ONLY <1>7, <3>1, Zenon
    <3>3. FsckOf(f, c, root, p, n) = IF s = "descend" THEN f[Append(p, n)] ELSE {<<Append(p, n), s>>}
      BY ONLY <3>2, Zenon DEF FsckOf
    <3>4. CASE s = "descend"
      <4>1. FsckOf(f, c, root, p, n) = f[Append(p, n)] /\ s # "same"
        BY <3>3, <3>4
      <4>2. QED
        BY ONLY <3>1, <3>2, <3>4, <4>1, Zenon
    <3>5. CASE s # "descend"
      <4>1. r \in FsckOf(f, c, root, p, n) <=> r = <<Append(p, n), s>>
        BY ONLY <3>3, <3>5, Zenon
      <4>2. QED
        BY ONLY <3>1, <3>2, <3>5, <4>1, Zenon
    <3>6. QED
      BY <3>4, <3>5
  <2>5. Below <=>
           \/ \E q \in Children(m, p) : NodeStatus(c, m, q) = "descend" /\ r \in f[q]
           \/ \E q \in Children(m, p) :
                 /\ NodeStatus(c, m, q) # "descend" /\ NodeStatus(c, m, q) # "same"
                 /\ r = <<q, NodeStatus(c, m, q)>>
    BY ONLY <1>6, <2>4, Zenon
  <2> HIDE DEF Below, Extra
  <2>6. QED
    BY ONLY <2>2, <2>3, <2>5, Zenon
<1>10. QED
  BY ONLY <1>1, <1>2, <1>8, <1>9, Zenon

\* What is said of a node when the caller may read all.
LEMMA NodeStatusIs ==
    ASSUME NEW m, GoodTree(m), GoodTree(files), NEW c, Readable(c), NEW q \in DOMAIN m
    PROVE  NodeStatus(c, m, q) = IF q \notin DOMAIN files THEN "MISSING"
                                 ELSE IF m[q].type # files[q].type THEN "TYPE"
                                 ELSE IF m[q].type = "dir" THEN "descend"
                                 ELSE IF m[q].data # files[q].data THEN "MODIFIED"
                                 ELSE "same"
<1>1. PICK e : e = EntryAt(m, q)
  OBVIOUS
<1>2. e.type = m[q].type /\ e.hash = Objects(m)[q]
  BY ONLY <1>1, EntryAtIs, Zenon
<1>3. m[q].type \in {"file", "dir"} /\ (m[q].type = "file" => e.hash = <<"blob", m[q].data>>)
  <2>1. m[q].type \in {"file", "dir"}
    BY TreeIs DEF Node
  <2>2. m[q].type = "file" => Objects(m)[q] = <<"blob", m[q].data>>
    BY TreeIs, FileObject DEF Blob
  <2>3. QED
    BY <1>2, <2>1, <2>2
<1>4. q \in DOMAIN files => CheckPerm(files[q], c, "R") /\ files[q].type \in {"file", "dir"}
  BY TreeIs DEF Readable, Node
<1>5. NodeStatus(c, m, q) =
         IF q \notin DOMAIN files THEN "MISSING"
         ELSE IF (e.type = "dir") # (files[q].type = "dir") THEN "TYPE"
         ELSE IF e.type = "dir" THEN "descend"
         ELSE IF ~ CheckPerm(files[q], c, "R") \/ Blob(files[q].data) # e.hash THEN "MODIFIED"
         ELSE "same"
  BY ONLY <1>1, Zenon DEF NodeStatus, EntryStatus
<1>6. CASE q \notin DOMAIN files
  BY <1>5, <1>6
<1>7. CASE q \in DOMAIN files
  <2>1. (e.type = "dir") # (files[q].type = "dir") <=> m[q].type # files[q].type
    BY <1>2, <1>3, <1>4, <1>7
  <2>2. m[q].type = "file" => (Blob(files[q].data) # e.hash <=> m[q].data # files[q].data)
    BY <1>3 DEF Blob
  <2>3. QED
    BY <1>2, <1>3, <1>4, <1>5, <1>7, <2>1, <2>2
<1>8. QED
  BY <1>6, <1>7

\* Where every node of the snapshot is in its place only additions are found,
\* even if objects of the snapshot have been lost.
LEMMA FsckRestored ==
    ASSUME NEW m, GoodTree(m), GoodTree(files), NEW c, Readable(c),
           \A q \in DOMAIN m : Landed(files, Root, m, q)
    PROVE  \A r \in Fsck(c, SnapDir(m)) : r[2] = "ADDED"
<1>1. DOMAIN files \subseteq Paths /\ DOMAIN m \subseteq Paths /\ PathMax \in Nat
  BY TreeIs, DataAssumption
<1>2. PICK f : /\ Fsck(c, SnapDir(m)) = f[Root]
               /\ \A p \in Paths : f[p] = FsckAt(f, c, SnapDir(m), p)
  BY <1>1, FsckIs
<1>3. ASSUME NEW q \in DOMAIN m
      PROVE  NodeStatus(c, m, q) \in {"descend", "same"}
             /\ (NodeStatus(c, m, q) = "descend" => m[q].type = "dir")
  <2>1. q \in Seq(Names)
    BY TreeIs
  <2>2. Root \o q = q
    BY <2>1 DEF Root
  <2>3. q \in DOMAIN files /\ files[q].type = m[q].type /\ files[q].data = m[q].data
    <3>1. Landed(files, Root, m, q)
      OBVIOUS
    <3>2. QED
      BY ONLY <2>2, <3>1, Zenon DEF Landed
  <2>4. QED
    BY <2>3, NodeStatusIs
<1> DEFINE Clean(p) == \A r \in f[p] : r[2] = "ADDED"
           G == {k \in Nat : \A p \in Nodes(m) :
                    /\ Len(p) + k > PathMax /\ Known(m, p)
                    /\ p = Root \/ m[p].type = "dir"
                    => Clean(p)}
<1>4. 0 \in G
  <2>1. \A p \in Nodes(m) : Len(p) \in Nat /\ Len(p) <= PathMax
    BY <1>1, TreeIs DEF Nodes, Root
  <2>2. QED
    BY <1>1, <2>1
<1>5. ASSUME NEW k \in Nat, k \in G PROVE k + 1 \in G
  <2>1. SUFFICES ASSUME NEW p \in Nodes(m), Len(p) + (k + 1) > PathMax, Known(m, p),
                        p = Root \/ m[p].type = "dir", NEW r \in f[p]
                 PROVE  r[2] = "ADDED"
    OBVIOUS
  <2>2. p \in Paths /\ p \in Seq(Names) /\ f[p] = FsckAt(f, c, SnapDir(m), p)
    BY <1>2, TreeIs, PathIs DEF Nodes
  <2>3. Objects(m)[p] \in objs /\ FsckListed(c, p)
    <3>1. Objects(m)[p] \notin objs \/ ~ FsckListed(c, p) => FsckAt(f, c, SnapDir(m), p) = {}
      BY <2>1, FsckAtIs
    <3>2. FsckAt(f, c, SnapDir(m), p) # {}
      BY <2>1, <2>2
    <3>3. QED
      BY <3>1, <3>2
  <2>4. \/ \E q \in Children(m, p) : NodeStatus(c, m, q) = "descend" /\ r \in f[q]
        \/ \E q \in Children(m, p) :
              /\ NodeStatus(c, m, q) # "descend" /\ NodeStatus(c, m, q) # "same"
              /\ r = <<q, NodeStatus(c, m, q)>>
        \/ \E q \in Children(files, p) : q \notin DOMAIN m /\ r = <<q, "ADDED">>
    <3>1. r \in FsckAt(f, c, SnapDir(m), p)
      BY <2>1, <2>2
    <3>2. r \in FsckAt(f, c, SnapDir(m), p) <=>
             \/ \E q \in Children(m, p) : NodeStatus(c, m, q) = "descend" /\ r \in f[q]
             \/ \E q \in Children(m, p) :
                   /\ NodeStatus(c, m, q) # "descend" /\ NodeStatus(c, m, q) # "same"
                   /\ r = <<q, NodeStatus(c, m, q)>>
             \/ \E q \in Children(files, p) : q \notin DOMAIN m /\ r = <<q, "ADDED">>
      BY <2>1, <2>3, FsckAtIs
    <3>3. QED
      BY ONLY <3>1, <3>2
  <2>5. ASSUME NEW q \in Children(m, p), NodeStatus(c, m, q) = "descend", r \in f[q]
        PROVE  r[2] = "ADDED"
    <3>1. /\ q \in DOMAIN m /\ q \in Nodes(m) /\ Base(q) \in Names /\ q = Append(p, Base(q))
          /\ Len(q) = Len(p) + 1
      BY <1>1, <2>2, ChildrenIs DEF Nodes
    <3>2. m[q].type = "dir"
      BY <1>3, <2>5, <3>1
    <3>3. Known(m, q)
      <4>1. Known(m, Append(p, Base(q)))
        BY <2>1, <2>2, <2>3, <3>1, KnownBelow
      <4>2. QED
        BY ONLY <3>1, <4>1, Zenon
    <3>4. Len(q) + k > PathMax
      BY <1>1, <2>1, <2>2, <3>1
    <3>5. Clean(q)
      BY <1>5, <3>1, <3>2, <3>3, <3>4
    <3>6. QED
      BY <2>5, <3>5
  <2>6. \A q \in Children(m, p) : NodeStatus(c, m, q) \in {"descend", "same"}
    BY <1>1, <1>3, <2>2, ChildrenIs
  <2>7. QED
    BY <2>4, <2>5, <2>6
<1> HIDE DEF G
<1>6. PathMax + 1 \in G
  BY <1>1, <1>4, <1>5, NatSetInduction
<1>7. Clean(Root)
  <2>1. Root \in Nodes(m) /\ Len(Root) = 0 /\ Known(m, Root)
    BY DEF Nodes, Root, Known
  <2>2. Len(Root) + (PathMax + 1) > PathMax
    BY <1>1, <2>1
  <2>3. QED
    BY <1>6, <2>1, <2>2 DEF G
<1>8. QED
  BY <1>2, <1>7

\* Nothing is left to visit: every node has been restored.
LEMMA PendingDone ==
    ASSUME NEW b, NEW m, GoodTree(m), NEW D, Root \in D, Pending(b, m, D, <<>>)
    PROVE  DOMAIN m \subseteq D
<1> DEFINE G == {k \in Nat : \A q \in DOMAIN m : Len(q) <= k => q \in D}
<1>1. \A q \in DOMAIN m : Parent(q) \in D => q \in D
  BY DEF Pending
<1>2. 0 \in G
  BY TreeIs
<1>3. ASSUME NEW k \in Nat, k \in G PROVE k + 1 \in G
  <2>1. SUFFICES ASSUME NEW q \in DOMAIN m, Len(q) <= k + 1 PROVE q \in D
    OBVIOUS
  <2>2. Parent(q) \in DOMAIN m \cup {Root} /\ Len(Parent(q)) = Len(q) - 1 /\ Len(q) \in Nat
    BY TreeIs
  <2>3. Parent(q) \in D
    BY <1>3, <2>1, <2>2
  <2>4. QED
    BY <1>1, <2>3
<1> HIDE DEF G
<1>4. PathMax \in G
  BY <1>2, <1>3, NatSetInduction, DataAssumption
<1>5. QED
  BY <1>4, TreeIs DEF G

\* A checkout that reports success has put every node of the snapshot in its
\* place, and vfs_snap_fsck finds nothing but additions then, whatever the
\* depot has lost meanwhile.
THEOREM SnapRestoreComplete == Spec => RestoreComplete
<1>1. ASSUME SInv, op.kind = "restore", op.todo = <<>>
      PROVE  LET snap == Flat(op.root) IN
             /\ \A p \in DOMAIN snap : /\ Lands(p) \in DOMAIN files
                                       /\ Contents(files)[Lands(p)] = snap[p]
             /\ op.base = Root /\ Readable(op.cred) =>
                   \A r \in Fsck(op.cred, op.root) : r[2] = "ADDED"
  <2>1. PICK c, b, m, w, D, t :
            op = Job(c, b, SnapDir(m), w, t) /\ RestoresAt(files, c, b, m, w, D, t)
    BY <1>1, KindIs DEF Restores
  <2>2. op.base = b /\ op.root = SnapDir(m) /\ op.todo = t /\ op.cred = c
    BY <2>1, JobIs
  <2>3. /\ GoodTree(m) /\ GoodTree(files) /\ Root \in D
        /\ \A q \in D \ {Root} : Landed(files, b, m, q)
    BY <2>1 DEF RestoresAt, Placed
  <2>4. Pending(b, m, D, <<>>)
    BY ONLY <1>1, <2>1, <2>2, Zenon DEF RestoresAt
  <2>5. \A q \in DOMAIN m : Landed(files, b, m, q)
    BY <2>3, <2>4, PendingDone, TreeIs
  <2>6. ASSUME NEW p \in DOMAIN Contents(m)
        PROVE  b \o p \in DOMAIN files /\ Contents(files)[b \o p] = Contents(m)[p]
    <3>1. p \in DOMAIN m
      BY <2>6 DEF Contents
    <3>2. PICK x : x = b \o p
      OBVIOUS
    <3>3. x \in DOMAIN files /\ files[x].type = m[p].type /\ files[x].data = m[p].data
      BY ONLY <2>5, <3>1, <3>2, Zenon DEF Landed
    <3>4. Contents(files)[x] = Contents(m)[p]
      BY <3>1, <3>3 DEF Contents
    <3>5. QED
      BY ONLY <3>2, <3>3, <3>4, Zenon
  <2>7. ASSUME b = Root, Readable(c), NEW r \in Fsck(c, SnapDir(m))
        PROVE  r[2] = "ADDED"
    <3>1. \A q \in DOMAIN m : Landed(files, Root, m, q)
      BY ONLY <2>5, <2>7, Zenon
    <3>2. QED
      BY <2>3, <2>7, <3>1, FsckRestored
  <2>8. Flat(op.root) = Contents(m)
    BY <2>2, <2>3, FlatIs
  <2>9. QED
    BY ONLY <2>2, <2>6, <2>7, <2>8, Zenon DEF Lands
<1>2. SInv /\ [Next]_vars =>
         [op.kind = "restore" /\ op'.kind = "idle" /\ op.todo = <<>> =>
             LET snap == Flat(op.root) IN
             /\ \A p \in DOMAIN snap : /\ Lands(p) \in DOMAIN files
                                       /\ Contents(files)[Lands(p)] = snap[p]
             /\ op.base = Root /\ Readable(op.cred) =>
                   \A r \in Fsck(op.cred, op.root) : r[2] = "ADDED"]_vars
  BY ONLY <1>1, Zenon
<1>3. QED
  BY <1>2, SnapInvariant, PTL DEF Spec, RestoreComplete

-----------------------------------------------------------------------------
(* What vfs_snap_fsck finds in a snapshot that is whole.                   *)

\* A directory on both sides.
InBoth(m, p) ==
    p = Root \/ (p \in DOMAIN m \cap DOMAIN files /\ m[p].type = "dir" /\ files[p].type = "dir")

\* How the two sides differ at q.
Diff(m, q) ==
    IF q \notin DOMAIN m THEN "ADDED"
    ELSE IF q \notin DOMAIN files THEN "MISSING"
    ELSE IF m[q].type # files[q].type THEN "TYPE"
    ELSE IF m[q].type = "dir" THEN "descend"
    ELSE IF m[q].data # files[q].data THEN "MODIFIED"
    ELSE "same"

\* The topmost differences.
Differs(m, q) ==
    /\ q \in DOMAIN m \cup DOMAIN files
    /\ InBoth(m, Parent(q))
    /\ Diff(m, q) # "descend" /\ Diff(m, q) # "same"

\* What a node lies in is a directory all the way up.
LEMMA PrefixDir ==
    ASSUME NEW m, GoodTree(m), NEW p \in Nodes(m), NEW k \in 1..(Len(p) - 1)
    PROVE  SubSeq(p, 1, k) \in DOMAIN m /\ m[SubSeq(p, 1, k)].type = "dir"
<1>1. p \in Seq(Names) /\ Len(p) \in Nat
  BY TreeIs, PathIs DEF Nodes
<1>2. k \in 0..Len(p) /\ k + 1 \in 0..Len(p) /\ k + 1 \in 1..Len(p) /\ (k + 1) - 1 = k
      /\ k \in 1..Len(p)
  BY <1>1
<1>3. PICK q : q = SubSeq(p, 1, k)
  OBVIOUS
<1>4. PICK r : r = SubSeq(p, 1, k + 1)
  OBVIOUS
<1>5. q \in Nodes(m) /\ r \in Nodes(m)
  BY <1>2, <1>3, <1>4, PrefixThere
<1>6. q # Root /\ r # Root /\ Parent(r) = q
  <2>1. SubSeq(p, 1, k) # Root /\ SubSeq(p, 1, k + 1) # Root
    BY <1>1, <1>2, PrefixIs
  <2>2. Parent(SubSeq(p, 1, k + 1)) = SubSeq(p, 1, (k + 1) - 1)
    BY <1>1, <1>2, PrefixIs
  <2>3. QED
    BY ONLY <1>2, <1>3, <1>4, <2>1, <2>2, Zenon
<1>7. q \in DOMAIN m /\ m[q].type = "dir"
  BY <1>5, <1>6, TreeIs DEF Nodes
<1>8. QED
  BY <1>3, <1>7

\* Prefixes of prefixes.
LEMMA PrefixOfPrefix ==
    ASSUME NEW q \in Seq(Names), NEW j \in 0..Len(q), NEW k \in 0..j
    PROVE  SubSeq(SubSeq(q, 1, j), 1, k) = SubSeq(q, 1, k)
<1>1. PICK x : x = SubSeq(q, 1, j)
  OBVIOUS
<1>2. PICK y : y = SubSeq(x, 1, k)
  OBVIOUS
<1>3. PICK z : z = SubSeq(q, 1, k)
  OBVIOUS
<1>4. x \in Seq(Names) /\ Len(x) = j /\ \A i \in 1..j : x[i] = q[i]
  BY <1>1
<1>5. y \in Seq(Names) /\ Len(y) = k /\ \A i \in 1..k : y[i] = x[i]
  BY <1>2, <1>4
<1>6. z \in Seq(Names) /\ Len(z) = k /\ \A i \in 1..k : z[i] = q[i]
  BY <1>3
<1>7. \A i \in 1..k : y[i] = z[i]
  BY <1>4, <1>5, <1>6
<1>8. y = z
  BY <1>5, <1>6, <1>7, SeqEqual
<1>9. QED
  BY <1>1, <1>2, <1>3, <1>8

LEMMA ComparableIs ==
    ASSUME NEW m, GoodTree(m), GoodTree(files), NEW q \in Paths, q # Root
    PROVE  Comparable(Contents(m), q) <=> InBoth(m, Parent(q))
<1> DEFINE Pre(k) == SubSeq(q, 1, k)
           Dir(x) == x \in DOMAIN m /\ m[x].type = "dir" /\ M!IsDir(files, x)
<1>1. q \in Seq(Names) /\ Len(q) \in Nat \ {0} /\ Root \notin DOMAIN m /\ Root \notin DOMAIN files
  BY PathIs, TreeIs DEF Root
<1>2. Comparable(Contents(m), q) <=> \A k \in 1..(Len(q) - 1) : Dir(Pre(k))
  <2>1. /\ DOMAIN Contents(m) = DOMAIN m
        /\ \A x \in DOMAIN m : Contents(m)[x].type = m[x].type
    BY DEF Contents
  <2>2. \A x : x \in DOMAIN Contents(m) /\ Contents(m)[x].type = "dir" /\ M!IsDir(files, x) <=> Dir(x)
    BY <2>1
  <2> HIDE DEF Dir
  <2>3. QED
    BY ONLY <2>2, Zenon DEF Comparable
<1>3. \A x : x # Root => (Dir(x) <=> InBoth(m, x))
  BY IsDirIs DEF InBoth
<1> HIDE DEF Dir
<1>4. Parent(q) = Pre(Len(q) - 1) /\ Len(Parent(q)) = Len(q) - 1
  BY <1>1, SplitIs DEF Parent
<1>5. CASE Len(q) = 1
  <2>1. Parent(q) = Root
    <3>1. Pre(0) = Root
      BY <1>1, PrefixIs
    <3>2. Len(q) - 1 = 0
      BY <1>5
    <3>3. QED
      BY <1>4, <3>1, <3>2
  <2>2. QED
    BY <1>1, <1>2, <1>5, <2>1 DEF InBoth
<1>6. CASE Len(q) # 1
  <2>1. Len(q) - 1 \in 1..(Len(q) - 1)
    <3>1. Len(q) \in Nat \ {0} /\ Len(q) # 1
      BY <1>1, <1>6
    <3>2. \A j \in Nat \ {0} : j # 1 => j - 1 \in 1..(j - 1)
      OBVIOUS
    <3>3. QED
      BY ONLY <3>1, <3>2, Zenon
  <2>2. Parent(q) # Root
    <3>1. Len(Root) = 0
      BY DEF Root
    <3>2. Len(Parent(q)) # 0
      <4>1. \A j, l : j \in 1..j /\ l = j => l # 0
        OBVIOUS
      <4>2. QED
        BY ONLY <1>4, <2>1, <4>1, Zenon
    <3>3. QED
      BY ONLY <3>1, <3>2, Zenon
  <2>3. ASSUME \A k \in 1..(Len(q) - 1) : Dir(Pre(k)) PROVE InBoth(m, Parent(q))
    BY <1>3, <1>4, <2>1, <2>2, <2>3
  <2>4. ASSUME InBoth(m, Parent(q)), NEW k \in 1..(Len(q) - 1) PROVE Dir(Pre(k))
    <3>1. CASE k = Len(q) - 1
      BY <1>3, <1>4, <2>2, <2>4, <3>1
    <3>2. CASE k # Len(q) - 1
      <4>1. PICK p : p = Parent(q)
        OBVIOUS
      <4>2. p \in Nodes(m) /\ p \in Nodes(files)
        BY <2>2, <2>4, <4>1 DEF InBoth, Nodes
      <4>3. k \in 1..(Len(p) - 1)
        BY <1>1, <1>4, <3>2, <4>1
      <4>4. /\ SubSeq(p, 1, k) \in DOMAIN m /\ m[SubSeq(p, 1, k)].type = "dir"
            /\ SubSeq(p, 1, k) \in DOMAIN files /\ files[SubSeq(p, 1, k)].type = "dir"
        BY <4>2, <4>3, PrefixDir
      <4>5. SubSeq(p, 1, k) = Pre(k)
        <5>1. Len(q) - 1 \in 0..Len(q) /\ k \in 0..(Len(q) - 1)
          BY <1>1
        <5>2. SubSeq(SubSeq(q, 1, Len(q) - 1), 1, k) = SubSeq(q, 1, k)
          BY <1>1, <5>1, PrefixOfPrefix
        <5>3. QED
          BY ONLY <1>4, <4>1, <5>2, Zenon
      <4>6. M!IsDir(files, SubSeq(p, 1, k))
        BY <4>4, IsDirIs
      <4>7. Dir(SubSeq(p, 1, k))
        BY ONLY <4>4, <4>6, Zenon DEF Dir
      <4>8. QED
        BY ONLY <4>5, <4>7, Zenon
    <3>3. QED
      BY <3>1, <3>2
  <2>5. QED
    BY ONLY <1>2, <2>3, <2>4, Zenon
<1>7. QED
  BY <1>5, <1>6

\* Below a child is below the parent, ...
LEMMA UnderChild ==
    ASSUME NEW p \in Seq(Names), NEW x \in Seq(Names), NEW q \in Seq(Names),
           x # Root, Parent(x) = p, Under(x, q)
    PROVE  Under(p, q)
<1>1. /\ Len(x) \in Nat \ {0} /\ Len(p) = Len(x) - 1 /\ Len(q) \in Nat /\ Len(q) > Len(x)
      /\ SubSeq(q, 1, Len(x)) = x
  <2>1. Len(x) \in Nat \ {0} /\ Len(Parent(x)) = Len(x) - 1
    BY SplitIs
  <2>2. Len(q) > Len(x) /\ SubSeq(q, 1, Len(x)) = x
    BY ONLY Under(x, q), Zenon DEF Under
  <2>3. Len(p) = Len(x) - 1
    BY ONLY <2>1, Parent(x) = p, Zenon
  <2>4. Len(q) \in Nat
    OBVIOUS
  <2>5. QED
    BY ONLY <2>1, <2>2, <2>3, <2>4, Zenon
<1>2. Len(x) \in 1..Len(q) /\ Len(q) > Len(p)
  BY <1>1
<1>3. Parent(SubSeq(q, 1, Len(x))) = SubSeq(q, 1, Len(x) - 1)
  BY <1>2, PrefixIs
<1>4. SubSeq(q, 1, Len(p)) = p
  BY ONLY <1>1, <1>3, Parent(x) = p, Zenon
<1>5. QED
  BY <1>2, <1>4 DEF Under

\* ... and what is below p but not its child is below a child of p.
LEMMA ChildAbove ==
    ASSUME NEW m, GoodTree(m), GoodTree(files), NEW p \in Seq(Names), NEW q \in Seq(Names),
           Under(p, q), InBoth(m, Parent(q)), Parent(q) # p
    PROVE  \E x \in Children(m, p) : InBoth(m, x) /\ Under(x, q)
<1>1. Len(p) \in Nat /\ Len(q) \in Nat /\ Len(q) > Len(p) /\ SubSeq(q, 1, Len(p)) = p
  BY DEF Under
<1>2. q # Root
  BY <1>1 DEF Root
<1>3. PICK y : y = Parent(q)
  OBVIOUS
<1>4. y \in Seq(Names) /\ Len(y) = Len(q) - 1 /\ y = SubSeq(q, 1, Len(q) - 1) /\ y # p
  BY <1>2, <1>3, SplitIs DEF Parent
<1>5. Len(q) # Len(p) + 1
  <2>1. SUFFICES ASSUME Len(q) = Len(p) + 1 PROVE FALSE
    OBVIOUS
  <2>2. Len(q) - 1 = Len(p)
    BY <1>1, <2>1
  <2>3. y = p
    BY ONLY <1>1, <1>4, <2>2, Zenon
  <2>4. QED
    BY <1>4, <2>3
<1>6. PICK j : j = Len(p) + 1
  OBVIOUS
<1>7. /\ j \in 1..Len(q) /\ j \in 0..Len(q) /\ j - 1 = Len(p) /\ Len(q) > j
      /\ j \in 0..(Len(q) - 1) /\ Len(q) - 1 \in 0..Len(q) /\ j \in 1..Len(y)
  BY <1>1, <1>4, <1>5, <1>6
<1>8. PICK x : x = SubSeq(q, 1, j)
  OBVIOUS
<1>9. x \in Seq(Names) /\ Len(x) = j /\ x # Root /\ Parent(x) = p
  <2>1. /\ SubSeq(q, 1, j) \in Seq(Names) /\ Len(SubSeq(q, 1, j)) = j
        /\ SubSeq(q, 1, j) # Root /\ Parent(SubSeq(q, 1, j)) = SubSeq(q, 1, j - 1)
    BY <1>7, PrefixIs
  <2>2. QED
    BY ONLY <1>1, <1>7, <1>8, <2>1, Zenon
<1>10. Under(x, q)
  BY <1>7, <1>8, <1>9 DEF Under
<1>11. x = SubSeq(y, 1, j)
  <2>1. SubSeq(SubSeq(q, 1, Len(q) - 1), 1, j) = SubSeq(q, 1, j)
    BY <1>7, PrefixOfPrefix
  <2>2. QED
    BY ONLY <1>4, <1>8, <2>1, Zenon
<1>12. InBoth(m, x)
  <2>1. CASE j = Len(y)
    <3>1. SubSeq(y, 1, Len(y)) = y
      BY <1>4, PrefixIs
    <3>2. x = y
      BY ONLY <1>11, <2>1, <3>1, Zenon
    <3>3. QED
      BY ONLY <1>3, <3>2, InBoth(m, Parent(q)), Zenon
  <2>2. CASE j # Len(y)
    <3>1. j \in 1..(Len(y) - 1)
      BY <1>4, <1>7, <2>2
    <3>2. y # Root
      BY <1>4, <1>7 DEF Root
    <3>3. y \in Nodes(m) /\ y \in Nodes(files)
      BY <1>3, <3>2 DEF InBoth, Nodes
    <3>4. /\ SubSeq(y, 1, j) \in DOMAIN m /\ m[SubSeq(y, 1, j)].type = "dir"
          /\ SubSeq(y, 1, j) \in DOMAIN files /\ files[SubSeq(y, 1, j)].type = "dir"
      BY <3>1, <3>3, PrefixDir
    <3>5. x \in DOMAIN m /\ m[x].type = "dir" /\ x \in DOMAIN files /\ files[x].type = "dir"
      BY ONLY <1>11, <3>4, Zenon
    <3>6. QED
      BY <3>5 DEF InBoth
  <2>3. QED
    BY <2>1, <2>2
<1>13. x \in Children(m, p)
  <2>1. x \in DOMAIN m
    BY <1>9, <1>12 DEF InBoth
  <2>2. x \in Children(m, Parent(x))
    BY <2>1, TreeIs
  <2>3. QED
    BY ONLY <1>9, <2>2, Zenon
<1>14. QED
  BY <1>10, <1>12, <1>13

LEMMA FsckWhole ==
    ASSUME NEW m, GoodTree(m), GoodTree(files), Closure(SnapDir(m)) \subseteq objs,
           NEW c, Readable(c)
    PROVE  \A r : r \in Fsck(c, SnapDir(m)) <=>
                     \E q : Differs(m, q) /\ r = <<q, Diff(m, q)>>
<1>1. /\ DOMAIN files \subseteq Paths /\ DOMAIN m \subseteq Paths /\ PathMax \in Nat
      /\ Root \notin DOMAIN m /\ Root \notin DOMAIN files
  BY TreeIs, DataAssumption
<1>2. PICK f : /\ Fsck(c, SnapDir(m)) = f[Root]
               /\ \A p \in Paths : f[p] = FsckAt(f, c, SnapDir(m), p)
  BY <1>1, FsckIs
<1> DEFINE Exact(p) == \A r : r \in f[p] <=>
                          \E q : Differs(m, q) /\ Under(p, q) /\ r = <<q, Diff(m, q)>>
           G == {k \in Nat : \A p \in Nodes(m) : Len(p) + k > PathMax /\ InBoth(m, p) => Exact(p)}
<1>3. ASSUME NEW q \in DOMAIN m
      PROVE  NodeStatus(c, m, q) = Diff(m, q) /\ (Diff(m, q) = "descend" <=> InBoth(m, q))
  <2>1. NodeStatus(c, m, q) = Diff(m, q)
    BY NodeStatusIs DEF Diff
  <2>2. Diff(m, q) = "descend" <=> InBoth(m, q)
    BY <1>1 DEF Diff, InBoth
  <2>3. QED
    BY <2>1, <2>2
<1>4. \A q : Differs(m, q) => q \in Seq(Names) /\ q # Root
  BY <1>1, PathIs DEF Differs
<1>5. 0 \in G
  <2>1. \A p \in Nodes(m) : Len(p) \in Nat /\ Len(p) <= PathMax
    BY <1>1, TreeIs DEF Nodes, Root
  <2>2. QED
    BY <1>1, <2>1
<1>6. ASSUME NEW k \in Nat, k \in G PROVE k + 1 \in G
  <2>1. SUFFICES ASSUME NEW p \in Nodes(m), Len(p) + (k + 1) > PathMax, InBoth(m, p), NEW r
                 PROVE  r \in f[p] <=>
                           \E q : Differs(m, q) /\ Under(p, q) /\ r = <<q, Diff(m, q)>>
    OBVIOUS
  <2>2. p \in Paths /\ p \in Seq(Names) /\ f[p] = FsckAt(f, c, SnapDir(m), p)
    BY <1>2, TreeIs, PathIs DEF Nodes
  <2>3. Objects(m)[p] \in objs /\ Known(m, p)
    <3>1. \A q \in Nodes(m) : Objects(m)[q] \in objs
      BY ClosureClosed
    <3>2. \A j \in 0..(Len(p) - 1) : SubSeq(p, 1, j) \in Nodes(m)
      <4>1. \A j \in 0..(Len(p) - 1) : j \in 0..Len(p)
        BY <2>2
      <4>2. QED
        BY <4>1, PrefixThere
    <3>3. QED
      BY ONLY <2>1, <3>1, <3>2, Zenon DEF Known
  <2>4. FsckListed(c, p)
    BY <2>1, IsDirIs DEF FsckListed, InBoth, Readable
  <2>5. p = Root \/ m[p].type = "dir"
    BY <2>1 DEF InBoth
  <2> DEFINE A == \E x \in Children(m, p) : NodeStatus(c, m, x) = "descend" /\ r \in f[x]
             B == \E x \in Children(m, p) :
                     /\ NodeStatus(c, m, x) # "descend" /\ NodeStatus(c, m, x) # "same"
                     /\ r = <<x, NodeStatus(c, m, x)>>
             C == \E x \in Children(files, p) : x \notin DOMAIN m /\ r = <<x, "ADDED">>
             E == \E q : Differs(m, q) /\ Under(p, q) /\ r = <<q, Diff(m, q)>>
  <2>6. r \in f[p] <=> A \/ B \/ C
    <3>1. r \in FsckAt(f, c, SnapDir(m), p) <=> A \/ B \/ C
      BY <2>3, <2>4, <2>5, FsckAtIs
    <3>2. QED
      BY ONLY <2>2, <3>1, Zenon
  <2>7. ASSUME NEW x \in Children(m, p)
        PROVE  /\ x \in DOMAIN m /\ x \in Nodes(m) /\ x \in Seq(Names) /\ x # Root /\ Parent(x) = p
               /\ Len(x) = Len(p) + 1 /\ Under(p, x)
    BY <1>1, <2>2, ChildrenIs, PathIs DEF Nodes, Children
  <2>8. ASSUME NEW x \in Children(m, p), InBoth(m, x) PROVE Exact(x)
    <3>1. Len(x) + k > PathMax
      BY <1>1, <2>1, <2>2, <2>7
    <3>2. QED
      BY <1>6, <2>7, <2>8, <3>1
  <2>9. ASSUME A PROVE E
    <3>1. PICK x \in Children(m, p) : NodeStatus(c, m, x) = "descend" /\ r \in f[x]
      BY <2>9
    <3>2. InBoth(m, x)
      BY <1>3, <2>7, <3>1
    <3>3. PICK q : Differs(m, q) /\ Under(x, q) /\ r = <<q, Diff(m, q)>>
      BY <2>8, <3>1, <3>2
    <3>4. Under(p, q)
      BY <1>4, <2>2, <2>7, <3>3, UnderChild
    <3>5. QED
      BY ONLY <3>3, <3>4, Zenon
  <2>10. ASSUME B PROVE E
    <3>1. PICK x \in Children(m, p) :
             /\ NodeStatus(c, m, x) # "descend" /\ NodeStatus(c, m, x) # "same"
             /\ r = <<x, NodeStatus(c, m, x)>>
      BY <2>10
    <3>2. x \in DOMAIN m /\ Parent(x) = p /\ Under(p, x) /\ NodeStatus(c, m, x) = Diff(m, x)
      BY <1>3, <2>7
    <3>3. Differs(m, x)
      BY <2>1, <3>1, <3>2 DEF Differs
    <3>4. QED
      BY ONLY <3>1, <3>2, <3>3, Zenon
  <2>11. ASSUME C PROVE E
    <3>1. PICK x \in Children(files, p) : x \notin DOMAIN m /\ r = <<x, "ADDED">>
      BY <2>11
    <3>2. x \in DOMAIN files /\ Parent(x) = p /\ Under(p, x)
      BY <1>1, <2>2, ChildrenIs DEF Children
    <3>3. Diff(m, x) = "ADDED"
      BY <3>1 DEF Diff
    <3>4. Differs(m, x)
      BY <2>1, <3>2, <3>3 DEF Differs
    <3>5. QED
      BY ONLY <3>1, <3>2, <3>3, <3>4, Zenon
  <2>12. ASSUME E PROVE A \/ B \/ C
    <3>1. PICK q : Differs(m, q) /\ Under(p, q) /\ r = <<q, Diff(m, q)>>
      BY <2>12
    <3>2. /\ q \in DOMAIN m \cup DOMAIN files /\ InBoth(m, Parent(q))
          /\ Diff(m, q) # "descend" /\ Diff(m, q) # "same" /\ q \in Seq(Names)
      BY <1>4, <3>1 DEF Differs
    <3>3. CASE Parent(q) # p
      <4>1. PICK x \in Children(m, p) : InBoth(m, x) /\ Under(x, q)
        BY <2>2, <3>1, <3>2, <3>3, ChildAbove
      <4>2. r \in f[x]
        BY <2>8, <3>1, <4>1
      <4>3. NodeStatus(c, m, x) = "descend"
        BY <1>3, <2>7, <4>1
      <4>4. QED
        BY <4>2, <4>3
    <3>4. CASE Parent(q) = p /\ q \in DOMAIN m
      <4>1. q \in Children(m, p)
        BY <3>4, TreeIs
      <4>2. NodeStatus(c, m, q) = Diff(m, q)
        BY <1>3, <3>4
      <4>3. B
        BY ONLY <3>1, <3>2, <4>1, <4>2, Zenon
      <4>4. QED
        BY <4>3
    <3>5. CASE Parent(q) = p /\ q \notin DOMAIN m
      <4>1. q \in Children(files, p)
        BY <3>2, <3>5, TreeIs
      <4>2. Diff(m, q) = "ADDED"
        BY <3>5 DEF Diff
      <4>3. C
        BY ONLY <3>1, <3>5, <4>1, <4>2, Zenon
      <4>4. QED
        BY <4>3
    <3>6. QED
      BY <3>3, <3>4, <3>5
  <2> HIDE DEF A, B, C
  <2>13. QED
    BY ONLY <2>6, <2>9, <2>10, <2>11, <2>12, Zenon
<1> HIDE DEF G
<1>7. PathMax + 1 \in G
  BY <1>1, <1>5, <1>6, NatSetInduction
<1>8. Exact(Root)
  <2>1. Root \in Nodes(m) /\ Len(Root) = 0 /\ InBoth(m, Root)
    BY DEF Nodes, Root, InBoth
  <2>2. Len(Root) + (PathMax + 1) > PathMax
    BY <1>1, <2>1
  <2>3. QED
    BY <1>7, <2>1, <2>2 DEF G
<1>9. \A q : Differs(m, q) => Under(Root, q)
  <2>1. \A q \in Seq(Names) : q # Root => Under(Root, q)
    BY DEF Under, Root
  <2>2. QED
    BY <1>4, <2>1
<1>10. QED
  BY ONLY <1>2, <1>8, <1>9, Zenon

LEMMA FsckHolds == ASSUME SInv PROVE FsckExact
<1>1. SUFFICES ASSUME head # None, Closure(head) \subseteq objs PROVE FsckExact
  BY DEF FsckExact
<1>2. PICK m : GoodTree(m) /\ head = SnapDir(m)
  BY <1>1 DEF SInv, Committed
<1> DEFINE snap == Flat(head)
           here == Contents(files)
<1>3. snap = Contents(m)
  BY <1>2, FlatIs
<1>4. GoodTree(files) /\ Closure(SnapDir(m)) \subseteq objs
  BY <1>1, <1>2 DEF SInv
<1>5. here = Contents(files)
  OBVIOUS
<1> HIDE DEF snap, here
<1>7. /\ DOMAIN snap = DOMAIN m /\ DOMAIN here = DOMAIN files
      /\ \A p \in DOMAIN m : snap[p].type = m[p].type /\ snap[p].data = m[p].data
      /\ \A p \in DOMAIN files : here[p].type = files[p].type /\ here[p].data = files[p].data
  BY <1>3, <1>5 DEF Contents
<1> DEFINE Only     == DOMAIN snap \ DOMAIN here
           New      == DOMAIN here \ DOMAIN snap
           both     == DOMAIN snap \cap DOMAIN here
           Changed  == {p \in both : snap[p].type # here[p].type}
           Modified == {p \in both : snap[p].type = here[p].type
                                     /\ snap[p].data # here[p].data}
           Top(P, status) == {<<p, status>> : p \in {q \in P : Comparable(snap, q)}}
<1>8. ASSUME NEW q \in DOMAIN m \cup DOMAIN files
      PROVE  Comparable(snap, q) <=> InBoth(m, Parent(q))
  <2>1. q \in Paths /\ q # Root
    BY <1>2, <1>4, TreeIs
  <2>2. Comparable(Contents(m), q) <=> InBoth(m, Parent(q))
    BY <1>2, <1>4, <2>1, ComparableIs
  <2>3. QED
    BY ONLY <1>3, <2>2, Zenon
<1>9. ASSUME NEW q
      PROVE  Differs(m, q) <=> q \in Only \cup New \cup Changed \cup Modified
                               /\ InBoth(m, Parent(q))
  <2>1. q \in DOMAIN m => /\ m[q].type \in {"file", "dir"}
                          /\ m[q].type = "dir" => m[q].data = Empty
    BY <1>2 DEF GoodTree, Node
  <2>2. q \in DOMAIN files /\ files[q].type = "dir" => files[q].data = Empty
    BY <1>4 DEF GoodTree
  <2>3. QED
    BY <1>7, <2>1, <2>2 DEF Differs, Diff
<1>10. ASSUME NEW q, Differs(m, q)
       PROVE  /\ q \in Only <=> Diff(m, q) = "MISSING"
              /\ q \in New <=> Diff(m, q) = "ADDED"
              /\ q \in Changed <=> Diff(m, q) = "TYPE"
              /\ q \in Modified <=> Diff(m, q) = "MODIFIED"
              /\ q \in DOMAIN m \cup DOMAIN files
  BY <1>7, <1>10 DEF Differs, Diff
<1> HIDE DEF Only, New, Changed, Modified
<1>11. Only \cup New \cup Changed \cup Modified \subseteq DOMAIN m \cup DOMAIN files
  BY <1>7 DEF Only, New, Changed, Modified
<1>12. ASSUME NEW r
       PROVE  (\E q : Differs(m, q) /\ r = <<q, Diff(m, q)>>) <=>
                 \/ r \in Top(Only, "MISSING") \/ r \in Top(New, "ADDED")
                 \/ r \in Top(Changed, "TYPE") \/ r \in Top(Modified, "MODIFIED")
  <2>1. ASSUME NEW q, Differs(m, q), r = <<q, Diff(m, q)>>
        PROVE  \/ r \in Top(Only, "MISSING") \/ r \in Top(New, "ADDED")
               \/ r \in Top(Changed, "TYPE") \/ r \in Top(Modified, "MODIFIED")
    <3>1. Comparable(snap, q)
      BY <1>8, <1>9, <1>10, <2>1
    <3>2. q \in Only \/ q \in New \/ q \in Changed \/ q \in Modified
      BY <1>9, <2>1
    <3>3. QED
      BY ONLY <1>10, <2>1, <3>1, <3>2, Zenon
  <2>2. ASSUME NEW q, Comparable(snap, q),
               \/ q \in Only /\ r = <<q, "MISSING">>
               \/ q \in New /\ r = <<q, "ADDED">>
               \/ q \in Changed /\ r = <<q, "TYPE">>
               \/ q \in Modified /\ r = <<q, "MODIFIED">>
        PROVE  Differs(m, q) /\ r = <<q, Diff(m, q)>>
    <3>1. q \in Only \cup New \cup Changed \cup Modified
      BY <2>2
    <3>2. Differs(m, q)
      BY <1>8, <1>9, <1>11, <2>2, <3>1
    <3>3. QED
      BY ONLY <1>10, <2>2, <3>2, Zenon
  <2>3. \A P, status : r \in Top(P, status)
                          <=> \E q \in P : Comparable(snap, q) /\ r = <<q, status>>
    BY ONLY TRUE, Zenon
  <2> HIDE DEF Top
  <2> DEFINE Found(P, status) == \E q \in P : Comparable(snap, q) /\ r = <<q, status>>
             E == \E q : Differs(m, q) /\ r = <<q, Diff(m, q)>>
  <2>4. /\ Found(Only, "MISSING") => E
        /\ Found(New, "ADDED") => E
        /\ Found(Changed, "TYPE") => E
        /\ Found(Modified, "MODIFIED") => E
    BY ONLY <2>2, Zenon
  <2>5. E => \/ r \in Top(Only, "MISSING") \/ r \in Top(New, "ADDED")
             \/ r \in Top(Changed, "TYPE") \/ r \in Top(Modified, "MODIFIED")
    BY ONLY <2>1, Zenon
  <2>6. /\ r \in Top(Only, "MISSING") => Found(Only, "MISSING")
        /\ r \in Top(New, "ADDED") => Found(New, "ADDED")
        /\ r \in Top(Changed, "TYPE") => Found(Changed, "TYPE")
        /\ r \in Top(Modified, "MODIFIED") => Found(Modified, "MODIFIED")
    BY ONLY <2>3, Zenon
  <2> HIDE DEF Found, E
  <2>7. E <=> \/ r \in Top(Only, "MISSING") \/ r \in Top(New, "ADDED")
              \/ r \in Top(Changed, "TYPE") \/ r \in Top(Modified, "MODIFIED")
    BY ONLY <2>4, <2>5, <2>6
  <2>8. QED
    BY ONLY <2>7, Zenon DEF E
<1>13. ASSUME NEW c \in Users, Readable(c)
       PROVE  Fsck(c, head) = Top(Only, "MISSING") \cup Top(New, "ADDED")
                              \cup Top(Changed, "TYPE") \cup Top(Modified, "MODIFIED")
  <2>1. \A r : r \in Fsck(c, SnapDir(m)) <=> \E q : Differs(m, q) /\ r = <<q, Diff(m, q)>>
    BY <1>2, <1>4, <1>13, FsckWhole
  <2>2. \A r : r \in Fsck(c, head) <=>
                 \/ r \in Top(Only, "MISSING") \/ r \in Top(New, "ADDED")
                 \/ r \in Top(Changed, "TYPE") \/ r \in Top(Modified, "MODIFIED")
    <3> HIDE DEF Top
    <3>1. QED
      BY ONLY <1>2, <1>12, <2>1, Zenon
  <2>3. QED
    <3> HIDE DEF Top
    <3>1. QED
      BY ONLY <2>2
<1>14. QED
  BY ONLY <1>13, Zenon DEF FsckExact, snap, here, Only, New, Changed, Modified

\* Both comparisons with a snapshot that is whole, of the whole filesystem and
\* of a single file, find exactly what differs.
THEOREM SnapChecksExact == Spec => []ChecksExact
<1>1. SInv => ChecksExact
  BY FsckHolds, CheckFileHolds DEF ChecksExact
<1>2. QED
  BY <1>1, SnapInvariant, PTL

=============================================================================
