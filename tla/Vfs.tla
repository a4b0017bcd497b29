-------------------------------- MODULE Vfs --------------------------------
(***************************************************************************)
(* The filesystem as vfs.c keeps it: a flat array of nodes, each with its  *)
(* whole path, searched from the front, appended to at the end, and        *)
(* emptied by moving the last node into the hole.  Directory structure     *)
(* exists only in the paths.  One action per call; a vfs_list is open      *)
(* across several, because its callback may call back in.                  *)
(***************************************************************************)
EXTENDS VfsBase, SequencesExt

CONSTANTS
    MaxNodes,    \* bound on the array's length
    NoMem,       \* an allocation may fail
    Listers,     \* the callers that list directories
    InCallback   \* the calls a vfs_list callback makes

ASSUME VfsAssumption ==
    /\ MaxNodes \in Nat /\ NoMem \in BOOLEAN /\ Listers \subseteq Creds
    /\ InCallback \subseteq {"write", "mkdir", "delete", "rename", "chmod"}

VARIABLES
    nodes,    \* the array
    usage,    \* total bytes in files
    call,     \* the last call, with its arguments
    ok,       \* it returned VFS_OK
    ldir,     \* directory being listed, in a set; {} when none is
    lpos,     \* next index vfs_list looks at
    lseen,    \* paths its callback was given
    lall      \* children the directory had when the listing began

listVars == <<ldir, lpos, lseen, lall>>
vars == <<nodes, usage, call, ok, listVars>>

Node == [path : Seq(Names), type : {"file", "dir"}, mode : SUBSET Perms,
         owner : Nat, data : Data]

Init ==
    /\ nodes = <<>> /\ usage = 0 /\ call = NoCall /\ ok = TRUE
    /\ ldir = {} /\ lpos = 0 /\ lseen = {} /\ lall = {}

-----------------------------------------------------------------------------
(* The array.                                                              *)

\* find_node: the first entry with that path, 0 if none.
Find(t, p) ==
    LET at == {i \in DOMAIN t : t[i].path = p} IN
    IF at = {} THEN 0 ELSE Min(at)

NewNode(p, type, mode, c, d) ==
    [path |-> p, type |-> type, mode |-> mode, owner |-> c.uid, data |-> d]

\* remove_node: the last entry takes the place of the removed one.
RemoveNode(t, i) ==
    SubSeq(IF i < Len(t) THEN [t EXCEPT ![i] = t[Len(t)]] ELSE t, 1, Len(t) - 1)

Freed(t, i) == IF t[i].type = "file" THEN Size[t[i].data] ELSE 0

IsDirNode(t, p) == p = Root \/ (Find(t, p) # 0 /\ t[Find(t, p)].type = "dir")

Children(t, p) == {i \in DOMAIN t : Under(p, t[i].path)}

\* An early return with code r.
Returns(r) == ok' = (r = "OK") /\ UNCHANGED <<nodes, usage>>

\* The call k is made: no listing is open, or its callback makes it.
Called(op, k) ==
    /\ ldir = {} \/ (lpos > 0 /\ op \in InCallback)
    /\ call' = k
    /\ UNCHANGED listVars

-----------------------------------------------------------------------------
(* Parents.                                                                *)

\* How many components of the lowest existing proper ancestor.
Depth(p) == Max({0} \cup {k \in 1..(Len(p) - 1) : Find(nodes, SubSeq(p, 1, k)) # 0})

\* ensure_parents: the directories it adds, top first.
Chain(c, p, parents) ==
    [k \in 1..(IF parents THEN Len(p) - 1 - Depth(p) ELSE 0) |->
        NewNode(SubSeq(p, 1, Depth(p) + k), "dir", DirMode, c, Empty)]

ParentError(t, p, parents) ==
    LET a == IF parents THEN SubSeq(p, 1, Depth(p)) ELSE Parent(p) IN
    IF IsDirNode(t, a) THEN "OK"
    ELSE IF Find(t, a) = 0 THEN "ENOTFOUND" ELSE "ENOTDIR"

\* The array's bound.
Fits(n) == Len(nodes) + n <= MaxNodes

\* Memory runs out after k of the parents were added; all of them, if the
\* call has something to allocate for itself.
RunsOut(chain, more) ==
    /\ NoMem /\ ok' = FALSE /\ UNCHANGED usage
    /\ \E k \in 0..Len(chain) :
        /\ more \/ k < Len(chain)
        /\ Fits(k) /\ nodes' = nodes \o SubSeq(chain, 1, k)

-----------------------------------------------------------------------------
(* vfs_write and vfs_copy.                                                 *)

OldSize(p) ==
    IF Find(nodes, p) = 0 THEN 0 ELSE Size[nodes[Find(nodes, p)].data]

WriteError(c, p, d, parents) ==
    LET i == Find(nodes, p) IN
    IF IsDirNode(nodes, p) THEN "EISDIR"
    ELSE IF i # 0 /\ ~ CheckPerm(nodes[i], c, "W") THEN "EPERM"
    ELSE IF Quota > 0 /\ usage - OldSize(p) + Size[d] > Quota THEN "EQUOTA"
    ELSE ParentError(nodes, p, parents)

\* The node is looked up ahead of ensure_parents.  If that adds a node the
\* array may move, and the overwrite is then made in the old one.
Overwrite(i, d, chain) ==
    \/ nodes' = [nodes EXCEPT ![i].data = d] \o chain
    \/ chain # <<>> /\ nodes' = nodes \o chain

WriteDone(c, p, d, chain) ==
    LET i == Find(nodes, p) IN
    /\ IF i # 0 THEN Overwrite(i, d, chain)
       ELSE nodes' = Append(nodes \o chain, NewNode(p, "file", FileMode, c, d))
    /\ Fits(Len(chain) + IF i = 0 THEN 1 ELSE 0)
    /\ usage' = usage - OldSize(p) + Size[d]
    /\ ok' = TRUE

\* Mutant of DoWrite: the parents are made ahead of the quota check.
DoWriteParentsFirst(c, p, d, parents) ==
    LET e == WriteError(c, p, d, parents)
        chain == Chain(c, p, parents) IN
    IF e = "EQUOTA" /\ ParentError(nodes, p, parents) = "OK" /\ Fits(Len(chain))
    THEN nodes' = nodes \o chain /\ ok' = FALSE /\ UNCHANGED usage
    ELSE IF e # "OK" THEN Returns(e) 
    ELSE \/ WriteDone(c, p, d, chain)
         \/ RunsOut(chain, Find(nodes, p) = 0 \/ Size[d] > 0)

DoWrite(c, p, d, parents) ==
    LET e == WriteError(c, p, d, parents)
        chain == Chain(c, p, parents) IN
    IF e # "OK" THEN Returns(e) 
    ELSE \/ WriteDone(c, p, d, chain)
         \/ RunsOut(chain, Find(nodes, p) = 0 \/ Size[d] > 0)

Write(c, p, d, parents) ==
    Called("write", WriteCall(c, p, d, parents)) /\ DoWrite(c, p, d, parents)

CopyError(c, s) ==
    LET i == Find(nodes, s) IN
    IF i = 0 THEN "ENOTFOUND"
    ELSE IF nodes[i].type = "dir" THEN "EISDIR"
    ELSE IF ~ CheckPerm(nodes[i], c, "R") THEN "EPERM" ELSE "OK"

Copy(c, s, p, parents) ==
    /\ Called("write", CopyCall(c, s, p, parents))
    /\ IF CopyError(c, s) # "OK" THEN Returns(CopyError(c, s))
       ELSE LET d == nodes[Find(nodes, s)].data IN
            \/ DoWrite(c, p, d, parents)
            \/ NoMem /\ Size[d] > 0 /\ Returns("ENOMEM")

-----------------------------------------------------------------------------
MkdirError(p, parents) ==
    IF Find(nodes, p) # 0 THEN "EEXIST" ELSE ParentError(nodes, p, parents)

Mkdir(c, p, parents) ==
    LET chain == Chain(c, p, parents)
        e == MkdirError(p, parents) IN
    /\ Called("mkdir", MkdirCall(c, p, parents))
    /\ IF p = Root \/ (parents /\ IsDirNode(nodes, p)) THEN Returns("OK")
       ELSE IF e # "OK" THEN Returns(e)
       ELSE \/ /\ Fits(Len(chain) + 1)
               /\ nodes' = Append(nodes \o chain, NewNode(p, "dir", DirMode, c, Empty))
               /\ ok' = TRUE /\ UNCHANGED usage
            \/ RunsOut(chain, TRUE)

-----------------------------------------------------------------------------
(* vfs_delete and vfs_delete_recursive.                                    *)

\* Mutant of DeleteError: no permission check.
DeleteErrorNoPerm(c, p) ==
    IF p = Root THEN "EPERM" ELSE IF Find(nodes, p) = 0 THEN "ENOTFOUND" ELSE "OK"

DeleteError(c, p) ==
    LET i == Find(nodes, p) IN
    IF p = Root THEN "EPERM"
    ELSE IF i = 0 THEN "ENOTFOUND"
    ELSE IF ~ CheckPerm(nodes[i], c, "W") THEN "EPERM" ELSE "OK"

Removed(i) ==
    nodes' = RemoveNode(nodes, i) /\ usage' = usage - Freed(nodes, i) /\ ok' = TRUE

Delete(c, p) ==
    LET i == Find(nodes, p)
        e == DeleteError(c, p) IN
    /\ Called("delete", DeleteCall(c, p))
    /\ IF e # "OK" THEN Returns(e)
       ELSE IF nodes[i].type = "dir" /\ Children(nodes, p) # {} THEN Returns("ENOTEMPTY")
       ELSE Removed(i)

\* One turn of the loop over the descendants.
DropIfUnder(s, p, i) ==
    IF ~ Under(p, s.t[i].path) THEN s
    ELSE [t |-> RemoveNode(s.t, i), u |-> s.u - Freed(s.t, i)]

\* Mutant of DropBelow: the loop runs forwards over the shrinking array.
DropBelowForwards(p) ==
    FoldLeftDomain(LAMBDA s, i : IF i > Len(s.t) THEN s ELSE DropIfUnder(s, p, i),
                   [t |-> nodes, u |-> usage], nodes)

\* The loop, from the last index to the first.
DropBelow(p) ==
    FoldRightDomain(LAMBDA i, s : DropIfUnder(s, p, i), nodes, [t |-> nodes, u |-> usage])

DeleteRecursive(c, p) ==
    LET i == Find(nodes, p)
        e == DeleteError(c, p)
        s == DropBelow(p) IN
    /\ Called("delete", RecursiveCall(c, p))
    /\ IF e # "OK" THEN Returns(e)
       ELSE IF nodes[i].type # "dir" THEN Removed(i)
       ELSE /\ nodes' = RemoveNode(s.t, Find(s.t, p))
            /\ usage' = s.u /\ ok' = TRUE

-----------------------------------------------------------------------------
(* vfs_rename.                                                             *)

RenameError(c, o, n) ==
    LET i == Find(nodes, o)
        j == Find(nodes, n) IN
    IF o = Root \/ n = Root THEN "EPERM"
    ELSE IF Under(o, n) THEN "EBADPATH"
    ELSE IF i = 0 THEN "ENOTFOUND"
    ELSE IF ~ CheckPerm(nodes[i], c, "W") THEN "EPERM"
    ELSE IF j # 0 /\ nodes[j].type = "dir" /\ Children(nodes, n) # {}
         THEN "ENOTEMPTY" ELSE "OK"

\* Mutant of Cleared: the bytes of a replaced file stay counted.
ClearedKeepsUsage(n) ==
    LET j == Find(nodes, n) IN
    [t |-> IF j = 0 THEN nodes ELSE RemoveNode(nodes, j), u |-> usage]

\* The array and the usage once what was at n is removed.
Cleared(n) ==
    LET j == Find(nodes, n) IN
    IF j = 0 THEN [t |-> nodes, u |-> usage]
    ELSE [t |-> RemoveNode(nodes, j), u |-> usage - Freed(nodes, j)]

\* t with the entries in D given their new path.
Relabel(t, D, o, n) ==
    [i \in DOMAIN t |->
        IF i \in D THEN [t[i] EXCEPT !.path = Moved(o, n, @)] ELSE t[i]]

\* The paths are rewritten one by one, the directory's own last; out of
\* memory, the call returns from the middle.
Relabelled(t, o, n) ==
    LET src == Find(t, o)
        D == IF t[src].type = "dir" THEN Children(t, o) ELSE {} IN
    \/ nodes' = Relabel(t, D \cup {src}, o, n) /\ ok' = TRUE
    \/ /\ NoMem /\ ok' = FALSE
       /\ \E k \in 0..Cardinality(D) :
            nodes' = Relabel(t, {i \in D : Cardinality({j \in D : j < i}) < k}, o, n)

Rename(c, o, n) ==
    LET e == RenameError(c, o, n)
        s == Cleared(n)
        late == ParentError(s.t, n, FALSE) IN
    /\ Called("rename", RenameCall(c, o, n))
    /\ IF o = n /\ o # Root THEN Returns("OK")
       ELSE IF e # "OK" THEN Returns(e)
       ELSE /\ usage' = s.u
            /\ IF late # "OK" THEN nodes' = s.t /\ ok' = FALSE
               ELSE Relabelled(s.t, o, n)

-----------------------------------------------------------------------------
Chmod(c, p, m) ==
    LET i == Find(nodes, p) IN
    /\ Called("chmod", ChmodCall(c, p, m))
    /\ IF ~ c.admin THEN Returns("EPERM")
       ELSE IF i = 0 THEN Returns("ENOTFOUND")
       ELSE nodes' = [nodes EXCEPT ![i].mode = m] /\ ok' = TRUE /\ UNCHANGED usage

-----------------------------------------------------------------------------
(* vfs_list: one step per call of its callback.                            *)

ChildPaths(t, p) == {t[i].path : i \in {j \in Children(t, p) : Len(t[j].path) = Len(p) + 1}}

ListBegin(c, p) ==
    LET i == Find(nodes, p) IN
    /\ ldir = {} /\ IsDirNode(nodes, p)
    /\ p # Root => CheckPerm(nodes[i], c, "R")
    /\ ldir' = {p} /\ lpos' = 0 /\ lseen' = {} /\ lall' = ChildPaths(nodes, p)
    /\ UNCHANGED <<nodes, usage, call, ok>>

ListAhead(p) ==
    {i \in DOMAIN nodes : i >= lpos /\ nodes[i].path \in ChildPaths(nodes, p)}

\* Mutant of ListVisit: the index is advanced twice.
ListVisitSkips ==
    \E p \in ldir : ListAhead(p) # {} /\
        LET i == Min(ListAhead(p)) IN
        /\ lseen' = lseen \cup {nodes[i].path} /\ lpos' = i + 2
        /\ UNCHANGED <<nodes, usage, call, ok, ldir, lall>>

\* The callback is given the next child.
ListVisit ==
    \E p \in ldir : ListAhead(p) # {} /\
        LET i == Min(ListAhead(p)) IN
        /\ lseen' = lseen \cup {nodes[i].path} /\ lpos' = i + 1
        /\ UNCHANGED <<nodes, usage, call, ok, ldir, lall>>

\* The callback wants no more.
ListStop ==
    /\ lpos > 0 /\ \E p \in ldir : ListAhead(p) # {}
    /\ ldir' = {} /\ lpos' = 0 /\ lseen' = {} /\ lall' = {}
    /\ UNCHANGED <<nodes, usage, call, ok>>

\* The end of the array: VFS_OK.
ListDone ==
    \E p \in ldir : ListAhead(p) = {} /\
        /\ ldir' = {} /\ lpos' = 0 /\ lseen' = {} /\ lall' = {}
        /\ UNCHANGED <<nodes, usage, call, ok>>

-----------------------------------------------------------------------------
Next ==
    \/ \E c \in Creds, p \in Paths :
        \/ \E d \in Data, b \in BOOLEAN : Write(c, p, d, b)
        \/ \E b \in BOOLEAN : Mkdir(c, p, b)
        \/ Delete(c, p) \/ DeleteRecursive(c, p)
        \/ \E q \in Paths : Rename(c, p, q)
        \/ \E q \in Paths, b \in BOOLEAN : Copy(c, p, q, b)
        \/ \E m \in Modes : Chmod(c, p, m)
    \/ \E c \in Listers, p \in Paths : ListBegin(c, p)
    \/ ListVisit \/ ListStop \/ ListDone

Spec == Init /\ [][Next]_vars

-----------------------------------------------------------------------------
(* Properties.                                                             *)

\* Every state of the array and of a listing is well typed; the usage, an
\* unsigned number in the code, never falls below 0.
TypeOK ==
    /\ nodes \in Seq(Node) /\ Len(nodes) <= MaxNodes
    /\ usage \in Nat
    /\ ok \in BOOLEAN
    /\ call[1] \in {"none", "write", "copy", "mkdir", "delete", "delete_recursive",
                    "rename", "chmod"}
    /\ lpos \in Nat /\ Cardinality(ldir) <= 1
    /\ lseen \subseteq Seq(Names) /\ lall \subseteq Seq(Names)

\* The array is a tree: no two nodes share a path, and above every node
\* there is a directory.
TreeShape ==
    /\ TypeOK
    /\ \A i, j \in DOMAIN nodes : nodes[i].path = nodes[j].path => i = j
    /\ \A i \in DOMAIN nodes :
        nodes[i].path # Root /\ IsDirNode(nodes, Parent(nodes[i].path))

\* vfs_usage is the sum of the sizes of the files there are, and no sequence
\* of calls gets past the quota.
UsageExact ==
    /\ usage = SumFunction([i \in DOMAIN nodes |-> Freed(nodes, i)])
    /\ Quota > 0 => usage <= Quota

\* A listing that runs to its end has shown its callback every child that
\* was there when it began and still is.
ListVisitsAll ==
    [][\A p \in ldir : ListDone => lall \cap ChildPaths(nodes, p) \subseteq lseen]_vars

\* The map from paths to nodes that the array stands for.
FsMap ==
    [p \in {nodes[i].path : i \in DOMAIN nodes} |->
        LET v == nodes[Find(nodes, p)] IN
        [type |-> v.type, mode |-> v.mode, owner |-> v.owner, data |-> v.data]]

Tree == INSTANCE VfsMap WITH fs <- FsMap

\* The array with its swap-removal and its path rewriting does what the
\* tree of module VfsMap promises: every call has the effect, whole or not
\* at all, and the outcome the tree has for that caller and those
\* arguments.
ImplementsTree == Tree!Spec

=============================================================================
