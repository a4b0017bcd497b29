------------------------------ MODULE Snapshot ------------------------------
(***************************************************************************)
(* Snapshots of the filesystem, vfs-snap.c: a filesystem is stored bottom  *)
(* up as tree and blob objects, the root is committed to a ref, a ref is   *)
(* checked out into a filesystem, and the two are compared.                *)
(*                                                                         *)
(* The filesystem is the one VfsMap promises (module Vfs implements it),   *)
(* used by one thread.  The depot keeps what is committed (module Depot)   *)
(* except that an object may be lost afterwards: that is what the checks   *)
(* are for.                                                                *)
(*                                                                         *)
(* An object is its contents, as hashes are taken to be collision free: a  *)
(* blob is <<"blob", data>>, a tree <<"tree", f>> where f maps names to    *)
(* entries and an entry holds the child itself in place of its hash.  Times *)
(* are left out, and so is compression, which changes no hash.             *)
(***************************************************************************)
EXTENDS VfsBase

CONSTANTS
    NameOrder,  \* Names in the order of name_cmp
    Users,      \* callers that take, restore and check snapshots
    Bases,      \* directories a snapshot is restored under
    MaxNodes    \* bound: nodes of a filesystem that is written to or stored

ASSUME SnapAssumption ==
    /\ NameOrder \in Seq(Names) /\ {NameOrder[i] : i \in DOMAIN NameOrder} = Names
    /\ Users \subseteq Creds /\ Bases \subseteq Paths /\ MaxNodes \in Nat

VARIABLES
    files,  \* path -> node: the filesystem
    objs,   \* the objects of head and of the running snapshot that the depot has
    head,   \* the root committed to the ref, or None
    op      \* the snapshot call in progress

vars == <<files, objs, head, op>>

\* The filesystem's calls.
M == INSTANCE VfsMap WITH fs <- files, call <- NoCall, ok <- TRUE

Idle == [kind |-> "idle"]

-----------------------------------------------------------------------------
(* Objects.                                                                *)

None == <<"none">>  \* no root committed yet
Blob(d) == <<"blob", d>>
Tree(f) == <<"tree", f>>
IsTree(o) == o[1] = "tree"
Entries(o) == IF IsTree(o) THEN o[2] ELSE [n \in {} |-> {}]
Kids(o) == {Entries(o)[n].hash : n \in DOMAIN Entries(o)}

\* An object and all below it; nothing is below None.
Closure(o) ==
    LET within[k \in 0..PathMax] ==
            IF k = 0 THEN {o} ELSE within[k - 1] \cup UNION {Kids(x) : x \in within[k - 1]}
    IN IF o = None THEN {} ELSE within[PathMax]

Base(p) == p[Len(p)]
Children(m, p) == {q \in DOMAIN m : Len(q) = Len(p) + 1 /\ Under(p, q)}

\* The object snap_dir makes of directory p of the filesystem m.
SnapDir(m) ==
    LET object[p \in Paths] ==
            IF p \in DOMAIN m /\ m[p].type = "file" THEN Blob(m[p].data)
            ELSE Tree([n \in {Base(q) : q \in Children(m, p)} |->
                          LET q == Append(p, n) IN
                          [type |-> m[q].type, mode |-> m[q].mode,
                           uid |-> m[q].owner, hash |-> object[q]]])
    IN object[Root]

-----------------------------------------------------------------------------
Init ==
    /\ files = [p \in {} |-> {}]
    /\ objs = {} /\ head = None /\ op = Idle

\* The application uses the filesystem.  Calls that fail change nothing.
Uses(m) ==
    /\ op = Idle /\ Cardinality(DOMAIN m) <= MaxNodes
    /\ files' = m /\ UNCHANGED <<objs, head, op>>

AppWrite(c, p, d) == M!CanWrite(files, c, p, d, TRUE) /\ Uses(M!Written(files, c, p, d, TRUE))
AppMkdir(c, p)    == M!CanMkdir(files, p, TRUE) /\ Uses(M!Made(files, c, p, TRUE))
AppDelete(c, p)   == M!CanRemove(files, c, p)
                     /\ Uses(M!Without(files, M!Below(files, p) \cup {p}))
AppChmod(c, p, m) == c.admin /\ p \in DOMAIN files /\ Uses([files EXCEPT ![p].mode = m])

-----------------------------------------------------------------------------
(* vfs_snap_commit: vfs_snap_store, then cas_tree_ref_commit.              *)

\* Every directory is listed and every file read; one that the caller may
\* not read ends the call with nothing committed.
Readable(c) == \A p \in DOMAIN files : CheckPerm(files[p], c, "R")

CommitBegin(c) ==
    /\ op = Idle /\ Readable(c)
    /\ Cardinality(DOMAIN files) <= MaxNodes
    /\ op' = [kind |-> "store", root |-> SnapDir(files), need |-> Closure(SnapDir(files))]
    /\ UNCHANGED <<files, objs, head>>

\* The object is put: it is there afterwards, whether or not it was before.
Put(o) ==
    /\ objs' = objs \cup {o}
    /\ op' = [op EXCEPT !.need = @ \ {o}]
    /\ UNCHANGED <<files, head>>

PutBlob(o) ==
    /\ op.kind = "store" /\ o \in op.need /\ ~ IsTree(o)
    /\ Put(o)

\* A directory is stored when the loop over its children is done.  (Which
\* sibling comes first is left open, as it is in the array.)
PutTree(o) ==
    /\ op.kind = "store" /\ o \in op.need /\ IsTree(o)
    /\ Kids(o) \cap op.need = {}
    /\ Put(o)

RefCommitAnyway ==
    /\ op.kind = "store"
    /\ head' = op.root /\ objs' = objs \cap Closure(op.root)
    /\ op' = Idle /\ UNCHANGED files

RefCommit ==
    /\ op.kind = "store" /\ op.need = {}
    /\ head' = op.root /\ objs' = objs \cap Closure(op.root)
    /\ op' = Idle /\ UNCHANGED files

\* A put or the commit fails and the call returns; what was put is garbage.
StoreFail ==
    /\ op.kind = "store"
    /\ objs' = objs \cap Closure(head)
    /\ op' = Idle /\ UNCHANGED <<files, head>>

-----------------------------------------------------------------------------
(* vfs_snap_checkout_at: restore_dir, one entry after the other.           *)

\* The entries of tree o, as restore_dir visits them under path p.
Visits(p, o) ==
    LET upto[i \in 0..Len(NameOrder)] ==
            IF i = 0 THEN <<>>
            ELSE LET n == NameOrder[i] IN
                 IF n \notin DOMAIN Entries(o) THEN upto[i - 1]
                 ELSE Append(upto[i - 1], <<Append(p, n), Entries(o)[n]>>)
    IN upto[Len(NameOrder)]

\* The directory is made, then its tree is loaded; without it the call ends.
Enter(p, o, made, rest) ==
    /\ files' = made
    /\ op' = IF o \in objs THEN [rest EXCEPT !.todo = Visits(p, o) \o @] ELSE Idle
    /\ UNCHANGED <<objs, head>>

CheckoutBegin(c, base) ==
    /\ op = Idle /\ head # None
    /\ M!CanMkdir(files, base, TRUE)
    /\ Enter(base, head, M!Made(files, c, base, TRUE),
             [kind |-> "restore", cred |-> c, base |-> base, root |-> head,
              before |-> files, todo |-> <<>>])

Restoring == op.kind = "restore" /\ op.todo # <<>>
Next1 == op.todo[1][1]         \* path and entry that are restored next
Entry1 == op.todo[1][2]
Rest == [op EXCEPT !.todo = Tail(@)]

CanRestoreFileAnywhere ==
    /\ Entry1.hash \in objs
    /\ M!CanWrite(files, op.cred, Next1, Entry1.hash[2], TRUE)

CanRestoreFile ==
    /\ Entry1.hash \in objs
    /\ Next1 \in Paths /\ M!CanWrite(files, op.cred, Next1, Entry1.hash[2], TRUE)

RestoreFileAnew ==
    /\ Restoring /\ Entry1.type = "file" /\ CanRestoreFile
    /\ files' = M!With(files, {Next1}, M!NewFile(op.cred, Entry1.hash[2]))
    /\ op' = Rest /\ UNCHANGED <<objs, head>>

RestoreFile ==
    /\ Restoring /\ Entry1.type = "file" /\ CanRestoreFile
    /\ files' = M!Written(files, op.cred, Next1, Entry1.hash[2], TRUE)
    /\ op' = Rest /\ UNCHANGED <<objs, head>>

CanRestoreDir == Next1 \in Paths /\ M!CanMkdir(files, Next1, TRUE)

RestoreDir ==
    /\ Restoring /\ Entry1.type = "dir" /\ CanRestoreDir
    /\ Enter(Next1, Entry1.hash, M!Made(files, op.cred, Next1, TRUE), Rest)

RestoreFailGoesOn ==
    /\ Restoring
    /\ IF Entry1.type = "file" THEN ~ CanRestoreFile ELSE ~ CanRestoreDir
    /\ op' = Rest /\ UNCHANGED <<files, objs, head>>

\* The first error ends the call and leaves what has been restored.
RestoreFail ==
    /\ Restoring
    /\ IF Entry1.type = "file" THEN ~ CanRestoreFile ELSE ~ CanRestoreDir
    /\ op' = Idle /\ UNCHANGED <<files, objs, head>>

RestoreDone ==
    /\ op.kind = "restore" /\ op.todo = <<>>
    /\ op' = Idle /\ UNCHANGED <<files, objs, head>>

\* An object of the committed tree is lost.
Damage(o) ==
    /\ op.kind # "store" /\ o \in objs
    /\ objs' = objs \ {o} /\ UNCHANGED <<files, head, op>>

Next ==
    \/ \E c \in Creds, p \in Paths :
           \/ \E d \in Data : AppWrite(c, p, d)
           \/ AppMkdir(c, p) \/ AppDelete(c, p)
           \/ \E m \in Modes : AppChmod(c, p, m)
    \/ \E c \in Users : CommitBegin(c) \/ \E base \in Bases : CheckoutBegin(c, base)
    \/ \E o \in Closure(IF op.kind = "store" THEN op.root ELSE None) : PutBlob(o) \/ PutTree(o)
    \/ RefCommit \/ StoreFail
    \/ RestoreFile \/ RestoreDir \/ RestoreFail \/ RestoreDone
    \/ \E o \in objs : Damage(o)

Spec == Init /\ [][Next]_vars

-----------------------------------------------------------------------------
(* The checks, which change nothing.                                       *)

\* tree_resolve: walk from root down the components of p.  What it finds is
\* an entry or a reason.
Resolve(root, p) ==
    LET at[k \in 0..Len(p)] ==
            IF k = 0 THEN [type |-> "dir", hash |-> root]
            ELSE LET e == at[k - 1] IN
                 IF e.type = "error" THEN e
                 ELSE IF e.type = "file" THEN [type |-> "error", why |-> "CAS_ETYPE"]
                 ELSE IF e.hash \notin objs \/ p[k] \notin DOMAIN Entries(e.hash)
                      THEN [type |-> "error", why |-> "CAS_ENOTFOUND"]
                 ELSE Entries(e.hash)[p[k]]
    IN IF p = Root THEN [type |-> "error", why |-> "CAS_ENOTFOUND"] ELSE at[Len(p)]

\* vfs_snap_checkfile.
CheckFile(c, root, p) ==
    LET e == Resolve(root, p) IN
    IF p # Root /\ p \notin DOMAIN files THEN "VFS_ENOTFOUND"
    ELSE IF p # Root /\ ~ CheckPerm(files[p], c, "R") THEN "VFS_EPERM"
    ELSE IF M!IsDir(files, p) THEN "VFS_EISDIR"
    ELSE IF e.type = "error" THEN e.why
    ELSE IF e.type = "dir" THEN "CAS_ETYPE"
    ELSE IF Blob(files[p].data) # e.hash THEN "CAS_ERR"
    ELSE "CAS_OK"

\* What fsck_dir makes of entry e, to be found at q.
EntryStatusNoType(c, q, e) ==
    IF q \notin DOMAIN files THEN "MISSING"
    ELSE IF e.type = "dir" THEN "descend"
    ELSE IF ~ CheckPerm(files[q], c, "R") \/ Blob(files[q].data) # e.hash THEN "MODIFIED"
    ELSE "same"

EntryStatus(c, q, e) ==
    IF q \notin DOMAIN files THEN "MISSING"
    ELSE IF (e.type = "dir") # (files[q].type = "dir") THEN "TYPE"
    ELSE IF e.type = "dir" THEN "descend"
    ELSE IF ~ CheckPerm(files[q], c, "R") \/ Blob(files[q].data) # e.hash THEN "MODIFIED"
    ELSE "same"

\* vfs_snap_fsck: the reports of fsck_dir with a callback that lets it go on.
\* A directory that cannot be listed or loaded is passed over.
Fsck(c, root) ==
    LET Object(p) == IF p = Root THEN root ELSE Resolve(root, p).hash
        Listed(p) == p = Root \/ (M!IsDir(files, p) /\ CheckPerm(files[p], c, "R"))
        reports[p \in Paths] ==
            LET names == DOMAIN Entries(Object(p))
                Status(n) == EntryStatus(c, Append(p, n), Entries(Object(p))[n])
                Of(n) == IF Status(n) = "descend" THEN reports[Append(p, n)]
                         ELSE {<<Append(p, n), Status(n)>>}
            IN IF Object(p) \notin objs \/ ~ Listed(p) THEN {}
               ELSE (UNION {Of(n) : n \in {x \in names : Status(x) # "same"}})
                    \cup {<<q, "ADDED">> : q \in {x \in Children(files, p) :
                                                    Base(x) \notin names}}
    IN reports[Root]

TreeFsckShallow(root) ==
    {o \in Kids(root) \cup {root} : o \notin objs}

\* cas_tree_fsck_root: the lost objects of a committed tree, as far as they
\* can be told from what is left.
TreeFsck(root) ==
    LET met[k \in 0..PathMax] ==
            IF k = 0 THEN {root} ELSE met[k - 1] \cup UNION {Kids(x) : x \in met[k - 1] \cap objs}
    IN met[PathMax] \ objs

-----------------------------------------------------------------------------
(* Properties.                                                             *)

\* The nodes of a tree object: path -> kind and contents, gathered level by
\* level from the top.
Flat(root) ==
    LET pairs[k \in 0..PathMax] ==
            IF k = 0 THEN {<<Root, [type |-> "dir", hash |-> root]>>}
            ELSE pairs[k - 1] \cup
                 UNION {{<<Append(x[1], n), [type |-> Entries(x[2].hash)[n].type,
                                             hash |-> Entries(x[2].hash)[n].hash]>> :
                            n \in DOMAIN Entries(x[2].hash)} : x \in pairs[k - 1]}
    IN [p \in {x[1] : x \in pairs[PathMax]} \ {Root} |->
           LET e == (CHOOSE x \in pairs[PathMax] : x[1] = p)[2] IN
           [type |-> e.type, data |-> IF e.type = "file" THEN e.hash[2] ELSE Empty]]

\* The same of a filesystem.
Contents(m) == [p \in DOMAIN m |-> [type |-> m[p].type, data |-> m[p].data]]

\* The filesystem has valid paths only, the depot the objects of the
\* committed tree and of the one being stored, and a checkout works on
\* entries of the tree it is restoring.
TypeOK ==
    /\ DOMAIN files \subseteq Paths \ {Root}
    /\ objs \subseteq Closure(head) \cup Closure(IF op.kind = "store" THEN op.root ELSE None)
    /\ op.kind \in {"idle", "store", "restore"}
    /\ op.kind = "restore" => \A i \in DOMAIN op.todo :
           op.todo[i][2].hash \in Closure(op.root)

\* What a commit publishes is complete in the depot and is the filesystem:
\* snap_dir stores children first and gives up at the first failed put, so
\* the ref never moves to a tree with holes.
CommittedWhole ==
    [][head' # head => /\ Closure(head') \subseteq objs'
                       /\ Flat(head') = Contents(files)]_vars

\* The path a node of the snapshot is restored to.
Lands(p) == op.base \o p

\* While a checkout runs, and so whatever it leaves when it fails half way:
\* nothing is removed, what was there keeps its kind, mode and owner, and
\* what differs is in the snapshot or above the base it is restored under.
RestoreOnlyAdds ==
    op.kind = "restore" =>
        LET snap == Flat(op.root) IN
        /\ DOMAIN op.before \subseteq DOMAIN files
        /\ \A p \in DOMAIN files :
              LET q == SubSeq(p, Len(op.base) + 1, Len(p)) IN
              \/ p \in DOMAIN op.before /\ files[p] = op.before[p]
              \/ p \notin DOMAIN op.before /\ (p = op.base \/ Under(p, op.base))
              \/ /\ Under(op.base, p) /\ q \in DOMAIN snap
                 /\ Contents(files)[p] = snap[q]
                 /\ p \in DOMAIN op.before =>
                       files[p] = [op.before[p] EXCEPT !.data = snap[q].data]

\* A checkout that reports success has put every node of the snapshot in
\* its place; vfs_snap_fsck then finds nothing but additions.
RestoreComplete ==
    [][op.kind = "restore" /\ op'.kind = "idle" /\ op.todo = <<>> =>
          LET snap == Flat(op.root) IN
          /\ \A p \in DOMAIN snap : /\ Lands(p) \in DOMAIN files
                                    /\ Contents(files)[Lands(p)] = snap[p]
          /\ op.base = Root /\ Readable(op.cred) =>
                \A r \in Fsck(op.cred, op.root) : r[2] = "ADDED"]_vars

\* Everything above p is a directory on both sides.
Comparable(snap, p) ==
    \A k \in 1..(Len(p) - 1) :
        LET q == SubSeq(p, 1, k) IN
        q \in DOMAIN snap /\ snap[q].type = "dir" /\ M!IsDir(files, q)

\* vfs_snap_fsck reports exactly the topmost differences between filesystem
\* and snapshot, when the snapshot is complete and the caller may read all.
FsckExact ==
    head # None /\ Closure(head) \subseteq objs =>
        LET snap == Flat(head)
            here == Contents(files)
            both == DOMAIN snap \cap DOMAIN here
            Top(P, status) == {<<p, status>> : p \in {q \in P : Comparable(snap, q)}}
        IN \A c \in Users : Readable(c) =>
              Fsck(c, head) =
                  Top(DOMAIN snap \ DOMAIN here, "MISSING")
                  \cup Top(DOMAIN here \ DOMAIN snap, "ADDED")
                  \cup Top({p \in both : snap[p].type # here[p].type}, "TYPE")
                  \cup Top({p \in both : snap[p].type = here[p].type
                                         /\ snap[p].data # here[p].data}, "MODIFIED")

\* A filesystem in which vfs_snap_fsck finds nothing to report is the
\* snapshot.  It is not so when a tree object is lost: see the README.
FsckHonest ==
    head # None => \A c \in Users : Fsck(c, head) = {} => Flat(head) = Contents(files)

\* vfs_snap_checkfile says CAS_OK for exactly the files that are the same in
\* the filesystem and in the snapshot, and CAS_ERR for exactly those changed.
CheckFileExact ==
    head # None /\ Closure(head) \subseteq objs =>
        LET snap == Flat(head)
            Same(p) == p \in DOMAIN files \cap DOMAIN snap
                       /\ files[p].type = "file" /\ snap[p].type = "file"
        IN \A c \in Users, p \in Paths : Readable(c) =>
              /\ CheckFile(c, head, p) = "CAS_OK"
                    <=> Same(p) /\ files[p].data = snap[p].data
              /\ CheckFile(c, head, p) = "CAS_ERR"
                    <=> Same(p) /\ files[p].data # snap[p].data

\* Both comparisons with a snapshot, of the whole filesystem and of a single
\* file, find exactly what differs.
ChecksExact == FsckExact /\ CheckFileExact

\* cas_tree_fsck_root finds something missing exactly when the tree has lost
\* an object, however deep, although it cannot look below a lost directory.
TreeFsckFinds ==
    head # None => (TreeFsck(head) = {} <=> Closure(head) \subseteq objs)

=============================================================================
