# A TLA+ model of smolvfs

smolvfs is a small C library: a content-addressed object store on disk (the
*depot*), trees, refs and packs on top of it, a paged object map, and an
in-memory filesystem that can be snapshotted into the depot.  This directory
holds TLA+ specifications of its core, the TLC models that check them on small
instances, and TLAPS proofs of the properties that carry the design.

    tlc -workers 2 -config depot_crash.cfg MCDepot      # a run
    tlapm DepotProofs.tla                               # the proofs

`PROJECT.json` lists the runs with their expected outcome, the source lines
behind every definition, the hazards, the disagreements found between code and
documentation, and the theorems.

## 1. Inventory of the system

| Component | State | Operations | Interacts with |
|---|---|---|---|
| Object store (`cas.c`) | one file per object under a bucket directory, a mapped pack | `cas_put_object` and variants, `cas_open_object`, `cas_remove`, `cas_foreach` | everything below; the pack is consulted first |
| Depot handle (`cas.c`) | the fd of `.lock`, the mapped pack | `cas_new`, `cas_free`, `cas_reload_pack` | the kernel's fcntl locks; packs |
| Packs (`cas-pack.c`) | `pack.dat` | `cas_pack_create(_filtered)`, `cas_pack_reclaim`, `cas_pack_import` | folds loose objects and the old pack together; reclaim unlinks loose copies |
| Refs and logs (`cas-tree.c`) | `refs/<name>.root`, `.prev`, `.log`, `.lock` | `cas_tree_ref_commit`, `cas_tree_log_read`, `cas_tree_log_truncate` | flock per ref; logs are the roots of garbage collection |
| Garbage collection (`cas-gc.c`) | the reachable set | `cas_tree_gc`, `cas_tree_gc_pack` | reads logs and trees, removes loose objects, rewrites the pack |
| Trees (`cas-tree.c`) | none: encodings of directories (text and hash table) | build, parse, lookup, verify, fsck | objects |
| Fetch and bundles (`examples/cas-fetch.c`, `cas-pack.c`) | a stack of hashes to visit; the index of a bundle | fetch a published tree, `cas_pack_import` | an origin over HTTP; writes into the depot behind the object layer, then a ref commit |
| Object map (`cas-omap.c`) | directory of pages, cached pages, dirty flags, counts | put, get, del, clear, store, load, alloc, foreach | pages and roots are objects |
| Filesystem (`vfs.c`) | a flat array of nodes with whole paths, the usage | write, copy, mkdir, delete, rename, chmod, list, stat, read | a `vfs_list` callback may call back in |
| Paths and patterns (`vfs.c`) | none | `vfs_normalize`, `vfs_resolve`, validation, `vfs_fnmatch` | every filesystem call |
| Snapshots (`vfs-snap.c`) | none | store and commit, restore and check out, checkfile, fsck | filesystem, trees, refs |
| Topics and version records (`cas-topic.c`, `cas-sign.c`) | records in objects, refs | publish, head, chain walk, signature checks | refs |
| Codecs (`cas-codec*.c`) | none | compress, decompress | object bytes only |
| Tool (`castool.c`), sample | none | command line: import, rm, gc, import-pack, publish and others | library calls |

What is hard here, and what would make each part correct:

* **Order of durable steps.**  A commit makes objects, a log line and a root
  durable with separate fsyncs of files and directories, and a pack replaces
  loose copies.  A power loss between any two steps, with any mixture of synced
  and unsynced directory entries, must leave every tree that a log reports
  complete.
* **Collection against everything else.**  gc keeps what the logs report; a
  failing commit, a prune, a torn line or a comment that spoils a line changes
  what that is.  A writer that deduplicates relies on objects it did not write.
* **Fetches that stop.**  A fetch stores a directory before its children, and
  takes a directory that is present for its whole subtree; it verifies an object
  after the rename, and syncs nothing but the ref.
* **Two encodings under one address.**  An htree is listed by its records and
  searched by its tables; whoever made it, the two must agree.
* **Locks.**  The depot lock is an fcntl lock (owned by the process), the ref
  locks are flocks; every early return has to give up what it holds.
* **Views.**  Objects opened from the pack point into its mapping.
* **Arrays that move.**  The filesystem removes by moving the last node, finds
  subtrees by path prefix, and keeps node pointers across insertions.
* **Restores that stop.**  A checkout is many writes with no way back: a quota,
  a permission or a lost object ends it half way.  A comparison must say what
  differs and nothing else.
* **Check, then commit.**  A publish checks the head before it takes the ref's
  lock; records arrive repeated, late and with gaps.
* **Caches and counts.**  The object map must give back what was put, whatever
  is cached, dirty, stored or half stored; its id arithmetic is 64 bits wide.

The hazards are listed line by line in `PROJECT.json`.

## 2. Modules

| Module | Models | Role |
|---|---|---|
| `Depot` | objects, packs, refs, logs, gc, reclaim | the detailed specification |
| `DepotInv` | | the invariants behind the properties of `Depot` |
| `DepotProofs` | | proofs about `Depot` and `DepotHandle` |
| `DepotHandle` | handles, depot lock, pack mapping, views | |
| `VfsBase` | paths, nodes, permissions | shared by the next two |
| `VfsMap` | | abstract specification of the filesystem |
| `Vfs` | the node array of `vfs.c` | implements `VfsMap` |
| `VfsProofs` | | proofs about `Vfs`, the refinement of `VfsMap` among them |
| `OmapMap` | | abstract specification of the object map |
| `Omap` | pages, directory, cache of `cas-omap.c` | implements `OmapMap` |
| `OmapProofs` | | proofs about `Omap`, the refinement of `OmapMap` among them |
| `Snapshot` | `vfs-snap.c`, the tree fsck | composes `VfsMap`'s calls with the depot's promise |
| `SnapshotProofs` | | proofs about `Snapshot` |
| `Topic` | `cas-topic.c`, the chains of `cas-sign.c`, `castool publish` | |
| `TopicProofs` | | proofs about `Topic` |
| `Fetch` | `examples/cas-fetch.c`, `castool import-pack` and `gc` as sessions on one depot | |
| `FetchProofs` | | proofs about `Fetch` and `TreeCodec` |
| `TreeCodec` | the text form and the htree of `cas-tree.c`, the edits of `castool import` and `rm` | pure operators |
| `Paths` | the path and pattern functions of `vfs.c` | pure operators |
| `PathsProofs` | | proofs about `Paths` |
| `FiniteInduction` | | induction over finite sets and naturals, and sums; used by the proofs |
| `MCDepot`, `MCDepotHandle`, `MCVfs`, `MCOmap`, `MCSnapshot`, `MCTopic`, `MCFetch` | | values for TLC; `MCVfs` brings in `Paths`, `MCFetch` `TreeCodec` |

### Depot

One process with two threads: a *writer* that puts the objects of a tree
bottom-up and commits the tree to a ref, and a *maintenance* thread that prunes
a log, collects, packs or reclaims.  One process is enough because `cas_new`
locks the depot (this is what `DepotHandle` is about); two threads are what the
per-ref flocks exist for.

State.  `loose`, `pack`, `root`, `prev` and `log` are the directory as the
kernel shows it; the variables with suffix `D` are what is on stable storage.  An
`fsync` copies the former to the latter, and `PowerLoss` picks, entry by entry,
one of the two.  `detached` holds the refs whose name `.log` on stable storage
leads elsewhere than the visible one, because the log is new or was pruned and
`refs/` was not synced since: what a commit appends and syncs there
(`SyncLog`) does not survive a power loss.  `hpack` is the pack the store has mapped, `fresh` the loose
objects younger than the grace period.  `wpc`/`mpc` are program counters; each
action is the code between two durable steps, so that a crash or the other thread
can come in between:

| Actions | Code |
|---|---|
| `PutDedup`, `PutRename`, `PutSync`, `PutFail` | `cas_put_object` |
| `CommitLock`, `LogAppend(Fail)`, `PrevLink`, `RootRename`, `RootFail`, `CommitSync` | `cas_tree_ref_commit` |
| `TruncBegin`, `TruncRefused`, `TruncNothing`, `TruncRead`, `TruncRename`, `TruncFail`, `TruncSync` | `cas_tree_log_truncate`; a prune is under way (`mpc = "tlock"`) while it waits in `flock` |
| `GcBegin`, `MarkRef`, `MarkFail`, `MarkDone`, `SweepBegin`, `SweepOne`, `SweepDone` | `cas_tree_gc`; with mode `gcpack` also `cas_tree_gc_pack` |
| `PackBegin`, `Collect`, `PackRename`, `PackFail`, `PackSync`, `PackDone` | `pack_create` |
| `ReclaimBegin`, `Reload`, `ReclaimOne`, `ReclaimDone` | `cas_pack_reclaim` |
| `Age`, `PowerLoss`, `ProcessDies` | the environment |

Data.  An object is its hash (hashes are taken to be collision free) and a tree
is the set of hashes in its entries.  A log line is a hash and a *form*: whether
`cas_tree_log_read` and `cas_tree_log_truncate` can parse it.  That is how long
comments, comments with a newline and torn lines enter.  The mark phase is a
least fixed point (`Reach`), as `mark_tree` marks an absent tree without
descending into it.

The flags say what may happen: `Overlap` (a collection with a grace period
alongside a writer), `Prune`, `CommitFail`, `NoMem`, `Torn`, `Crash`, `Kill`.
`Ordered` restricts power losses: the rename of `.root` is not on disk unless
the log created or changed before it is.  POSIX does not promise that (journalled
filesystems do), and without it a first root can become durable while the
directory entry of its new log is not, so `LiveRootsIntact` is checked with
`Ordered`.  `ProtectedIntact` is proved without it; with torn lines it needs it
(an old torn line can come to report a root whose log was lost).

### DepotHandle

`cas_new` and `cas_free` on handles that live in processes.  The fcntl lock is
modelled as POSIX defines it: owned by the process, granted again to its owner,
dropped when *any* descriptor of the file is closed.  `OneEach` says that a
process has no second handle.  Packs are numbered; a view is an object open
through a handle and whether the mapping under it is still there: `cas_reload_pack`
undoes the mapping even when it maps the same pack again.  `Exit` ends a process with
everything it holds; `Free` is `cas_free`, which leaves the process running.  Its specification is
`HandleSpec`, so that `DepotProofs` can extend it beside `Depot`.

### Vfs and VfsMap

A path is a sequence of names.  `nodes` is the array with `find_node` from the
front, `add_node` at the end, and `remove_node` by swap; `vfs_delete_recursive`
runs its loop backwards over the shrinking array, `vfs_rename` clears the
destination and rewrites paths in place.  With `NoMem` a call stops at any
allocation.  Undefined behaviour is a choice: when `ensure_parents` may have
moved the array, an overwrite through the old pointer lands in the array or is
lost (`Overwrite`).  A `vfs_list` is open across steps so that its callback can
make the calls in `InCallback`.  Contents have only a size; times are left out.

Below that, `Paths` has the functions that turn a caller's string into such a
path, on sequences of characters: `Normalize`, `Resolve`, `PathParent`,
`Validate`, and `Fnmatch` with its classes, ranges and stars.  The code's
backtracking is a recursive function of two positions; a match that has stepped
over the end of the name is `"past"`.  They are compared with definitions of
another kind: the meaning of a path read from its end, and a pattern as a way to
cut a name into pieces.

`VfsMap` is the promise: a function from paths to nodes, every call whole or not
at all.  Both record the last call with its arguments and outcome in `call` and
`ok`, so that `ImplementsTree` compares each call with the same call by the same
caller, not with just any call that would explain the change.

### Omap and OmapMap

The directory is a function from page numbers to entries (the sorted array and
its bisection are abstracted).  Every call is an action that also loads the page
where the code does, `Foreach` included, whose callback may stop it anywhere.  Ids are below `Pages * Slots`, which plays the part of
2^64, so that the arithmetic of `cas_omap_alloc` wraps as in the code.  `Alloc`
is the search loop as a recursive function, compared with `FirstFree` in every
reachable state.  `OmapMap` is a map with snapshots; the root that a store
returns is mapped to the map it loads.

### Snapshot

The filesystem is the function of `VfsMap`, changed by the operators that module
defines; `Vfs` is shown to implement it.  An object is its own hash: a blob is
its data, a tree maps names to entries with mode, owner and child.

| Actions | Code |
|---|---|
| `AppWrite`, `AppMkdir`, `AppDelete`, `AppChmod` | the application between snapshots |
| `CommitBegin`, `PutBlob`, `PutTree`, `RefCommit`, `StoreFail` | `snap_dir`, `vfs_snap_commit` |
| `CheckoutBegin`, `RestoreFile`, `RestoreDir`, `RestoreFail`, `RestoreDone` | `vfs_snap_checkout_at`, `restore_dir`, one step per entry |
| `Damage` | an object is lost |

`CheckFile`, `Fsck` and `TreeFsck` are `vfs_snap_checkfile`, `vfs_snap_fsck` and
`cas_tree_fsck_root` as functions of the state, compared with declarative
definitions (`Flat`, `Contents`) in every reachable state.  The state keeps only
the objects of the committed tree and of the one being stored.  Base directories
cover both `vfs_snap_checkout` and `vfs_snap_checkout_at`.

### Topic

Threads of one process run `cas_topic_publish` in the steps that matter to the
others: read and check the head (`ReadHead`), store the record (`PutRecord`), move
the ref (`Commit`), each of which may fail.  A candidate is the successor that
`castool publish` signs from the head it sees (`SignNext`), or any record signed
elsewhere or seen before (`Relay`), so records come repeated, late and with gaps.
`Forget` takes old records away, as a gc does while no ref names a record and no
thread is publishing.  A record is its own address.  `Verdict` is
`cas_vrec_succeeds`; `Walk` is `cas_vchain_walk`.  Records that do not verify are
left out: `cas_vrec_decode` refuses them before anything happens.  `Records` and
`Signed` are the records that chains are made of: number one has no predecessor,
and each further one carries a record one number lower of the same topic.

### Fetch and TreeCodec

`cas-fetch`, `castool import-pack` and `castool gc` are processes of their own,
and `cas_new` lets one of them in at a time, so the state holds at most one
session.  `store` says what is found under each address: genuine bytes (in
either encoding of a directory), other bytes, or an htree of another directory.
`dirty` and `ghost` are what was written or removed and never synced.

| Actions | Code |
|---|---|
| `FetchBegin`, `Skip`, `Get(Fail)`, `Verify`, `Unlink`, `Load`, `LoadFail`, `LoadAbort`, `FetchCommit(Fail)` | `main`, `store_object`, `http_get`, `queue_push` of `cas-fetch.c` |
| `ImportBegin`, `ImportOne`, `ImportFail`, `ImportEnd` | `cmd_import_pack`, `cas_pack_import` |
| `GcMark`, `Sweep` | `cmd_gc`, at the grain that matters here; `Depot` has its steps |
| `Publish`, `OriginGc` | the origin |
| `Kill`, `Writeback`, `PowerLoss` | interruptions, at any step |

`CommitStopped` is what a commit leaves that fails, or that a kill or a power loss
cuts short: the ref as it was, and perhaps a line in the log.

The stack keeps the code's order, with hashes pushed once per entry, so shared
objects are visited and skipped again.  Two history variables say when a promise
applies: `sound`, that the session set out over objects closed under "child of"
and read every tree it stored, and `unchecked`, what an interruption left
unverified or brought back.

`TreeCodec` is what `TreeVerify` stands on.  A directory's address is modelled by
the text it commits to.  `HtreeBuild` fills the bucket tables in record order by
probing; `HtreeLookup` probes them again; `HtreeVerify` parses the records,
compares their text with the address and rebuilds.  `ImportFiles` and
`RemoveNames` are the loops with which `castool import` and `rm` edit a loaded
directory: removal moves the last entry into the gap.

## 3. Runs

| Run | Bounds | Shows |
|---|---|---|
| `depot_crash` | 2 objects, 1 ref, power loss, torn lines, long and multi-line comments, failing commits | `ProtectedIntact` also for the torn lines that the proof leaves out |
| `depot_ordered` | 2 objects, 1 ref, power loss, failing commits, refs updates ordered, no prune | `LiveRootsIntact` without condition; the inductive invariant `IInv` |
| `depot_refs` | 2 refs, one object that is no tree, torn lines, process death | `TypeOK`; `ProtectedIntact` across refs; `OnlyGcForgets`: packing and reclaiming lose nothing |
| `depot_live` | gc with grace beside a writer, prunes, failing commits, comments with a newline | `NewObjectsSurvive`; `NewestOnlyByCommit`: a prune never loses a line appended meanwhile; `CommitReturns`, `MaintReturns` under `FairSpec`: whatever commits fail, none leaves the lock that a prune or the next commit waits for |
| `handle_one` | 3 handles, 2 processes | `Exclusive`; `NewReturns` under `FairHandleSpec`: `cas_free` hands the depot on, no process has to exit for it |
| `vfs_tree` | 3 nodes, depth 2, sizes 0 and 1, quota 1, a callback that adds nodes; paths of 7 characters, patterns of 4, names of 3 | `TreeShape`, `UsageExact`, `ImplementsTree`, `ListVisitsAll`; `PathsExact`, `GlobExact` |
| `vfs_perm` | owner, group member, admin, chmod, 2 nodes | `ImplementsTree` with permissions that matter |
| `omap_map` | 2 pages of 2 slots, 2 roots, failures | `CountsAgree`, `AllocFindsFree`, `ImplementsMap` |
| `snap_tree` | 2 names, depth 2, filesystems of 2 nodes (a restore may add more), quota 1, unreadable nodes, lost objects | `TypeOK`, `CommittedWhole`, `RestoreOnlyAdds`, `RestoreComplete`, `ChecksExact` (`vfs_snap_fsck` and `vfs_snap_checkfile`), `TreeFsckFinds` |
| `topic_chain` | 2 threads, 1 ref, a topic signed here and one followed, chains of 3, 3 records stored | `PublishInv`, `HeadStored`, `WalkExact`, `FreshAdvances` |
| `fetch_pull` | 3 objects (a blob shared by a root and its subdirectory), an origin with 2 roots and bad bytes, 3 bundles, gc, kills, power loss; directories of 3 names, 2 values, 2 buckets with colliding hashes | `TypeOK`, `OnlyVerified`, `CommitComplete`, `CompleteStays`; `FetchReturns` under `FairSpec`; `EncodingsAgree`, `VerifiedLookups`, `EditsExact` |
| `fetch_v_resume` | the same without faults but a failed GET or a kill | a violation of `CommittedComplete`, see section 4 |

**Bounds.**  Two objects are the least with a parent and a child, three give a
tree in a tree; logs of two lines (a commit may start below `MaxLog`, so a
multi-line comment can go beyond) have an oldest and a newest line for prune to
tell apart, and after a prune further commits follow.  The depot runs are
otherwise unbounded in the number of calls.  Three nodes allow a directory with
two children, and a directory, its child and a sibling that swap places; with
`MaxNodes = 4`, without listings, `vfs_tree` passes as well.  Two pages of two
slots have a full, a partial and an empty page.  Snapshots of two nodes are a
directory with a child, two siblings, or a file where the other side has a
directory; restoring one over another filesystem, at the root or below, gives
every kind of conflict.  Chains of three records have a first, a middle that can
be missing, and a head; with two topics a record of the wrong one arrives too.
Three objects in two levels, one of them shared, give a fetch a directory whose
children are there, are missing, or are half there.  Two names with one hash, in
the last slot of their table, make probes collide and wrap; forged htrees have up
to two records, some perhaps behind the tables, and tables of the sizes the code
gives to one and two entries, with any contents.  `PathBuf = 6` with paths of 7 has strings that
just fit and that do not; four characters of pattern hold a negated class, a range
in an open class, or a class between stars.

**Symmetry and views.**  The names of the `vfs_*` models are interchangeable, as
are the threads and the published roots of `topic_chain`; no property of these runs
is a liveness property.  The pure operators of `Paths` and `TreeCodec` are checked
with one initial state for every input up to the bounds (`tried`), from which
nothing follows.  The `vfs_*` and `omap_*` models identify states that differ only in the last call (`VIEW Lasting`): no action reads it, and the
properties about it look only at its value after the step.

**Deadlock** is not checked: the bounds make a depot with full logs, or a full
array, a legitimate place to stop.

**Fairness** (`FairSpec`, `FairHandleSpec`).  A thread inside a library call keeps running (weak
fairness of its steps; no failure is assumed to happen).  Acquiring a ref's flock,
by a commit or by a prune, is strongly fair, because the kernel queues waiters;
without that a prune starves behind an endless line of commits.  Whether an
application makes another call, and all of the environment, is left free.  In
`DepotHandle` the kernel serves whoever waits for `.lock` in the end (strong fairness
of `Lock`), and whoever has a handle open frees it some time or exits.  That is asked
of the callers, the code cannot enforce it; nobody who has freed every handle is
assumed to exit, so a `cas_free` that kept its descriptor of `.lock` would leave the
others waiting.  In `Fetch` a running process
goes on and the origin answers each request, if only with an error: cas-fetch
sets no timeout of its own, so against an origin that never answers it never
returns, and neither does anybody else's `cas_new`.

## 4. Where the code and its documents part

One run ends in a violation, and `findings` in `PROJECT.json` quotes both sides:

* `fetch_v_resume`.  A fetch stores a directory, and a GET of one of its children
  fails (or the process is killed).  The next run finds the directory present,
  skips it with everything below it (cas-fetch.c:308), and commits the root of an
  incomplete tree; every later run does the same.  The comment at cas-fetch.c:352
  says "record the ref only after every reachable object is present".

The same models show the following with one changed constant or property.  Each
was found with TLC; the passing runs exclude them by their constants.

| Property | Change | What happens |
|---|---|---|
| `LiveRootsIntact` | `depot_ordered` with `Crash = FALSE`, `Prune = TRUE` | a commit fails after its log line is durable and before `.root` is replaced; a prune keeps only that line, and gc sweeps the live tree (cas-tree.c:1054; README.md:274: "The newest entry is always kept, so the live tree is never at risk") |
| `LiveRootsIntact` | `depot_ordered` with `Torn = TRUE` | a torn last line swallows the next commit's line, and gc misses the live root (README.md:1708: "Tolerates crash-truncated final lines") |
| `LiveRootsIntact` | `depot_ordered` with `Comments = {"plain", "long"}` | an over-long comment makes its line unreadable; `mark_ref` ignores the error (cas-gc.c:137) |
| `NewestOnlyByCommit` | `depot_live` with `Kill = TRUE`, `Crash = TRUE` | a process dies between a prune's rename and its `fsync_dir`; the next commit appends and syncs a line in the new log, to which no name on disk leads yet; a power loss before that commit's own `fsync_dir` brings the old log back, and with it another newest line (cas-tree.c:1364-1374, cas-tree.c:1038).  The commit had not returned, so nobody was promised the line |
| `LiveRootsIntact` | `depot_live` | a put that finds an old object does not renew it; gc with grace takes it before the commit (cas.c:1035, README.md:2150) |
| `LiveRootsIntact` | `depot_ordered` with `Kill = TRUE` | a put trusts an object whose directory entry a dead process never synced (cas.c:1035, against the comment at cas.c:628) |
| `OnlyGcForgets` | `depot_refs` with `NoMem = TRUE` | a failed realloc truncates the hash list and the new pack drops objects (cas-pack.c:740, README.md:49) |
| `GcPackExpunged` | `depot_ordered` | gc_pack with nothing reachable keeps the old pack (cas-pack.c:790, against cas-pack.h:185) |
| `OpenHoldsLock` | `handle_one` with `OneEach = FALSE` | freeing one of two handles of a process drops the depot lock (cas.c:497, against cas.c:474) |
| `ViewsMapped` | `handle_one` | reloading the pack unmaps what open objects point into (cas.c:587, README.md:2139) |
| `ListVisitsAll` | `vfs_tree` with `"delete"` in `InCallback` | a callback that deletes makes the listing skip a child (vfs.c:470, README.md:675) |
| `UsageExact` | `vfs_tree` with `NoMem = TRUE` | a half-done rename, then a write through a stale pointer: usage and sizes part (vfs.c:625) |
| `GlobInBounds` | `vfs_tree` | `[!...]` matches the terminator of the name, and `vfs_fnmatch` reads on behind it (vfs.c:1025) |
| `FsckHonest` | `snap_tree` | a tree that is lost, or a directory that cannot be listed, is passed over and `vfs_snap_fsck` returns `CAS_OK` (vfs-snap.c:469, README.md:1952: "`CAS_OK` if everything matches") |
| `HeadsAdvance`, `NoFork` | `topic_chain` | two threads check the same head and both commit: the topic forks, or a slow publish rolls it back (cas-topic.c:131; castool.c:1236, SHOAL.md:128-129: "For an honest single writer a fork is impossible") |
| `AllocFromStart` | `omap_map` | with the last page full the search wraps to id 0 and returns an id below `start` (cas-omap.c:563, cas-omap.h:99: "the first unmapped ID >= start") |
| `AllocFirstFree` | `omap_map` | `start + limit` wraps and a free range is reported full (cas-omap.c:545); an entry left by a failed put makes alloc fail (cas-omap.c:567) |
| `CountExact` | `omap_map` with `ZeroPut = TRUE` | the all-zero hash is counted and not mapped (cas-omap.c:489) |

Also met while modelling `Fetch` and `TreeCodec`, and left to their comments and
constants rather than to a run:

* Nothing cas-fetch stores is synced, while the ref commit is: after a power loss
  the ref can name objects that are gone or torn, and an object it had refused can
  be back (`dirty`, `ghost`, `unchecked`; cas-fetch.c:164-190).
* A kill between the rename and the check leaves unverified bytes that the next run
  takes as present (cas-fetch.c:166).
* A directory that cannot be loaded for want of memory counts as a leaf, and the
  ref is committed without its children (cas-fetch.c:336).
* cas-fetch admits a text tree spelled otherwise than `tree_serialize` writes it, as
  long as it hashes to its address; `cas_tree_verify`, and so import-pack, refuses it.
* `castool import` takes every failure to read the ref for an empty directory and
  commits only the new files (castool.c:478).
* Once a ref names a topic's record, `cas_tree_gc` fails on it, as it is no tree, and
  nothing is swept any more; cas-topic.c:157-159 counts on an unreferenced record
  being collectable.

## 5. Proofs

Every theorem holds for all values of the constants that satisfy the named
`ASSUME`s of the modules; a further hypothesis on the flags is part of the
theorem.  The models keep clear of `RECURSIVE` where something is proved, and
recursion is a recursive function or a fold.

| Module | Theorem | States | Hypotheses |
|---|---|---|---|
| `DepotProofs` | `TypeCorrect` | `[]TypeOK` | |
| | `InvariantHolds`, `ProtectedRootsStayIntact` | `[]IInv`, `[]ProtectedIntact` | `Serial` |
| | `OnlyGcForgetsHolds` | `OnlyGcForgets` | `~NoMem`, `~Crash` |
| | `NewObjectsAlwaysSurvive` | `[]NewObjectsSurvive` | `~NoMem`, no `gcpack` |
| | `NewestOnlyByCommitHolds` | `NewestOnlyByCommit` | `~Torn`, `PruneSynced` |
| | `LiveRootsStayIntact` | `[]LiveRootsIntact` | `Serial`, `PlainRefs` |
| | `HandleTypes`, `DepotIsExclusive` | `[]HandleTypeOK`, `[]Exclusive` | none, `OneEach` |
| `VfsProofs` | `AlwaysTree`, `UsageAlwaysExact` | `[]TreeShape`, `[]UsageExact` | `~NoMem` |
| | `ListingVisitsAll` | `ListVisitsAll` | `~NoMem`, callbacks neither delete nor rename |
| | `ArrayImplementsTree` | `ImplementsTree` | `~NoMem` |
| `OmapProofs` | `RefinesMap` | `ImplementsMap` | `~ZeroPut` |
| | `CountsAlwaysAgree`, `AllocAlwaysFindsFree` | `[]CountsAgree`, `[]AllocFindsFree` | `~ZeroPut` |
| `TopicProofs` | `HeadIsStored`, `PublishKeepsItsOrder`, `FreshPublishAdvances` | `[]HeadStored`, `[]PublishInv`, `FreshAdvances` | |
| | `WalkIsExact` | `[]WalkExact` | |
| `FetchProofs` | `TypeCorrect`, `OnlyVerifiedHolds`, `CommitCompleteHolds`, `CompleteStaysHolds` | `[]TypeOK`, `[]OnlyVerified`, `[]CommitComplete`, `CompleteStays` | |
| | `EncodingsAlwaysAgree`, `VerifiedLookupsHold`, `EditsAlwaysExact` | `EncodingsAgree`, `VerifiedLookups`, `EditsExact` | `Tries` |
| `PathsProofs` | `PathsAlwaysExact`, `GlobAlwaysExact` | `PathsExact`, `GlobExact` | `Tries` |
| | `FnmatchExact` | `Fnmatch` and `Matches` agree | |
| `SnapshotProofs` | `SnapTypeOK`, `SnapRestoreOnlyAdds` | `[]TypeOK`, `[]RestoreOnlyAdds` | |
| | `SnapCommittedWhole`, `SnapRestoreComplete` | `CommittedWhole`, `RestoreComplete` | |
| | `SnapChecksExact`, `SnapTreeFsckFinds` | `[]ChecksExact`, `[]TreeFsckFinds` | |

The hypotheses exclude what the properties do not survive.  Section 4 has
counterexamples for torn lines, prunes, spoiling comments and dying processes
(`LiveRootsIntact`), for a prune, a dying process and a power loss together
(`NewestOnlyByCommit`; `PruneSynced` says that one of the three is missing), a second handle (`Exclusive`), a failed allocation
(`OnlyGcForgets`, `UsageExact`), a deleting callback (`ListVisitsAll`) and the zero
hash (the counts).  `NewObjectsSurvive` fails in `depot_live` with `"gcpack"` in
`Modes`: gc_pack drops from the pack what is not reachable, however young.
`OnlyGcForgets` compares what can be opened before and after a step, and a power
loss takes what was never synced.

### Depot

`Serial` is `~Overlap /\ ~NoMem /\ ~Torn /\ ~Kill`; power losses at every point,
failing commits, prunes and spoiling comments are included.  `ProtectedIntact` is
not inductive: it speaks of what can be opened now, while a step may follow a
power loss.  `IInv` therefore says of every root, visible or durable, that a
visible or durable log reports, that its whole tree is *held*: durable and
openable.  The rest explains why each step keeps it so: what the writer has put
is held (`WriterInv`), a collection excludes the writer and has marked the
protected trees of the refs it is done with (`MarkInv`), a pack being written
holds whatever of the old one must survive and loose copies are unlinked only
when the durable and mapped pack has them (`PackInv`, `TodoInv`), nothing else is
unsynced (`DiskInv`), and the durable log reports no more than the visible one
except inside a prune, whose lines are a subset (`LogInv`, `RefInv`).  The lemmas
on `Reach` (monotone, closed, least) carry the argument about marking.  There is
one lemma per action.

The other properties of the depot need less than `Serial`, and each has its own
invariant in `DepotInv`.  `StoreInv`: what the store maps is in the pack on disk,
except between gc_pack's rename and its reload, so that reclaiming unlinks only
what is still found.  `SurviveInv`: what the running writer wrote is young and
loose or in the mapped pack, and a sweep that may meet a writer has only old
objects on its list.  `NewestInv`: whoever rewrites a log holds the ref's
lock, and the log a prune is about to put in place ends in the line of the visible
one.  If power can be lost, so does a log on disk (`SameEnd`): the name on disk leads
to the visible log, or to nothing, or to the log that the prune under way has just
replaced and whose last line it kept.  Where power can be lost, `PruneSynced` leaves
that third state no other end than the prune's own `fsync_dir` or a power loss, so no
commit appends in it.
`LiveInv`, on top of `IInv`: with plain comments, ordered
updates and no prune, every root is in its log, on disk too, so a live root is a
protected one.

### Handles

If no process has two handles, the process of an open handle holds the lock and
has no other handle; two open handles are then of one process.

### Filesystem

`VInv` is `Good` and what a listing keeps.  `Good` says that the array is a tree (no
path twice, every node's parent a directory of the array, directories without
contents), that the usage is the sum of the bytes of the nodes, and the bounds.
The directories' empty contents are what makes a recursive delete, which takes
nothing off the usage for the directory itself, exact.  Each call has one lemma.
Three of them carry an argument of their own:

* *Parents.*  `ensure_parents` finds the lowest existing ancestor; in a tree all
  ancestors above it exist and are directories (`UpToDepth`), and what it appends
  is a chain from there to the parent (`ChainIs`).  It follows too that an
  overwrite never has parents to make, so the write through a stale pointer that
  `Overwrite` allows for is not reached while the array is a tree.
* *Recursive delete.*  `LoopInv` is the invariant of the loop that runs backwards
  over an array it shrinks by swapping: behind the index nothing is below the
  directory, and whatever is not below it is still somewhere.  `LoopDrops` carries
  it through all turns.
* *Rename.*  The node at the new name has nothing below it, so the moved paths meet
  no other (`MovedApart`, `NothingBelow`), and moving keeps parents
  (`MovedUnder`).

`ListingVisitsAll` needs that calls other than delete and rename leave every node
at its index (`InPlace`); then behind the listing's index every old child was
shown (`Passed`).

`ArrayImplementsTree` describes a map by the set of nodes it stands for (`IsMap`):
the order of the array is gone, and a lemma per call (`WriteMaps`, ...,
`RenameMaps`) says that the call succeeds when the tree's can, and that the nodes
afterwards are those of the tree's result (`Effect`).  The two quota checks, one
of a running usage and one of a sum over the map, agree by `UsedIsTotal`.

`~NoMem` is needed throughout: a rename that runs out of memory half way leaves
nodes without a parent.

### Object map

`OInv`: each entry's counts are those of its page, a page in memory that is not
dirty is the stored one or was never filled, and every stored root describes its
pages truly.  From it each call is a call of the plain map.  `CountExact` adds the
counts of all pages up by induction over the set of pages.  For
`cas_omap_alloc` the loop's table of results is shown, turn by turn, to be the
first free id from each starting point.

### Topics

`HeadStored` alone is not inductive: the commit needs the record to be there
already.  `PublishInv` carries that from the put to the commit, and the verdict
from the check to the commit.  For the walk, `RecordInv` says that everything
stored is a signed record; by induction over its number such a record has a
complete line of ancestors (`LineExists`), and the walk and the declarative chain
are both prefixes of that line.

### Fetch

`IInv` has `AdmitOK` (the object between its rename and the queueing of its
children is there and, past its check, genuine), `OnlyVerified`, `Frontier` (of a
walk that set out soundly: below its root, everything found is genuine, and the
children of every tree found were found or are on the stack), `Spared` (a sweep
spares every complete root of the log), `BundleOK` and `TypeOK`.  When the stack is
empty `Frontier` says that what is present below the root is closed, so the root is
complete.

### Tree encodings

`Tries` says no more than that the input tried is a sorted directory, or an image;
the lemmas below the theorems (`TextLookupIs`, `HtreeLookupIs`, `VerifiedIs`,
`ImportExact`, `RemovalExact`) are about directories, images and lists of files of
any length.  `SortIs` and `SortedSame` say what a sort does, by induction over the
length and, for a sorted directory, from both ends.  `Holds` is the invariant of
the loop that fills a bucket's table: probing for a record that is in comes to it
before it comes to a free slot, and no more slots are used than there are records,
so with twice as many slots there is always a free one, which the probes reach
because they pass every slot (`SlotIs`).  A lookup probes the same way.  A verified
image is the one htree_build makes of its own records, so its lookups are that
image's.  For import and rm, `Imported` and `Removed` say after each turn which
entries there are; dropping by moving the last entry into the gap (`DroppedIs`)
neither loses nor repeats one.

### Paths and patterns

`Tries` bounds the strings by `PathLen`, `PatternLen` and `NameLen`; the lemmas have
sequences of any length.  Nothing is assumed of the buffer's size.

* *One spelling.*  Splitting and joining are each other's inverse on components
  without slashes (`SplitJoin`, `JoinSplit`).  So a normalized path, when it is
  normalized again, splits into just the components the code's stack held, none of
  which is empty, `.` or `..` (`StackPlain`), and the stack does not change.
* *Meaning.*  The code reads a path from the front and takes one component off for
  each `..`; `Meaning` reads it from the end and counts the `..` still to be
  honoured.  The two meet in the middle (`MeaningMoves`): what the stack holds after
  the first k components, less as many as are counted from the rest, followed by the
  names read from the rest, is the same for every k.  At one end this is the code's
  result, at the other the meaning.
* *Resolving.*  The components of two strings joined by a slash are those of one and
  then those of the other (`SplitConcat`), and the stack after them depends only on
  the stack in between (`StackConcat`); so `vfs_resolve` may normalize its directory
  first, or not.  `NormalExact` and `ResolveExact` put this together with the bounds of
  the buffer.
* *Matching.*  `Matches` says that the name can be cut into pieces that fit the items
  of the pattern one by one (`Fits`).  `AllFine` goes through the pattern from its end:
  the answers of `Fnmatch` in each row are right when those further right are.  An
  item of one character is simple (`OneFine`); a class ends within the pattern
  (`ClassAtIs`).  For a star (`StarFine`) the code takes the first place where the rest
  matches, and skips a run of stars as one: both lose nothing, because a piece of a
  star may be of any length (`StarsRight`).  That the code does not try the end of the
  name loses nothing either: only stars match there, and a pattern of stars only is
  answered at once (`NoneAtEnd`).  A match that steps over the name is excepted
  (section 4).

### Snapshots

`SInv` says that the filesystem is a tree (`GoodTree`: every node's parent is a
directory, directories have no contents), that the root committed to the ref is
`SnapDir` of some such tree (`Committed`), that the depot holds only objects of
that root and of the one being stored (`Stock`), and where a checkout stands
(`Restores`).  A root that is `SnapDir(m)` can be reasoned about through `m`: its
nodes are those of `m` (`FlatIs`), its objects are those of the paths of `m`
(`ClosureIs`), and walking down it finds the node at each path (`ResolveWhole`).
Each of these is an induction over depth.

* *Commit.*  The call lists what is still to be put; when nothing is left, every
  object of the tree is in the depot, and the filesystem has not changed since.
* *Restore.*  `Placed` says that whatever has been restored is the snapshot's node
  at the right path and that everything else is as before the call; it gives
  `RestoreOnlyAdds` at once.  `Pending` says that an entry of a directory that was
  entered has been restored or is still on the stack; with an empty stack it says,
  by induction over the depth of a node, that everything was restored
  (`PendingDone`).
* *Checks.*  `Fsck` descends recursively.  Its result at a directory is, by
  induction from the deepest paths upwards, the set of topmost differences below
  it (`FsckWhole`); the reports of a filesystem that contains the snapshot are
  additions (`FsckRestored`).
* *Lost objects.*  The tree walk meets every object whose ancestors it could load,
  so if it misses none there is none it could not reach (`MetWhole`).

### Induction

The provers cannot instantiate the library's induction theorems, whose induction
hypothesis is an operator.  `FiniteInduction` restates them with a *set* of good
values (`NatSetInduction`, `SetInduction`), which can be cited by name, and derives
what `SumFunction` is (`SumSplit`).  That a recursive function has a value at all is
shown the same way (`LoopExists`, `RecordsExist`).  This is how loops and sums of
any length are proved here.

### Only model-checked

* Liveness (`CommitReturns`, `MaintReturns`, `NewReturns`, `FetchReturns`): fairness
  and ENABLED are outside the prover's reach.
* The depot with torn lines (`depot_crash`, `depot_refs`) or dying processes, as far
  as `ProtectedIntact` goes.

## 6. Not modelled

* `cas_put_precompressed` and `cas_put_object_z` as such: the write, sync and rename
  of `cas_put_object` with other inputs.
* Bytes: headers, offsets, checksums and the layout of packs and log lines; hashing;
  codecs; signatures, key files and the names of topic refs.
* Two fetches at once: the depot lock, which `DepotHandle` is about, excludes them.
* A `cas_omap_foreach` callback that changes the map: the loop keeps a pointer into
  the directory array, no caller in the repository does it.
* The commands of `castool` that print or pass their arguments on to one library
  call; the sample; vendored code.
* Hard links, permissions and quota of the filesystem the depot lives on;
  a failing fsync is not told apart from a failing write.

## 7. Plan

Done: all modules of section 2 with their runs; the proofs of section 5, which state
every property of the passing runs that is no liveness property.

Left: `ProtectedIntact` with torn lines and with `Kill`.  An abstract depot that
`Depot` refines (a set of available trees and atomic commits) would take the place
of the promise that `Snapshot`, `Topic` and `Fetch` rely on.
