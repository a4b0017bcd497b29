------------------------------- MODULE Depot -------------------------------
(***************************************************************************)
(* The on-disk depot: loose objects, pack.dat, refs and their logs, under  *)
(* one process with two threads.  The writer builds a tree bottom-up and   *)
(* commits it to a ref (cas_put_object, cas_tree_ref_commit); the          *)
(* maintenance thread prunes logs, collects garbage, packs and reclaims    *)
(* (cas_tree_log_truncate, cas_tree_gc, cas_tree_gc_pack, cas_pack_create, *)
(* cas_pack_reclaim).  Every state component that lives in a directory has *)
(* two copies: what the kernel shows and what is on stable storage (suffix *)
(* D).  A power loss falls back to any mixture of the two.                 *)
(*                                                                         *)
(* An object is its hash.  A tree object has the entries Kids[t]; every    *)
(* other object is a blob.  Contents, encodings and names are abstracted.  *)
(***************************************************************************)
EXTENDS Naturals, Sequences, FiniteSets

CONSTANTS
    Hash,        \* object addresses
    Trees,       \* the addresses of tree objects
    Kids,        \* Kids[t]: hashes in the entries of tree t
    Refs,        \* ref names
    Goals,       \* objects the writer may set out to commit
    Comments,    \* kinds of commit comment: "plain", "long", "multi"
    MaxLog,      \* bound on the lines a log may have when a commit starts
    None,        \* no hash, no ref, no lock holder
    Modes,       \* the collections used: "gc", "gcpack"
    Overlap,     \* gc may run while the writer has uncommitted objects
    Prune,       \* log_truncate is used
    CommitFail,  \* a system call inside ref_commit may fail
    NoMem,       \* allocation or open may fail inside pack_create
    Torn,        \* a log append may reach the file only in part
    Crash,       \* power may be lost
    Kill,        \* the process may die and be restarted
    Ordered      \* directory updates of refs/ reach the disk in order

ASSUME ObjectAssumption ==
    /\ Trees \subseteq Hash
    /\ Kids \in [Trees -> SUBSET Hash]
    /\ Goals \subseteq Hash
    /\ None \notin Hash
    /\ None \notin Refs \cup {"w", "m"}
ASSUME BoundAssumption == MaxLog \in Nat
ASSUME InputAssumption ==
    /\ Comments \subseteq {"plain", "long", "multi"}
    /\ Modes \subseteq {"gc", "gcpack"}
ASSUME FlagAssumption ==
    {Overlap, Prune, CommitFail, NoMem, Torn, Crash, Kill, Ordered}
        \subseteq BOOLEAN

VARIABLES
    loose, looseD,   \* objects with a file in their bucket directory
    fresh,           \* loose objects younger than the grace period
    pack, packD,     \* objects in pack.dat; {} when there is none
    hpack,           \* objects in the pack the store has mapped
    root, rootD,     \* refs/<name>.root
    prev, prevD,     \* refs/<name>.prev
    log, logD,       \* refs/<name>.log, oldest line first
    detached,        \* refs whose .log was created or replaced since refs/
                     \* was synced: the name on disk leads elsewhere
    lock,            \* holder of the flock on refs/<name>.lock
    wpc, wref, wgoal,\* the writer: where it is, ref and tree it works on
    whave,           \* objects the writer knows to be stored
    wnew,            \* those of them it wrote itself
    wobj,            \* the object between rename and fsync_dir
    mpc, mmode,      \* the maintenance thread: where it is, which operation
    mgrace,          \* grace > 0
    mref, mlog,      \* ref being pruned and the lines it will keep
    mrefs,           \* refs not marked yet
    marked,          \* the reachable set
    mlist,           \* objects going into the new pack
    todo             \* loose objects still to be unlinked

objVars == <<loose, looseD, fresh, pack, packD, hpack>>
refVars == <<root, rootD, prev, prevD, log, logD, detached>>
wVars   == <<wpc, wref, wgoal, whave, wnew, wobj>>
mVars   == <<mpc, mmode, mgrace, mref, mlog, mrefs, marked, mlist, todo>>
vars    == <<objVars, refVars, lock, wVars, mVars>>

-----------------------------------------------------------------------------
(* Objects and reachability.                                               *)

\* What a lookup through the store finds: the mapped pack, then loose.
View == loose \cup hpack

Closed(S, P) == \A t \in S \cap Trees \cap P : Kids[t] \subseteq S

\* Everything mark_tree marks from the roots R when the objects P are
\* present: an absent tree is marked and not descended into.
Reach(R, P) ==
    {h \in Hash : \A S \in SUBSET Hash : (R \subseteq S /\ Closed(S, P)) => h \in S}

\* The whole tree under r, whether its objects are present or not.
Closure(r) == Reach({r}, Trees)

-----------------------------------------------------------------------------
(* Log lines.  "whole" parses; "half" has a hash and a time but no         *)
(* nanoseconds, which log_truncate accepts and log_read refuses; "bad" is  *)
(* refused by both; "torn" has no newline, and can only be the last.       *)

Forms == {"whole", "half", "bad", "torn"}
Line  == [hash : Hash, form : Forms]

TornEnd(l) == Len(l) > 0 /\ l[Len(l)].form = "torn"

\* Lines ahead of a torn tail.
Count(l) == IF TornEnd(l) THEN Len(l) - 1 ELSE Len(l)

Newest(l) == l[Len(l)]

\* The hashes log_read reports before it stops at a line it cannot parse.
Readable(l) ==
    {l[i].hash : i \in {j \in 1..Len(l) : \A k \in 1..j : l[k].form = "whole"}}

\* The forms a line can take.  A comment that makes it outgrow the reader's
\* buffer spoils it.  A torn tail swallows it: depending on how much of the
\* tail was written the result parses as the tail's hash, only as hash and
\* time, or not at all.
AppendForms(l, c) ==
    IF c = "long" THEN {"bad"}
    ELSE IF TornEnd(l) THEN {"bad", "half", "whole"} ELSE {"whole"}

AppendOwner(l, h) == IF TornEnd(l) THEN l[Len(l)].hash ELSE h

\* What follows a newline in the comment does not parse.
AppendRest(h, c) == IF c = "multi" THEN <<[hash |-> h, form |-> "bad"]>> ELSE <<>>

\* The log after fprintf of the line for h.
Appended(l, h, c) ==
    {SubSeq(l, 1, Count(l)) \o <<[hash |-> AppendOwner(l, h), form |-> k]>> \o AppendRest(h, c)
        : k \in AppendForms(l, c)}

\* The log after an append of which only a part reached the file.
AppendedTorn(l, h) ==
    IF TornEnd(l) THEN l ELSE Append(l, [hash |-> h, form |-> "torn"])

\* What log_truncate may keep of log l: lines in order, the newest always
\* among them, at least one dropped.  keep_count keeps a suffix and
\* keep_since any line with a late enough wall-clock stamp.
KeepMaps(l, n) ==
    {e \in [1..n -> 1..Count(l)] :
        e[n] = Count(l) /\ \A i, j \in 1..n : i < j => e[i] < e[j]}

Survivors(l) ==
    UNION {{[i \in 1..n |-> l[e[i]]] : e \in KeepMaps(l, n)} : n \in 1..(Count(l) - 1)}

-----------------------------------------------------------------------------
(* The specification starts from an empty depot.                           *)

Init ==
    /\ loose = {} /\ looseD = {} /\ fresh = {}
    /\ pack = {} /\ packD = {} /\ hpack = {}
    /\ root = [f \in Refs |-> None] /\ rootD = root
    /\ prev = [f \in Refs |-> None] /\ prevD = prev
    /\ log = [f \in Refs |-> <<>>] /\ logD = log
    /\ detached = Refs
    /\ lock = [f \in Refs |-> None]
    /\ wpc = "idle" /\ wref = None /\ wgoal = None
    /\ whave = {} /\ wnew = {} /\ wobj = None
    /\ mpc = "idle" /\ mmode = "none" /\ mgrace = FALSE
    /\ mref = None /\ mlog = <<>> /\ mrefs = {}
    /\ marked = {} /\ mlist = {} /\ todo = {}

\* A log that does not exist will have to be created.
Absent(l) == {f \in Refs : l[f] = <<>>}

\* fsync of the refs directory.
SyncRefs ==
    /\ rootD' = root /\ prevD' = prev /\ logD' = log
    /\ detached' = Absent(log)

WriterEnd ==
    /\ wpc' = "idle" /\ wref' = None /\ wgoal' = None
    /\ whave' = {} /\ wnew' = {} /\ wobj' = None

MaintEnd ==
    /\ mpc' = "idle" /\ mmode' = "none" /\ mgrace' = FALSE
    /\ mref' = None /\ mlog' = <<>> /\ mrefs' = {}
    /\ marked' = {} /\ mlist' = {} /\ todo' = {}

Unlock(f) == lock' = [lock EXCEPT ![f] = None]

-----------------------------------------------------------------------------
(* The writer: put objects bottom-up, then commit.                         *)

\* Collections exclude the writer unless Overlap.
GcRunning == mmode \in {"gc", "gcpack"}

Begin(f, g) ==
    /\ wpc = "idle" /\ (GcRunning => Overlap)
    /\ Len(log[f]) < MaxLog
    /\ wpc' = "build" /\ wref' = f /\ wgoal' = g
    /\ UNCHANGED <<objVars, refVars, lock, whave, wnew, wobj, mVars>>

\* An object is put after the objects its entries name.
Puttable(h) ==
    /\ wpc = "build" /\ h \in Closure(wgoal) \ whave
    /\ h \in Trees => Kids[h] \subseteq whave

\* Early return of cas_put_object: a loose file or a packed copy exists.
PutDedup(h) ==
    /\ Puttable(h) /\ h \in View
    /\ whave' = whave \cup {h}
    /\ UNCHANGED <<objVars, refVars, lock, wpc, wref, wgoal, wnew, wobj, mVars>>

\* Temp file written and synced, then renamed into its bucket.
PutRename(h) ==
    /\ Puttable(h) /\ h \notin View
    /\ loose' = loose \cup {h} /\ fresh' = fresh \cup {h}
    /\ wobj' = h /\ wnew' = wnew \cup {h} /\ wpc' = "sync"
    /\ UNCHANGED <<looseD, pack, packD, hpack, refVars, lock, wref, wgoal, whave, mVars>>

\* Mutant of PutSync: the bucket directory is not synced.
PutSyncNoFsync ==
    /\ wpc = "sync"
    /\ whave' = whave \cup {wobj} /\ wobj' = None /\ wpc' = "build"
    /\ UNCHANGED <<objVars, refVars, lock, wref, wgoal, wnew, mVars>>

\* fsync_dir of the bucket, and the return.
PutSync ==
    /\ wpc = "sync"
    /\ looseD' = looseD \cup {wobj} /\ whave' = whave \cup {wobj}
    /\ wobj' = None /\ wpc' = "build"
    /\ UNCHANGED <<loose, fresh, pack, packD, hpack, refVars, lock, wref, wgoal, wnew, mVars>>

\* A put failed before its rename, or the lock file could not be opened;
\* the caller gives up.
PutFail ==
    /\ wpc = "build" /\ (wgoal \notin whave \/ CommitFail)
    /\ WriterEnd
    /\ UNCHANGED <<objVars, refVars, lock, mVars>>

\* ref_commit: flock(LOCK_EX), which waits for the holder.
CommitLock ==
    /\ wpc = "build" /\ wgoal \in whave
    /\ lock[wref] = None
    /\ lock' = [lock EXCEPT ![wref] = "w"]
    /\ wpc' = "append"
    /\ UNCHANGED <<objVars, refVars, wref, wgoal, whave, wnew, wobj, mVars>>

\* fsync of the log.  The file it writes to is the one a power loss leaves
\* only if the name on disk leads to it.
SyncLog == logD' = IF wref \in detached THEN logD ELSE [logD EXCEPT ![wref] = log'[wref]]

\* fprintf, fflush and fsync of the log.
LogAppend(c) ==
    /\ wpc = "append"
    /\ \E l \in Appended(log[wref], wgoal, c) : log' = [log EXCEPT ![wref] = l]
    /\ SyncLog
    /\ wpc' = "prev"
    /\ UNCHANGED <<objVars, root, rootD, prev, prevD, detached, lock, wref, wgoal, whave, wnew, wobj, mVars>>

\* Mutant of LogAppendFail: an error path that forgets close(lockfd).
LogAppendFailKeepsLock ==
    /\ wpc = "append" /\ CommitFail
    /\ WriterEnd
    /\ UNCHANGED <<objVars, refVars, lock, mVars>>

\* The append fails, leaving nothing or part of the line behind, which is
\* not synced and may be on disk or not.
LogAppendFail ==
    /\ wpc = "append" /\ CommitFail
    /\ \/ UNCHANGED log
       \/ Torn /\ log' = [log EXCEPT ![wref] = AppendedTorn(log[wref], wgoal)]
    /\ SyncLog \/ UNCHANGED logD
    /\ Unlock(wref) /\ WriterEnd
    /\ UNCHANGED <<objVars, root, rootD, prev, prevD, detached, mVars>>

\* link(.root, .prev.tmp) and rename to .prev; a failure is ignored.
PrevLink ==
    /\ wpc = "prev"
    /\ \/ root[wref] # None /\ prev' = [prev EXCEPT ![wref] = root[wref]]
       \/ (root[wref] = None \/ CommitFail) /\ UNCHANGED prev
    /\ wpc' = "root"
    /\ UNCHANGED <<objVars, root, rootD, prevD, log, logD, detached, lock, wref, wgoal, whave, wnew, wobj, mVars>>

\* The new root is written beside .root and renamed over it.
RootRename ==
    /\ wpc = "root"
    /\ root' = [root EXCEPT ![wref] = wgoal]
    /\ wpc' = "dirsync"
    /\ UNCHANGED <<objVars, rootD, prev, prevD, log, logD, detached, lock, wref, wgoal, whave, wnew, wobj, mVars>>

\* Mutant of RootFail: an error path that forgets close(lockfd).
RootFailKeepsLock ==
    /\ wpc = "root" /\ CommitFail
    /\ WriterEnd
    /\ UNCHANGED <<objVars, refVars, lock, mVars>>

RootFail ==
    /\ wpc = "root" /\ CommitFail
    /\ Unlock(wref) /\ WriterEnd
    /\ UNCHANGED <<objVars, refVars, mVars>>

\* Mutants of CommitSync: no fsync_dir(refs); a call that does not return.
CommitSyncNoFsync ==
    /\ wpc = "dirsync"
    /\ Unlock(wref) /\ WriterEnd
    /\ UNCHANGED <<objVars, refVars, mVars>>
CommitSyncStays ==
    /\ wpc = "dirsync"
    /\ SyncRefs /\ Unlock(wref)
    /\ wref' = None /\ wgoal' = None /\ whave' = {} /\ wnew' = {}
    /\ UNCHANGED <<objVars, root, prev, log, wpc, wobj, mVars>>

\* fsync_dir(refs), close(lockfd), return CAS_OK.
CommitSync ==
    /\ wpc = "dirsync"
    /\ SyncRefs /\ Unlock(wref) /\ WriterEnd
    /\ UNCHANGED <<objVars, root, prev, log, mVars>>

-----------------------------------------------------------------------------
(* cas_tree_log_truncate.                                                  *)

\* The lock file is opened; flock waits for the holder.
TruncBegin(f) ==
    /\ Prune /\ mpc = "idle"
    /\ mpc' = "tlock" /\ mmode' = "trunc" /\ mref' = f
    /\ UNCHANGED <<objVars, refVars, lock, wVars, mgrace, mlog, mrefs, marked, mlist, todo>>

\* Mutant of TruncRead: no flock on the ref.
TruncReadUnlocked ==
    /\ mpc = "tlock"
    /\ \A i \in 1..Len(log[mref]) : log[mref][i].form # "bad"
    /\ mlog' \in Survivors(log[mref])
    /\ mpc' = "trename"
    /\ UNCHANGED <<objVars, refVars, lock, wVars, mmode, mgrace, mref, mrefs, marked, mlist, todo>>

\* The lock is granted; the log is read and holds something to drop.
TruncRead ==
    /\ mpc = "tlock" /\ lock[mref] = None
    /\ \A i \in 1..Len(log[mref]) : log[mref][i].form # "bad"
    /\ mlog' \in Survivors(log[mref])
    /\ lock' = [lock EXCEPT ![mref] = "m"]
    /\ mpc' = "trename"
    /\ UNCHANGED <<objVars, refVars, wVars, mmode, mgrace, mref, mrefs, marked, mlist, todo>>

\* The lock is granted and dropped again: the log is missing, has a line
\* without a time or nothing to drop, or memory ran out.
TruncNothing ==
    /\ mpc = "tlock" /\ lock[mref] = None
    /\ MaintEnd
    /\ UNCHANGED <<objVars, refVars, lock, wVars>>

\* flock is interrupted.
TruncRefused ==
    /\ mpc = "tlock"
    /\ MaintEnd
    /\ UNCHANGED <<objVars, refVars, lock, wVars>>

\* The kept lines were written to .log.tmp and synced; rename over .log.
TruncRename ==
    /\ mpc = "trename"
    /\ log' = [log EXCEPT ![mref] = mlog]
    /\ detached' = detached \cup {mref}
    /\ mpc' = "tsync"
    /\ UNCHANGED <<objVars, root, rootD, prev, prevD, logD, lock, wVars,
                   mmode, mgrace, mref, mlog, mrefs, marked, mlist, todo>>

TruncFail ==
    /\ mpc = "trename"
    /\ Unlock(mref) /\ MaintEnd
    /\ UNCHANGED <<objVars, refVars, wVars>>

TruncSync ==
    /\ mpc = "tsync"
    /\ SyncRefs /\ Unlock(mref) /\ MaintEnd
    /\ UNCHANGED <<objVars, root, prev, log, wVars>>

-----------------------------------------------------------------------------
(* cas_tree_gc and cas_tree_gc_pack: mark, one ref at a time.              *)

\* grace = 0 is for exclusive access only.
GcBegin(mode, grace) ==
    /\ mpc = "idle" /\ (wpc # "idle" => Overlap) /\ (Overlap => grace)
    /\ mpc' = "mark" /\ mmode' = mode /\ mgrace' = grace
    /\ mrefs' = {f \in Refs : root[f] # None}
    /\ UNCHANGED <<objVars, refVars, lock, wVars, mref, mlog, marked, mlist, todo>>

\* mark_ref: mark_tree on every entry log_read reports, whatever log_read
\* itself returns.
MarkRef(f) ==
    /\ mpc = "mark" /\ f \in mrefs
    /\ Readable(log[f]) \cap View \subseteq Trees
    /\ marked' = marked \cup Reach(Readable(log[f]), View)
    /\ mrefs' = mrefs \ {f}
    /\ UNCHANGED <<objVars, refVars, lock, wVars, mpc, mmode, mgrace, mref, mlog, mlist, todo>>

\* An entry names an object that is no tree, or memory or a read failed:
\* the collection returns before it removes anything.
MarkFail(f) ==
    /\ mpc = "mark" /\ f \in mrefs
    /\ ~ (Readable(log[f]) \cap View \subseteq Trees) \/ NoMem
    /\ MaintEnd
    /\ UNCHANGED <<objVars, refVars, lock, wVars>>

\* Mutant of MarkDone: the sweep starts before every ref is marked.
MarkDoneEarly ==
    /\ mpc = "mark"
    /\ mpc' = IF mmode = "gc" THEN "sweepbegin" ELSE "collect"
    /\ UNCHANGED <<objVars, refVars, lock, wVars, mmode, mgrace, mref, mlog, mrefs, marked, mlist, todo>>

MarkDone ==
    /\ mpc = "mark" /\ mrefs = {}
    /\ mpc' = IF mmode = "gc" THEN "sweepbegin" ELSE "collect"
    /\ UNCHANGED <<objVars, refVars, lock, wVars, mmode, mgrace, mref, mlog, mrefs, marked, mlist, todo>>

\* Mutant of SweepBegin: the grace period is ignored.
SweepBeginNoGrace ==
    /\ mpc = "sweepbegin"
    /\ todo' = loose \ marked
    /\ mpc' = "sweep"
    /\ UNCHANGED <<objVars, refVars, lock, wVars, mmode, mgrace, mref, mlog, mrefs, marked, mlist>>

\* cas_foreach with sweep_visitor: marked and young objects stay.
SweepBegin ==
    /\ mpc = "sweepbegin"
    /\ todo' = {h \in loose \ marked : mgrace => h \notin fresh}
    /\ mpc' = "sweep"
    /\ UNCHANGED <<objVars, refVars, lock, wVars, mmode, mgrace, mref, mlog, mrefs, marked, mlist>>

\* cas_remove; no directory is synced, and a failed unlink is passed over.
SweepOne(h) ==
    /\ mpc = "sweep" /\ h \in todo
    /\ loose' \in {loose, loose \ {h}} /\ fresh' = fresh \cap loose'
    /\ todo' = todo \ {h}
    /\ UNCHANGED <<looseD, pack, packD, hpack, refVars, lock, wVars,
                   mpc, mmode, mgrace, mref, mlog, mrefs, marked, mlist>>

SweepDone ==
    /\ mpc = "sweep" /\ todo = {}
    /\ MaintEnd
    /\ UNCHANGED <<objVars, refVars, lock, wVars>>

-----------------------------------------------------------------------------
(* pack_create: collect loose and packed hashes, filter, write, rename.    *)

PackBegin ==
    /\ mpc = "idle"
    /\ mpc' = "collect" /\ mmode' = "pack"
    /\ UNCHANGED <<objVars, refVars, lock, wVars, mgrace, mref, mlog, mrefs, marked, mlist, todo>>

\* The lists collect_hash builds.  A realloc failure ends a walk early and
\* an old pack that cannot be opened contributes nothing; neither is
\* reported.
Collected ==
    IF NoMem THEN SUBSET (loose \cup pack) ELSE {loose \cup pack}

\* An empty list, before or after the filter, returns CAS_OK and leaves
\* pack.dat alone.
Collect ==
    /\ mpc = "collect"
    /\ \E s \in Collected :
        LET kept == IF mmode = "gcpack" THEN s \cap marked ELSE s IN
        /\ mlist' = kept
        /\ mpc' = IF kept # {} THEN "pwrite"
                  ELSE IF mmode = "gcpack" THEN "reload" ELSE "packed"
    /\ UNCHANGED <<objVars, refVars, lock, wVars, mmode, mgrace, mref, mlog, mrefs, marked, todo>>

PackRename ==
    /\ mpc = "pwrite"
    /\ pack' = mlist /\ mpc' = "psync"
    /\ UNCHANGED <<loose, looseD, fresh, packD, hpack, refVars, lock, wVars,
                   mmode, mgrace, mref, mlog, mrefs, marked, mlist, todo>>

\* Any error ahead of the rename unlinks the temp file and is returned.
PackFail ==
    /\ mpc = "pwrite"
    /\ MaintEnd
    /\ UNCHANGED <<objVars, refVars, lock, wVars>>

\* Mutant of PackSync: the rename of the pack is not made durable.
PackSyncNoFsync ==
    /\ mpc = "psync"
    /\ mpc' = IF mmode = "gcpack" THEN "reload" ELSE "packed"
    /\ UNCHANGED <<objVars, refVars, lock, wVars, mmode, mgrace, mref, mlog, mrefs, marked, mlist, todo>>

\* fsync_parent_dir.
PackSync ==
    /\ mpc = "psync"
    /\ packD' = pack
    /\ mpc' = IF mmode = "gcpack" THEN "reload" ELSE "packed"
    /\ UNCHANGED <<loose, looseD, fresh, pack, hpack, refVars, lock, wVars,
                   mmode, mgrace, mref, mlog, mrefs, marked, mlist, todo>>

PackDone ==
    /\ mpc = "packed"
    /\ MaintEnd
    /\ UNCHANGED <<objVars, refVars, lock, wVars>>

-----------------------------------------------------------------------------
(* cas_pack_reclaim.                                                       *)

ReclaimBegin ==
    /\ mpc = "idle"
    /\ mpc' = "reload" /\ mmode' = "reclaim"
    /\ UNCHANGED <<objVars, refVars, lock, wVars, mgrace, mref, mlog, mrefs, marked, mlist, todo>>

\* Mutant of Reload: loose copies go while the store maps the old pack.
ReloadSkipped ==
    /\ mpc = "reload"
    /\ todo' = loose \cap pack
    /\ mpc' = "unlink"
    /\ UNCHANGED <<objVars, refVars, lock, wVars, mmode, mgrace, mref, mlog, mrefs, marked, mlist>>

\* Without a pack there is nothing to do; otherwise cas_reload_pack maps the
\* committed pack before any loose copy goes, and the loose objects are
\* listed.  Only those the pack holds are reclaimable.
Reload ==
    /\ mpc = "reload"
    /\ hpack' = IF pack = {} THEN hpack ELSE pack
    /\ todo' = loose \cap pack
    /\ mpc' = "unlink"
    /\ UNCHANGED <<loose, looseD, fresh, pack, packD, refVars, lock, wVars,
                   mmode, mgrace, mref, mlog, mrefs, marked, mlist>>

ReclaimOne(h) ==
    /\ mpc = "unlink" /\ h \in todo
    /\ loose' \in {loose, loose \ {h}} /\ fresh' = fresh \cap loose'
    /\ todo' = todo \ {h}
    /\ UNCHANGED <<looseD, pack, packD, hpack, refVars, lock, wVars,
                   mpc, mmode, mgrace, mref, mlog, mrefs, marked, mlist>>

\* The buckets an object was unlinked from are synced.
ReclaimDone ==
    /\ mpc = "unlink" /\ todo = {}
    /\ looseD' = {h \in looseD : h \in pack => h \in loose}
    /\ IF mmode = "gcpack"
       THEN /\ mpc' = "sweepbegin"
            /\ UNCHANGED <<mmode, mgrace, mref, mlog, mrefs, marked, mlist, todo>>
       ELSE MaintEnd
    /\ UNCHANGED <<loose, fresh, pack, packD, hpack, refVars, lock, wVars>>

-----------------------------------------------------------------------------
(* The environment.                                                        *)

\* A loose object outlives the grace period.  What the current session
\* wrote does not: a commit follows its puts within the grace period.
Age(h) ==
    /\ h \in fresh \ wnew
    /\ fresh' = fresh \ {h}
    /\ UNCHANGED <<loose, looseD, pack, packD, hpack, refVars, lock, wVars, mVars>>

Restart == WriterEnd /\ MaintEnd /\ lock' = [f \in Refs |-> None]

\* Power loss: each directory entry is found either as last seen or as last
\* synced.  A log append under way may leave a torn line.
PowerLoss ==
    /\ Crash
    /\ \E s \in SUBSET ((loose \cup looseD) \ (loose \cap looseD)) :
           loose' = (loose \cap looseD) \cup s
    /\ looseD' = loose' /\ fresh' = fresh \cap loose'
    /\ pack' \in {pack, packD} /\ packD' = pack' /\ hpack' = pack'
    /\ \E R, V, L \in SUBSET Refs :
        /\ root' = [f \in Refs |-> IF f \in R THEN root[f] ELSE rootD[f]]
        /\ prev' = [f \in Refs |-> IF f \in V THEN prev[f] ELSE prevD[f]]
        /\ Ordered => \A f \in R \ L : root[f] = rootD[f]
        /\ LET kept == [f \in Refs |-> IF f \in L THEN log[f] ELSE logD[f]] IN
           \/ log' = kept
           \/ /\ Torn /\ wpc = "append" /\ wref \in L \cup (Refs \ detached)
              /\ log' = [kept EXCEPT ![wref] = AppendedTorn(@, wgoal)]
    /\ rootD' = root' /\ prevD' = prev' /\ logD' = log'
    /\ detached' = Absent(log')
    /\ Restart

\* The process dies; the kernel keeps what was done.  The next process
\* opens the depot, and with it the pack.
ProcessDies ==
    /\ Kill /\ (wpc # "idle" \/ mpc # "idle")
    /\ hpack' = pack
    /\ Restart
    /\ UNCHANGED <<loose, looseD, fresh, pack, packD, refVars>>

-----------------------------------------------------------------------------
WriterStep ==
    \/ \E h \in Hash : PutDedup(h) \/ PutRename(h)
    \/ PutSync \/ CommitLock
    \/ \E c \in Comments : LogAppend(c)
    \/ LogAppendFail \/ PrevLink \/ RootRename \/ RootFail \/ CommitSync

MaintStep ==
    \/ TruncRead \/ TruncNothing \/ TruncRename \/ TruncFail \/ TruncSync
    \/ \E f \in Refs : MarkRef(f) \/ MarkFail(f)
    \/ MarkDone \/ SweepBegin \/ SweepDone
    \/ \E h \in Hash : SweepOne(h) \/ ReclaimOne(h)
    \/ Collect \/ PackRename \/ PackFail \/ PackSync \/ PackDone
    \/ Reload \/ ReclaimDone

\* Calls the application may or may not make, and the environment.
Call ==
    \/ \E f \in Refs, g \in Goals : Begin(f, g)
    \/ \E f \in Refs : TruncBegin(f)
    \/ \E m \in Modes, b \in BOOLEAN : GcBegin(m, b)
    \/ PackBegin \/ ReclaimBegin

Environment ==
    (\E h \in Hash : Age(h)) \/ PutFail \/ TruncRefused \/ PowerLoss \/ ProcessDies

Next == WriterStep \/ MaintStep \/ Call \/ Environment

Spec == Init /\ [][Next]_vars

\* Every thread inside a library call keeps running (no failure is needed
\* to get it on: PutFail and TruncRefused are not fair), and a waiter on a
\* flock that is released again and again gets it: the kernel queues them.
FairSpec ==
    /\ Spec
    /\ WF_vars(WriterStep) /\ SF_vars(CommitLock)
    /\ WF_vars(MaintStep) /\ SF_vars(TruncRead \/ TruncNothing)

-----------------------------------------------------------------------------
(* Properties.                                                             *)

\* Every state of the depot and of the running calls is well typed, and no
\* call is ever at a step its handler does not have.
TypeOK ==
    /\ loose \subseteq Hash /\ looseD \subseteq Hash /\ fresh \subseteq Hash
    /\ pack \subseteq Hash /\ packD \subseteq Hash /\ hpack \subseteq Hash
    /\ root \in [Refs -> Hash \cup {None}] /\ rootD \in [Refs -> Hash \cup {None}]
    /\ prev \in [Refs -> Hash \cup {None}] /\ prevD \in [Refs -> Hash \cup {None}]
    /\ log \in [Refs -> Seq(Line)] /\ logD \in [Refs -> Seq(Line)]
    /\ detached \subseteq Refs
    /\ lock \in [Refs -> {None, "w", "m"}]
    /\ wpc \in {"idle", "build", "sync", "append", "prev", "root", "dirsync"}
    /\ wref \in Refs \cup {None} /\ wgoal \in Hash \cup {None}
    /\ whave \subseteq Hash /\ wnew \subseteq Hash /\ wobj \in Hash \cup {None}
    /\ mpc \in {"idle", "tlock", "trename", "tsync", "mark", "sweepbegin", "sweep",
               "collect", "pwrite", "psync", "packed", "reload", "unlink"}
    /\ mmode \in {"none", "trunc", "gc", "gcpack", "pack", "reclaim"}
    /\ mgrace \in BOOLEAN
    /\ mref \in Refs \cup {None} /\ mlog \in Seq(Line) /\ mrefs \subseteq Refs
    /\ marked \subseteq Hash /\ mlist \subseteq Hash /\ todo \subseteq Hash
    /\ wpc # "idle" => wref \in Refs /\ wgoal \in Hash
    /\ wpc = "sync" => wobj \in Hash
    /\ mpc \in {"tlock", "trename", "tsync"} => mref \in Refs

\* A root, or the previous root, that its ref's log still reports is
\* complete: every object under it can be opened through the store.
\* Whatever fails, crashes, is packed, reclaimed, collected or pruned.
ProtectedIntact ==
    \A f \in Refs : \A r \in {root[f], prev[f]} \cap Readable(log[f]) :
        Closure(r) \subseteq View

\* The tree a ref points at is complete, unconditionally.
LiveRootsIntact ==
    \A f \in Refs : root[f] # None => Closure(root[f]) \subseteq View

\* The newest line of a log changes only by a commit that holds the ref's
\* lock: pruning, which always keeps that line, rewrites the log without
\* losing a line that was appended meanwhile.
NewestOnlyByCommit ==
    [][\A f \in Refs : (log[f] # <<>> /\ log'[f] # <<>> /\ Newest(log'[f]) # Newest(log[f])) =>
        lock[f] = "w" /\ wpc = "append"]_vars

\* An object the writer itself wrote is still there when it commits, even
\* if a collection with a grace period runs alongside.
NewObjectsSurvive == wnew \subseteq View

\* Packing, reclaiming, pruning and writing never make a stored object
\* unavailable; only a collection does.
OnlyGcForgets == [][~ GcRunning => View \subseteq View']_vars

\* When gc_pack has compacted the pack, no unreachable object is left in it.
GcPackExpunged ==
    (mmode = "gcpack" /\ mpc \in {"sweepbegin", "sweep"}) => pack \subseteq marked

\* A commit whose objects are stored returns: it gets the ref's lock and
\* runs to its end, whatever is pruned and collected meanwhile.
CommitReturns == (wpc = "build" /\ wgoal \in whave) ~> (wpc = "idle")

\* Every maintenance call returns; a prune waits in flock behind commits
\* that come again and again and fail on any of their error paths, and gets
\* the lock.
MaintReturns == (mpc # "idle") ~> (mpc = "idle")

=============================================================================
