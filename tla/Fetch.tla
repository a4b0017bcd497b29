------------------------------- MODULE Fetch -------------------------------
(***************************************************************************)
(* Filling a depot from outside: examples/cas-fetch.c walks a published    *)
(* tree over HTTP and fetches what is missing, castool import-pack merges  *)
(* a downloaded bundle (cas_pack_import), and castool gc runs in between.  *)
(* Each is a process of its own and the depot lock that cas_new takes      *)
(* (module DepotHandle) lets only one of them in, so at most one session   *)
(* is under way; it can be killed or lose its power at any step.           *)
(*                                                                         *)
(* An object is its address, as in module Depot; here the bytes found      *)
(* under an address may be other than the ones it commits to.              *)
(***************************************************************************)
EXTENDS Naturals, Sequences, SequencesExt

CONSTANTS
    Hash,      \* object addresses
    Trees,     \* the addresses of tree objects
    Kids,      \* Kids[t]: the hashes in the entries of t, in entry order
    Goals,     \* roots the origin may publish
    Served,    \* kinds of bytes the origin may answer with
    Bundles,   \* bundles that may be imported, see Bundle
    None,      \* no root, no object
    NoMem,     \* an allocation may fail while a tree is opened or loaded
    Collects,  \* castool gc is used
    Crash      \* power may be lost

\* What a loose file can hold.  "plain": a blob or text tree that hashes to
\* its address; "htree": the htree of the directory the address commits to;
\* "junk": bytes of a self-addressed type that do not hash to the address,
\* or that this build has no codec for; "fake": an htree of another
\* directory, or with other tables.
Genuine == {"plain", "htree"}
Kinds   == Genuine \cup {"junk", "fake"}

\* A bundle: its objects in index order, and the root named on the command
\* line, None when no ref is to be set.
Bundle == [objs : Seq([hash : Hash, kind : Kinds]), root : Hash \cup {None}]

ASSUME ObjectAssumption ==
    /\ Trees \subseteq Hash /\ Goals \subseteq Hash
    /\ Kids \in [Trees -> Seq(Hash)]
    /\ None \notin Hash
ASSUME InputAssumption ==
    /\ Served \subseteq Kinds
    /\ Bundles \subseteq Bundle
    /\ {NoMem, Collects, Crash} \subseteq BOOLEAN

VARIABLES
    oroot,     \* refs/<name>.root at the origin
    ohas,      \* objects the origin serves
    store,     \* what is found under an address: a kind, or "absent"
    dirty,     \* objects whose file or directory entry was never synced
    ghost,     \* bad objects whose removal was never synced
    head,      \* the local ref
    logged,    \* roots in the local ref's log
    pc, froot, \* the session: where it is, the root it works on
    queue,     \* cas-fetch: hashes still to visit, a stack
    cur,       \* cas-fetch: the object being admitted
    bundle,    \* import-pack: the bundle, and how many objects it has left
    left,
    doomed,    \* gc: what the sweep is going to remove
    sound,     \* history: what the session found under froot was closed
    unchecked  \* history: objects an interruption left or brought back bad

depot   == <<store, dirty, ghost, head, logged, unchecked>>
session == <<pc, froot, queue, cur, bundle, left, doomed, sound>>
vars    == <<oroot, ohas, depot, session>>

-----------------------------------------------------------------------------
(* Objects.                                                                *)

KidSet(t) == ToSet(Kids[t])
NoBundle  == [objs |-> <<>>, root |-> None]

\* Everything reachable from R when only the trees in P can be descended
\* into.
Reach(R, P) ==
    {h \in Hash : \A S \in SUBSET Hash :
        (R \subseteq S /\ \A t \in S \cap P \cap Trees : KidSet(t) \subseteq S) => h \in S}

Closure(r)  == Reach({r}, Trees)
Present     == {h \in Hash : store[h] # "absent"}    \* cas_exists
Whole       == {h \in Hash : store[h] \in Genuine}
Complete(r) == Closure(r) \subseteq Whole

\* Below r, every object found is what it should be, and every tree found
\* has its children.
SoundBelow(r) ==
    \A h \in Closure(r) \cap Present :
        /\ h \in Whole
        /\ h \in Trees => KidSet(h) \subseteq Present

\* cas_fsck_object on what is stored; the object layer cannot check an
\* htree.
FsckObject(k) ==
    IF k \in {"htree", "fake"} THEN "reencoded"
    ELSE IF k = "plain" THEN "ok" ELSE "corrupt"

\* cas_tree_verify of an htree: parse, hash the text form, rebuild.
TreeVerify(k) == IF k = "htree" THEN "ok" ELSE "corrupt"

\* Mutant of Status: REENCODED taken for a pass.
StatusTrusting(k) == IF FsckObject(k) = "reencoded" THEN "ok" ELSE FsckObject(k)

Status(k) == IF FsckObject(k) = "reencoded" THEN TreeVerify(k) ELSE FsckObject(k)

-----------------------------------------------------------------------------
Init ==
    /\ oroot \in Goals /\ ohas = Closure(oroot)
    /\ store = [h \in Hash |-> "absent"] /\ dirty = {} /\ ghost = {} /\ unchecked = {}
    /\ head = None /\ logged = {}
    /\ pc = "idle" /\ froot = None /\ queue = <<>> /\ cur = None
    /\ bundle = NoBundle /\ left = 0 /\ doomed = {} /\ sound = FALSE

\* The session ends, and the lock is released.
End ==
    /\ pc' = "idle" /\ froot' = None /\ queue' = <<>> /\ cur' = None
    /\ bundle' = NoBundle /\ left' = 0 /\ doomed' = {} /\ sound' = FALSE

\* cas_tree_ref_commit, whose steps are in module Depot.
Commit(r) == head' = r /\ logged' = logged \cup {r}

\* The root a commit under way would record.
Committing ==
    IF pc = "walk" /\ queue = <<>> THEN {froot}
    ELSE IF pc = "import" /\ left = 0 THEN {bundle.root} \cap Present
    ELSE {}

\* A session that fails or is stopped leaves the ref as it was, but a commit
\* under way may have appended to the log, which comes first.
CommitStopped == UNCHANGED head /\ logged' \in {logged, logged \cup Committing}

-----------------------------------------------------------------------------
(* The origin moves on, and may drop what it no longer publishes.          *)

Publish(r) ==
    /\ r # oroot
    /\ oroot' = r /\ ohas' = ohas \cup Closure(r)
    /\ UNCHANGED <<depot, session>>

OriginGc ==
    /\ ohas # Closure(oroot)
    /\ ohas' = Closure(oroot)
    /\ UNCHANGED <<oroot, depot, session>>

-----------------------------------------------------------------------------
(* cas-fetch.                                                              *)

\* The ref is fetched and parsed, and its root pushed.
FetchBegin ==
    /\ pc = "idle"
    /\ pc' = "walk" /\ froot' = oroot /\ queue' = <<oroot>>
    /\ sound' = SoundBelow(oroot)
    /\ UNCHANGED <<oroot, ohas, depot, cur, bundle, left, doomed>>

\* Mutant of Skip: the object stays on the stack.
SkipStays ==
    /\ pc = "walk" /\ queue # <<>> /\ Last(queue) \in Present
    /\ UNCHANGED vars

\* The popped object is already here.
Skip ==
    /\ pc = "walk" /\ queue # <<>> /\ Last(queue) \in Present
    /\ queue' = Front(queue)
    /\ UNCHANGED <<oroot, ohas, depot, pc, froot, cur, bundle, left, doomed, sound>>

\* Mutant of Get: the popped hash is not kept.
GetUncopied(k) ==
    /\ pc = "walk" /\ queue # <<>> /\ Last(queue) \notin Present
    /\ k = "plain" => Last(queue) \in ohas
    /\ k = "htree" => Last(queue) \in ohas \cap Trees
    /\ store' = [store EXCEPT ![Last(queue)] = k]
    /\ dirty' = dirty \cup {Last(queue)} /\ ghost' = ghost \ {Last(queue)}
    /\ queue' = Front(queue) /\ cur' = None /\ pc' = "verify"
    /\ UNCHANGED <<oroot, ohas, head, logged, unchecked, froot, bundle, left, doomed, sound>>

\* GET of the popped object, written beside its place and renamed into it.
\* Nothing is synced.
Get(k) ==
    /\ pc = "walk" /\ queue # <<>> /\ Last(queue) \notin Present
    /\ k = "plain" => Last(queue) \in ohas
    /\ k = "htree" => Last(queue) \in ohas \cap Trees
    /\ store' = [store EXCEPT ![Last(queue)] = k]
    /\ dirty' = dirty \cup {Last(queue)} /\ ghost' = ghost \ {Last(queue)}
    /\ queue' = Front(queue) /\ cur' = Last(queue) /\ pc' = "verify"
    /\ UNCHANGED <<oroot, ohas, head, logged, unchecked, froot, bundle, left, doomed, sound>>

\* The origin refuses the object or the transfer breaks, or it cannot be
\* written: goto out.
GetFail ==
    /\ pc = "walk" /\ queue # <<>> /\ Last(queue) \notin Present
    /\ End
    /\ UNCHANGED <<oroot, ohas, depot>>

\* The check; for want of memory it can also refuse a good object.
Verify ==
    /\ pc = "verify"
    /\ \/ pc' = IF Status(store[cur]) = "ok" THEN "load" ELSE "unlink"
       \/ NoMem /\ pc' = "unlink"
    /\ UNCHANGED <<oroot, ohas, depot, froot, queue, cur, bundle, left, doomed, sound>>

Unlink ==
    /\ pc = "unlink"
    /\ store' = [store EXCEPT ![cur] = "absent"] /\ dirty' = dirty \ {cur}
    /\ ghost' = ghost \cup ({cur} \ Whole)
    /\ End
    /\ UNCHANGED <<oroot, ohas, head, logged, unchecked>>

\* Mutant of Load: the last entry is not queued.
LoadShort ==
    /\ pc = "load"
    /\ queue' = IF cur \in Trees /\ Kids[cur] # <<>> THEN queue \o Front(Kids[cur]) ELSE queue
    /\ pc' = "walk" /\ cur' = None
    /\ UNCHANGED <<oroot, ohas, depot, froot, bundle, left, doomed, sound>>

\* A directory's children are queued.
Load ==
    /\ pc = "load"
    /\ queue' = IF cur \in Trees THEN queue \o Kids[cur] ELSE queue
    /\ pc' = "walk" /\ cur' = None
    /\ UNCHANGED <<oroot, ohas, depot, froot, bundle, left, doomed, sound>>

\* cas_open_object or cas_tree_load fails: the walk goes on without the
\* children.
LoadFail ==
    /\ pc = "load" /\ NoMem
    /\ pc' = "walk" /\ cur' = None /\ sound' = (sound /\ cur \notin Trees)
    /\ UNCHANGED <<oroot, ohas, depot, froot, queue, bundle, left, doomed>>

\* The stack cannot grow: goto out.
LoadAbort ==
    /\ pc = "load" /\ NoMem /\ cur \in Trees
    /\ End
    /\ UNCHANGED <<oroot, ohas, depot>>

FetchCommit ==
    /\ pc = "walk" /\ queue = <<>>
    /\ Commit(froot) /\ End
    /\ UNCHANGED <<oroot, ohas, store, dirty, ghost, unchecked>>

\* The ref cannot be recorded; what was fetched stays, and so may the line
\* in the log.
FetchCommitFail ==
    /\ pc = "walk" /\ queue = <<>>
    /\ CommitStopped /\ End
    /\ UNCHANGED <<oroot, ohas, store, dirty, ghost, unchecked>>

-----------------------------------------------------------------------------
(* castool import-pack.                                                    *)

ImportBegin(b) ==
    /\ pc = "idle"
    /\ pc' = "import" /\ bundle' = b /\ left' = Len(b.objs)
    /\ UNCHANGED <<oroot, ohas, depot, froot, queue, cur, doomed, sound>>

NextObj == bundle.objs[Len(bundle.objs) - left + 1]

\* import_one: checked, then put; the put keeps what is there, and syncs.
ImportOne ==
    /\ pc = "import" /\ left > 0 /\ NextObj.kind \in Genuine
    /\ store' = IF NextObj.hash \in Present THEN store
                ELSE [store EXCEPT ![NextObj.hash] = NextObj.kind]
    /\ ghost' = ghost \ {NextObj.hash} /\ left' = left - 1
    /\ UNCHANGED <<oroot, ohas, dirty, head, logged, unchecked, pc, froot, queue, cur, bundle, doomed, sound>>

\* An object that fails its check or cannot be put ends the import, and so
\* do a root that is not in the store and a commit that fails.
ImportFail ==
    /\ pc = "import"
    /\ CommitStopped /\ End
    /\ UNCHANGED <<oroot, ohas, store, dirty, ghost, unchecked>>

\* Every object was stored; the ref is set if one was named.
ImportEnd ==
    /\ pc = "import" /\ left = 0
    /\ IF bundle.root = None THEN UNCHANGED <<head, logged>>
       ELSE bundle.root \in Present /\ Commit(bundle.root)
    /\ End
    /\ UNCHANGED <<oroot, ohas, store, dirty, ghost, unchecked>>

-----------------------------------------------------------------------------
(* castool gc, as in module Depot: everything the log names is kept, and   *)
(* of the rest what is old enough goes, in any order and maybe only in     *)
(* part.  Ages are not kept: any part of the rest may be old enough.       *)

\* Mutant of GcMark: only the ref's current root is marked.
GcMarkHead ==
    /\ pc = "idle" /\ Collects
    /\ doomed' \in (SUBSET (Present \ Reach({head} \ {None}, Whole))) \ {{}}
    /\ pc' = "sweep"
    /\ UNCHANGED <<oroot, ohas, depot, froot, queue, cur, bundle, left, sound>>

\* A tree that is not genuine stops the collection, or is taken for another
\* directory.
GcMark ==
    /\ pc = "idle" /\ Collects
    /\ doomed' \in (SUBSET (Present \ Reach(logged, Whole))) \ {{}}
    /\ pc' = "sweep"
    /\ UNCHANGED <<oroot, ohas, depot, froot, queue, cur, bundle, left, sound>>

Sweep(h) ==
    /\ pc = "sweep" /\ h \in doomed
    /\ store' = [store EXCEPT ![h] = "absent"]
    /\ dirty' = dirty \ {h} /\ unchecked' = unchecked \ {h}
    /\ ghost' = ghost \cup ({h} \ Whole)
    /\ IF doomed = {h} THEN End
       ELSE doomed' = doomed \ {h} /\ UNCHANGED <<pc, froot, queue, cur, bundle, left, sound>>
    /\ UNCHANGED <<oroot, ohas, head, logged>>

-----------------------------------------------------------------------------
(* Interruptions.                                                          *)

\* What a stop between the rename and the end of the check leaves.
InFlight == IF pc \in {"verify", "unlink"} THEN {cur} ELSE {}

\* The process is killed; the lock goes with it.
Kill ==
    /\ pc # "idle"
    /\ unchecked' = unchecked \cup (InFlight \ Whole)
    /\ CommitStopped /\ End
    /\ UNCHANGED <<oroot, ohas, store, dirty, ghost>>

\* The kernel writes back an object and its directory entry, or that it is
\* gone.
Writeback(h) ==
    /\ h \in dirty \cup ghost
    /\ dirty' = dirty \ {h} /\ ghost' = ghost \ {h}
    /\ UNCHANGED <<oroot, ohas, store, head, logged, unchecked, session>>

\* Power loss: of what was never synced, a file may be gone, or there with
\* nothing or only a part in it, and what was removed may be back.  (That
\* of a good object does no harm and is left out.)
PowerLoss ==
    /\ Crash
    /\ \E gone, torn \in SUBSET dirty, back \in SUBSET ghost :
        /\ gone \cap torn = {}
        /\ store' = [h \in Hash |-> IF h \in gone THEN "absent"
                                    ELSE IF h \in torn \cup back THEN "junk" ELSE store[h]]
        /\ unchecked' = (unchecked \cup torn \cup back \cup (InFlight \ Whole)) \ gone
    /\ dirty' = {} /\ ghost' = {}
    /\ CommitStopped /\ End
    /\ UNCHANGED <<oroot, ohas>>

-----------------------------------------------------------------------------
FetchStep ==
    \/ Skip \/ (\E k \in Served : Get(k)) \/ GetFail
    \/ Verify \/ Unlink \/ Load \/ LoadFail \/ LoadAbort \/ FetchCommit \/ FetchCommitFail

ImportStep == ImportOne \/ ImportFail \/ ImportEnd

GcStep == \E h \in Hash : Sweep(h)

Call ==
    FetchBegin \/ (\E b \in Bundles : ImportBegin(b)) \/ GcMark

Environment ==
    \/ (\E r \in Goals : Publish(r)) \/ OriginGc
    \/ Kill \/ (\E h \in Hash : Writeback(h)) \/ PowerLoss

Next == FetchStep \/ ImportStep \/ GcStep \/ Call \/ Environment

Spec == Init /\ [][Next]_vars

\* A process that is running goes on, and the origin answers it, if only
\* with a refusal; nobody has to start one.
Fairness == WF_vars(FetchStep) /\ WF_vars(ImportStep) /\ WF_vars(GcStep)

FairSpec == Spec /\ Fairness

-----------------------------------------------------------------------------
(* Properties.                                                             *)

\* Depot, origin and session are well typed.
TypeOK ==
    /\ oroot \in Goals /\ ohas \subseteq Hash
    /\ store \in [Hash -> Kinds \cup {"absent"}]
    /\ dirty \subseteq Present /\ unchecked \subseteq Present
    /\ ghost \subseteq Hash \ Present
    /\ head \in Hash \cup {None} /\ logged \subseteq Hash
    /\ pc \in {"idle", "walk", "verify", "load", "unlink", "import", "sweep"}
    /\ froot \in Hash \cup {None} /\ queue \in Seq(Hash) /\ cur \in Hash \cup {None}
    /\ left \in 0..Len(bundle.objs) /\ doomed \subseteq Hash /\ sound \in BOOLEAN
    /\ pc \in {"walk", "verify", "load", "unlink"} => froot \in Hash
    /\ pc \in {"verify", "load", "unlink"} => cur \in Hash

\* Whatever an origin or a bundle sends, what the depot holds under an
\* address is what the address commits to; except the one object being
\* checked, and what an interruption left before its check was over or
\* brought back after it.
OnlyVerified == Present \ Whole \subseteq InFlight \cup unchecked

\* A walk that set out over objects that were closed under "child of", and
\* that could read every tree it stored, commits a root of which every
\* object is there and genuine, however the origin moved meanwhile.
CommitComplete == (pc = "walk" /\ queue = <<>> /\ sound) => Complete(froot)

\* A root the depot logged, that is complete, checked and written back, stays
\* complete through everything that follows: collections, half-done
\* fetches and imports, kills and power losses.
CompleteStays ==
    [][\A r \in logged : (Complete(r) /\ Closure(r) \cap (dirty \cup InFlight) = {}) => Complete(r)']_vars

\* A fetch returns: the stack of pending objects drains, even when objects
\* are shared.
FetchReturns == (pc = "walk") ~> (pc = "idle")

\* The local ref names a tree of which every object is present: what
\* cas-fetch promises when it records the ref last.
CommittedComplete == head # None => Closure(head) \subseteq Present

=============================================================================
