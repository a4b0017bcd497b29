----------------------------- MODULE DepotInv ------------------------------
(***************************************************************************)
(* The inductive invariant behind ProtectedIntact, for the depot whose     *)
(* collections do not overlap a build (Serial).  It is checked by TLC here *)
(* and proved in DepotProofs.                                              *)
(***************************************************************************)
EXTENDS Depot

\* What the argument assumes: a collection excludes the writer, pack_create
\* can allocate, appends are not torn, and a process that stops is followed
\* by a power loss or not restarted.  Failing commits, prunes, power losses
\* at every point and unparsable comments are all included.
Serial == ~ Overlap /\ ~ NoMem /\ ~ Torn /\ ~ Kill

\* Objects that no power loss can take away, and those among them that can
\* be opened now.
Safe == (loose \cap looseD) \cup (pack \cap packD)
Held == Safe \cap View

\* Roots of f, visible or durable, that a visible or durable log reports.
Prot(f) == {root[f], rootD[f], prev[f], prevD[f]}
               \cap (Readable(log[f]) \cup Readable(logD[f]))

Committing == wpc \in {"append", "prev", "root", "dirsync"}
Truncating == mpc \in {"trename", "tsync"}
Pruning    == mpc = "tlock" \/ Truncating

\* Protected roots are complete, and stay so through a power loss.
RootsInv == \A f \in Refs : \A r \in Prot(f) : Closure(r) \subseteq Held

\* So is everything the writer has put.
WriterInv ==
    /\ wpc = "idle" => whave = {}
    /\ \A h \in whave : Closure(h) \subseteq Held
    /\ wpc = "sync" => /\ wobj \in loose \cup (pack \cap packD \cap hpack)
                       /\ wobj \in Trees => Kids[wobj] \subseteq whave
    /\ Committing => wgoal \in whave /\ lock[wref] = "w"

\* A collection has the depot to itself and has marked every protected tree
\* of the refs it is done with.
MarkInv ==
    GcRunning =>
        /\ wpc = "idle"
        /\ mpc # "mark" => mrefs = {}
        /\ \A f \in Refs \ mrefs : \A r \in Prot(f) : Closure(r) \subseteq marked

\* Which operation the maintenance thread can be in.
ModeInv ==
    /\ mpc = "idle" => mmode = "none"
    /\ Pruning => mmode = "trunc"
    /\ mpc \in {"mark", "sweepbegin", "sweep"} => GcRunning
    /\ mpc \in {"collect", "pwrite", "psync", "packed"} => mmode \in {"pack", "gcpack"}
    /\ mpc \in {"reload", "unlink"} => mmode \in {"reclaim", "gcpack"}

\* Between the rename of a pack and the sync of its directory the old pack
\* may come back; between that rename and the reload of gc_pack the store
\* still maps the old one.
PackInv ==
    /\ mpc # "psync" => pack = packD
    /\ \/ hpack \subseteq pack \cap packD
       \/ mmode = "gcpack" /\ mpc \in {"psync", "reload"} /\ pack # {}
    /\ mpc = "pwrite" =>
           /\ mlist # {}
           /\ (IF mmode = "gcpack" THEN pack \cap marked ELSE pack) \subseteq mlist
    /\ mpc = "psync" => pack # {}

\* What is about to be unlinked is garbage or has a copy in the pack.
TodoInv ==
    /\ mpc = "sweep" => todo \cap marked = {}
    /\ mpc = "unlink" => todo \subseteq pack \cap packD \cap hpack

\* Only the object being put may be missing from the disk's directory.
DiskInv == loose \subseteq looseD \cup (IF wpc = "sync" THEN {wobj} ELSE {})

\* A ref's first root is on disk before anything is linked to .prev.
RefInv ==
    /\ \A f \in Refs : root[f] = None => rootD[f] = None
    /\ \A f \in Refs : rootD[f] = None => prev[f] = None /\ prevD[f] = None
    /\ \A f \in Refs : root[f] = rootD[f] \/ (wpc = "dirsync" /\ f = wref)

Parsable(l) == \A i \in 1..Len(l) : l[i].form \in {"whole", "bad"}

\* The log on disk never reports more than the visible one, except while
\* log_truncate is between its rename and its sync.
LogInv ==
    /\ \A f \in Refs : Parsable(log[f]) /\ Parsable(logD[f])
    /\ mpc # "tsync" => \A f \in Refs : Readable(logD[f]) \subseteq Readable(log[f])
    /\ Truncating => lock[mref] = "m"
    /\ mpc = "trename" => /\ Parsable(mlog)
                          /\ Readable(mlog) \subseteq Readable(log[mref])

\* The conjunction that every step preserves.
IInv ==
    /\ TypeOK /\ RootsInv /\ WriterInv /\ MarkInv /\ ModeInv
    /\ PackInv /\ TodoInv /\ DiskInv /\ RefInv /\ LogInv

-----------------------------------------------------------------------------
(* Invariants behind the other properties.  Each needs less than Serial.   *)

\* What the store maps is in the committed pack, except while gc_pack has
\* replaced the pack and not reloaded it.  Needs ~ NoMem.
StoreInv ==
    /\ ModeInv
    /\ \/ hpack \subseteq pack
       \/ mmode = "gcpack" /\ mpc \in {"psync", "reload"} /\ pack # {}
    /\ mpc = "pwrite" => mlist # {} /\ (mmode # "gcpack" => pack \subseteq mlist)
    /\ mpc = "psync" => pack # {}
    /\ mpc = "unlink" => todo \subseteq hpack

\* What the writer wrote is young, or in the mapped pack; a sweep that may
\* meet a writer takes old objects only.  Needs ~ NoMem and no gc_pack.
SurviveInv ==
    /\ StoreInv /\ mmode # "gcpack"
    /\ wpc = "idle" => wnew = {}
    /\ wnew \subseteq (loose \cap fresh) \cup hpack
    /\ GcRunning => (wpc = "idle" \/ mgrace) /\ (Overlap => mgrace)
    /\ mpc = "sweep" => todo \subseteq loose /\ (mgrace => todo \cap fresh = {})

NoTorn(l) == \A i \in 1..Len(l) : l[i].form # "torn"

\* A process does not die in a prune and lose power later.
PruneSynced == ~ (Prune /\ Kill /\ Crash)

\* The log on disk ends in the same line as the visible one.  A name on disk
\* that leads elsewhere leads to nothing, or to the log that the prune under
\* way has replaced.
SameEnd(f) ==
    /\ logD[f] # <<>> => log[f] # <<>> /\ Newest(logD[f]) = Newest(log[f])
    /\ f \in detached => logD[f] = <<>> \/ (mpc = "tsync" /\ f = mref)

\* A ref is locked while its log is rewritten, and the visible log, the one
\* log_truncate is about to put in place and, if power may be lost, the one on
\* disk end in the same line.  Needs ~ Torn and PruneSynced.
NewestInv ==
    /\ \A f \in Refs : NoTorn(log[f]) /\ NoTorn(logD[f])
    /\ Committing => lock[wref] = "w"
    /\ Truncating => lock[mref] = "m"
    /\ Pruning => Prune
    /\ mpc = "trename" => /\ NoTorn(mlog) /\ mlog # <<>> /\ log[mref] # <<>>
                          /\ Newest(mlog) = Newest(log[mref])
    /\ Crash => \A f \in Refs : SameEnd(f)

\* Refs that are never pruned, whose comments parse and whose directory
\* updates reach the disk in order.
PlainRefs == ~ Prune /\ Ordered /\ Comments = {"plain"}

Whole(l) == \A i \in 1..Len(l) : l[i].form = "whole"

\* Every root is in its log, on disk too.  Needs Serial and PlainRefs.
LiveInv ==
    /\ \A f \in Refs : Whole(log[f]) /\ Whole(logD[f])
    /\ \A f \in Refs : root[f] # None => root[f] \in Readable(log[f])
    /\ \A f \in Refs : rootD[f] # None => rootD[f] \in Readable(logD[f])
    /\ wpc \in {"prev", "root", "dirsync"} => wgoal \in Readable(log[wref])
    /\ ~ Pruning

=============================================================================
