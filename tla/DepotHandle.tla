---------------------------- MODULE DepotHandle ----------------------------
(***************************************************************************)
(* Handles on a depot (struct cas): the depot-wide lock that cas_new takes *)
(* and cas_free drops, the pack a handle has mapped, and the views into    *)
(* that mapping that readers hold.                                         *)
(*                                                                         *)
(* The lock is an fcntl record lock: it belongs to the process, a second   *)
(* request of the same process is granted at once, and closing any         *)
(* descriptor of the file gives it up.                                     *)
(***************************************************************************)
EXTENDS Naturals

CONSTANTS
    Handles,   \* handles that may be created
    Procs,     \* processes
    ProcOf,    \* the process a handle lives in
    Nobody,    \* nobody holds the lock
    MaxGen,    \* bound on the packs written
    OneEach    \* a process has at most one handle at a time

ASSUME HandleAssumption ==
    /\ ProcOf \in [Handles -> Procs]
    /\ Nobody \notin Procs
    /\ MaxGen \in Nat /\ OneEach \in BOOLEAN

VARIABLES
    st,       \* a handle is "closed", "waiting" for the lock or "open"
    holder,   \* process that holds the lock
    gen,      \* number of the pack on disk, 0 when there is none
    mapped,   \* number of the pack a handle has mapped, 0 for none
    views     \* <<handle, m>>: objects opened there from the pack, whose
              \* mapping still is ("mapped") or is no more ("unmapped")

handleVars == <<st, holder, gen, mapped, views>>

HandleInit ==
    /\ st = [h \in Handles |-> "closed"]
    /\ holder = Nobody /\ gen = 0
    /\ mapped = [h \in Handles |-> 0]
    /\ views = {}

\* close of a descriptor of .lock by process p.
Release(p) == holder' = IF holder = p THEN Nobody ELSE holder

\* cas_new: .lock is open, F_SETLKW waits.
New(h) ==
    /\ st[h] = "closed"
    /\ OneEach => \A g \in Handles \ {h} : ProcOf[g] = ProcOf[h] => st[g] = "closed"
    /\ st' = [st EXCEPT ![h] = "waiting"]
    /\ UNCHANGED <<holder, gen, mapped, views>>

\* Mutant of Lock: a lock that is not exclusive (F_RDLCK).
LockShared(h) ==
    /\ st[h] = "waiting"
    /\ st' = [st EXCEPT ![h] = "open"]
    /\ holder' = ProcOf[h] /\ mapped' = [mapped EXCEPT ![h] = gen]
    /\ UNCHANGED <<gen, views>>

\* The lock is granted, and the pack opened.
Lock(h) ==
    /\ st[h] = "waiting" /\ holder \in {Nobody, ProcOf[h]}
    /\ st' = [st EXCEPT ![h] = "open"]
    /\ holder' = ProcOf[h] /\ mapped' = [mapped EXCEPT ![h] = gen]
    /\ UNCHANGED <<gen, views>>

\* fcntl is interrupted while it waits; the descriptor is closed.
LockFail(h) ==
    /\ st[h] = "waiting" /\ holder \notin {Nobody, ProcOf[h]}
    /\ st' = [st EXCEPT ![h] = "closed"]
    /\ UNCHANGED <<holder, gen, mapped, views>>

\* Mutant of Free: the descriptor of .lock is not closed.
FreeKeepsLock(h) ==
    /\ st[h] = "open" /\ \A v \in views : v[1] # h
    /\ st' = [st EXCEPT ![h] = "closed"]
    /\ mapped' = [mapped EXCEPT ![h] = 0]
    /\ UNCHANGED <<holder, gen, views>>

\* cas_free, of a handle whose objects were closed.
Free(h) ==
    /\ st[h] = "open" /\ \A v \in views : v[1] # h
    /\ st' = [st EXCEPT ![h] = "closed"]
    /\ mapped' = [mapped EXCEPT ![h] = 0]
    /\ Release(ProcOf[h])
    /\ UNCHANGED <<gen, views>>

\* A pack is written through the handle and renamed over pack.dat.
Repack(h) ==
    /\ st[h] = "open" /\ gen < MaxGen
    /\ gen' = gen + 1
    /\ UNCHANGED <<st, holder, mapped, views>>

\* cas_reload_pack: pack.dat is mapped anew and the old mapping undone,
\* even when it is the same pack.
ReloadPack(h) ==
    /\ st[h] = "open"
    /\ mapped' = [mapped EXCEPT ![h] = gen]
    /\ views' = {<<v[1], IF v[1] = h THEN "unmapped" ELSE v[2]>> : v \in views}
    /\ UNCHANGED <<st, holder, gen>>

\* cas_open_object of a raw packed object: a view into the mapping.
OpenView(h) ==
    /\ st[h] = "open" /\ mapped[h] > 0
    /\ views' = views \cup {<<h, "mapped">>}
    /\ UNCHANGED <<st, holder, gen, mapped>>

CloseView(v) ==
    /\ v \in views
    /\ views' = views \ {v}
    /\ UNCHANGED <<st, holder, gen, mapped>>

\* The process ends, and with it its handles, mappings and lock.
Exit(p) ==
    /\ st' = [h \in Handles |-> IF ProcOf[h] = p THEN "closed" ELSE st[h]]
    /\ mapped' = [h \in Handles |-> IF ProcOf[h] = p THEN 0 ELSE mapped[h]]
    /\ views' = {v \in views : ProcOf[v[1]] # p}
    /\ Release(p)
    /\ UNCHANGED gen

HandleNext ==
    \/ \E h \in Handles :
        \/ New(h) \/ Lock(h) \/ LockFail(h) \/ Free(h)
        \/ Repack(h) \/ ReloadPack(h) \/ OpenView(h)
    \/ \E v \in views : CloseView(v)
    \/ \E p \in Procs : Exit(p)

HandleSpec == HandleInit /\ [][HandleNext]_handleVars

\* The kernel serves every waiter in the end.  What the library asks of its
\* callers: whoever has a handle frees it some time, or exits.  Nobody who
\* has freed all handles need exit, and no other call need be made.
FairHandleSpec ==
    /\ HandleSpec
    /\ \A h \in Handles : SF_handleVars(Lock(h))
    /\ \A h \in Handles : WF_handleVars(st[h] = "open" /\ (Free(h) \/ Exit(ProcOf[h])))

-----------------------------------------------------------------------------
(* Properties.                                                             *)

\* Handles, the lock, the mappings and the open objects are well typed.
HandleTypeOK ==
    /\ st \in [Handles -> {"closed", "waiting", "open"}]
    /\ holder \in Procs \cup {Nobody}
    /\ gen \in Nat /\ mapped \in [Handles -> Nat]
    /\ views \subseteq Handles \X {"mapped", "unmapped"}

\* Two processes never have the depot open at once.
Exclusive ==
    \A g, h \in Handles : (st[g] = "open" /\ st[h] = "open") => ProcOf[g] = ProcOf[h]

\* A process that has the depot open holds its lock.
OpenHoldsLock == \A h \in Handles : st[h] = "open" => holder = ProcOf[h]

\* An object that was opened and not yet closed can be read: the mapping
\* its data points into is still there.
ViewsMapped == \A v \in views : v[2] = "mapped"

\* cas_new returns: nobody waits for the depot for ever, as long as those
\* who have it open give their handles back, whoever comes in between.
\* Giving one back is enough: a process that lives on holds nothing up.
NewReturns == \A h \in Handles : (st[h] = "waiting") ~> (st[h] # "waiting")

=============================================================================
