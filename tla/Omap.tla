-------------------------------- MODULE Omap --------------------------------
(***************************************************************************)
(* The object map of cas-omap.c: a directory of pages, each a fixed number *)
(* of hash slots, loaded into memory when first touched and written back   *)
(* as objects by cas_omap_store.  The directory is a sorted array searched *)
(* by bisection; here it is a function from page numbers to entries.  A    *)
(* page's hash is the page's contents, and a stored root is the directory  *)
(* it encodes: the store is content-addressed.                             *)
(***************************************************************************)
EXTENDS Integers, FiniteSets, FiniteSetsExt, Functions

CONSTANTS
    Hash,       \* hashes of objects
    Zero,       \* the hash of 32 zero bytes, which marks an empty slot
    None,       \* no page
    Slots,      \* CAS_OMAP_PAGE_SLOTS
    Pages,      \* number of pages: an id is a number below Pages * Slots,
                \* the 2^64 of the code
    MaxRoots,   \* bound on the roots stored
    NoMem,      \* an allocation, or a put into the store, may fail
    ZeroPut     \* cas_omap_put is called with the zero hash

ASSUME OmapAssumption ==
    /\ Slots \in Nat \ {0} /\ Pages \in Nat \ {0} /\ MaxRoots \in Nat
    /\ NoMem \in BOOLEAN /\ ZeroPut \in BOOLEAN
    /\ Zero \notin Hash
    /\ None \notin [0..(Slots - 1) -> Hash \cup {Zero}]

VARIABLES
    dir,      \* page number -> directory entry
    roots,    \* "omap" objects in the store
    call      \* the last call, with its arguments and its result

vars == <<dir, roots, call>>

Ids  == 0..(Pages * Slots - 1)
Slot == 0..(Slots - 1)
Page == [Slot -> Hash \cup {Zero}]
EmptyPage == [s \in Slot |-> Zero]

Entry == [hash : Page \cup {None}, pop : Nat,
          cached : Page \cup {None}, cpop : Nat, dirty : BOOLEAN]
RootEntry == [hash : Page, pop : Nat]

PageOf(i) == i \div Slots
SlotOf(i) == i % Slots

Init == dir = [p \in {} |-> None] /\ roots = {} /\ call = <<"new">>

-----------------------------------------------------------------------------
(* Entries.                                                                *)

NewEntry == [hash |-> None, pop |-> 0, cached |-> None, cpop |-> 0, dirty |-> FALSE]

Set(p, e) == dir' = [q \in DOMAIN dir \cup {p} |-> IF q = p THEN e ELSE dir[q]]

\* dir_insert.
Inserted(p) == IF p \in DOMAIN dir THEN dir[p] ELSE NewEntry

\* page_load: the page read from the store, with the count of its entry.
Cached(e) ==
    IF e.cached # None THEN e ELSE [e EXCEPT !.cached = e.hash, !.cpop = e.pop]

\* page_ensure: a page that was never stored starts out empty.
Ensured(p) ==
    LET e == Inserted(p) IN
    IF e.cached = None /\ e.hash = None THEN [e EXCEPT !.cached = EmptyPage] ELSE Cached(e)

\* The page an entry stands for, and the hash of an id.
Contents(e) ==
    IF e.cached # None THEN e.cached ELSE IF e.hash # None THEN e.hash ELSE EmptyPage
Lookup(d, i) ==
    IF PageOf(i) \in DOMAIN d THEN Contents(d[PageOf(i)])[SlotOf(i)] ELSE Zero

\* page_load succeeds.
Loads(p) == p \in DOMAIN dir /\ (dir[p].cached # None \/ dir[p].hash # None)

-----------------------------------------------------------------------------
(* Calls.                                                                  *)

\* cas_omap_get, which like every other reader leaves the page in memory.
Get(i) ==
    LET p == PageOf(i)
        e == Cached(dir[p]) IN
    /\ \/ Loads(p) /\ Set(p, e) /\ call' = <<"get", i, e.cached[SlotOf(i)]>>
       \/ ~ Loads(p) /\ UNCHANGED dir /\ call' = <<"get", i, Zero>>
    /\ UNCHANGED roots

\* Mutant of Put: the counts grow on a replacement too.
PutCountsTwice(i, h) ==
    LET e == Ensured(PageOf(i)) IN
    /\ Set(PageOf(i), [e EXCEPT !.cached[SlotOf(i)] = h, !.dirty = TRUE,
                                !.pop = @ + 1, !.cpop = @ + 1])
    /\ call' = <<"put", i, h>>
    /\ UNCHANGED roots

\* cas_omap_put.
Put(i, h) ==
    LET e == Ensured(PageOf(i))
        n == IF e.cached[SlotOf(i)] = Zero THEN 1 ELSE 0 IN
    /\ Set(PageOf(i), [e EXCEPT !.cached[SlotOf(i)] = h, !.dirty = TRUE,
                                !.pop = @ + n, !.cpop = @ + n])
    /\ call' = <<"put", i, h>>
    /\ UNCHANGED roots

\* No memory for the page: the new entry stays in the directory.
PutFail(i) ==
    /\ NoMem /\ Set(PageOf(i), Inserted(PageOf(i)))
    /\ call' = <<"fail">>
    /\ UNCHANGED roots

\* An entry whose page has slot s emptied.
Emptied(e, s) ==
    [e EXCEPT !.cached[s] = Zero, !.dirty = TRUE, !.pop = @ - 1, !.cpop = @ - 1]

DelAt(e, s) == IF e.cached[s] = Zero THEN e ELSE Emptied(e, s)

\* cas_omap_del; an id that is not mapped still has its page loaded.
Del(i) ==
    LET p == PageOf(i)
        e == Cached(dir[p]) IN
    /\ \/ /\ Loads(p) /\ Set(p, DelAt(e, SlotOf(i)))
          /\ call' = <<"del", i, e.cached[SlotOf(i)] # Zero>>
       \/ ~ Loads(p) /\ UNCHANGED dir /\ call' = <<"del", i, FALSE>>
    /\ UNCHANGED roots

\* The first n ids of a set.
FirstIds(S, n) == {i \in S : Cardinality({j \in S : j < i}) < n}

\* cas_omap_foreach whose callback stops it at the n-th id: pages that count
\* as empty are passed over, the others are loaded one after the other.
Foreach(n) ==
    LET listed == {i \in Ids : /\ PageOf(i) \in DOMAIN dir /\ dir[PageOf(i)].pop > 0
                               /\ Lookup(dir, i) # Zero}
        seen == FirstIds(listed, n) IN
    /\ dir' = [p \in DOMAIN dir |->
                 IF p \in {PageOf(i) : i \in seen} THEN Cached(dir[p]) ELSE dir[p]]
    /\ call' = <<"foreach", n, seen>>
    /\ UNCHANGED roots

Clear == dir' = [p \in {} |-> None] /\ call' = <<"clear">> /\ UNCHANGED roots

\* A dirty page was put into the store.
Flushed(e) ==
    IF e.cached # None /\ e.dirty
    THEN [e EXCEPT !.hash = e.cached, !.pop = e.cpop, !.dirty = FALSE] ELSE e

\* cas_omap_store: pages first, then the directory of the populated ones.
Store ==
    LET d == [p \in DOMAIN dir |-> Flushed(dir[p])]
        live == {p \in DOMAIN d : d[p].pop > 0}
        r == [p \in live |-> [hash |-> d[p].hash, pop |-> d[p].pop]] IN
    /\ Cardinality(roots \cup {r}) <= MaxRoots
    /\ dir' = d /\ roots' = roots \cup {r}
    /\ call' = <<"store", r>>

\* It fails with only the pages below p flushed.
StoreFail(p) ==
    /\ NoMem
    /\ dir' = [q \in DOMAIN dir |-> IF q < p THEN Flushed(dir[q]) ELSE dir[q]]
    /\ call' = <<"fail">>
    /\ UNCHANGED roots

\* Mutant of Load: the pages of the old map stay where the root has none.
LoadMerges(r) ==
    /\ dir' = [p \in DOMAIN r \cup DOMAIN dir |->
                 IF p \in DOMAIN r
                 THEN [NewEntry EXCEPT !.hash = r[p].hash, !.pop = r[p].pop] ELSE dir[p]]
    /\ call' = <<"load", r>>
    /\ UNCHANGED roots

\* cas_omap_load of a stored root.
Load(r) ==
    /\ dir' = [p \in DOMAIN r |->
                 [NewEntry EXCEPT !.hash = r[p].hash, !.pop = r[p].pop]]
    /\ call' = <<"load", r>>
    /\ UNCHANGED roots

\* No memory for the directory: the old one is gone already.
LoadFail ==
    /\ NoMem /\ roots # {}
    /\ dir' = [p \in {} |-> None] /\ call' = <<"load_fail">>
    /\ UNCHANGED roots

Next ==
    \/ \E i \in Ids : Get(i) \/ PutFail(i) \/ Del(i)
    \/ \E i \in Ids, h \in Hash \cup (IF ZeroPut THEN {Zero} ELSE {}) : Put(i, h)
    \/ Clear \/ Store \/ LoadFail
    \/ \E p \in 0..Pages : StoreFail(p)
    \/ \E n \in 1..(Pages * Slots) : Foreach(n)
    \/ \E r \in roots : Load(r)

Spec == Init /\ [][Next]_vars

\* cas_omap_count.
Count == SumFunction([p \in DOMAIN dir |-> dir[p].pop])

-----------------------------------------------------------------------------
(* cas_omap_alloc, in the arithmetic of 64-bit words.                      *)

EFULL     == -1
ENOTFOUND == -2
Loops     == -3

Word == Pages * Slots
NextPage(id) == ((PageOf(id) + 1) * Slots) % Word
AllocEnd(start, limit) == IF limit > 0 THEN (start + limit) % Word ELSE Word - 1

FreeFrom(id) ==
    {s \in SlotOf(id)..(Slots - 1) : Contents(dir[PageOf(id)])[s] = Zero}

\* Mutant of AllocAt: a partly full page is searched from its first slot.
AllocAtPageStart(id, end, next) ==
    LET p == PageOf(id)
        free == {s \in Slot : Contents(dir[p])[s] = Zero} IN
    IF id >= end THEN EFULL
    ELSE IF p \notin DOMAIN dir THEN id
    ELSE IF dir[p].pop = Slots THEN next
    ELSE IF ~ Loads(p) THEN ENOTFOUND
    ELSE IF free = {} THEN (IF (p + 1) * Slots > end THEN EFULL ELSE next)
    ELSE IF p * Slots + Min(free) >= end THEN EFULL ELSE p * Slots + Min(free)

\* One turn of the loop: a result, or what follows on the next page.
AllocAt(id, end, next) ==
    LET p == PageOf(id)
        free == FreeFrom(id) IN
    IF id >= end THEN EFULL
    ELSE IF p \notin DOMAIN dir THEN id
    ELSE IF dir[p].pop = Slots THEN next
    ELSE IF ~ Loads(p) THEN ENOTFOUND
    ELSE IF free = {} THEN (IF (p + 1) * Slots > end THEN EFULL ELSE next)
    ELSE IF p * Slots + Min(free) >= end THEN EFULL ELSE p * Slots + Min(free)

\* The loop; a search that has seen every page once goes on for ever.
Alloc(start, limit) ==
    LET end == AllocEnd(start, limit)
        turn[k \in 0..Pages] ==
            [id \in Ids |->
                IF k = 0 THEN Loops
                ELSE AllocAt(id, end, turn[k - 1][NextPage(id)])]
    IN turn[Pages][start]

-----------------------------------------------------------------------------
(* Properties.                                                             *)

\* Directory entries and stored roots are well typed; the counts, unsigned
\* in the code, never fall below 0, and no root names a page that was not
\* stored.
TypeOK ==
    /\ dir \in [DOMAIN dir -> Entry] /\ DOMAIN dir \subseteq 0..(Pages - 1)
    /\ \A r \in roots : r \in [DOMAIN r -> RootEntry]
    /\ call[1] \in {"new", "get", "put", "del", "foreach", "clear", "store", "load", "fail", "load_fail"}

MappedIn(d) == {i \in Ids : Lookup(d, i) # Zero}

\* cas_omap_count, the sum of the counts kept in the directory, is the
\* number of ids that are mapped.
CountExact == Count = Cardinality(MappedIn(dir))

\* The map is well typed and its counts are exact: a page whose count has dropped to 0, and which the next store leaves
\* out of the root, holds nothing, and one that counts as full is full;
\* the page in memory and its entry agree about it.
CountsAgree ==
    /\ TypeOK /\ CountExact
    /\ \A p \in DOMAIN dir :
        /\ dir[p].pop = Cardinality({s \in Slot : Contents(dir[p])[s] # Zero})
        /\ dir[p].cached # None => dir[p].cpop = dir[p].pop
        /\ dir[p].cached # None /\ ~ dir[p].dirty => dir[p].cached \in {dir[p].hash, EmptyPage}

\* What cas_omap_alloc must return.
FirstFree(start, end) ==
    LET free == {i \in Ids : i >= start /\ i < end /\ Lookup(dir, i) = Zero} IN
    IF free = {} THEN EFULL ELSE Min(free)

\* cas_omap_alloc returns the first unmapped id of the range it was given,
\* and CAS_OMAP_EFULL when there is none, in any reachable map and from any
\* start, provided that the range does not overflow, a search in vain does
\* not get to the last page of the id space, and no failed put has left a
\* page that cannot be loaded.
AllocFindsFree ==
    (\A p \in DOMAIN dir : Loads(p)) =>
        \A start \in Ids, limit \in Ids :
            LET end == IF limit > 0 THEN start + limit ELSE Word - 1
                first == FirstFree(start, end) IN
            (end < Word /\ (first # EFULL \/ end <= (Pages - 1) * Slots)) =>
                Alloc(start, limit) = first

\* The same without those provisos: below start + limit, and below the
\* largest id when limit is 0.
AllocFirstFree ==
    \A start \in Ids, limit \in Ids :
        Alloc(start, limit) =
            FirstFree(start, IF limit > 0 THEN start + limit ELSE Word - 1)

\* cas_omap_alloc never returns an id below the one it was asked to start
\* from.
AllocFromStart ==
    \A start \in Ids, limit \in Ids :
        Alloc(start, limit) >= 0 => Alloc(start, limit) >= start

MapOf(d) == [i \in Ids |-> Lookup(d, i)]
LoadedMap(r) == [i \in Ids |-> IF PageOf(i) \in DOMAIN r THEN r[PageOf(i)].hash[SlotOf(i)] ELSE Zero]

\* A call as a user of the map sees it: a root stands for the map in it.
SeenCall ==
    IF call[1] \in {"store", "load"} THEN <<call[1], LoadedMap(call[2])>> ELSE call

Abs == INSTANCE OmapMap
       WITH map <- MapOf(dir), snaps <- {LoadedMap(r) : r \in roots}, call <- SeenCall

\* Pages, caching, dirty flags and counts together behave as a plain map
\* with snapshots: a get, at any time, returns what was last put, and the
\* root a store returns loads the map there was when it was stored, also
\* after calls that failed for want of memory.
ImplementsMap == Abs!Spec

=============================================================================
