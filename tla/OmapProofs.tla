----------------------------- MODULE OmapProofs -----------------------------
(***************************************************************************)
(* Proofs about Omap, for every page size, number of pages and set of      *)
(* hashes.                                                                 *)
(***************************************************************************)
EXTENDS Omap, FiniteInduction, FiniteSetTheorems, TLAPS

-----------------------------------------------------------------------------
(* Ids: an id is a page and a slot.                                        *)

LEMMA Scaled ==
    ASSUME NEW n \in Int, n > 0, NEW p \in Int, NEW q \in Int, p <= q
    PROVE  p * n <= q * n
OBVIOUS

LEMMA IdFacts ==
    ASSUME NEW i \in Ids
    PROVE  /\ PageOf(i) \in 0..(Pages - 1) /\ SlotOf(i) \in Slot
           /\ i = PageOf(i) * Slots + SlotOf(i)
<1>1. i \in Int /\ i >= 0 /\ i < Pages * Slots /\ Slots \in Int /\ Slots > 0 /\ Pages \in Int
  BY OmapAssumption DEF Ids
<1>2. /\ i = PageOf(i) * Slots + SlotOf(i)
      /\ PageOf(i) \in Int /\ SlotOf(i) \in 0..(Slots - 1)
  BY <1>1, DivMod DEF PageOf, SlotOf
<1> HIDE DEF PageOf, SlotOf
<1>3. ASSUME PageOf(i) >= Pages PROVE FALSE
  <2>1. Pages * Slots <= PageOf(i) * Slots
    BY <1>1, <1>2, <1>3, Scaled
  <2>2. PageOf(i) * Slots \in Int /\ Pages * Slots \in Int
    BY <1>1, <1>2
  <2>3. QED
    BY <1>1, <1>2, <2>1, <2>2
<1>4. ASSUME PageOf(i) <= -1 PROVE FALSE
  <2>1. PageOf(i) * Slots <= (-1) * Slots
    BY <1>1, <1>2, <1>4, Scaled
  <2>2. PageOf(i) * Slots \in Int /\ (-1) * Slots = - Slots
    BY <1>1, <1>2
  <2>3. QED
    BY <1>1, <1>2, <2>1, <2>2
<1>5. QED
  BY <1>1, <1>2, <1>3, <1>4 DEF Slot

LEMMA IdOf ==
    ASSUME NEW p \in 0..(Pages - 1), NEW s \in Slot
    PROVE  /\ p * Slots + s \in Ids
           /\ PageOf(p * Slots + s) = p /\ SlotOf(p * Slots + s) = s
<1>1. Slots \in Int /\ Slots > 0 /\ Pages \in Int /\ p \in Int /\ s \in 0..(Slots - 1)
  BY OmapAssumption DEF Slot
<1>2. PageOf(p * Slots + s) = p /\ SlotOf(p * Slots + s) = s
  BY <1>1, DivModUnique DEF PageOf, SlotOf
<1>3. p * Slots <= (Pages - 1) * Slots /\ 0 * Slots <= p * Slots
  <2>1. p <= Pages - 1 /\ 0 <= p
    BY <1>1
  <2>2. QED
    BY <1>1, <2>1, Scaled
<1>4. (Pages - 1) * Slots = Pages * Slots - Slots /\ Pages * Slots \in Int /\ p * Slots \in Int
      /\ 0 * Slots = 0
  BY <1>1
<1>5. p * Slots + s \in Ids
  BY <1>1, <1>3, <1>4 DEF Ids
<1>6. QED
  BY <1>2, <1>5

\* Two ids in the same slot of the same page are one.
LEMMA IdUnique ==
    ASSUME NEW i \in Ids, NEW j \in Ids, PageOf(i) = PageOf(j), SlotOf(i) = SlotOf(j)
    PROVE  i = j
BY IdFacts

-----------------------------------------------------------------------------
(* The inductive invariant.                                                *)

\* The slots of a page that are in use.
Used(pg) == {s \in Slot : pg[s] # Zero}

\* An entry's counts are exact, and a page in memory that is not dirty is
\* the stored one, or was never filled.
EntryOK(e) ==
    /\ e \in Entry
    /\ e.pop = Cardinality(Used(Contents(e)))
    /\ IF e.cached = None THEN e.cpop = 0 ELSE e.cpop = e.pop
    /\ e.cached # None /\ ~ e.dirty => e.cached \in {e.hash, EmptyPage}

DirOK ==
    /\ DOMAIN dir \subseteq 0..(Pages - 1)
    /\ dir = [p \in DOMAIN dir |-> dir[p]]
    /\ \A p \in DOMAIN dir : EntryOK(dir[p])

RootOK(r) ==
    /\ DOMAIN r \subseteq 0..(Pages - 1)
    /\ r \in [DOMAIN r -> RootEntry]
    /\ \A p \in DOMAIN r : r[p].pop = Cardinality(Used(r[p].hash))

OInv == DirOK /\ \A r \in roots : RootOK(r)

-----------------------------------------------------------------------------
(* Pages and entries.                                                      *)

LEMMA PageFacts ==
    /\ EmptyPage \in Page /\ None \notin Page /\ Used(EmptyPage) = {}
    /\ IsFiniteSet(Slot) /\ Cardinality(Slot) = Slots
<1>1. Slots - 1 \in Int /\ 0 \in Int /\ Slots > 0 /\ Slots \in Int
  BY OmapAssumption
<1>2. IsFiniteSet(Slot) /\ Cardinality(Slot) = Slots
  <2>1. IsFiniteSet(0..(Slots - 1)) /\ Cardinality(0..(Slots - 1)) = (IF 0 > Slots - 1 THEN 0 ELSE Slots - 1 - 0 + 1)
    BY <1>1, FS_Interval
  <2>2. QED
    BY <1>1, <2>1 DEF Slot
<1>3. QED
  BY <1>2, OmapAssumption DEF EmptyPage, Page, Used, Slot

\* Filling and emptying a slot changes what is in use by that slot.
LEMMA UsedFacts ==
    ASSUME NEW pg \in Page
    PROVE  /\ IsFiniteSet(Used(pg)) /\ Cardinality(Used(pg)) \in Nat
           /\ Cardinality(Used(pg)) <= Slots
           /\ Cardinality(Used(pg)) = Slots => Used(pg) = Slot
           /\ Cardinality(Used(pg)) = 0 => pg = EmptyPage
<1>1. Used(pg) \in SUBSET Slot
  BY DEF Used
<1>2. /\ IsFiniteSet(Used(pg)) /\ Cardinality(Used(pg)) <= Slots
      /\ Cardinality(Used(pg)) = Slots => Used(pg) = Slot
  BY <1>1, PageFacts, FS_Subset
<1>3. Cardinality(Used(pg)) \in Nat
  BY <1>2, FS_CardinalityType
<1>4. ASSUME Cardinality(Used(pg)) = 0 PROVE pg = EmptyPage
  <2>1. Used(pg) = {}
    BY <1>2, <1>4, FS_EmptySet
  <2>2. \A s \in Slot : pg[s] = Zero
    BY <2>1 DEF Used
  <2>3. QED
    BY <2>2 DEF Page, EmptyPage
<1>5. QED
  BY <1>2, <1>3, <1>4

LEMMA FillSlot ==
    ASSUME NEW pg \in Page, NEW s \in Slot, NEW h \in Hash, NEW new, new = [pg EXCEPT ![s] = h]
    PROVE  /\ new \in Page
           /\ Cardinality(Used(new)) = Cardinality(Used(pg)) + (IF pg[s] = Zero THEN 1 ELSE 0)
<1>1. new \in Page
  BY DEF Page
<1>2. Used(new) = Used(pg) \cup {s}
  <2>1. \A x \in Slot : new[x] = IF x = s THEN h ELSE pg[x]
    BY DEF Page
  <2>2. h # Zero
    BY OmapAssumption
  <2>3. QED
    BY <2>1, <2>2 DEF Used
<1>3. IsFiniteSet(Used(pg)) /\ Cardinality(Used(pg)) \in Nat
  BY UsedFacts
<1>4. s \in Used(pg) <=> pg[s] # Zero
  BY DEF Used
<1>5. Cardinality(Used(pg) \cup {s}) = IF s \in Used(pg) THEN Cardinality(Used(pg)) ELSE Cardinality(Used(pg)) + 1
  BY <1>3, FS_AddElement
<1>6. Cardinality(Used(new)) = Cardinality(Used(pg) \cup {s})
  BY ONLY <1>2, Zenon
<1>7. QED
  BY <1>1, <1>3, <1>4, <1>5, <1>6

LEMMA EmptySlot ==
    ASSUME NEW pg \in Page, NEW s \in Slot, pg[s] # Zero, NEW new, new = [pg EXCEPT ![s] = Zero]
    PROVE  /\ new \in Page
           /\ Cardinality(Used(new)) = Cardinality(Used(pg)) - 1
           /\ Cardinality(Used(pg)) >= 1
<1>1. new \in Page
  BY DEF Page
<1>2. Used(new) = Used(pg) \ {s}
  <2>1. \A x \in Slot : new[x] = IF x = s THEN Zero ELSE pg[x]
    BY DEF Page
  <2>2. QED
    BY <2>1 DEF Used
<1>3. IsFiniteSet(Used(pg)) /\ Cardinality(Used(pg)) \in Nat
  BY UsedFacts
<1>4. s \in Used(pg)
  BY DEF Used
<1>5. Cardinality(Used(pg) \ {s}) = Cardinality(Used(pg)) - 1
  BY <1>3, <1>4, FS_RemoveElement
<1>6. Cardinality(Used(pg)) # 0
  BY <1>3, <1>4, FS_EmptySet
<1>7. Cardinality(Used(new)) = Cardinality(Used(pg) \ {s})
  BY ONLY <1>2, Zenon
<1>8. QED
  BY <1>1, <1>3, <1>5, <1>6, <1>7

LEMMA NewEntryOK == EntryOK(NewEntry) /\ Contents(NewEntry) = EmptyPage
<1>1. Contents(NewEntry) = EmptyPage
  BY DEF NewEntry, Contents
<1>2. Cardinality(Used(EmptyPage)) = 0
  BY PageFacts, FS_EmptySet
<1>3. QED
  BY <1>1, <1>2 DEF EntryOK, NewEntry, Entry

LEMMA ContentsPage ==
    ASSUME NEW e \in Entry
    PROVE  Contents(e) \in Page
BY PageFacts DEF Entry, Contents

LEMMA CachedOK ==
    ASSUME NEW e, EntryOK(e)
    PROVE  /\ EntryOK(Cached(e)) /\ Contents(Cached(e)) = Contents(e)
           /\ e.cached # None \/ e.hash # None => Cached(e).cached = Contents(e)
<1>1. CASE e.cached # None
  BY <1>1 DEF Cached, Contents
<1>2. CASE e.cached = None
  <2>1. Cached(e) = [e EXCEPT !.cached = e.hash, !.cpop = e.pop]
    BY <1>2 DEF Cached
  <2>2. Cached(e) \in Entry /\ Contents(Cached(e)) = Contents(e)
        /\ Cached(e).pop = e.pop /\ Cached(e).cpop = e.pop /\ Cached(e).cached = e.hash
        /\ Cached(e).hash = e.hash
    BY <1>2, <2>1 DEF EntryOK, Entry, Contents
  <2>3. e.hash = None => e.pop = 0
    BY <1>2, PageFacts, FS_EmptySet DEF EntryOK, Contents
  <2>4. QED
    BY <1>2, <2>2, <2>3 DEF EntryOK, Contents
<1>3. QED
  BY <1>1, <1>2

\* What a put works on: the page of p in memory.
LEMMA EnsuredOK ==
    ASSUME DirOK, NEW p
    PROVE  /\ EntryOK(Ensured(p)) /\ Ensured(p).cached \in Page
           /\ Ensured(p).cached = IF p \in DOMAIN dir THEN Contents(dir[p]) ELSE EmptyPage
<1> DEFINE e == Inserted(p)
<1>1. EntryOK(e) /\ Contents(e) = IF p \in DOMAIN dir THEN Contents(dir[p]) ELSE EmptyPage
  BY NewEntryOK DEF Inserted, DirOK
<1>2. e \in Entry /\ Contents(e) \in Page
  BY <1>1, ContentsPage DEF EntryOK
<1> HIDE DEF e
<1>3. CASE e.cached = None /\ e.hash = None
  <2>1. Ensured(p) = [e EXCEPT !.cached = EmptyPage]
    BY <1>3 DEF Ensured, e
  <2>2. Contents(e) = EmptyPage /\ e.pop = 0 /\ e.cpop = 0
    BY <1>1, <1>3, PageFacts, FS_EmptySet DEF EntryOK, Contents
  <2>3. Ensured(p) \in Entry /\ Ensured(p).cached = EmptyPage /\ Ensured(p).pop = 0 /\ Ensured(p).cpop = 0
    BY <1>2, <2>1, <2>2, PageFacts DEF Entry
  <2>4. Contents(Ensured(p)) = EmptyPage /\ EmptyPage # None
    BY <2>3, PageFacts DEF Contents
  <2>5. Cardinality(Used(EmptyPage)) = 0
    BY PageFacts, FS_EmptySet
  <2>6. QED
    BY <1>1, <2>2, <2>3, <2>4, <2>5, PageFacts DEF EntryOK
<1>4. CASE ~ (e.cached = None /\ e.hash = None)
  <2>1. Ensured(p) = Cached(e)
    BY <1>4 DEF Ensured, e
  <2>2. QED
    BY <1>1, <1>2, <1>4, <2>1, CachedOK
<1>5. QED
  BY <1>3, <1>4

\* An entry whose page has slot s set to h, as cas_omap_put leaves it.
Filled(e, s, h) ==
    LET n == IF e.cached[s] = Zero THEN 1 ELSE 0 IN
    [e EXCEPT !.cached[s] = h, !.dirty = TRUE, !.pop = @ + n, !.cpop = @ + n]

LEMMA FilledOK ==
    ASSUME NEW e, EntryOK(e), e.cached \in Page, NEW s \in Slot, NEW h \in Hash
    PROVE  EntryOK(Filled(e, s, h)) /\ Contents(Filled(e, s, h)) = [e.cached EXCEPT ![s] = h]
<1> DEFINE pg  == [e.cached EXCEPT ![s] = h]
           n   == IF e.cached[s] = Zero THEN 1 ELSE 0
           new == Filled(e, s, h)
<1>1. e.cached # None /\ Contents(e) = e.cached
  BY PageFacts DEF Contents
<1>2. e \in Entry /\ e.pop = Cardinality(Used(e.cached)) /\ e.cpop = e.pop /\ e.pop \in Nat
  BY <1>1 DEF EntryOK, Entry
<1>3. pg \in Page /\ Cardinality(Used(pg)) = e.pop + n
  BY <1>2, FillSlot
<1>4. n \in Nat /\ e.pop + n \in Nat
  BY <1>2
<1> HIDE DEF new, n
<1>5. new = [e EXCEPT !.cached[s] = h, !.dirty = TRUE, !.pop = @ + n, !.cpop = @ + n]
  BY DEF Filled, new, n
<1>6. new = [hash |-> e.hash, pop |-> e.pop + n, cached |-> pg, cpop |-> e.cpop + n, dirty |-> TRUE]
  BY <1>2, <1>5 DEF Entry
<1> HIDE DEF pg
<1>7. new \in Entry /\ new.cached = pg /\ new.pop = e.pop + n /\ new.cpop = new.pop /\ new.dirty
  BY ONLY <1>4, <1>2, <1>3, <1>6 DEF Entry
<1>8. pg # None
  BY <1>3, PageFacts
<1>9. Contents(new) = pg
  BY <1>7, <1>8 DEF Contents
<1>10. EntryOK(new)
  BY <1>3, <1>7, <1>8, <1>9 DEF EntryOK
<1>11. QED
  BY <1>9, <1>10 DEF pg, new

LEMMA EmptiedOK ==
    ASSUME NEW e, EntryOK(e), e.cached \in Page, NEW s \in Slot, e.cached[s] # Zero
    PROVE  EntryOK(Emptied(e, s)) /\ Contents(Emptied(e, s)) = [e.cached EXCEPT ![s] = Zero]
<1> DEFINE pg  == [e.cached EXCEPT ![s] = Zero]
           new == Emptied(e, s)
<1>1. e.cached # None /\ Contents(e) = e.cached
  BY PageFacts DEF Contents
<1>2. e \in Entry /\ e.pop = Cardinality(Used(e.cached)) /\ e.cpop = e.pop /\ e.pop \in Nat
  BY <1>1 DEF EntryOK, Entry
<1>3. pg \in Page /\ Cardinality(Used(pg)) = e.pop - 1 /\ e.pop >= 1
  BY <1>2, EmptySlot
<1> HIDE DEF new
<1>4. new = [e EXCEPT !.cached[s] = Zero, !.dirty = TRUE, !.pop = @ - 1, !.cpop = @ - 1]
  BY DEF Emptied, new
<1>5. new = [hash |-> e.hash, pop |-> e.pop - 1, cached |-> pg, cpop |-> e.cpop - 1, dirty |-> TRUE]
  BY <1>4, <1>2 DEF Entry
<1> HIDE DEF pg
<1>6. new \in Entry /\ new.cached = pg /\ new.pop = e.pop - 1 /\ new.cpop = new.pop /\ new.dirty
  BY <1>2, <1>3, <1>5 DEF Entry
<1>7. pg # None
  BY <1>3, PageFacts
<1>8. Contents(new) = pg
  BY <1>6, <1>7 DEF Contents
<1>9. EntryOK(new)
  BY <1>3, <1>6, <1>7, <1>8 DEF EntryOK
<1>10. QED
  BY <1>8, <1>9 DEF pg, new

\* A flush changes neither the page nor its count, and afterwards a
\* populated page is in the store.
LEMMA FlushedOK ==
    ASSUME NEW e, EntryOK(e)
    PROVE  /\ EntryOK(Flushed(e)) /\ Contents(Flushed(e)) = Contents(e)
           /\ Flushed(e).pop = e.pop
           /\ Flushed(e).pop > 0 => /\ Flushed(e).hash = Contents(e)
                                    /\ Flushed(e).hash \in Page
<1>1. e \in Entry /\ Contents(e) \in Page
  BY ContentsPage DEF EntryOK
<1>2. Cardinality(Used(EmptyPage)) = 0
  BY PageFacts, FS_EmptySet
<1>3. CASE e.cached # None /\ e.dirty
  <2>1. Flushed(e) = [hash |-> e.cached, pop |-> e.cpop, cached |-> e.cached, cpop |-> e.cpop, dirty |-> FALSE]
    BY <1>1, <1>3 DEF Flushed, Entry
  <2>2. e.cpop = e.pop /\ Contents(e) = e.cached /\ e.cached \in Page
    BY <1>1, <1>3 DEF EntryOK, Contents
  <2>3. Flushed(e) \in Entry /\ Contents(Flushed(e)) = e.cached
    BY <1>1, <1>3, <2>1, <2>2 DEF Contents, Entry
  <2>4. QED
    BY <1>1, <1>3, <2>1, <2>2, <2>3 DEF EntryOK
<1>4. CASE ~ (e.cached # None /\ e.dirty)
  <2>1. Flushed(e) = e
    BY <1>4 DEF Flushed
  <2>2. ASSUME e.pop > 0 PROVE e.hash = Contents(e)
    <3>1. Contents(e) # EmptyPage
      <4>1. ASSUME Contents(e) = EmptyPage PROVE FALSE
        <5>1. e.pop = Cardinality(Used(EmptyPage))
          BY <4>1, Zenon DEF EntryOK
        <5>2. QED
          BY <1>2, <2>2, <5>1
      <4>2. QED
        BY <4>1
    <3>2. QED
      BY <1>1, <1>4, <3>1 DEF EntryOK, Contents, Entry
  <2>3. QED
    BY <1>1, <2>1, <2>2
<1>5. QED
  BY <1>3, <1>4

-----------------------------------------------------------------------------
(* The directory.                                                          *)

LEMMA LookupType ==
    ASSUME DirOK, NEW i \in Ids
    PROVE  Lookup(dir, i) \in Hash \cup {Zero}
<1>1. PageOf(i) \in DOMAIN dir => Contents(dir[PageOf(i)]) \in Page
  BY ContentsPage DEF DirOK, EntryOK
<1>2. QED
  BY <1>1, IdFacts DEF Lookup, Page

\* A call that sets one entry changes what is found on one page.
LEMMA SetKeeps ==
    ASSUME DirOK, NEW p \in 0..(Pages - 1), NEW e, EntryOK(e), Set(p, e)
    PROVE  /\ DirOK'
           /\ \A j \in Ids : Lookup(dir', j) =
                IF PageOf(j) = p THEN Contents(e)[SlotOf(j)] ELSE Lookup(dir, j)
<1>1. dir' = [q \in DOMAIN dir \cup {p} |-> IF q = p THEN e ELSE dir[q]]
  BY DEF Set
<1>2. DOMAIN dir' = DOMAIN dir \cup {p}
  BY <1>1
<1>3. \A q \in DOMAIN dir' : dir'[q] = IF q = p THEN e ELSE dir[q]
  BY <1>1
<1>4. dir' = [q \in DOMAIN dir' |-> dir'[q]]
  BY <1>1
<1>5. DirOK'
  BY <1>2, <1>3, <1>4 DEF DirOK
<1>6. QED
  BY <1>2, <1>3, <1>5 DEF Lookup

\* So does one that leaves the contents alone, page by page.
LEMMA SameContents ==
    ASSUME DirOK, DOMAIN dir' = DOMAIN dir, dir' = [p \in DOMAIN dir |-> dir'[p]],
           \A p \in DOMAIN dir : EntryOK(dir'[p]) /\ Contents(dir'[p]) = Contents(dir[p])
    PROVE  DirOK' /\ \A j \in Ids : Lookup(dir', j) = Lookup(dir, j)
<1>1. DirOK'
  BY DEF DirOK
<1>2. QED
  BY <1>1 DEF Lookup

-----------------------------------------------------------------------------
(* Each call preserves the invariant and is a call of the plain map.       *)

Snaps == {LoadedMap(r) : r \in roots}

LEMMA OInvInit == Init => OInv
BY DEF Init, OInv, DirOK

LEMMA GetStep ==
    ASSUME OInv, NEW i \in Ids, Get(i)
    PROVE  OInv' /\ Abs!Get(i)
<1> DEFINE p == PageOf(i)
           e == Cached(dir[p])
<1>1. DirOK /\ roots' = roots /\ p \in 0..(Pages - 1)
  BY IdFacts DEF OInv, Get
<1>2. CASE Loads(p) /\ Set(p, e) /\ call' = <<"get", i, e.cached[SlotOf(i)]>>
  <2>1. /\ p \in DOMAIN dir /\ EntryOK(e) /\ Contents(e) = Contents(dir[p])
        /\ e.cached = Contents(dir[p])
    BY <1>1, <1>2, CachedOK DEF Loads, DirOK
  <2> HIDE DEF e
  <2>2. DirOK' /\ \A j \in Ids : Lookup(dir', j) = Lookup(dir, j)
    <3>1. DirOK' /\ \A j \in Ids : Lookup(dir', j) = IF PageOf(j) = p THEN Contents(e)[SlotOf(j)] ELSE Lookup(dir, j)
      BY <1>1, <1>2, <2>1, SetKeeps
    <3>2. \A j \in Ids : PageOf(j) = p => Lookup(dir, j) = Contents(e)[SlotOf(j)]
      BY <2>1 DEF Lookup
    <3>3. QED
      BY <3>1, <3>2
  <2>3. MapOf(dir)' = MapOf(dir) /\ MapOf(dir)[i] = e.cached[SlotOf(i)]
    BY <2>1, <2>2 DEF MapOf, Lookup
  <2>4. SeenCall' = <<"get", i, MapOf(dir)[i]>>
    BY <1>2, <2>3 DEF SeenCall
  <2>5. Abs!Get(i)
    BY <1>1, <2>3, <2>4 DEF Abs!Get
  <2>6. QED
    BY <1>1, <2>2, <2>5 DEF OInv
<1>3. CASE ~ Loads(p) /\ UNCHANGED dir /\ call' = <<"get", i, Zero>>
  <2>1. Lookup(dir, i) = Zero
    BY <1>3, <1>1, IdFacts DEF Lookup, Loads, Contents, EmptyPage
  <2>2. MapOf(dir)' = MapOf(dir) /\ MapOf(dir)[i] = Zero
    BY <1>3, <2>1 DEF MapOf
  <2>3. SeenCall' = <<"get", i, MapOf(dir)[i]>>
    BY <1>3, <2>2 DEF SeenCall
  <2>4. Abs!Get(i)
    BY <1>1, <2>2, <2>3 DEF Abs!Get
  <2>5. QED
    BY <1>1, <1>3, <2>4 DEF OInv, DirOK
<1>4. QED
  BY <1>2, <1>3 DEF Get

\* A page with one slot changed is the map with one id changed.
LEMMA OneSlot ==
    ASSUME OInv, NEW i \in Ids, NEW e, EntryOK(e), Set(PageOf(i), e), NEW pg \in Page, NEW h,
           \A j \in Ids : PageOf(j) = PageOf(i) => Lookup(dir, j) = pg[SlotOf(j)],
           Contents(e) = [pg EXCEPT ![SlotOf(i)] = h]
    PROVE  DirOK' /\ MapOf(dir)' = [MapOf(dir) EXCEPT ![i] = h]
<1>1. DirOK' /\ \A j \in Ids : Lookup(dir', j) =
                  IF PageOf(j) = PageOf(i) THEN Contents(e)[SlotOf(j)] ELSE Lookup(dir, j)
  BY IdFacts, SetKeeps DEF OInv
<1>2. ASSUME NEW j \in Ids
      PROVE  Lookup(dir', j) = IF j = i THEN h ELSE Lookup(dir, j)
  <2>1. SlotOf(j) \in Slot /\ SlotOf(i) \in Slot
    BY IdFacts
  <2>2. Contents(e)[SlotOf(j)] = IF SlotOf(j) = SlotOf(i) THEN h ELSE pg[SlotOf(j)]
    BY <2>1 DEF Page
  <2>3. PageOf(j) = PageOf(i) /\ SlotOf(j) = SlotOf(i) => j = i
    BY IdUnique
  <2>4. QED
    BY <1>1, <2>2, <2>3
<1>3. QED
  BY <1>1, <1>2 DEF MapOf

LEMMA PutStep ==
    ASSUME OInv, NEW i \in Ids, NEW h \in Hash, Put(i, h)
    PROVE  OInv' /\ Abs!Put(i, h)
<1> DEFINE p   == PageOf(i)
           e   == Ensured(p)
           new == Filled(e, SlotOf(i), h)
<1>1. DirOK /\ roots' = roots /\ p \in 0..(Pages - 1) /\ SlotOf(i) \in Slot
  BY IdFacts DEF OInv, Put
<1>2. Set(p, new) /\ call' = <<"put", i, h>>
  BY DEF Put, Filled
<1>3. /\ EntryOK(e) /\ e.cached \in Page
      /\ e.cached = IF p \in DOMAIN dir THEN Contents(dir[p]) ELSE EmptyPage
  BY <1>1, EnsuredOK
<1> HIDE DEF e
<1>4. EntryOK(new) /\ Contents(new) = [e.cached EXCEPT ![SlotOf(i)] = h]
  BY <1>1, <1>3, FilledOK
<1>5. \A j \in Ids : PageOf(j) = p => Lookup(dir, j) = e.cached[SlotOf(j)]
  BY <1>3, IdFacts DEF Lookup, EmptyPage
<1>6. DirOK' /\ MapOf(dir)' = [MapOf(dir) EXCEPT ![i] = h]
  BY <1>2, <1>3, <1>4, <1>5, OneSlot
<1>7. SeenCall' = <<"put", i, h>>
  BY <1>2 DEF SeenCall
<1>8. Abs!Put(i, h)
  BY <1>1, <1>6, <1>7 DEF Abs!Put
<1>9. QED
  BY <1>1, <1>6, <1>8 DEF OInv

LEMMA DelStep ==
    ASSUME OInv, NEW i \in Ids, Del(i)
    PROVE  OInv' /\ Abs!Del(i)
<1> DEFINE p == PageOf(i)
           e == Cached(dir[p])
           s == SlotOf(i)
<1>1. DirOK /\ roots' = roots /\ p \in 0..(Pages - 1) /\ s \in Slot
  BY IdFacts DEF OInv, Del
<1>2. CASE Loads(p) /\ Set(p, DelAt(e, s)) /\ call' = <<"del", i, e.cached[s] # Zero>>
  <2>1. /\ p \in DOMAIN dir /\ EntryOK(e) /\ Contents(e) = Contents(dir[p])
        /\ e.cached = Contents(dir[p]) /\ e.cached \in Page
    BY <1>1, <1>2, CachedOK, ContentsPage DEF Loads, DirOK, EntryOK
  <2> HIDE DEF e
  <2>2. EntryOK(DelAt(e, s)) /\ Contents(DelAt(e, s)) = [e.cached EXCEPT ![s] = Zero]
    <3>1. CASE e.cached[s] = Zero
      BY <1>1, <2>1, <3>1 DEF DelAt, Page
    <3>2. CASE e.cached[s] # Zero
      BY <1>1, <2>1, <3>2, EmptiedOK DEF DelAt
    <3>3. QED
      BY <3>1, <3>2
  <2>3. \A j \in Ids : PageOf(j) = p => Lookup(dir, j) = e.cached[SlotOf(j)]
    BY <2>1 DEF Lookup
  <2>4. DirOK' /\ MapOf(dir)' = [MapOf(dir) EXCEPT ![i] = Zero]
    BY <1>2, <2>1, <2>2, <2>3, OneSlot
  <2>5. MapOf(dir)[i] = e.cached[s]
    BY <2>3 DEF MapOf
  <2>6. SeenCall' = <<"del", i, MapOf(dir)[i] # Zero>>
    BY <1>2, <2>5 DEF SeenCall
  <2>7. Abs!Del(i)
    BY <1>1, <2>4, <2>6 DEF Abs!Del
  <2>8. QED
    BY <1>1, <2>4, <2>7 DEF OInv
<1>3. CASE ~ Loads(p) /\ UNCHANGED dir /\ call' = <<"del", i, FALSE>>
  <2>1. Lookup(dir, i) = Zero
    BY <1>3, <1>1, IdFacts DEF Lookup, Loads, Contents, EmptyPage
  <2>2. MapOf(dir)[i] = Zero /\ MapOf(dir)' = [MapOf(dir) EXCEPT ![i] = Zero]
    BY <1>3, <2>1 DEF MapOf
  <2>3. SeenCall' = <<"del", i, MapOf(dir)[i] # Zero>>
    BY <1>3, <2>2 DEF SeenCall
  <2>4. Abs!Del(i)
    BY <1>1, <2>2, <2>3 DEF Abs!Del
  <2>5. QED
    BY <1>1, <1>3, <2>4 DEF OInv, DirOK
<1>4. QED
  BY <1>2, <1>3 DEF Del

\* Calls that leave the map as it is.
LEMMA PutFailStep ==
    ASSUME OInv, NEW i \in Ids, PutFail(i)
    PROVE  OInv' /\ Abs!Fail
<1> DEFINE p == PageOf(i)
           e == Inserted(p)
<1>1. DirOK /\ roots' = roots /\ p \in 0..(Pages - 1) /\ Set(p, e) /\ call' = <<"fail">>
  BY IdFacts DEF OInv, PutFail
<1>2. EntryOK(e) /\ Contents(e) = IF p \in DOMAIN dir THEN Contents(dir[p]) ELSE EmptyPage
  BY <1>1, NewEntryOK DEF Inserted, DirOK
<1> HIDE DEF e
<1>3. DirOK' /\ \A j \in Ids : Lookup(dir', j) = IF PageOf(j) = p THEN Contents(e)[SlotOf(j)] ELSE Lookup(dir, j)
  BY <1>1, <1>2, SetKeeps
<1>4. \A j \in Ids : PageOf(j) = p => Lookup(dir, j) = Contents(e)[SlotOf(j)]
  BY <1>2, IdFacts DEF Lookup, EmptyPage
<1>5. MapOf(dir)' = MapOf(dir)
  BY <1>3, <1>4 DEF MapOf
<1>6. SeenCall' = <<"fail">>
  BY <1>1 DEF SeenCall
<1>7. Abs!Fail
  BY <1>1, <1>5, <1>6 DEF Abs!Fail
<1>8. QED
  BY <1>1, <1>3, <1>7 DEF OInv

LEMMA StoreFailStep ==
    ASSUME OInv, NEW p \in 0..Pages, StoreFail(p)
    PROVE  OInv' /\ Abs!Fail
<1>1. DirOK /\ roots' = roots /\ call' = <<"fail">>
      /\ dir' = [q \in DOMAIN dir |-> IF q < p THEN Flushed(dir[q]) ELSE dir[q]]
  BY DEF OInv, StoreFail
<1>2. DOMAIN dir' = DOMAIN dir /\ dir' = [q \in DOMAIN dir |-> dir'[q]]
      /\ \A q \in DOMAIN dir : dir'[q] = IF q < p THEN Flushed(dir[q]) ELSE dir[q]
  BY <1>1
<1>3. \A q \in DOMAIN dir : EntryOK(dir'[q]) /\ Contents(dir'[q]) = Contents(dir[q])
  <2> TAKE q \in DOMAIN dir
  <2>1. EntryOK(dir[q])
    BY <1>1 DEF DirOK
  <2>2. EntryOK(Flushed(dir[q])) /\ Contents(Flushed(dir[q])) = Contents(dir[q])
    BY <2>1, FlushedOK
  <2>3. QED
    BY <1>2, <2>1, <2>2
<1>4. DirOK' /\ \A j \in Ids : Lookup(dir', j) = Lookup(dir, j)
  BY <1>1, <1>2, <1>3, SameContents
<1>5. MapOf(dir)' = MapOf(dir)
  BY <1>4 DEF MapOf
<1>6. SeenCall' = <<"fail">>
  BY <1>1 DEF SeenCall
<1>7. Abs!Fail
  BY <1>1, <1>5, <1>6 DEF Abs!Fail
<1>8. QED
  BY <1>1, <1>4, <1>7 DEF OInv

\* An id that is mapped is on a page that does not count as empty.
LEMMA MappedCounts ==
    ASSUME DirOK, NEW i \in Ids, Lookup(dir, i) # Zero
    PROVE  PageOf(i) \in DOMAIN dir /\ dir[PageOf(i)].pop > 0
<1> DEFINE e  == dir[PageOf(i)]
           pg == Contents(e)
<1>1. PageOf(i) \in DOMAIN dir /\ pg[SlotOf(i)] # Zero
  BY DEF Lookup
<1>2. EntryOK(e) /\ pg \in Page
  BY <1>1, ContentsPage DEF DirOK, EntryOK
<1>3. SlotOf(i) \in Used(pg)
  BY <1>1, IdFacts DEF Used
<1>4. IsFiniteSet(Used(pg)) /\ Cardinality(Used(pg)) \in Nat
  BY <1>2, UsedFacts
<1>5. Cardinality(Used(pg)) # 0
  BY <1>3, <1>4, FS_EmptySet
<1>6. QED
  BY <1>1, <1>2, <1>4, <1>5 DEF EntryOK

LEMMA IdCount == IsFiniteSet(Ids) /\ Cardinality(Ids) = Pages * Slots
<1>1. Pages * Slots \in Nat /\ Pages * Slots > 0
  BY OmapAssumption
<1>2. 0 \in Int /\ Pages * Slots - 1 \in Int
  BY <1>1
<1>3. IsFiniteSet(0..(Pages * Slots - 1)) /\ Cardinality(0..(Pages * Slots - 1)) =
         (IF 0 > Pages * Slots - 1 THEN 0 ELSE Pages * Slots - 1 - 0 + 1)
  BY <1>2, FS_Interval
<1>4. QED
  BY <1>1, <1>3 DEF Ids

LEMMA ForeachStep ==
    ASSUME OInv, NEW n \in 1..(Pages * Slots), Foreach(n)
    PROVE  OInv' /\ Abs!Foreach(n) /\ n \in 1..Cardinality(Ids)
<1> DEFINE listed == {i \in Ids : /\ PageOf(i) \in DOMAIN dir /\ dir[PageOf(i)].pop > 0
                                  /\ Lookup(dir, i) # Zero}
           seen   == FirstIds(listed, n)
           touched == {PageOf(i) : i \in seen}
<1>1. DirOK /\ roots' = roots /\ call' = <<"foreach", n, seen>>
      /\ dir' = [p \in DOMAIN dir |-> IF p \in touched THEN Cached(dir[p]) ELSE dir[p]]
  BY DEF OInv, Foreach
<1>2. listed = Abs!Mapped
  <2>1. listed = {i \in Ids : Lookup(dir, i) # Zero}
    BY <1>1, MappedCounts
  <2>2. Abs!Mapped = {i \in Ids : Lookup(dir, i) # Zero}
    BY DEF Abs!Mapped, MapOf
  <2>3. QED
    BY <2>1, <2>2
<1>3. seen = {i \in Abs!Mapped : Cardinality({j \in Abs!Mapped : j < i}) < n}
  BY ONLY <1>2, Zenon DEF FirstIds
<1> HIDE DEF listed, seen, touched
<1>4. DOMAIN dir' = DOMAIN dir /\ dir' = [p \in DOMAIN dir |-> dir'[p]]
      /\ \A p \in DOMAIN dir : dir'[p] = IF p \in touched THEN Cached(dir[p]) ELSE dir[p]
  BY <1>1
<1>5. \A p \in DOMAIN dir : EntryOK(dir'[p]) /\ Contents(dir'[p]) = Contents(dir[p])
  <2> TAKE p \in DOMAIN dir
  <2>1. EntryOK(dir[p])
    BY <1>1 DEF DirOK
  <2>2. EntryOK(Cached(dir[p])) /\ Contents(Cached(dir[p])) = Contents(dir[p])
    BY <2>1, CachedOK
  <2>3. QED
    BY <1>4, <2>1, <2>2
<1>6. DirOK' /\ \A j \in Ids : Lookup(dir', j) = Lookup(dir, j)
  BY <1>1, <1>4, <1>5, SameContents
<1>7. MapOf(dir)' = MapOf(dir)
  BY <1>6 DEF MapOf
<1>8. SeenCall' = <<"foreach", n, seen>>
  BY <1>1 DEF SeenCall
<1>9. Abs!Foreach(n)
  <2>1. SeenCall' = <<"foreach", n, {i \in Abs!Mapped : Cardinality({j \in Abs!Mapped : j < i}) < n}>>
    BY ONLY <1>3, <1>8, Zenon
  <2>2. UNCHANGED <<MapOf(dir), Snaps>>
    BY <1>1, <1>7 DEF Snaps
  <2>3. QED
    BY <2>1, <2>2, Zenon DEF Abs!Foreach, Snaps, Abs!Cardinality, Cardinality
<1>10. QED
  BY <1>1, <1>6, <1>9, IdCount DEF OInv

\* Clearing, and a load that fails.
LEMMA ClearStep ==
    ASSUME OInv
    PROVE  /\ Clear => OInv' /\ Abs!Clear
           /\ LoadFail => OInv' /\ Abs!LoadFail
<1>1. SUFFICES ASSUME dir' = [p \in {} |-> None], roots' = roots
               PROVE  OInv' /\ MapOf(dir)' = Abs!NoneMapped /\ UNCHANGED Snaps
  <2>1. call' \in {<<"clear">>, <<"load_fail">>} => SeenCall' = call'
    BY DEF SeenCall
  <2>2. QED
    BY <1>1, <2>1 DEF Clear, LoadFail, Abs!Clear, Abs!LoadFail, Snaps
<1>2. DirOK'
  BY <1>1 DEF DirOK
<1>3. MapOf(dir)' = Abs!NoneMapped
  BY <1>1 DEF MapOf, Lookup, Abs!NoneMapped
<1>4. QED
  BY <1>1, <1>2, <1>3 DEF OInv, Snaps

\* What a store writes loads as the map there was.
LEMMA StoreStep ==
    ASSUME OInv, Store
    PROVE  OInv' /\ Abs!Store
<1> DEFINE d    == [p \in DOMAIN dir |-> Flushed(dir[p])]
           live == {p \in DOMAIN d : d[p].pop > 0}
           r    == [p \in live |-> [hash |-> d[p].hash, pop |-> d[p].pop]]
<1>1. DirOK /\ dir' = d /\ roots' = roots \cup {r} /\ call' = <<"store", r>>
  BY DEF OInv, Store
<1>2. DOMAIN d = DOMAIN dir /\ \A p \in DOMAIN dir : d[p] = Flushed(dir[p])
  OBVIOUS
<1>3. DOMAIN dir' = DOMAIN dir /\ dir' = [p \in DOMAIN dir |-> dir'[p]]
  BY <1>1
<1>4. ASSUME NEW p \in DOMAIN dir
      PROVE  /\ EntryOK(dir[p]) /\ EntryOK(d[p]) /\ Contents(d[p]) = Contents(dir[p])
             /\ d[p].pop = dir[p].pop
             /\ d[p].pop > 0 => d[p].hash = Contents(dir[p]) /\ d[p].hash \in Page
  <2>1. EntryOK(dir[p])
    BY <1>1 DEF DirOK
  <2>2. QED
    BY <1>2, <2>1, FlushedOK
<1>5. live \subseteq DOMAIN dir /\ \A p \in DOMAIN dir : p \in live <=> d[p].pop > 0
  BY <1>2
<1>6. DOMAIN r = live /\ \A p \in live : r[p] = [hash |-> d[p].hash, pop |-> d[p].pop]
  OBVIOUS
<1>7. r = [p \in live |-> r[p]]
  OBVIOUS
<1> HIDE DEF d, live, r
<1>8. DirOK' /\ \A j \in Ids : Lookup(dir', j) = Lookup(dir, j)
  BY <1>1, <1>3, <1>4, SameContents
<1>9. RootOK(r)
  <2>1. ASSUME NEW p \in live
        PROVE  r[p] \in RootEntry /\ r[p].pop = Cardinality(Used(r[p].hash))
    <3>1. p \in DOMAIN dir /\ d[p].pop > 0 /\ d[p].hash \in Page /\ d[p].hash = Contents(d[p])
      BY <1>4, <1>5, <2>1
    <3>2. d[p].pop = Cardinality(Used(Contents(d[p]))) /\ d[p].pop \in Nat
      BY <3>1, <1>4 DEF EntryOK, Entry
    <3>3. d[p].pop = Cardinality(Used(d[p].hash))
      BY ONLY <3>1, <3>2, Zenon
    <3>4. r[p].hash = d[p].hash /\ r[p].pop = d[p].pop /\ r[p] \in RootEntry
      BY <1>6, <2>1, <3>1, <3>2 DEF RootEntry
    <3>5. QED
      BY <3>3, <3>4
  <2>2. DOMAIN r \subseteq 0..(Pages - 1)
    BY <1>1, <1>5, <1>6 DEF DirOK
  <2>3. r \in [DOMAIN r -> RootEntry]
    BY <1>6, <1>7, <2>1
  <2>4. QED
    BY <1>6, <2>1, <2>2, <2>3 DEF RootOK
<1>10. LoadedMap(r) = MapOf(dir)
  <2>1. ASSUME NEW i \in Ids
        PROVE  (IF PageOf(i) \in DOMAIN r THEN r[PageOf(i)].hash[SlotOf(i)] ELSE Zero) = Lookup(dir, i)
    <3>1. CASE PageOf(i) \in live
      BY <1>4, <1>5, <1>6, <3>1 DEF Lookup
    <3>2. CASE PageOf(i) \notin live
      BY <1>1, <1>4, <1>5, <1>6, <3>2, MappedCounts
    <3>3. QED
      BY <3>1, <3>2
  <2>2. QED
    BY <2>1 DEF LoadedMap, MapOf
<1>11. MapOf(dir)' = MapOf(dir)
  BY <1>8 DEF MapOf
<1>12. SeenCall' = <<"store", MapOf(dir)>>
  <2>1. SeenCall' = <<"store", LoadedMap(r)>>
    BY <1>1 DEF SeenCall
  <2>2. QED
    BY ONLY <1>10, <2>1, Zenon
<1>13. Snaps' = Snaps \cup {MapOf(dir)}
  <2>1. Snaps' = Snaps \cup {LoadedMap(r)}
    BY <1>1 DEF Snaps
  <2>2. QED
    BY ONLY <1>10, <2>1, Zenon
<1>14. Abs!Store
  BY <1>11, <1>12, <1>13, Zenon DEF Abs!Store, Snaps
<1>15. QED
  BY <1>1, <1>8, <1>9, <1>14 DEF OInv

LEMMA LoadStep ==
    ASSUME OInv, NEW r \in roots, Load(r)
    PROVE  OInv' /\ Abs!Load(LoadedMap(r)) /\ LoadedMap(r) \in Snaps
<1>1. RootOK(r) /\ roots' = roots /\ call' = <<"load", r>>
      /\ dir' = [p \in DOMAIN r |-> [NewEntry EXCEPT !.hash = r[p].hash, !.pop = r[p].pop]]
  BY DEF OInv, Load
<1>2. DOMAIN dir' = DOMAIN r /\ dir' = [p \in DOMAIN dir' |-> dir'[p]]
  BY <1>1
<1>3. ASSUME NEW p \in DOMAIN r
      PROVE  EntryOK(dir'[p]) /\ Contents(dir'[p]) = r[p].hash
  <2>1. dir'[p] = [hash |-> r[p].hash, pop |-> r[p].pop, cached |-> None, cpop |-> 0, dirty |-> FALSE]
    BY <1>1, <1>3 DEF NewEntry
  <2>2. r[p].hash \in Page /\ r[p].pop \in Nat /\ r[p].pop = Cardinality(Used(r[p].hash))
    BY <1>1, <1>3 DEF RootOK, RootEntry
  <2>3. Contents(dir'[p]) = r[p].hash /\ dir'[p] \in Entry
    BY <2>1, <2>2, PageFacts DEF Contents, Entry
  <2>4. dir'[p].pop = Cardinality(Used(Contents(dir'[p])))
    BY <2>1, <2>2, <2>3
  <2>5. QED
    BY <2>1, <2>3, <2>4 DEF EntryOK
<1>4. DirOK'
  BY <1>1, <1>2, <1>3 DEF DirOK, RootOK
<1>5. MapOf(dir)' = LoadedMap(r)
  BY <1>2, <1>3 DEF MapOf, LoadedMap, Lookup
<1>6. SeenCall' = <<"load", LoadedMap(r)>>
  BY <1>1 DEF SeenCall
<1>7. UNCHANGED Snaps /\ LoadedMap(r) \in Snaps
  BY <1>1 DEF Snaps
<1>8. Abs!Load(LoadedMap(r))
  BY <1>5, <1>6, <1>7 DEF Abs!Load, Snaps
<1>9. QED
  BY <1>1, <1>4, <1>7, <1>8 DEF OInv

\* The cardinality of the library is one operator, in whichever module.
LEMMA SameCardinality == Abs!Cardinality(Ids) = Cardinality(Ids)
BY Zenon DEF Abs!Cardinality, Cardinality

LEMMA OStep ==
    ASSUME OInv, ~ ZeroPut, [Next]_vars
    PROVE  OInv' /\ [Abs!Next]_<<MapOf(dir), Snaps, SeenCall>>
<1>1. CASE \E i \in Ids : Get(i) \/ PutFail(i) \/ Del(i)
  BY <1>1, GetStep, PutFailStep, DelStep DEF Abs!Next
<1>2. CASE \E i \in Ids, h \in Hash : Put(i, h)
  BY <1>2, PutStep DEF Abs!Next
<1>3. CASE Clear \/ LoadFail
  BY <1>3, ClearStep DEF Abs!Next
<1>4. CASE Store
  BY <1>4, StoreStep DEF Abs!Next
<1>5. CASE \E p \in 0..Pages : StoreFail(p)
  BY <1>5, StoreFailStep DEF Abs!Next
<1>6. CASE \E n \in 1..(Pages * Slots) : Foreach(n)
  <2>1. PICK n \in 1..(Pages * Slots) : Foreach(n)
    BY <1>6
  <2>2. OInv' /\ Abs!Foreach(n) /\ n \in 1..Abs!Cardinality(Ids)
    BY <2>1, ForeachStep, SameCardinality
  <2>3. QED
    BY <2>2 DEF Abs!Next
<1>7. CASE \E r \in roots : Load(r)
  BY <1>7, LoadStep DEF Abs!Next, Snaps
<1>8. CASE UNCHANGED vars
  BY <1>8 DEF vars, OInv, DirOK, MapOf, Snaps, SeenCall
<1>9. QED
  BY <1>1, <1>2, <1>3, <1>4, <1>5, <1>6, <1>7, <1>8 DEF Next

LEMMA OInvAlways ==
    ASSUME ~ ZeroPut
    PROVE  Spec => []OInv
<1>1. OInv /\ [Next]_vars => OInv'
  BY OStep
<1>2. QED
  BY <1>1, OInvInit, PTL DEF Spec

-----------------------------------------------------------------------------
(* The counts kept in the directory add up.                                *)

\* The ids that are mapped on the pages of a set.
MappedOn(T) == {i \in MappedIn(dir) : PageOf(i) \in T}

LEMMA MappedFinite ==
    ASSUME NEW T
    PROVE  IsFiniteSet(MappedOn(T)) /\ Cardinality(MappedOn(T)) \in Nat
<1>1. MappedOn(T) \in SUBSET Ids
  BY DEF MappedOn, MappedIn
<1>2. IsFiniteSet(MappedOn(T))
  BY <1>1, IdCount, FS_Subset
<1>3. QED
  BY <1>2, FS_CardinalityType

\* The ids mapped on one page are the slots in use.
LEMMA PageCount ==
    ASSUME DirOK, NEW p \in DOMAIN dir
    PROVE  Cardinality(MappedOn({p})) = dir[p].pop
<1> DEFINE pg == Contents(dir[p])
           A  == MappedOn({p})
           f  == [i \in A |-> SlotOf(i)]
<1>1. p \in 0..(Pages - 1) /\ dir[p].pop = Cardinality(Used(pg))
  BY DEF DirOK, EntryOK
<1>2. \A i \in Ids : i \in A <=> PageOf(i) = p /\ pg[SlotOf(i)] # Zero
  BY DEF MappedOn, MappedIn, Lookup
<1>3. A \subseteq Ids
  BY DEF MappedOn, MappedIn
<1> HIDE DEF A, pg
<1>4. f \in [A -> Used(pg)]
  BY <1>2, <1>3, IdFacts DEF Used
<1>5. \A i, j \in A : f[i] = f[j] => i = j
  BY <1>2, <1>3, IdUnique
<1>6. ASSUME NEW s \in Used(pg) PROVE \E i \in A : f[i] = s
  <2>1. s \in Slot /\ pg[s] # Zero
    BY DEF Used
  <2>2. p * Slots + s \in Ids /\ PageOf(p * Slots + s) = p /\ SlotOf(p * Slots + s) = s
    BY <1>1, <2>1, IdOf
  <2>3. p * Slots + s \in A
    BY <1>2, <2>1, <2>2
  <2>4. QED
    BY <2>2, <2>3
<1> HIDE DEF f
<1>7. ExistsBijection(A, Used(pg))
  BY <1>4, <1>5, <1>6 DEF ExistsBijection, Bijection, Injection, IsInjective, Surjection
<1>8. IsFiniteSet(A)
  BY MappedFinite DEF A
<1>9. Cardinality(Used(pg)) = Cardinality(A)
  BY <1>7, <1>8, FS_Bijection
<1>10. QED
  BY <1>1, <1>9 DEF A

LEMMA CountIsExact ==
    ASSUME DirOK
    PROVE  CountExact
<1> DEFINE D == DOMAIN dir
           f == [p \in D |-> dir[p].pop]
           g == [T \in SUBSET D |-> Cardinality(MappedOn(T))]
<1>1. IsFiniteSet(D)
  <2>1. 0 \in Int /\ Pages - 1 \in Int
    BY OmapAssumption
  <2>2. IsFiniteSet(0..(Pages - 1))
    BY <2>1, FS_Interval
  <2>3. QED
    BY <2>2, FS_Subset DEF DirOK
<1>2. g \in [SUBSET D -> Nat]
  BY MappedFinite
<1>3. g[{}] = 0
  <2>1. MappedOn({}) = {}
    BY DEF MappedOn
  <2>2. Cardinality(MappedOn({})) = 0
    BY <2>1, FS_EmptySet
  <2>3. QED
    BY <2>2
<1>4. ASSUME NEW T \in SUBSET D, NEW x \in T
      PROVE  g[T] = f[x] + g[T \ {x}]
  <2>1. MappedOn({x}) \cup MappedOn(T \ {x}) = MappedOn(T)
        /\ MappedOn({x}) \cap MappedOn(T \ {x}) = {}
    BY DEF MappedOn
  <2>2. /\ IsFiniteSet(MappedOn({x})) /\ IsFiniteSet(MappedOn(T \ {x}))
        /\ Cardinality(MappedOn({x})) \in Nat /\ Cardinality(MappedOn(T \ {x})) \in Nat
    BY MappedFinite
  <2>3. Cardinality(MappedOn({x}) \cup MappedOn(T \ {x})) =
          Cardinality(MappedOn({x})) + Cardinality(MappedOn(T \ {x}))
            - Cardinality(MappedOn({x}) \cap MappedOn(T \ {x}))
    BY <2>2, FS_Union
  <2>4. /\ Cardinality(MappedOn({x}) \cup MappedOn(T \ {x})) = Cardinality(MappedOn(T))
        /\ Cardinality(MappedOn({x}) \cap MappedOn(T \ {x})) = Cardinality({})
    BY ONLY <2>1, Zenon
  <2>5. Cardinality({}) = 0
    BY FS_EmptySet
  <2>6. Cardinality(MappedOn({x})) = dir[x].pop
    BY PageCount
  <2>7. g[T] = Cardinality(MappedOn(T)) /\ g[T \ {x}] = Cardinality(MappedOn(T \ {x})) /\ f[x] = dir[x].pop
    OBVIOUS
  <2>8. QED
    BY <2>2, <2>3, <2>4, <2>5, <2>6, <2>7
<1>5. DOMAIN f = D
  OBVIOUS
<1>6. g[D] = Cardinality(MappedOn(D))
  OBVIOUS
<1>7. MappedOn(D) = MappedIn(dir)
  BY DEF MappedOn, MappedIn, Lookup
<1>8. Cardinality(MappedOn(D)) = Cardinality(MappedIn(dir))
  BY ONLY <1>7, Zenon
<1>9. Count = SumFunction(f)
  BY DEF Count
<1> HIDE DEF f, g, D
<1>10. SumFunction(f) = g[D]
  BY <1>1, <1>2, <1>3, <1>4, <1>5, SumIs
<1>11. QED
  BY <1>6, <1>8, <1>9, <1>10 DEF CountExact

\* The calls there are.
CallOK ==
    call[1] \in {"new", "get", "put", "del", "foreach", "clear", "store", "load", "fail", "load_fail"}

LEMMA CallStep ==
    ASSUME CallOK, [Next]_vars
    PROVE  CallOK'
<1>1. ASSUME NEW i \in Ids, Get(i) \/ PutFail(i) \/ Del(i) PROVE CallOK'
  <2>1. Get(i) => \E x : call' = <<"get", i, x>>
    BY Zenon DEF Get
  <2>2. Del(i) => \E x : call' = <<"del", i, x>>
    BY Zenon DEF Del
  <2>3. PutFail(i) => call' = <<"fail">>
    BY DEF PutFail
  <2>4. QED
    BY <1>1, <2>1, <2>2, <2>3 DEF CallOK
<1>2. ASSUME NEW i, NEW h, Put(i, h) PROVE CallOK'
  BY <1>2 DEF CallOK, Put
<1>3. ASSUME Clear \/ Store \/ LoadFail PROVE CallOK'
  <2>1. Store => \E x : call' = <<"store", x>>
    BY Zenon DEF Store
  <2>2. QED
    BY <1>3, <2>1 DEF CallOK, Clear, LoadFail
<1>4. ASSUME NEW p, StoreFail(p) \/ Foreach(p) \/ Load(p) PROVE CallOK'
  <2>1. Foreach(p) => \E x : call' = <<"foreach", p, x>>
    BY Zenon DEF Foreach
  <2>2. StoreFail(p) => call' = <<"fail">>
    BY DEF StoreFail
  <2>3. Load(p) => call' = <<"load", p>>
    BY DEF Load
  <2>4. QED
    BY <1>4, <2>1, <2>2, <2>3 DEF CallOK
<1>5. CASE UNCHANGED vars
  BY <1>5 DEF CallOK, vars
<1>6. QED
  BY <1>1, <1>2, <1>3, <1>4, <1>5 DEF Next

LEMMA CountsFromInv ==
    ASSUME OInv, CallOK
    PROVE  CountsAgree
<1>1. TypeOK
  BY DEF OInv, DirOK, RootOK, EntryOK, CallOK, TypeOK
<1>2. CountExact
  BY CountIsExact DEF OInv
<1>3. ASSUME NEW p \in DOMAIN dir
      PROVE  /\ dir[p].pop = Cardinality({s \in Slot : Contents(dir[p])[s] # Zero})
             /\ dir[p].cached # None => dir[p].cpop = dir[p].pop
             /\ dir[p].cached # None /\ ~ dir[p].dirty => dir[p].cached \in {dir[p].hash, EmptyPage}
  <2>1. EntryOK(dir[p])
    BY DEF OInv, DirOK
  <2>2. dir[p].pop = Cardinality({s \in Slot : Contents(dir[p])[s] # Zero})
    BY <2>1, Zenon DEF EntryOK, Used
  <2>3. QED
    BY <2>1, <2>2 DEF EntryOK
<1>4. QED
  BY <1>1, <1>2, <1>3 DEF CountsAgree

-----------------------------------------------------------------------------
(* cas_omap_alloc.                                                         *)

LEMMA MinIs ==
    ASSUME NEW S \in SUBSET Int, NEW x \in S, \A y \in S : x <= y
    PROVE  Min(S) = x
<1>1. \A y \in S : (\A z \in S : y <= z) => y = x
  OBVIOUS
<1>2. QED
  BY <1>1 DEF Min

LEMMA MinFacts ==
    ASSUME NEW S \in SUBSET Nat, S # {}
    PROVE  Min(S) \in S /\ \A y \in S : Min(S) <= y
<1>1. PICK m \in S : \A y \in S : m <= y
  BY LeastNatural
<1>2. QED
  BY <1>1, MinIs

\* The ids cas_omap_alloc may return.
FreeIn(start, end) == {i \in Ids : i >= start /\ i < end /\ Lookup(dir, i) = Zero}

LEMMA FirstFreeIs ==
    ASSUME NEW start \in Int, NEW end \in Int
    PROVE  /\ FreeIn(start, end) = {} => FirstFree(start, end) = EFULL
           /\ \A i \in FreeIn(start, end) :
                (\A j \in FreeIn(start, end) : i <= j) => FirstFree(start, end) = i
<1>1. FreeIn(start, end) \in SUBSET Int
  BY OmapAssumption DEF FreeIn, Ids
<1>2. FirstFree(start, end) = IF FreeIn(start, end) = {} THEN EFULL ELSE Min(FreeIn(start, end))
  BY Zenon DEF FirstFree, FreeIn
<1>3. QED
  BY <1>1, <1>2, MinIs

LEMMA PageRange ==
    ASSUME NEW i \in Ids
    PROVE  PageOf(i) \in Int /\ Pages \in Int /\ PageOf(i) >= 0 /\ PageOf(i) <= Pages - 1
BY IdFacts, OmapAssumption

\* Ids on pages and across them.
LEMMA PageBounds ==
    ASSUME NEW i \in Ids
    PROVE  /\ PageOf(i) * Slots \in Int /\ (PageOf(i) + 1) * Slots \in Int
           /\ PageOf(i) * Slots <= i /\ i < (PageOf(i) + 1) * Slots
<1>1. PageOf(i) \in Int /\ Slots \in Int /\ SlotOf(i) \in 0..(Slots - 1) /\ i = PageOf(i) * Slots + SlotOf(i)
  BY IdFacts, OmapAssumption DEF Slot
<1>2. (PageOf(i) + 1) * Slots = PageOf(i) * Slots + Slots /\ PageOf(i) * Slots \in Int
  BY <1>1
<1>3. QED
  BY <1>1, <1>2

LEMMA PageOrder ==
    ASSUME NEW i \in Ids, NEW p \in Int
    PROVE  /\ i < (p + 1) * Slots => PageOf(i) <= p
           /\ i >= p * Slots => PageOf(i) >= p
<1>1. PageOf(i) \in Int /\ Slots \in Int /\ Slots > 0
  BY IdFacts, OmapAssumption
<1>2. /\ PageOf(i) * Slots \in Int /\ (PageOf(i) + 1) * Slots \in Int
      /\ PageOf(i) * Slots <= i /\ i < (PageOf(i) + 1) * Slots /\ i \in Int
  BY PageBounds, OmapAssumption DEF Ids
<1>3. p * Slots \in Int /\ (p + 1) * Slots \in Int
  BY <1>1
<1>4. PageOf(i) >= p + 1 => (p + 1) * Slots <= PageOf(i) * Slots
  BY <1>1, Scaled
<1>5. PageOf(i) + 1 <= p => (PageOf(i) + 1) * Slots <= p * Slots
  BY <1>1, Scaled
<1>6. QED
  BY <1>1, <1>2, <1>3, <1>4, <1>5

LEMMA NextPageIs ==
    ASSUME NEW id \in Ids, PageOf(id) < Pages - 1
    PROVE  /\ NextPage(id) = (PageOf(id) + 1) * Slots
           /\ NextPage(id) \in Ids /\ PageOf(NextPage(id)) = PageOf(id) + 1
<1> DEFINE q == PageOf(id) + 1
<1>1. PageOf(id) \in Int /\ q \in 0..(Pages - 1) /\ Slots \in Int /\ Pages \in Int /\ 0 \in Slot /\ Slots > 0
  BY IdFacts, OmapAssumption DEF Slot
<1>2. q * Slots + 0 \in Ids /\ PageOf(q * Slots + 0) = q
  BY <1>1, IdOf
<1>3. q * Slots + 0 = q * Slots /\ q * Slots \in Int
  BY <1>1
<1>4. q * Slots \in 0..(Word - 1) /\ Word \in Int /\ Word > 0
  BY <1>1, <1>2, <1>3, OmapAssumption DEF Ids, Word
<1>5. (q * Slots) % Word = q * Slots
  <2>1. (0 * Word + q * Slots) % Word = q * Slots
    BY <1>4, DivModUnique
  <2>2. 0 * Word + q * Slots = q * Slots
    BY <1>3, <1>4
  <2>3. QED
    BY <2>1, <2>2
<1>6. QED
  BY <1>2, <1>3, <1>5 DEF NextPage

\* A page with no free slot from the one of id on: the search goes on at the
\* next page, if there is one.
LEMMA SkipPage ==
    ASSUME NEW id \in Ids, NEW end \in Int, PageOf(id) < Pages - 1,
           \A j \in Ids : PageOf(j) = PageOf(id) /\ j >= id => Lookup(dir, j) # Zero
    PROVE  FirstFree(id, end) = FirstFree(NextPage(id), end)
<1>1. /\ NextPage(id) = (PageOf(id) + 1) * Slots /\ NextPage(id) \in Ids
      /\ PageOf(id) \in Int /\ id \in Int /\ NextPage(id) \in Int
  BY NextPageIs, IdFacts, OmapAssumption DEF Ids
<1>2. id < NextPage(id)
  BY <1>1, PageBounds
<1>3. ASSUME NEW j \in FreeIn(id, end) PROVE j >= NextPage(id)
  <2>1. j \in Ids /\ j \in Int /\ j >= id /\ Lookup(dir, j) = Zero /\ PageOf(j) \in Int
    BY IdFacts, OmapAssumption DEF FreeIn, Ids
  <2>2. PageOf(j) # PageOf(id)
    BY <2>1
  <2>3. PageOf(id) * Slots <= id /\ PageOf(id) * Slots \in Int
    BY PageBounds
  <2>4. j >= PageOf(id) * Slots
    BY <1>1, <2>1, <2>3
  <2>5. PageOf(j) >= PageOf(id)
    BY <1>1, <2>1, <2>4, PageOrder
  <2>6. j < (PageOf(id) + 1) * Slots => PageOf(j) <= PageOf(id)
    BY <1>1, <2>1, PageOrder
  <2>7. QED
    BY <1>1, <2>1, <2>2, <2>5, <2>6
<1>4. FreeIn(id, end) = FreeIn(NextPage(id), end)
  <2>1. \A j \in FreeIn(id, end) : j \in FreeIn(NextPage(id), end)
    BY <1>3 DEF FreeIn
  <2>2. \A j \in FreeIn(NextPage(id), end) : j \in FreeIn(id, end)
    BY <1>1, <1>2, OmapAssumption DEF FreeIn, Ids
  <2>3. QED
    BY <2>1, <2>2
<1>5. QED
  BY ONLY <1>4, Zenon DEF FirstFree, FreeIn

\* On the last page there is no next one: nothing is left to find.
LEMMA LastPage ==
    ASSUME NEW id \in Ids, NEW end \in Int, PageOf(id) >= Pages - 1,
           \A j \in Ids : PageOf(j) = PageOf(id) /\ j >= id => Lookup(dir, j) # Zero
    PROVE  FirstFree(id, end) = EFULL
<1>1. /\ PageOf(id) = Pages - 1 /\ PageOf(id) \in Int /\ id \in Int /\ Pages \in Int
      /\ PageOf(id) * Slots <= id /\ PageOf(id) * Slots \in Int
  <2>1. PageOf(id) = Pages - 1 /\ PageOf(id) \in Int /\ Pages \in Int
    BY PageRange
  <2>2. id \in Int
    BY OmapAssumption DEF Ids
  <2>3. QED
    BY <2>1, <2>2, PageBounds
<1>2. ASSUME NEW j \in FreeIn(id, end) PROVE FALSE
  <2>1. j \in Ids /\ j \in Int /\ j >= id /\ Lookup(dir, j) = Zero /\ PageOf(j) \in 0..(Pages - 1)
    BY IdFacts, OmapAssumption DEF FreeIn, Ids
  <2>2. j >= PageOf(id) * Slots
    BY <1>1, <2>1
  <2>3. PageOf(j) >= PageOf(id)
    BY <1>1, <2>1, <2>2, PageOrder
  <2>4. QED
    BY <1>1, <2>1, <2>3
<1>3. FreeIn(id, end) = {}
  BY <1>2
<1>4. QED
  BY <1>1, <1>3, FirstFreeIs

\* One turn of the loop answers, or goes on where the answer is the same.
LEMMA AllocTurn ==
    ASSUME DirOK, \A p \in DOMAIN dir : Loads(p),
           NEW id \in Ids, NEW end \in Int, end < Word, NEW next,
           FirstFree(id, end) # EFULL \/ end <= (Pages - 1) * Slots
    PROVE  \/ AllocAt(id, end, next) = FirstFree(id, end)
           \/ /\ PageOf(id) < Pages - 1 /\ AllocAt(id, end, next) = next
              /\ FirstFree(id, end) = FirstFree(NextPage(id), end)
<1> DEFINE p    == PageOf(id)
           pg   == Contents(dir[p])
           free == FreeFrom(id)
<1>1. /\ id \in Int /\ p \in 0..(Pages - 1) /\ SlotOf(id) \in 0..(Slots - 1) /\ Slots \in Int /\ Pages \in Int
      /\ id = p * Slots + SlotOf(id) /\ p * Slots \in Int /\ p * Slots <= id
      /\ Slots > 0 /\ (p + 1) * Slots \in Int /\ (p + 1) * Slots = p * Slots + Slots
  <2>1. /\ id \in Int /\ p \in 0..(Pages - 1) /\ SlotOf(id) \in 0..(Slots - 1) /\ Slots \in Int /\ Pages \in Int
        /\ id = p * Slots + SlotOf(id) /\ Slots > 0 /\ p * Slots \in Int /\ p * Slots <= id
    BY IdFacts, PageBounds, OmapAssumption DEF Ids, Slot
  <2>2. (p + 1) * Slots = p * Slots + Slots
    BY <2>1
  <2>3. QED
    BY <2>1, <2>2
<1>2. AllocAt(id, end, next) =
        IF id >= end THEN EFULL
        ELSE IF p \notin DOMAIN dir THEN id
        ELSE IF dir[p].pop = Slots THEN next
        ELSE IF ~ Loads(p) THEN ENOTFOUND
        ELSE IF free = {} THEN (IF (p + 1) * Slots > end THEN EFULL ELSE next)
        ELSE IF p * Slots + Min(free) >= end THEN EFULL ELSE p * Slots + Min(free)
  BY DEF AllocAt
<1>3. CASE id >= end
  <2>1. FreeIn(id, end) = {}
    BY <1>1, <1>3, OmapAssumption DEF FreeIn, Ids
  <2>2. QED
    BY <1>1, <1>2, <1>3, <2>1, FirstFreeIs
<1>4. CASE id < end /\ p \notin DOMAIN dir
  <2>1. id \in FreeIn(id, end)
    BY <1>1, <1>4 DEF FreeIn, Lookup
  <2>2. \A j \in FreeIn(id, end) : id <= j
    BY <1>1, OmapAssumption DEF FreeIn, Ids
  <2>3. QED
    BY <1>1, <1>2, <1>4, <2>1, <2>2, FirstFreeIs
<1>5. ASSUME id < end, p \in DOMAIN dir, free = {}
      PROVE  \A j \in Ids : PageOf(j) = PageOf(id) /\ j >= id => Lookup(dir, j) # Zero
  <2> SUFFICES ASSUME NEW j \in Ids, PageOf(j) = p, j >= id PROVE Lookup(dir, j) # Zero
    OBVIOUS
  <2>1. j = p * Slots + SlotOf(j) /\ SlotOf(j) \in 0..(Slots - 1) /\ Lookup(dir, j) = pg[SlotOf(j)]
    BY <1>5, IdFacts DEF Slot, Lookup
  <2>2. SlotOf(j) \in SlotOf(id)..(Slots - 1)
    BY <1>1, <2>1
  <2>3. QED
    BY <1>5, <2>1, <2>2 DEF FreeFrom
<1>6. CASE id < end /\ p \in DOMAIN dir /\ dir[p].pop = Slots
  <2>1. free = {}
    <3>1. EntryOK(dir[p]) /\ pg \in Page
      BY <1>6, ContentsPage DEF DirOK, EntryOK
    <3>2. Used(pg) = Slot
      BY <1>6, <3>1, UsedFacts DEF EntryOK
    <3>3. \A s \in SlotOf(id)..(Slots - 1) : s \in Slot
      BY <1>1 DEF Slot
    <3>4. QED
      BY <3>2, <3>3 DEF Used, FreeFrom
  <2>2. AllocAt(id, end, next) = next
    BY <1>2, <1>6, <1>1
  <2>3. CASE p < Pages - 1
    BY <1>5, <1>6, <2>1, <2>2, <2>3, SkipPage
  <2>4. CASE p >= Pages - 1
    <3>1. FirstFree(id, end) = EFULL
      BY <1>5, <1>6, <2>1, <2>4, LastPage
    <3>2. p = Pages - 1
      BY <2>4, PageRange
    <3>3. QED
      BY <1>1, <1>6, <3>1, <3>2
  <2>5. QED
    BY <1>1, <2>3, <2>4
<1>7. CASE id < end /\ p \in DOMAIN dir /\ dir[p].pop # Slots /\ free = {}
  <2>1. Loads(p)
    BY <1>7
  <2>2. CASE (p + 1) * Slots > end
    <3>1. ASSUME NEW j \in FreeIn(id, end) PROVE FALSE
      <4>1. j \in Ids /\ j \in Int /\ j >= id /\ j < end /\ Lookup(dir, j) = Zero /\ PageOf(j) \in Int
        BY IdFacts, OmapAssumption DEF FreeIn, Ids
      <4>2. j >= p * Slots /\ j < (p + 1) * Slots
        BY <1>1, <2>2, <4>1
      <4>3. PageOf(j) = p
        BY <1>1, <4>1, <4>2, PageOrder
      <4>4. QED
        BY <1>5, <1>7, <4>1, <4>3
    <3>2. FirstFree(id, end) = EFULL
      BY <1>1, <3>1, FirstFreeIs
    <3>3. QED
      BY <1>1, <1>2, <1>7, <2>1, <2>2, <3>2
  <2>3. CASE (p + 1) * Slots <= end
    <3>1. p < Pages - 1
      <4>1. ASSUME p = Pages - 1 PROVE FALSE
        <5>1. (p + 1) * Slots = Word
          BY <1>1, <4>1 DEF Word
        <5>2. QED
          BY <1>1, <2>3, <5>1
      <4>2. QED
        BY <4>1, PageRange
    <3>2. AllocAt(id, end, next) = next
      BY <1>1, <1>2, <1>7, <2>1, <2>3
    <3>3. QED
      BY <1>5, <1>7, <3>1, <3>2, SkipPage
  <2>4. QED
    BY <1>1, <2>2, <2>3
<1>8. CASE id < end /\ p \in DOMAIN dir /\ dir[p].pop # Slots /\ free # {}
  <2> DEFINE m == Min(free)
             f == p * Slots + m
  <2>1. Loads(p)
    BY <1>8
  <2>2. free \in SUBSET Nat
    BY <1>1 DEF FreeFrom
  <2>3. m \in free /\ \A s \in free : m <= s
    BY <1>8, <2>2, MinFacts
  <2> HIDE DEF m
  <2>4. m \in SlotOf(id)..(Slots - 1) /\ pg[m] = Zero /\ m \in Slot /\ m \in Int
    BY <1>1, <2>3 DEF FreeFrom, Slot
  <2>5. f \in Ids /\ PageOf(f) = p /\ SlotOf(f) = m /\ f \in Int /\ f >= id
    BY <1>1, <2>4, IdOf
  <2>6. Lookup(dir, f) = Zero
    BY <1>8, <2>4, <2>5 DEF Lookup
  <2>7. ASSUME NEW j \in FreeIn(id, end) PROVE f <= j
    <3>1. j \in Ids /\ j \in Int /\ j >= id /\ Lookup(dir, j) = Zero /\ PageOf(j) \in Int
      BY IdFacts, OmapAssumption DEF FreeIn, Ids
    <3>2. CASE PageOf(j) = p
      <4>1. j = p * Slots + SlotOf(j) /\ SlotOf(j) \in 0..(Slots - 1) /\ Lookup(dir, j) = pg[SlotOf(j)]
        BY <1>8, <3>1, <3>2, IdFacts DEF Slot, Lookup
      <4>2. SlotOf(j) \in free
        BY <1>1, <3>1, <4>1 DEF FreeFrom
      <4>3. QED
        BY <1>1, <2>3, <2>4, <4>1, <4>2
    <3>3. CASE PageOf(j) # p
      <4>1. j >= p * Slots
        BY <1>1, <3>1
      <4>2. PageOf(j) >= p
        BY <1>1, <3>1, <4>1, PageOrder
      <4>3. ~ (j < (p + 1) * Slots)
        BY <1>1, <3>1, <3>3, <4>2, PageOrder
      <4>4. QED
        BY <1>1, <2>4, <3>1, <4>3
    <3>4. QED
      BY <3>2, <3>3
  <2>8. AllocAt(id, end, next) = IF f >= end THEN EFULL ELSE f
    BY <1>1, <1>2, <1>8, <2>1 DEF m
  <2> HIDE DEF f
  <2>9. CASE f >= end
    <3>1. FreeIn(id, end) = {}
      <4>1. \A j \in FreeIn(id, end) : j < end /\ j \in Int
        BY OmapAssumption DEF FreeIn, Ids
      <4>2. QED
        BY <2>5, <2>7, <2>9, <4>1
    <3>2. QED
      BY <1>1, <2>8, <2>9, <3>1, FirstFreeIs
  <2>10. CASE f < end
    <3>1. f \in FreeIn(id, end)
      BY <2>5, <2>6, <2>10 DEF FreeIn
    <3>2. AllocAt(id, end, next) = f
      BY <2>5, <2>8, <2>10
    <3>3. QED
      BY <1>1, <2>7, <3>1, <3>2, FirstFreeIs
  <2>11. QED
    BY <2>5, <2>9, <2>10
<1>9. QED
  BY <1>1, <1>3, <1>4, <1>6, <1>7, <1>8

\* What the loop computes from every id in up to n turns.
IsTable(t, end, n) ==
    t = [k \in 0..n |-> [id \in Ids |->
            IF k = 0 THEN Loops ELSE AllocAt(id, end, t[k - 1][NextPage(id)])]]

LEMMA TableExists ==
    ASSUME NEW end
    PROVE  \A n \in Nat : \E t : IsTable(t, end, n)
<1> DEFINE G == {n \in Nat : \E t : IsTable(t, end, n)}
<1>1. 0 \in G
  <2> DEFINE t == [k \in 0..0 |-> [id \in Ids |-> Loops]]
  <2>1. IsTable(t, end, 0)
    <3>1. t = [k \in 0..0 |-> [id \in Ids |->
                 IF k = 0 THEN Loops ELSE AllocAt(id, end, t[k - 1][NextPage(id)])]]
      BY Z3
    <3>2. QED
      BY <3>1 DEF IsTable
  <2>2. QED
    BY <2>1
<1>2. ASSUME NEW n \in Nat, n \in G PROVE n + 1 \in G
  <2>1. PICK t : IsTable(t, end, n)
    BY <1>2
  <2> DEFINE row(k, u) == [id \in Ids |->
                  IF k = 0 THEN Loops ELSE AllocAt(id, end, u[k - 1][NextPage(id)])]
             u == [k \in 0..(n + 1) |-> IF k <= n THEN t[k] ELSE row(n + 1, t)]
  <2>2. \A k \in 0..n : t[k] = row(k, t)
    BY <2>1 DEF IsTable
  <2>3. \A k \in 0..n : u[k] = t[k]
    OBVIOUS
  <2>4. u[n + 1] = row(n + 1, t)
    OBVIOUS
  <2>5. u = [k \in 0..(n + 1) |-> u[k]]
    OBVIOUS
  <2> HIDE DEF u
  <2>6. ASSUME NEW k \in 0..(n + 1) PROVE row(k, t) = row(k, u)
    <3>1. CASE k = 0
      BY <3>1
    <3>2. CASE k # 0
      <4>1. k - 1 \in 0..n
        BY <3>2
      <4>2. u[k - 1] = t[k - 1]
        BY <2>3, <4>1
      <4>3. QED
        BY <4>2
    <3>3. QED
      BY <3>1, <3>2
  <2>7. \A k \in 0..(n + 1) : u[k] = row(k, t)
    <3> HIDE DEF row
    <3>1. QED
      BY <2>2, <2>3, <2>4
  <2>8. \A k \in 0..(n + 1) : u[k] = row(k, u)
    BY <2>6, <2>7
  <2>9. u = [k \in 0..(n + 1) |-> row(k, u)]
    <3> HIDE DEF row
    <3>1. QED
      BY <2>5, <2>8
  <2>10. IsTable(u, end, n + 1)
    BY <2>9 DEF IsTable
  <2>11. QED
    BY <2>10
<1> HIDE DEF G
<1>3. \A n \in Nat : n \in G
  BY <1>1, <1>2, NatSetInduction
<1>4. QED
  BY <1>3 DEF G

LEMMA AllocTable ==
    ASSUME NEW start, NEW limit
    PROVE  \E t : /\ IsTable(t, AllocEnd(start, limit), Pages)
                  /\ Alloc(start, limit) = t[Pages][start]
<1> DEFINE end == AllocEnd(start, limit)
           t == CHOOSE u : IsTable(u, end, Pages)
<1>1. \E u : IsTable(u, end, Pages)
  BY TableExists, OmapAssumption
<1>2. IsTable(t, end, Pages)
  <2> HIDE DEF end
  <2>1. QED
    BY <1>1, Zenon
<1>3. Alloc(start, limit) = t[Pages][start]
  BY Zenon DEF Alloc, IsTable
<1>4. QED
  BY <1>2, <1>3, Zenon

\* Enough turns find the first free id.
LEMMA TableFinds ==
    ASSUME DirOK, \A p \in DOMAIN dir : Loads(p), NEW end \in Int, end < Word,
           NEW t, IsTable(t, end, Pages), NEW start \in Ids,
           FirstFree(start, end) # EFULL \/ end <= (Pages - 1) * Slots
    PROVE  t[Pages][start] = FirstFree(start, end)
<1> DEFINE Sure(id) == FirstFree(id, end) # EFULL \/ end <= (Pages - 1) * Slots
           G == {k \in Nat : \A id \in Ids :
                    k <= Pages /\ k >= Pages - PageOf(id) /\ Sure(id) => t[k][id] = FirstFree(id, end)}
<1>1. 0 \in G
  <2>1. \A id \in Ids : ~ (0 >= Pages - PageOf(id))
    BY PageRange
  <2>2. QED
    BY <2>1
<1>2. ASSUME NEW k \in Nat, k \in G PROVE k + 1 \in G
  <2> SUFFICES ASSUME NEW id \in Ids, k + 1 <= Pages, k + 1 >= Pages - PageOf(id), Sure(id)
               PROVE  t[k + 1][id] = FirstFree(id, end)
    OBVIOUS
  <2> DEFINE next == t[k][NextPage(id)]
  <2>1. Pages \in Int /\ k + 1 \in 0..Pages /\ k + 1 # 0 /\ (k + 1) - 1 = k
    BY OmapAssumption
  <2>2. t[k + 1][id] = AllocAt(id, end, next)
    <3>1. t[k + 1] = [x \in Ids |-> IF k + 1 = 0 THEN Loops
                                    ELSE AllocAt(x, end, t[(k + 1) - 1][NextPage(x)])]
      BY <2>1 DEF IsTable
    <3>2. QED
      BY <2>1, <3>1
  <2> HIDE DEF next
  <2>3. CASE AllocAt(id, end, next) = FirstFree(id, end)
    BY <2>2, <2>3
  <2>4. CASE /\ PageOf(id) < Pages - 1 /\ AllocAt(id, end, next) = next
             /\ FirstFree(id, end) = FirstFree(NextPage(id), end)
    <3>1. NextPage(id) \in Ids /\ PageOf(NextPage(id)) = PageOf(id) + 1
      BY <2>4, NextPageIs
    <3>2. k <= Pages /\ k >= Pages - PageOf(NextPage(id)) /\ Sure(NextPage(id))
      BY <2>1, <2>4, <3>1, PageRange
    <3>3. next = FirstFree(NextPage(id), end)
      BY <1>2, <3>1, <3>2 DEF next
    <3>4. QED
      BY <2>2, <2>4, <3>3
  <2>5. QED
    BY <2>3, <2>4, AllocTurn
<1>3. \A k \in Nat : k \in G
  <2> HIDE DEF G
  <2>1. QED
    BY <1>1, <1>2, NatSetInduction
<1>4. Pages \in Nat /\ Pages <= Pages /\ Pages >= Pages - PageOf(start)
  BY PageRange, OmapAssumption
<1>5. QED
  BY <1>3, <1>4

LEMMA AllocFinds ==
    ASSUME DirOK
    PROVE  AllocFindsFree
<1> SUFFICES ASSUME \A p \in DOMAIN dir : Loads(p), NEW start \in Ids, NEW limit \in Ids,
                    NEW end, end = IF limit > 0 THEN start + limit ELSE Word - 1,
                    end < Word, FirstFree(start, end) # EFULL \/ end <= (Pages - 1) * Slots
             PROVE  Alloc(start, limit) = FirstFree(start, end)
  BY DEF AllocFindsFree
<1>1. start \in Int /\ limit \in Int /\ start >= 0 /\ limit >= 0 /\ Word \in Int /\ Word > 0
  BY OmapAssumption DEF Ids, Word
<1>2. end \in Int
  BY <1>1
<1>3. AllocEnd(start, limit) = end
  <2>1. CASE limit > 0
    <3>1. end \in 0..(Word - 1) /\ 0 \in Int
      BY <1>1, <1>2, <2>1
    <3>2. (0 * Word + end) % Word = end
      BY <1>1, <3>1, DivModUnique
    <3>3. 0 * Word + end = end
      BY <1>1, <1>2
    <3>4. end % Word = end
      BY <3>2, <3>3
    <3>5. QED
      BY <2>1, <3>4 DEF AllocEnd
  <2>2. CASE ~ (limit > 0)
    BY <2>2 DEF AllocEnd
  <2>3. QED
    BY <2>1, <2>2
<1>4. PICK t : IsTable(t, end, Pages) /\ Alloc(start, limit) = t[Pages][start]
  BY <1>3, AllocTable
<1>5. QED
  BY <1>2, <1>4, TableFinds

-----------------------------------------------------------------------------
(* Theorems.                                                               *)

\* cas-omap.c, with its pages, caches, dirty flags and counts, is a plain
\* map with snapshots: every get returns what was last put, the root a
\* store returns loads the map there was, and a call that fails for want of
\* memory changes nothing (a load, which empties the map, excepted).  Nobody
\* puts the zero hash.
THEOREM RefinesMap ==
    ASSUME ~ ZeroPut
    PROVE  Spec => ImplementsMap
<1>1. Init => Abs!Init
  <2> SUFFICES ASSUME Init PROVE Abs!Init
    OBVIOUS
  <2>1. MapOf(dir) = Abs!NoneMapped
    BY DEF Init, MapOf, Lookup, Abs!NoneMapped
  <2>2. SeenCall = <<"new">> /\ {LoadedMap(r) : r \in roots} = {}
    BY DEF Init, SeenCall
  <2>3. QED
    BY <2>1, <2>2 DEF Abs!Init
<1>2. OInv /\ [Next]_vars => [Abs!Next]_<<MapOf(dir), {LoadedMap(r) : r \in roots}, SeenCall>>
  BY OStep DEF Snaps
<1>3. QED
  BY <1>1, <1>2, OInvAlways, PTL DEF Spec, ImplementsMap, Abs!Spec

\* The counts of cas-omap.c never lie, whatever calls were made and failed:
\* cas_omap_count is the number of ids that are mapped, every page's count is
\* the number of its slots in use (so that the page a store leaves out holds
\* nothing, and the one cas_omap_alloc passes over is full), never negative.
THEOREM CountsAlwaysAgree ==
    ASSUME ~ ZeroPut
    PROVE  Spec => []CountsAgree
<1>1. Init => CallOK
  BY DEF Init, CallOK
<1>2. CallOK /\ [Next]_vars => CallOK'
  BY CallStep
<1>3. OInv /\ CallOK => CountsAgree
  BY CountsFromInv
<1>4. QED
  BY <1>1, <1>2, <1>3, OInvAlways, PTL DEF Spec

\* cas_omap_alloc returns the first unmapped id of its range, or that there
\* is none, in every reachable map, with the counts it trusts to pass over
\* full pages and the 64-bit arithmetic of its loop; for ranges that do not
\* overflow and do not run in vain into the last page, and maps without a
\* page that cannot be loaded.
THEOREM AllocAlwaysFindsFree ==
    ASSUME ~ ZeroPut
    PROVE  Spec => []AllocFindsFree
<1>1. OInv => AllocFindsFree
  BY AllocFinds DEF OInv
<1>2. QED
  BY <1>1, OInvAlways, PTL

=============================================================================
