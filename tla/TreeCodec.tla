----------------------------- MODULE TreeCodec -----------------------------
(***************************************************************************)
(* Directory objects.  A directory has two encodings under one address:    *)
(* the text form, a line per entry, and the htree, records followed by a   *)
(* bucketed hash table.  The address is that of the text form, so an       *)
(* address is modelled by the text it commits to.  Bytes, offsets and the  *)
(* checksum, which anybody can recompute, are abstracted; the tables, the  *)
(* probing and the two ways to reach an entry, by scanning records and by  *)
(* following tables, are kept.                                             *)
(*                                                                         *)
(* At the end, what castool import and rm do to the entries of a loaded    *)
(* directory.  Nothing here keeps state: a behaviour may set out with any  *)
(* one directory, or forged image, to try.                                 *)
(***************************************************************************)
EXTENDS Naturals, Sequences, SequencesExt, FiniteSetsExt

CONSTANTS
    Names,     \* entry names: numbers, in name_cmp order
    NameHash,  \* djb_hash of a name
    Vals,      \* what an entry says beyond its name
    NBuckets   \* HTREE_NBUCKETS

ASSUME CodecAssumption ==
    /\ Names \subseteq Nat /\ IsFiniteSet(Names) /\ NameHash \in [Names -> Nat]
    /\ NBuckets \in Nat \ {0}

VARIABLE tried    \* the input a behaviour tries, or none

Entry == [name : Names, val : Vals]

\* A line of text.  sscanf also accepts spellings tree_serialize does not
\* write ("odd").
Spelled(e, s) == [name |-> e.name, val |-> e.val, spell |-> s]
EntryOf(l)    == [name |-> l.name, val |-> l.val]

Ascending(s) == \A i \in 1..(Len(s) - 1) : s[i].name < s[i + 1].name

\* Results of a load or lookup.
Err      == [rc |-> "err"]
NotFound == [rc |-> "notfound"]
Ok(x)    == [rc |-> "ok", out |-> x]

\* The first i in 0..n-1 with P(i), or n.
FirstFrom(n, P(_)) ==
    LET hits == {i \in 0..n : i = n \/ P(i)} IN Min(hits)

-----------------------------------------------------------------------------
(* Storing.                                                                *)

\* qsort with entry_cmp.
SortDir(d) ==
    LET p == CHOOSE o \in Bijection(DOMAIN d, DOMAIN d) :
                 \A i, j \in DOMAIN d : i < j => d[o[i]].name <= d[o[j]].name
    IN [i \in DOMAIN d |-> d[p[i]]]

\* tree_serialize; its value is also the address of the directory.
Serialize(d) == [i \in DOMAIN d |-> Spelled(d[i], "canon")]

\* A record's position doubles as "slot in use", so an empty slot is 0.
Empty == [hash |-> 0, rec |-> 0]

Buckets     == 0..(NBuckets - 1)
BucketOf(n) == NameHash[n] % NBuckets

\* Mutant of Slot: the probe does not wrap.
SlotNoWrap(n, nslots, i) ==
    Min({((NameHash[n] \div NBuckets) % nslots) + i, nslots - 1})

\* Where the i-th probe for name n looks in a table of nslots.
Slot(n, nslots, i) == ((NameHash[n] \div NBuckets) + i) % nslots

\* The record at position r of d goes to the first free slot.
Placed(table, d, r) ==
    LET nslots == Cardinality(DOMAIN table)
        i == FirstFrom(nslots, LAMBDA j : table[Slot(d[r].name, nslots, j)].rec = 0)
    IN [table EXCEPT ![Slot(d[r].name, nslots, i)] =
            [hash |-> NameHash[d[r].name], rec |-> r]]

\* The table of bucket b: twice as many slots as entries.
BucketTable(d, b) ==
    LET mine == {r \in DOMAIN d : BucketOf(d[r].name) = b}
        upto[k \in 0..Len(d)] ==
            IF k = 0 THEN [s \in 0..(2 * Cardinality(mine) - 1) |-> Empty]
            ELSE IF k \in mine THEN Placed(upto[k - 1], d, k) ELSE upto[k - 1]
    IN upto[Len(d)]

\* htree_build.  "scan" is the number of records ahead of the first table.
HtreeBuild(d) ==
    [recs |-> d, scan |-> Len(d), tables |-> [b \in Buckets |-> BucketTable(d, b)]]

\* cas_tree_store: sorted, and refused when a name is there twice.
StoreDir(d) ==
    IF Ascending(SortDir(d)) THEN Ok(SortDir(d)) ELSE Err

-----------------------------------------------------------------------------
(* Loading and looking up.                                                 *)

\* tree_text_load.
TextLoad(t) ==
    IF Ascending(t) THEN Ok([i \in DOMAIN t |-> EntryOf(t[i])]) ELSE Err

\* htree_parse_dir: the records ahead of the tables.
HtreeParse(img) ==
    LET d == SubSeq(img.recs, 1, img.scan) IN IF Ascending(d) THEN Ok(d) ELSE Err

\* tree_text_lookup: stops at the name, at a greater one, or at a break in
\* the order.
TextLookup(t, n) ==
    LET i == FirstFrom(Len(t), LAMBDA j : t[j + 1].name >= n \/ (j > 0 /\ t[j].name >= t[j + 1].name)) + 1
    IN IF i > Len(t) THEN NotFound
       ELSE IF i > 1 /\ t[i - 1].name >= t[i].name THEN Err
       ELSE IF t[i].name = n THEN Ok(EntryOf(t[i])) ELSE NotFound

\* htree_lookup_entry: probe until a free slot or a record with the name.
HtreeLookup(img, n) ==
    LET table  == img.tables[BucketOf(n)]
        nslots == Cardinality(DOMAIN table)
        At(i)  == table[Slot(n, nslots, i)]
        i == FirstFrom(nslots, LAMBDA j :
                \/ At(j).rec = 0
                \/ At(j).hash = NameHash[n] /\ img.recs[At(j).rec].name = n)
    IN IF i = nslots THEN NotFound
       ELSE IF At(i).rec = 0 THEN NotFound
       ELSE Ok(img.recs[At(i).rec])

-----------------------------------------------------------------------------
(* Verification of an object against the address it is stored under.       *)

\* Mutant of HtreeVerify: the entries are checked, the tables are not.
HtreeVerifyEntries(img, addr) ==
    LET d == HtreeParse(img) IN d.rc = "ok" /\ Serialize(SortDir(d.out)) = addr

\* htree_verify: the entries hash to the address, and building them again
\* gives the same object.
HtreeVerify(img, addr) ==
    LET d == HtreeParse(img) IN
    /\ d.rc = "ok"
    /\ Serialize(SortDir(d.out)) = addr
    /\ HtreeBuild(SortDir(d.out)) = img

\* tree_text_verify: loads, and is spelled the way it would be written.
TextVerify(t) ==
    LET d == TextLoad(t) IN d.rc = "ok" /\ Serialize(d.out) = t

-----------------------------------------------------------------------------
(* castool import and rm, on the entries of a loaded directory.            *)

\* Mutant of Dropped: the array is shortened, the gap is not filled.
DroppedUnfilled(d, n) ==
    IF \E i \in DOMAIN d : d[i].name = n THEN Front(d) ELSE d

\* The first entry named n is overwritten with the last one.
Dropped(d, n) ==
    LET i == FirstFrom(Len(d), LAMBDA j : d[j + 1].name = n) + 1
    IN IF i > Len(d) THEN d ELSE Front([d EXCEPT ![i] = Last(d)])

\* cmd_import: each file replaces an entry of its name and is appended.
ImportFiles(d, files) ==
    LET after[k \in 0..Len(files)] ==
            IF k = 0 THEN d ELSE Append(Dropped(after[k - 1], files[k].name), files[k])
    IN after[Len(files)]

\* cmd_rm: names that are not found are only reported; when none is found
\* nothing is stored.
RemoveNames(d, names) ==
    LET after[k \in 0..Len(names)] ==
            IF k = 0 THEN d ELSE Dropped(after[k - 1], names[k])
    IN after[Len(names)]

-----------------------------------------------------------------------------
(* Properties.                                                             *)

\* The entries of a sorted directory, by name.
RefLookup(d, n) ==
    IF \E e \in ToSet(d) : e.name = n
    THEN Ok(CHOOSE e \in ToSet(d) : e.name = n) ELSE NotFound

\* Every directory: sorted entries, no two of one name.
Dirs == {d \in UNION {[1..k -> Entry] : k \in 0..Cardinality(Names)} : Ascending(d)}

\* Both encodings of every directory list and look up exactly its entries,
\* whatever names collide in bucket, slot or whole hash, and every one
\* passes the verification of its own address.
EncodingsAgree ==
    tried[1] = "dir" =>
        LET d == tried[2]  img == HtreeBuild(d)  t == Serialize(d) IN
        /\ TextLoad(t) = Ok(d) /\ HtreeParse(img) = Ok(d)
        /\ TextVerify(t) /\ HtreeVerify(img, t)
        /\ \A n \in Names : TextLookup(t, n) = RefLookup(d, n) /\ HtreeLookup(img, n) = RefLookup(d, n)

\* Images nobody's htree_build wrote: up to two records, some perhaps past
\* the tables, and tables of two slots each, or one of four, that point
\* anywhere among them.  (A slot whose hash is not its record's never
\* matches.)
SlotsFor(recs) ==
    {Empty} \cup {[hash |-> NameHash[recs[r].name], rec |-> r] : r \in DOMAIN recs}
TablesFor(recs, k) == [0..(k - 1) -> SlotsFor(recs)]
ForgedTables(recs) ==
    [Buckets -> TablesFor(recs, 0) \cup TablesFor(recs, 2)] \cup
    {[b \in Buckets |-> IF b = c THEN t ELSE <<>>] : c \in Buckets, t \in TablesFor(recs, 4)}

NotTried == <<"none">>
Tries ==
    \/ tried = NotTried
    \/ \E d \in Dirs : tried = <<"dir", d>>
    \/ \E k \in 0..2 : \E recs \in [1..k -> Entry], scan \in 0..k :
        tried = <<"forged", recs, scan>>

\* An htree that passes the check, from whatever source, answers every
\* lookup with the entry its address lists.
VerifiedLookups ==
    tried[1] = "forged" => \A t \in ForgedTables(tried[2]) :
        LET img == [recs |-> tried[2], scan |-> tried[3], tables |-> t]
            d == HtreeParse(img) IN
        (d.rc = "ok" /\ HtreeVerify(img, Serialize(SortDir(d.out)))) =>
            \A n \in Names : HtreeLookup(img, n) = RefLookup(d.out, n)

\* What a sequence of files leaves under a name: the last of them.
FileFor(files, n) ==
    LET at == {i \in DOMAIN files : files[i].name = n}
    IN IF at = {} THEN NotFound ELSE Ok(files[Max(at)])

\* castool import and rm: the stored directory has, under every name, the
\* last file given for it, or else what was there before, and none of the
\* names removed; it is never refused, and nothing else is lost.
EditsExact ==
    tried[1] = "dir" => \A k \in 0..2 : LET d == tried[2] IN
        /\ \A files \in [1..k -> Entry] :
            LET out == StoreDir(ImportFiles(d, files)) IN
            /\ out.rc = "ok"
            /\ \A n \in Names : RefLookup(out.out, n) =
                IF FileFor(files, n) = NotFound THEN RefLookup(d, n) ELSE FileFor(files, n)
        /\ \A names \in [1..k -> Names] :
            LET out == StoreDir(RemoveNames(d, names)) IN
            /\ out.rc = "ok"
            /\ \A n \in Names : RefLookup(out.out, n) =
                IF n \in ToSet(names) THEN NotFound ELSE RefLookup(d, n)

=============================================================================
