------------------------------ MODULE SchemaSync ------------------------------
(***************************************************************************)
(* `rebac sync`: the schema files of the installed packages brought into   *)
(* the stored policy (management/commands/rebac.py), and what the stored   *)
(* policy means under its overrides (composition.py).                      *)
(*                                                                         *)
(* A fragment is a definition, a relation, a permission or a caveat.  Its  *)
(* row holds a text and has a primary key; overrides name a row by that    *)
(* key.  A managed record says which package shipped a row and what was    *)
(* written then.  Files come in releases; administrators edit, add and     *)
(* delete rows; tuples are written by sessions that validated them against *)
(* the policy before.  A sync is one transaction under the policy lock.    *)
(***************************************************************************)
EXTENDS Naturals, Sequences, Functions

CONSTANTS
    Order,          \* all fragments: caveats, definitions before their children
    KindOf,         \* "caveat", "definition", "relation" or "permission"
    ParentOf,       \* the definition of a relation or permission, else itself
    Texts,          \* what a row can say
    NamesIn,        \* the fragments a text refers to
    AppOrder,       \* the order of the installed applications
    ByName,         \* the same packages, by name
    Releases,       \* the files: package -> fragment -> text
    Edits,          \* <<fragment, text>> an administrator may store
    Tightenings,    \* <<fragment, text>>: overrides that may be added
    Tuples,         \* relationship tuples
    NamedBy,        \* the fragments a tuple names
    Modes,          \* how sync is called
    MaxPk, MaxSteps,
    None, All, NoSync

Fragments == Range(Order)
Packages == Range(AppOrder)
Mode == [force : BOOLEAN, prune : BOOLEAN, check : BOOLEAN, only : Packages \cup {All}]

ASSUME BoundsAssumption == Modes \subseteq Mode /\ MaxPk \in Nat /\ MaxSteps \in Nat

\* A relation or a permission follows its definition, which is its own parent.
ASSUME OrderAssumption ==
    /\ Order \in Seq(Fragments) /\ ParentOf \in [Fragments -> Fragments]
    /\ \A i \in DOMAIN Order : \E j \in 1..i : Order[j] = ParentOf[Order[i]]
    /\ \A f \in Fragments : ParentOf[ParentOf[f]] = ParentOf[f]
    /\ \A f \in Fragments : ParentOf[f] # f => KindOf[f] \in {"relation", "permission"}
ASSUME PackagesAssumption ==
    /\ AppOrder \in Seq(Packages) /\ ByName \in Seq(Packages) /\ Range(ByName) = Packages
    /\ \A r \in Releases : \A p \in DOMAIN r :
          p \in Packages /\ \A f \in DOMAIN r[p] : f \in Fragments /\ r[p][f] \in Texts
ASSUME EditsAssumption ==
    Edits \subseteq Fragments \X Texts /\ Tightenings \subseteq Fragments \X Texts

\* What names a relation or a permission names its definition.
ASSUME TuplesAssumption ==
    \A t \in Tuples : \A f \in NamedBy[t] : f \in Fragments /\ ParentOf[f] \in NamedBy[t]

VARIABLES
    files,      \* the release that is deployed
    rows,       \* the stored policy
    records,    \* PackageManagedRecord
    overrides,  \* SchemaOverride: the key of a permission and a text
    tuples,     \* the relationship tuples that are stored
    pending,    \* tuples that were validated and are not yet stored
    serial,     \* the last primary key given
    last,       \* the mode and the outcome of a sync, if it was the last step
    steps

syncVars == <<files, rows, records, overrides, tuples, pending, serial, last, steps>>

Row == [pk : 1..MaxPk, text : Texts]
Record == [package : Packages, fragment : Fragments, pk : 1..MaxPk, hash : Texts]
Override == [pk : 1..MaxPk, text : Texts]
Outcome == [mode : Modes, drift : BOOLEAN, refused : BOOLEAN]

ASSUME SentinelsAssumption == None \notin [pk : Nat, text : Texts] /\ NoSync \notin Outcome

Declares(p, f) == p \in DOMAIN files /\ f \in DOMAIN files[p]

SyncInit ==
    /\ files \in Releases
    /\ rows = [f \in Fragments |-> None]
    /\ records = {}
    /\ overrides = {}
    /\ tuples = {}
    /\ pending = {}
    /\ serial = 0
    /\ last = NoSync
    /\ steps = 0

-----------------------------------------------------------------------------
(* What a stored policy means *)

Missing(policy, text) == {f \in NamesIn[text] : policy[f] = None}

\* subject_relation_errors: a subject relation of a type that is there.
SubjectsResolve(policy) ==
    \A f \in Fragments : policy[f] # None /\ KindOf[f] = "relation" =>
        \A g \in Missing(policy, policy[f].text) : policy[ParentOf[g]] = None

\* _group_overrides: those that name a row there is; the others are dropped.
Reached(policy, f, arms) ==
    {o \in arms : policy[f] # None /\ KindOf[f] = "permission" /\ o.pk = policy[f].pk}

\* split_stale_overrides compares the names missing from the override with
\* those missing from the expression it is composed with.
Stale(policy, f, o) == ~(Missing(policy, o.text) \subseteq Missing(policy, policy[f].text))

Selected(policy, f, arms) == {o \in Reached(policy, f, arms) : ~Stale(policy, f, o)}

\* compose() counts one more missing name for each arm that is left.
Composes(policy, arms) ==
    \A f \in Fragments : \A o \in Selected(policy, f, arms) : Missing(policy, o.text) = {}

Sound(policy, arms) == SubjectsResolve(policy) /\ Composes(policy, arms)

\* schema_index_write: what was sound stays sound.
Publishes(policy, arms) == Sound(rows, overrides) => Sound(policy, arms)

-----------------------------------------------------------------------------
(* The parts of a sync.  A draft is what its transaction has written.       *)

Drift(draft) == [draft EXCEPT !.drift = TRUE]
Own(draft, p, f) == {r \in draft.records : r.package = p /\ r.fragment = f}

\* Who else manages the row that is there.
Claims(draft, f) == {r \in draft.records : r.fragment = f /\ r.pk = draft.rows[f].pk}

RecordOf(p, f, pk) == [package |-> p, fragment |-> f, pk |-> pk, hash |-> files[p][f]]

Create(draft, p, f) ==
    LET pk == draft.serial + 1
    IN  [draft EXCEPT !.serial = pk,
            !.rows = [@ EXCEPT ![f] = [pk |-> pk, text |-> files[p][f]]],
            !.records = (@ \ Own(draft, p, f)) \cup {RecordOf(p, f, pk)}]

\* Orphan adoption: a row this package has no record of, managed or not.
Adopt(draft, p, f) ==
    [draft EXCEPT !.rows = [@ EXCEPT ![f].text = files[p][f]],
                  !.records = @ \cup {RecordOf(p, f, draft.rows[f].pk)}]

Transfer(draft, p, f) ==
    [draft EXCEPT !.records = (@ \ Claims(draft, f))
                    \cup {[r EXCEPT !.package = p] : r \in Claims(draft, f)}]

\* Mutant: a row that nobody edited follows its package.
CompareRecorded(draft, p, f, mode) ==
    LET text == files[p][f]
        unedited == \E r \in Own(draft, p, f) : r.hash = draft.rows[f].text
    IN  IF draft.rows[f].text = text THEN draft
        ELSE IF mode.check \/ ~(mode.force \/ unedited) THEN Drift(draft)
        ELSE [draft EXCEPT !.rows = [@ EXCEPT ![f].text = text]]

\* Mutant: the record is trusted to say what the row holds.
CompareHashes(draft, p, f, mode) ==
    LET text == files[p][f]
        same == \E r \in Own(draft, p, f) : r.hash = text
    IN  IF draft.rows[f].text = text \/ (same /\ mode.check) THEN draft
        ELSE IF ~same /\ (mode.check \/ ~mode.force) THEN Drift(draft)
        ELSE [draft EXCEPT !.rows = [@ EXCEPT ![f].text = text]]

\* The record of p says that this is what it wrote last.
Renewed(draft, p, f) ==
    [draft EXCEPT !.records = (@ \ Own(draft, p, f))
                                \cup {[r EXCEPT !.hash = files[p][f]] : r \in Own(draft, p, f)}]

\* The row itself is compared; the record says only what was written last.
Compare(draft, p, f, mode) ==
    LET text == files[p][f]
    IN  IF draft.rows[f].text = text THEN IF mode.check THEN draft ELSE Renewed(draft, p, f)
        ELSE IF mode.check \/ ~mode.force THEN Drift(draft)
        ELSE [Renewed(draft, p, f) EXCEPT !.rows = [@ EXCEPT ![f].text = text]]

\* Mutant: --prune-stale adopts what another package manages.
SyncRowAdopting(draft, p, f, mode) ==
    IF draft.rows[f] = None THEN IF mode.check THEN Drift(draft) ELSE Create(draft, p, f)
    ELSE IF Own(draft, p, f) # {} THEN Compare(draft, p, f, mode)
    ELSE IF mode.check THEN Drift(draft) ELSE Adopt(draft, p, f)

SyncRow(draft, p, f, mode) ==
    LET claims == IF mode.prune THEN Claims(draft, f) ELSE {}
    IN  IF draft.rows[f] = None THEN IF mode.check THEN Drift(draft) ELSE Create(draft, p, f)
        ELSE IF Own(draft, p, f) # {} THEN Compare(draft, p, f, mode)
        ELSE IF \E r, s \in claims : r # s THEN [draft EXCEPT !.failed = TRUE]
        ELSE IF mode.check THEN Drift(draft)
        ELSE IF claims # {} THEN Compare(Transfer(draft, p, f), p, f, mode)
        ELSE Adopt(draft, p, f)

\* Tuples that name one of the fragments, at either end or as their caveat.
WithoutTuplesOf(draft, fragments) ==
    [draft EXCEPT !.tuples = {t \in @ : NamedBy[t] \cap fragments = {}}]

\* Mutant: a definition goes without its children.
WithoutListedRows(policy, fragments) ==
    [f \in Fragments |-> IF f \in fragments THEN None ELSE policy[f]]

\* on_delete=CASCADE from a definition; the records stay.
WithoutRows(policy, fragments) ==
    [f \in Fragments |-> IF {f, ParentOf[f]} \cap fragments # {} THEN None ELSE policy[f]]

\* The children of definition d that its package does not declare, whoever
\* added them.
StaleChildren(draft, d, p) ==
    {f \in Fragments : ParentOf[f] = d /\ f # d /\ draft.rows[f] # None /\ ~Declares(p, f)}

\* Without these rows and the records that name them.
WithoutManaged(draft, stale) ==
    [draft EXCEPT !.records = {r \in @ : ~(r.fragment \in stale
                                          /\ r.pk = draft.rows[r.fragment].pk)},
                  !.rows = WithoutRows(@, stale)]

\* Mutant: overwriting forgets what --prune-stale promises.
PruneChildrenOnly(draft, d, p, mode) ==
    LET stale == StaleChildren(draft, d, p)
    IN  IF stale = {} THEN draft
        ELSE IF mode.check \/ ~mode.force THEN Drift(draft)
        ELSE Drift(WithoutManaged(draft, stale))

\* _prune_schema_children; --prune-stale deletes the tuples of relations.
PruneChildren(draft, d, p, mode) ==
    LET stale == StaleChildren(draft, d, p)
        clean == IF mode.prune
                 THEN WithoutTuplesOf(draft, {f \in stale : KindOf[f] = "relation"}) ELSE draft
    IN  IF stale = {} THEN draft
        ELSE IF mode.check \/ ~mode.force THEN Drift(draft)
        ELSE Drift(WithoutManaged(clean, stale))

\* The package whose file declares f now.
Owners(f) == {p \in Packages : Declares(p, f)}

\* The records of p for what it does not declare, and those of them whose row
\* is there.
StaleRecords(draft, p) == {r \in draft.records : r.package = p /\ ~Declares(p, r.fragment)}
Present(draft, managed) ==
    {r \in managed : draft.rows[r.fragment] # None /\ draft.rows[r.fragment].pk = r.pk}

\* Mutant: what another package declares now is deleted, and no tuple is.
PruneRecordsOfRows(draft, p, mode) ==
    LET stale == StaleRecords(draft, p)
        gone == Present(draft, stale)
    IN  IF stale = {} THEN draft
        ELSE IF mode.check \/ ~(mode.force \/ mode.prune) THEN Drift(draft)
        ELSE [Drift(draft) EXCEPT !.rows = WithoutRows(@, {r.fragment : r \in gone}),
                                  !.records = @ \ stale]

\* _prune_package_records.  With --prune-stale a record goes to the package
\* that declares the fragment now, unless that one has its own.
PruneRecords(draft, p, mode) ==
    LET stale == StaleRecords(draft, p)
        moved == {r \in stale : mode.prune /\ Owners(r.fragment) # {}}
        free == {r \in moved : \A o \in Owners(r.fragment) : Own(draft, o, r.fragment) = {}}
        gone == Present(draft, stale \ moved)
        clean == IF mode.prune
                 THEN WithoutTuplesOf(draft, {r.fragment : r \in stale \ moved}) ELSE draft
    IN  IF stale = {} THEN draft
        ELSE IF mode.check \/ ~(mode.force \/ mode.prune) THEN Drift(draft)
        ELSE [Drift(clean) EXCEPT
                !.rows = WithoutRows(@, {r.fragment : r \in gone}),
                !.records = (@ \ stale) \cup
                    {[r EXCEPT !.package = CHOOSE o \in Owners(r.fragment) : TRUE] : r \in free}]

\* The fragments of p's file, one after the other.
SyncRows(draft, p, mode) ==
    LET synced[i \in 0..Len(Order)] ==
            IF i = 0 THEN draft
            ELSE IF ~Declares(p, Order[i]) THEN synced[i - 1]
            ELSE SyncRow(synced[i - 1], p, Order[i], mode)
    IN  synced[Len(Order)]

\* The children of its definitions.
PruneDefinitions(draft, p, mode) ==
    LET pruned[i \in 0..Len(Order)] ==
            IF i = 0 THEN draft
            ELSE IF ~Declares(p, Order[i]) \/ KindOf[Order[i]] # "definition" THEN pruned[i - 1]
            ELSE PruneChildren(pruned[i - 1], Order[i], p, mode)
    IN  pruned[Len(Order)]

SyncPackage(draft, p, mode) ==
    LET written == PruneDefinitions(SyncRows(draft, p, mode), p, mode)
    IN  IF mode.prune THEN written ELSE PruneRecords(written, p, mode)

\* Only one package is synced, or all of them.
Chosen(mode, p) == mode.only \in {All, p}

SyncPackages(draft, mode) ==
    LET synced[i \in 0..Len(AppOrder)] ==
            IF i = 0 THEN draft
            ELSE IF AppOrder[i] \notin DOMAIN files \/ ~Chosen(mode, AppOrder[i]) THEN synced[i - 1]
            ELSE SyncPackage(synced[i - 1], AppOrder[i], mode)
    IN  synced[Len(AppOrder)]

\* --prune-stale, when all rows are written: packages that are gone, too.
RetireRecords(draft, mode) ==
    LET retired[i \in 0..Len(ByName)] ==
            IF i = 0 THEN draft
            ELSE IF ~Chosen(mode, ByName[i]) THEN retired[i - 1]
            ELSE PruneRecords(retired[i - 1], ByName[i], mode)
    IN  retired[Len(ByName)]

\* _apply_schema_sources.
Start == [rows |-> rows, records |-> records, tuples |-> tuples, serial |-> serial,
          drift |-> FALSE, failed |-> FALSE]
Draft(mode) ==
    IF mode.prune THEN RetireRecords(SyncPackages(Start, mode), mode)
    ELSE SyncPackages(Start, mode)

\* Every installed file is validated first, selected or not: one file for a
\* fragment; a permission names what its own definition declares, a relation
\* names relations of types that some file declares.
FilesAreValid ==
    /\ \A f \in Fragments : \A p, q \in Owners(f) : p = q
    /\ \A p \in DOMAIN files : \A f \in DOMAIN files[p] :
            /\ Declares(p, ParentOf[f])
            /\ \A g \in NamesIn[files[p][f]] :
                IF KindOf[f] = "permission" THEN Declares(p, g)
                ELSE Owners(ParentOf[g]) # {} => Owners(g) # {}

-----------------------------------------------------------------------------
Sync(mode) ==
    LET draft == Draft(mode)
        refused == ~FilesAreValid \/ draft.failed \/ ~Publishes(draft.rows, overrides)
    IN  /\ draft.serial <= MaxPk
        /\ IF mode.check \/ refused
           THEN /\ UNCHANGED <<rows, records, tuples, serial>>
                /\ last' = [mode |-> mode, drift |-> draft.drift, refused |-> refused]
           ELSE /\ rows' = draft.rows
                /\ records' = draft.records
                /\ tuples' = draft.tuples
                /\ serial' = draft.serial
                /\ last' = [mode |-> mode, drift |-> draft.drift, refused |-> FALSE]
        /\ UNCHANGED <<files, overrides, pending>>

Deploy(release) ==
    /\ files' = release
    /\ last' = NoSync
    /\ UNCHANGED <<rows, records, overrides, tuples, pending, serial>>

Administer(policy, arms) ==
    /\ Publishes(policy, arms)
    /\ rows' = policy
    /\ overrides' = arms
    /\ last' = NoSync
    /\ UNCHANGED <<files, records, tuples, pending>>

Edit(f, text) ==
    /\ rows[f] # None /\ rows[f].text # text
    /\ Administer([rows EXCEPT ![f].text = text], overrides)
    /\ UNCHANGED serial

\* A consumer's own row: nobody's record names it.
Add(f, text) ==
    /\ rows[f] = None /\ serial < MaxPk
    /\ ParentOf[f] # f => rows[ParentOf[f]] # None
    /\ Administer([rows EXCEPT ![f] = [pk |-> serial + 1, text |-> text]], overrides)
    /\ serial' = serial + 1

Delete(f) ==
    /\ rows[f] # None
    /\ Administer(WithoutRows(rows, {f}), overrides)
    /\ UNCHANGED serial

\* _validate_override_rows: a new arm may not name what is not there.
Tighten(f, text) ==
    /\ rows[f] # None /\ Missing(rows, text) = {}
    /\ Administer(rows, overrides \cup {[pk |-> rows[f].pk, text |-> text]})
    /\ UNCHANGED serial

\* write_relationships validates against the policy it has, without its lock.
Validate(t) ==
    /\ t \notin pending \cup tuples
    /\ \A f \in NamedBy[t] : rows[f] # None
    /\ pending' = pending \cup {t}
    /\ last' = NoSync
    /\ UNCHANGED <<files, rows, records, overrides, tuples, serial>>

Store(t) ==
    /\ t \in pending
    /\ pending' = pending \ {t}
    /\ tuples' = tuples \cup {t}
    /\ last' = NoSync
    /\ UNCHANGED <<files, rows, records, overrides, serial>>

SyncNext ==
    /\ steps < MaxSteps /\ steps' = steps + 1
    /\ \/ \E mode \in Modes : Sync(mode)
       \/ \E release \in Releases : Deploy(release)
       \/ \E e \in Edits : Edit(e[1], e[2]) \/ Add(e[1], e[2])
       \/ \E f \in Fragments : Delete(f)
       \/ \E o \in Tightenings : Tighten(o[1], o[2])
       \/ \E t \in Tuples : Validate(t) \/ Store(t)

SyncSpec == SyncInit /\ [][SyncNext]_syncVars

-----------------------------------------------------------------------------
(* Properties *)

\* The variables keep their types; no package has two records of a fragment,
\* and no child is stored without its definition.
SyncTypeOK ==
    /\ files \in Releases
    /\ rows \in [Fragments -> Row \cup {None}]
    /\ records \subseteq Record
    /\ \A r, s \in records : r.package = s.package /\ r.fragment = s.fragment => r = s
    /\ \A f \in Fragments : rows[f] # None => rows[ParentOf[f]] # None
    /\ overrides \subseteq Override
    /\ tuples \subseteq Tuples /\ pending \subseteq Tuples
    /\ serial \in 0..MaxPk

Managed(p, f) == \E r \in records : r.package = p /\ r.fragment = f
Synced(force, prune) == last' # NoSync /\ last'.mode.force = force /\ last'.mode.prune = prune

\* Without --force-overwrite, a sync of any mode leaves a row that its package
\* manages, or that --prune-stale hands to the package which declares it now,
\* as it is: its text, with the edits, and its key, with the overrides.
KeepsManagedRows ==
    \A prune \in BOOLEAN : Synced(FALSE, prune) =>
        \A p \in DOMAIN files : \A f \in DOMAIN files[p] :
            rows[f] # None /\ (Managed(p, f) \/ (prune /\ \E q \in Packages : Managed(q, f)
                        /\ Claims([rows |-> rows, records |-> records], f) # {})) =>
                rows'[f] = rows[f]
UpgradesKeepEdits == [][KeepsManagedRows]_syncVars

\* A row that --prune-stale removes takes with it every tuple that names it, but
\* for a permission that --force-overwrite deletes as a child of its definition
\* (_prune_schema_children); what remains is managed by the packages that
\* declare it.
RetiresWithTuples ==
    \A force \in BOOLEAN : Synced(force, TRUE) /\ ~last'.mode.check /\ ~last'.refused =>
        /\ \A f \in Fragments :
            rows[f] # None /\ rows'[f] = None /\ ~(force /\ KindOf[f] = "permission") =>
                \A t \in tuples' : f \notin NamedBy[t]
        /\ last'.mode.only = All =>
            \A r \in records' : Declares(r.package, r.fragment)
RetirementIsComplete == [][RetiresWithTuples]_syncVars

Claimed(managed) == {[r EXCEPT !.hash = None] : r \in managed}

\* A sync repeated changes nothing, and a --check that reports no drift is
\* right: the sync it stands for would change nothing but hashes.
SyncConverges ==
    /\ last # NoSync /\ ~last.refused /\ ~last.mode.check /\ (last.mode.prune \/ ~last.mode.force) =>
        LET again == Draft(last.mode)
        IN  again.rows = rows /\ Claimed(again.records) = Claimed(records)
    /\ last # NoSync /\ ~last.refused /\ last.mode.check /\ ~last.drift =>
        LET applied == Draft([last.mode EXCEPT !.check = FALSE])
        IN  applied.rows = rows /\ Claimed(applied.records) = Claimed(records)

\* "Admin schema edits are preserved across package upgrades.  Destructive
\* overwrite is an explicit --force-overwrite flag" (README.md:139): without
\* the flag, a row that holds what no sync wrote is not written.
Edited(f) ==
    rows[f] # None /\ \A r \in Claims([rows |-> rows, records |-> records], f) :
                            r.hash # rows[f].text
KeepsEdits ==
    Synced(FALSE, FALSE) =>
        \A f \in Fragments : Edited(f) => rows'[f] = rows[f]
EditsAreKept == [][KeepsEdits]_syncVars
=============================================================================
