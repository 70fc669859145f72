------------------------------ MODULE Database ------------------------------
(***************************************************************************)
(* One database under all the services: revisions that come and go         *)
(* (Schema), the tables that the entities of all companies share, and the  *)
(* syncs of one entity of one company after the other.  SyncService has    *)
(* the interleaving of two syncs; here a sync is one step, as a thread     *)
(* alone makes it: a migration to or from revision 3 alters sync_runs and  *)
(* waits for every transaction that has inserted its run, and below        *)
(* revision 3 no sync gets beyond that insert.  A sync that fails leaves   *)
(* nothing behind and is no step at all.                                   *)
(*                                                                         *)
(* Tally is external: AlterIDs are given by each company's own counter,    *)
(* for its masters and vouchers and for the company object itself; the     *)
(* export of companies shows those of all open companies; vouchers may     *)
(* share a number; and an export may have a record twice                   *)
(* (app/database/bulk.py:41).                                              *)
(***************************************************************************)
EXTENDS Schema, FiniteSetsExt

CONSTANTS
    Companies,
    Requests,       \* the pairs of company and entity type that are synced
    Objects,        \* what users may create; an object is its GUID
    EntityOf,       \* the entity type of each object
    CompanyOf,      \* the company it is in, or is
    NamesOf,        \* the names or voucher numbers it may be given
    MaxAlterId,     \* bound on the saves in each company
    MaxMigrations,  \* bound on the migrations
    ChunkSize       \* _CHUNK_SIZE

Types ==
    {"company", "ledger_group", "unit", "stock_group", "godown", "voucher_type",
     "stock_item", "ledger", "voucher", "purchase_order"}

ASSUME DatabaseAssumption ==
    /\ Requests \subseteq Companies \X Types
    /\ IsFiniteSet(Objects)
    /\ EntityOf \in [Objects -> Types] /\ CompanyOf \in [Objects -> Companies]
    /\ MaxAlterId \in [Companies -> Nat] /\ MaxMigrations \in Nat
    /\ ChunkSize \in Nat \ {0}

VARIABLES
    revision,   \* alembic_version, 0 before the first migration
    tables,     \* name of a table -> what it is declared as, and its rows
    saves,      \* the saves of each object so far: [guid, name, alter_id]
    migrations

vars == <<revision, tables, saves, migrations>>

Init ==
    /\ revision = 0 /\ tables = Empty
    /\ saves = [o \in Objects |-> <<>>]
    /\ migrations = 0

Live == {o \in Objects : saves[o] # <<>>}
Current(o) == Last(saves[o])

Counter(c) ==
    Cardinality(UNION {{o} \X DOMAIN saves[o] : o \in {p \in Objects : CompanyOf[p] = c}})

Save(o, n) ==
    /\ Counter(CompanyOf[o]) < MaxAlterId[CompanyOf[o]]
    /\ saves' = [saves EXCEPT ![o] = Append(@,
                    [guid |-> o, name |-> n, alter_id |-> Counter(CompanyOf[o]) + 1])]
    /\ UNCHANGED <<revision, tables, migrations>>

Migrate(to) ==
    /\ to # revision
    /\ migrations < MaxMigrations
    /\ LET done == Migrated(Path(revision, to), tables) IN
         /\ ~done.failed
         /\ tables' = done.tables
    /\ revision' = to
    /\ migrations' = migrations + 1
    /\ UNCHANGED saves

(***************************************************************************)
(* The services and their repositories: the table, its conflict columns    *)
(* and the record that stays of those with the same values of them.        *)
(***************************************************************************)

\* bulk_upsert: the last row of each key.
Kept(rows) == {rows[i] : i \in {i \in DOMAIN rows :
    \A j \in DOMAIN rows : rows[j].key = rows[i].key => j <= i}}

\* The vouchers and the orders: the row with the highest AlterID of each key.
Highest(rows) == {r \in ToSet(rows) :
    \A s \in ToSet(rows) : s.key = r.key => s.alter_id <= r.alter_id}

CompanyRepository == [company |-> [table |-> "companies", conflict |-> {"name"}]]

Named(t) == [table |-> t, conflict |-> PerCompany("name")]

LedgerRepositories ==
    [ledger_group |-> Named("ledger_groups"), ledger |-> Named("ledgers"),
     voucher_type |-> Named("voucher_types")]

InventoryRepositories ==
    [unit |-> Named("units"), godown |-> Named("godowns"),
     stock_group |-> Named("stock_groups"), stock_item |-> Named("stock_items")]

VoucherRepository ==
    [voucher |-> [table |-> "vouchers",
                  conflict |-> PerCompany("voucher_number") \cup {"voucher_type"}]]

PurchaseOrderRepository ==
    [purchase_order |-> [table |-> "purchase_orders", conflict |-> PerCompany("voucher_number")]]

\* MasterServices: _make_repo of each service.
Repository ==
    Overlay(CompanyRepository,
    Overlay(Overlay(LedgerRepositories, InventoryRepositories),
            Overlay(VoucherRepository, PurchaseOrderRepository)))

\* upsert_batch of the entity's repository.
Upserted(e, rows) ==
    IF e \in {"voucher", "purchase_order"} THEN Highest(rows) ELSE Kept(rows)

(***************************************************************************)
(* Statements.                                                             *)
(***************************************************************************)

\* INSERT ... ON CONFLICT names a table that exists and its unique columns.
Accepts(t, conflict) == t \in DOMAIN tables /\ tables[t].unique = conflict

Serves(e) ==
    /\ "sync_runs" \in DOMAIN tables /\ RunStatistics \subseteq tables["sync_runs"].later
    /\ Accepts("sync_checkpoints", {"company_name", "entity_type"})
    /\ Accepts(Repository[e].table, Repository[e].conflict)
    /\ Accepts("tally_raw_archive", {"entity_type", "company_name", "guid"})
    /\ Accepts("tally_entity_versions", {"entity_type", "company_name", "guid", "xml_hash"})

Upsert(old, new) == {r \in old : \A n \in new : r.key # n.key} \cup new

\* Defective variant: the service does not tell the record its company.
Row_NoCompany(c, e, rec) ==
    [key |-> [column \in Repository[e].conflict |->
                IF column = "company_name" THEN "" ELSE rec.name],
     guid |-> rec.guid, alter_id |-> rec.alter_id]

\* The row of an entity's table; the AlterID stands for the rest of it.
Row(c, e, rec) ==
    [key |-> [column \in Repository[e].conflict |->
                IF column = "company_name" THEN c ELSE rec.name],
     guid |-> rec.guid, alter_id |-> rec.alter_id]

\* Those of the archive and of the history; the AlterID stands for the XML.
ArchiveRow(c, e, rec) ==
    [key |-> [entity_type |-> e, company_name |-> c, guid |-> rec.guid],
     alter_id |-> rec.alter_id]

VersionRow(c, e, rec) ==
    [entity_type |-> e, company_name |-> c, guid |-> rec.guid, xml_hash |-> rec.alter_id]

\* RawArchiveRepository.upsert_batch: each chunk is a statement, in which no
\* key may come twice; of those in several chunks the last one stays.
ChunkOf(i) == (i - 1) \div ChunkSize

Unambiguous(rows) ==
    \A i, j \in DOMAIN rows :
        ChunkOf(i) = ChunkOf(j) /\ rows[i].key = rows[j].key => i = j

(***************************************************************************)
(* BaseSyncService.sync.                                                   *)
(***************************************************************************)

\* What a request for e in company c shows.
Scope(c, e) == {o \in Live : EntityOf[o] = e /\ (e = "company" \/ CompanyOf[o] = c)}

\* These objects in any order, and perhaps one of them twice.
Listed(objects) ==
    LET inOrder == {[i \in DOMAIN s |-> Current(s[i])] : s \in SetToSeqs(objects)}
    IN  inOrder \cup UNION {{<<rec>> \o items : rec \in ToSet(items)} : items \in inOrder}

Exports(c, e) == Listed(Scope(c, e))

\* What the parser makes of an answer: the export; what recover=True leaves of
\* a damaged one; nothing, of an error in a stream that nobody looks at.
Answers(c, e) == UNION {Listed(shown) : shown \in SUBSET Scope(c, e)}

Repeats(items) == \E i, j \in DOMAIN items : i # j /\ items[i].guid = items[j].guid

\* last_alter_id, 0 when there is no row.
Checkpoint(c, e) ==
    LET found == {r \in tables["sync_checkpoints"].rows :
                     r.key = [company_name |-> c, entity_type |-> e]}
    IN  IF found = {} THEN 0 ELSE (CHOOSE r \in found : TRUE).last_alter_id

\* Defective variant: a known guid is taken for an unchanged record.
Unchanged_Known(c, e, rec) ==
    \E r \in tables["tally_raw_archive"].rows : r.key = ArchiveRow(c, e, rec).key

\* The archive has this very record: the hashes are equal.
Unchanged(c, e, rec) == ArchiveRow(c, e, rec) \in tables["tally_raw_archive"].rows

\* guid in existing_hashes
Known(c, e, rec) ==
    \E r \in tables["tally_raw_archive"].rows : r.key = ArchiveRow(c, e, rec).key

\* Defective variant: a full sync respects the checkpoint as well.
Batch_NeverAll(c, e, full, items) ==
    Among(items, {rec \in ToSet(items) : rec.alter_id > Checkpoint(c, e)})

\* The records an incremental sync does not drop.
Batch(c, e, full, items) ==
    Among(items, {rec \in ToSet(items) : full \/ rec.alter_id > Checkpoint(c, e)})

Changed(c, e, full, items) ==
    Among(Batch(c, e, full, items), {rec \in ToSet(items) : ~Unchanged(c, e, rec)})

Skipped(c, e, full, items) ==
    Among(Batch(c, e, full, items), {rec \in ToSet(items) : Unchanged(c, e, rec)})

\* Defective variant: what the table has, and not the archive, is updated.
Updated_InTable(c, e, changed) ==
    {i \in DOMAIN changed : \E r \in tables[Repository[e].table].rows :
        r.key = Row(c, e, changed[i]).key}

Updated(c, e, changed) == {i \in DOMAIN changed : Known(c, e, changed[i])}

\* What finish_run writes; the rows of sync_runs are never read again and not
\* kept here.
Statistics(c, e, full, items) ==
    LET changed == Changed(c, e, full, items)
        updated == Cardinality(Updated(c, e, changed))
    IN  [records_inserted |-> Len(changed) - updated, records_updated |-> updated,
         records_skipped |-> Len(Skipped(c, e, full, items))]

\* save_alter_id, when it is called.
CheckpointRows(c, e, full, changed, items) ==
    LET highest == Max({0} \cup {rec.alter_id : rec \in ToSet(items)})
        since == IF full THEN 0 ELSE Checkpoint(c, e)
    IN  IF (changed # <<>> \/ full) /\ (highest > since \/ full)
        THEN {[key |-> [company_name |-> c, entity_type |-> e], last_alter_id |-> highest]}
        ELSE {}

\* A successful sync(c, full) of e's service, given these records.
Sync(c, e, full, items) ==
    LET changed == Changed(c, e, full, items)
        unchanged == Skipped(c, e, full, items)
        rows(recs) == [i \in DOMAIN recs |-> Row(c, e, recs[i])]
        archiveRows(recs) == [i \in DOMAIN recs |-> ArchiveRow(c, e, recs[i])]
    IN
    /\ UNCHANGED <<revision, saves, migrations>>
    /\ Serves(e)
    /\ Unambiguous(archiveRows(changed)) /\ Unambiguous(archiveRows(unchanged))
    /\ tables' = [tables EXCEPT
         ![Repository[e].table].rows = Upsert(@, Upserted(e, rows(changed))),
         !["tally_raw_archive"].rows =
             Upsert(Upsert(@, Kept(archiveRows(changed))), Kept(archiveRows(unchanged))),
         !["tally_entity_versions"].rows =
             @ \cup {VersionRow(c, e, rec) : rec \in ToSet(changed)},
         !["sync_checkpoints"].rows =
             Upsert(@, CheckpointRows(c, e, full, changed, items))]

\* A sync, full or not, whatever there is in the answer.
SyncEntity(c, e, full) == \E items \in Answers(c, e) : Sync(c, e, full, items)

Next ==
    \/ \E o \in Objects : \E n \in NamesOf[o] : Save(o, n)
    \/ \E to \in 0..Newest : Migrate(to)
    \/ \E r \in Requests, full \in BOOLEAN : SyncEntity(r[1], r[2], full)

Spec == Init /\ [][Next]_vars

(***************************************************************************)
(* Properties.                                                             *)
(***************************************************************************)

\* Whatever way up and down led to a revision, its tables are those of that
\* revision, alembic can go on to any other, and the newest one is what the
\* models declare and what the statements of all ten services need.
SchemaServes ==
    /\ Declared(tables) = Declared(Migrated(Path(0, revision), Empty).tables)
    /\ \A to \in 0..Newest : ~Migrated(Path(revision, to), tables).failed
    /\ revision = Newest => Declared(tables) = Models /\ \A e \in Types : Serves(e)

RowsOf(t) == IF t \in DOMAIN tables THEN tables[t].rows ELSE {}

\* Another object was given the same number: its row may stand for both.
Shares(c, e, o) ==
    \E p \in Scope(c, e) \ {o} : \E i \in DOMAIN saves[p] : saves[p][i].name = Current(o).name

InTable(c, e, o) == Row(c, e, Current(o)) \in RowsOf(Repository[e].table)

\* The hash filter loses nothing: a record the archive has is in the table of
\* its entity too, after any history of migrations that drop tables, of
\* failed syncs and of other entities' syncs; but for vouchers and orders
\* that share a number.
SkippedIsStored ==
    revision = Newest =>
        \A r \in Requests : \A o \in Scope(r[1], r[2]) :
            Unchanged(r[1], r[2], Current(o)) =>
                InTable(r[1], r[2], o) \/ Shares(r[1], r[2], o)

Shown(c, e) ==
    \A o \in Scope(c, e) :
        /\ ArchiveRow(c, e, Current(o)) \in RowsOf("tally_raw_archive")
        /\ VersionRow(c, e, Current(o)) \in RowsOf("tally_entity_versions")
        /\ InTable(c, e, o) \/ Shares(c, e, o)

\* A full sync that is given the whole export makes up for whatever others
\* have left out: what damaged answers lacked while the checkpoint passed it
\* (app/parser/base.py:75), what the migrations dropped below a checkpoint that
\* survived them, and companies, whose AlterIDs are of different counters
\* under one checkpoint (app/services/company.py:20).  All orders that share a number are in the
\* archive and in the history, though only one of them is in the table.
FullSyncShowsTally ==
    [][\A r \in Requests :
          \/ Shown(r[1], r[2])'
          \/ \A items \in Exports(r[1], r[2]) : ~Sync(r[1], r[2], TRUE, items)]_vars

\* The tables of the entities, the archive, the history and the checkpoints
\* are shared, yet a sync leaves alone whatever is of another entity or
\* company.
Foreign(c, e) ==
    [entity |-> {row \in UNION {RowsOf(Repository[q[2]].table) : q \in Requests \ {<<c, e>>}} :
                    EntityOf[row.guid] # e \/ (e # "company" /\ CompanyOf[row.guid] # c)},
     archive |-> {row \in RowsOf("tally_raw_archive") :
                    <<row.key.company_name, row.key.entity_type>> # <<c, e>>},
     versions |-> {row \in RowsOf("tally_entity_versions") :
                    <<row.company_name, row.entity_type>> # <<c, e>>},
     checkpoints |-> {row \in RowsOf("sync_checkpoints") :
                    <<row.key.company_name, row.key.entity_type>> # <<c, e>>}]

OthersUntouched ==
    [][\A r \in Requests :
          \/ Foreign(r[1], r[2])' = Foreign(r[1], r[2])
          \/ \A full \in BOOLEAN : ~SyncEntity(r[1], r[2], full)]_vars

ArchivedKeys == {row.key : row \in RowsOf("tally_raw_archive")}
Added == ArchivedKeys' \ ArchivedKeys
Altered == {row.key : row \in RowsOf("tally_raw_archive")' \ RowsOf("tally_raw_archive")} \ Added

\* The counts in the run's row are what the sync did to the archive, unless a
\* record came twice.
CountsTrue ==
    [][\A r \in {q \in Requests : Serves(q[2])}, full \in BOOLEAN :
          \A items \in {some \in Answers(r[1], r[2]) : ~Repeats(some)} :
              \/ LET run == Statistics(r[1], r[2], full, items) IN
                  /\ run.records_inserted = Cardinality(Added)
                  /\ run.records_updated = Cardinality(Altered)
              \/ ~Sync(r[1], r[2], full, items)]_vars
=============================================================================
