------------------------------- MODULE Schema -------------------------------
(***************************************************************************)
(* The database's tables as the three migrations make and drop them        *)
(* (app/database/migrations/versions) and as the ORM models declare them   *)
(* (app/models/db).  Of a table it matters which columns are unique, since *)
(* every upsert names them, which table its foreign key points to, since   *)
(* that one cannot be dropped before it, and which columns a later         *)
(* revision adds.  Alembic and PostgreSQL are external: a statement that   *)
(* PostgreSQL refuses fails the whole migration.                           *)
(***************************************************************************)
EXTENDS Naturals, SequencesExt, Dicts

Table(t, unique) == [table |-> t, unique |-> unique, parent |-> "", later |-> {}]
Child(t, parent) == [table |-> t, unique |-> {}, parent |-> parent, later |-> {}]

PerCompany(column) == {"company_name", column}

\* Steps of a migration.
Create(def) ==
    [op |-> "create", table |-> def.table, unique |-> def.unique, parent |-> def.parent]
Drop(t) == [op |-> "drop", table |-> t]
AddColumns(t, columns) == [op |-> "add", table |-> t, columns |-> columns]
DropColumns(t, columns) == [op |-> "remove", table |-> t, columns |-> columns]

CreateAll(defs) == [i \in DOMAIN defs |-> Create(defs[i])]
DropAll(names) == [i \in DOMAIN names |-> Drop(names[i])]

(***************************************************************************)
(* Revision 0001.                                                          *)
(***************************************************************************)
CompanyTable == <<Table("companies", {"name"})>>

LedgerTables ==
    <<Table("ledger_groups", PerCompany("name")), Table("ledgers", PerCompany("name")),
      Table("voucher_types", PerCompany("name"))>>

InventoryTables ==
    <<Table("units", PerCompany("name")), Table("godowns", PerCompany("name")),
      Table("stock_groups", PerCompany("name")), Table("stock_items", PerCompany("name"))>>

VoucherTables ==
    <<Table("vouchers", PerCompany("voucher_number") \cup {"voucher_type"}),
      Child("voucher_ledger_entries", "vouchers"),
      Child("voucher_inventory_entries", "vouchers"), Child("gst_details", "vouchers")>>

StateTables == <<Table("sync_checkpoints", PerCompany("entity_type")), Table("sync_runs", {})>>

Upgrade0001 ==
    CreateAll(CompanyTable \o LedgerTables \o InventoryTables \o VoucherTables \o StateTables)

Downgrade0001 ==
    DropAll(<<"sync_runs", "sync_checkpoints", "gst_details", "voucher_inventory_entries",
              "voucher_ledger_entries", "vouchers", "stock_items", "stock_groups", "godowns",
              "units", "voucher_types", "ledgers", "ledger_groups", "companies">>)

(***************************************************************************)
(* Revision 0002.                                                          *)
(***************************************************************************)
Upgrade0002 ==
    CreateAll(<<Table("purchase_orders", PerCompany("voucher_number")),
                Child("purchase_order_items", "purchase_orders")>>)

\* Defective variant: the parent goes first.
Downgrade0002_ParentFirst == DropAll(<<"purchase_orders", "purchase_order_items">>)

Downgrade0002 == DropAll(<<"purchase_order_items", "purchase_orders">>)

(***************************************************************************)
(* Revision 0003.                                                          *)
(***************************************************************************)
ArchiveKey == PerCompany("entity_type") \cup {"guid"}
VersionKey == ArchiveKey \cup {"xml_hash"}

RunStatistics ==
    {"records_inserted", "records_updated", "records_skipped", "parser_version",
     "schema_version"}

Upgrade0003 ==
    CreateAll(<<Table("tally_raw_archive", ArchiveKey),
                Table("tally_entity_versions", VersionKey)>>)
    \o <<AddColumns("sync_runs", RunStatistics)>>

Downgrade0003 ==
    <<DropColumns("sync_runs", RunStatistics)>>
    \o DropAll(<<"tally_entity_versions", "tally_raw_archive">>)

(***************************************************************************)
(* alembic upgrade and downgrade.                                          *)
(***************************************************************************)
Newest == 3
Upgrades == <<Upgrade0001, Upgrade0002, Upgrade0003>>
Downgrades == <<Downgrade0001, Downgrade0002, Downgrade0003>>

\* The steps from one revision to another.
Path(from, to) ==
    LET up(n) == IF from < n /\ n <= to THEN Upgrades[n] ELSE <<>>
        down(n) == IF to < n /\ n <= from THEN Downgrades[n] ELSE <<>>
    IN  up(1) \o up(2) \o up(3) \o down(3) \o down(2) \o down(1)

\* What PostgreSQL lets pass; tables is a function from the tables' names.
Possible(step, tables) ==
    CASE step.op = "create" ->
            step.table \notin DOMAIN tables /\ step.parent \in DOMAIN tables \cup {""}
      [] step.op = "drop" ->
            /\ step.table \in DOMAIN tables
            /\ \A t \in DOMAIN tables : tables[t].parent # step.table
      [] step.op = "add" ->
            step.table \in DOMAIN tables /\ step.columns \cap tables[step.table].later = {}
      [] step.op = "remove" ->
            step.table \in DOMAIN tables /\ step.columns \subseteq tables[step.table].later

\* A new table is empty, and a dropped one takes its rows along.
Effect(step, tables) ==
    CASE step.op = "create" ->
            Overlay(tables, [t \in {step.table} |->
                [unique |-> step.unique, parent |-> step.parent, later |-> {}, rows |-> {}]])
      [] step.op = "drop" -> Restrict(tables, DOMAIN tables \ {step.table})
      [] step.op = "add" -> [tables EXCEPT ![step.table].later = @ \cup step.columns]
      [] step.op = "remove" -> [tables EXCEPT ![step.table].later = @ \ step.columns]

\* A statement that is refused ends the migration.
Done(step, before) ==
    IF before.failed \/ ~Possible(step, before.tables) THEN [before EXCEPT !.failed = TRUE]
    ELSE [before EXCEPT !.tables = Effect(step, @)]

\* All steps are one transaction.
Migrated(steps, tables) ==
    LET done[i \in 0..Len(steps)] ==
            IF i = 0 THEN [failed |-> FALSE, tables |-> tables] ELSE Done(steps[i], done[i-1])
    IN  done[Len(steps)]

(***************************************************************************)
(* The ORM models.                                                         *)
(***************************************************************************)
CompanyModels == {Table("companies", {"name"})}

LedgerModels ==
    {Table(t, PerCompany("name")) : t \in {"ledger_groups", "ledgers", "voucher_types"}}

InventoryModels ==
    {Table(t, PerCompany("name")) : t \in {"units", "godowns", "stock_groups", "stock_items"}}

VoucherModels ==
    {Table("vouchers", {"company_name", "voucher_number", "voucher_type"})}
    \cup {Child(t, "vouchers") :
            t \in {"voucher_ledger_entries", "voucher_inventory_entries", "gst_details"}}

OrderModels ==
    {Table("purchase_orders", PerCompany("voucher_number")),
     Child("purchase_order_items", "purchase_orders")}

ArchiveModels ==
    {Table("tally_raw_archive", {"entity_type", "company_name", "guid"}),
     Table("tally_entity_versions", {"entity_type", "company_name", "guid", "xml_hash"})}

StateModels ==
    {Table("sync_checkpoints", PerCompany("entity_type")),
     [Table("sync_runs", {}) EXCEPT !.later = RunStatistics]}

Models ==
    UNION {CompanyModels, LedgerModels, InventoryModels, VoucherModels, OrderModels,
           ArchiveModels, StateModels}

\* What the tables of a database are declared as.
Declared(tables) ==
    {[table |-> t, unique |-> tables[t].unique, parent |-> tables[t].parent,
      later |-> tables[t].later] : t \in DOMAIN tables}
=============================================================================
