--------------------------- MODULE DatabaseProofs ---------------------------
(***************************************************************************)
(* Proofs about Database, for any companies, objects and requests, any     *)
(* number of saves, migrations and syncs:                                  *)
(*   SkippedAreStored    what the hash filter skips is in its table;       *)
(*   OthersAreUntouched  a sync changes no other company's or entity's     *)
(*                       rows in the tables that they share;               *)
(*   FullSyncCatchesUp   a full sync of a whole export shows all of it;    *)
(*   CountsAreTrue       the counts of a run are what it did;              *)
(*   SchemaAlwaysServes  the tables are those of their revision and what   *)
(*                       the services need.                                *)
(* All five rest on one inductive invariant, DatabaseInv, the last one     *)
(* also on Revised.                                                        *)
(***************************************************************************)
EXTENDS Database, LoopTheorems, FiniteSetTheorems

(***************************************************************************)
(* The steps of a migration.                                               *)
(***************************************************************************)

TableNames ==
    {"companies", "ledger_groups", "ledgers", "voucher_types", "units", "godowns",
     "stock_groups", "stock_items", "vouchers", "voucher_ledger_entries",
     "voucher_inventory_entries", "gst_details", "sync_checkpoints", "sync_runs",
     "purchase_orders", "purchase_order_items", "tally_raw_archive",
     "tally_entity_versions"}

Columns ==
    {"company_name", "name", "voucher_number", "voucher_type", "entity_type", "guid",
     "xml_hash"} \cup RunStatistics

Fields(contents) ==
    [unique : SUBSET Columns, parent : TableNames \cup {""}, later : SUBSET Columns,
     rows : contents]

Declarations(names) ==
    [table : names, unique : SUBSET Columns, parent : TableNames \cup {""},
     later : SUBSET Columns]

\* The steps that create no other tables than these.
StepsMaking(names) ==
    [op : {"create"}, table : names, unique : SUBSET Columns, parent : TableNames \cup {""}]
    \cup [op : {"drop"}, table : TableNames]
    \cup [op : {"add", "remove"}, table : TableNames, columns : SUBSET Columns]

Steps == StepsMaking(TableNames)

\* All but the archive, which the newest revision brings.
Early == TableNames \ {"tally_raw_archive"}

LEMMA AllSteps ==
    ASSUME NEW names \in SUBSET TableNames
    PROVE  /\ \A defs \in Seq(Declarations(names)) : CreateAll(defs) \in Seq(StepsMaking(names))
           /\ \A dropped \in Seq(TableNames) : DropAll(dropped) \in Seq(StepsMaking(names))
           /\ \A s, t \in Seq(StepsMaking(names)) : s \o t \in Seq(StepsMaking(names))
           /\ \A s \in Seq(StepsMaking(names)) : s \in Seq(Steps)
<1>1. ASSUME NEW defs \in Seq(Declarations(names))
      PROVE  CreateAll(defs) \in Seq(StepsMaking(names))
  <2>1. ASSUME NEW def \in Declarations(names) PROVE Create(def) \in StepsMaking(names)
    BY DEF StepsMaking, Create, Declarations
  <2>2. Len(defs) \in Nat /\ DOMAIN defs = 1..Len(defs) OBVIOUS
  <2> QED BY <2>1, <2>2 DEF CreateAll
<1>2. ASSUME NEW dropped \in Seq(TableNames) PROVE DropAll(dropped) \in Seq(StepsMaking(names))
  <2>1. ASSUME NEW t \in TableNames PROVE Drop(t) \in StepsMaking(names)
    BY DEF StepsMaking, Drop
  <2>2. Len(dropped) \in Nat /\ DOMAIN dropped = 1..Len(dropped) OBVIOUS
  <2> QED BY <2>1, <2>2 DEF DropAll
<1>3. \A s, t \in Seq(StepsMaking(names)) : s \o t \in Seq(StepsMaking(names)) OBVIOUS
<1>4. ASSUME NEW s \in Seq(StepsMaking(names)) PROVE s \in Seq(Steps)
  <2>1. StepsMaking(names) \subseteq Steps BY DEF StepsMaking, Steps
  <2> QED BY <2>1
<1> QED BY <1>1, <1>2, <1>3, <1>4

LEMMA DeclarationTypes ==
    ASSUME NEW names, NEW t \in names, NEW unique, unique \subseteq Columns,
           NEW parent \in TableNames
    PROVE  Table(t, unique) \in Declarations(names) /\ Child(t, parent) \in Declarations(names)
BY DEF Table, Child, Declarations

LEMMA ColumnTypes ==
    /\ PerCompany("name") \subseteq Columns /\ PerCompany("voucher_number") \subseteq Columns
    /\ PerCompany("voucher_number") \cup {"voucher_type"} \subseteq Columns
    /\ PerCompany("entity_type") \subseteq Columns
    /\ ArchiveKey \subseteq Columns /\ VersionKey \subseteq Columns
    /\ RunStatistics \subseteq Columns /\ {"name"} \subseteq Columns /\ {} \subseteq Columns
BY DEF PerCompany, ArchiveKey, VersionKey, RunStatistics, Columns

LEMMA UpgradeTypes ==
    /\ Upgrade0001 \in Seq(StepsMaking(Early)) /\ Upgrade0002 \in Seq(StepsMaking(Early))
    /\ Upgrade0003 \in Seq(Steps)
<1>0. Early \subseteq TableNames BY DEF Early
<1>1. CompanyTable \in Seq(Declarations(Early))
  <2>2. Table("companies", {"name"}) \in Declarations(Early) BY ColumnTypes, DeclarationTypes DEF Early, TableNames
  <2> QED BY <2>2 DEF CompanyTable
<1>2. ASSUME NEW t \in Early PROVE Table(t, PerCompany("name")) \in Declarations(Early)
  <2>1. "companies" \in TableNames BY DEF TableNames
  <2> QED BY <2>1, ColumnTypes, DeclarationTypes
<1>3. LedgerTables \in Seq(Declarations(Early))
  <2>1. /\ Table("ledger_groups", PerCompany("name")) \in Declarations(Early)
        /\ Table("ledgers", PerCompany("name")) \in Declarations(Early)
        /\ Table("voucher_types", PerCompany("name")) \in Declarations(Early)
    BY <1>2 DEF Early, TableNames
  <2> QED BY <2>1 DEF LedgerTables
<1>4. InventoryTables \in Seq(Declarations(Early))
  <2>1. /\ Table("units", PerCompany("name")) \in Declarations(Early)
        /\ Table("godowns", PerCompany("name")) \in Declarations(Early)
        /\ Table("stock_groups", PerCompany("name")) \in Declarations(Early)
        /\ Table("stock_items", PerCompany("name")) \in Declarations(Early)
    BY <1>2 DEF Early, TableNames
  <2> QED BY <2>1 DEF InventoryTables
<1>5. VoucherTables \in Seq(Declarations(Early))
  <2>1. Table("vouchers", PerCompany("voucher_number") \cup {"voucher_type"}) \in Declarations(Early)
    BY ColumnTypes, DeclarationTypes DEF Early, TableNames
  <2>2. /\ Child("voucher_ledger_entries", "vouchers") \in Declarations(Early)
        /\ Child("voucher_inventory_entries", "vouchers") \in Declarations(Early)
        /\ Child("gst_details", "vouchers") \in Declarations(Early)
    BY ColumnTypes, DeclarationTypes DEF Early, TableNames
  <2> QED BY <2>1, <2>2 DEF VoucherTables
<1>6. StateTables \in Seq(Declarations(Early))
  <2>1. Table("sync_checkpoints", PerCompany("entity_type")) \in Declarations(Early)
    BY ColumnTypes, DeclarationTypes DEF Early, TableNames
  <2>2. Table("sync_runs", {}) \in Declarations(Early) BY ColumnTypes, DeclarationTypes DEF Early, TableNames
  <2> QED BY <2>1, <2>2 DEF StateTables
<1>7. Upgrade0001 \in Seq(StepsMaking(Early))
  <2>1. \A s, t \in Seq(Declarations(Early)) : s \o t \in Seq(Declarations(Early)) OBVIOUS
  <2>2. CompanyTable \o LedgerTables \o InventoryTables \o VoucherTables \o StateTables
          \in Seq(Declarations(Early))
    BY <1>1, <1>3, <1>4, <1>5, <1>6, <2>1
  <2> QED BY <2>2, <1>0, AllSteps DEF Upgrade0001
<1>8. Upgrade0002 \in Seq(StepsMaking(Early))
  <2>1. Table("purchase_orders", PerCompany("voucher_number")) \in Declarations(Early)
    BY ColumnTypes, DeclarationTypes DEF Early, TableNames
  <2>2. Child("purchase_order_items", "purchase_orders") \in Declarations(Early)
    BY ColumnTypes, DeclarationTypes DEF Early, TableNames
  <2>3. <<Table("purchase_orders", PerCompany("voucher_number")),
          Child("purchase_order_items", "purchase_orders")>> \in Seq(Declarations(Early))
    BY <2>1, <2>2
  <2> QED BY <2>3, <1>0, AllSteps DEF Upgrade0002
<1>9. Upgrade0003 \in Seq(Steps)
  <2>1. /\ Table("tally_raw_archive", ArchiveKey) \in Declarations(TableNames)
        /\ Table("tally_entity_versions", VersionKey) \in Declarations(TableNames)
    BY ColumnTypes, DeclarationTypes DEF TableNames
  <2>2. <<Table("tally_raw_archive", ArchiveKey),
          Table("tally_entity_versions", VersionKey)>> \in Seq(Declarations(TableNames))
    BY <2>1
  <2>3. AddColumns("sync_runs", RunStatistics) \in Steps BY ColumnTypes DEF AddColumns, Steps, StepsMaking, TableNames
  <2>4. <<AddColumns("sync_runs", RunStatistics)>> \in Seq(Steps) BY <2>3
  <2> QED BY <2>2, <2>4, AllSteps DEF Upgrade0003, Steps
<1> QED BY <1>7, <1>8, <1>9

LEMMA DowngradeTypes ==
    /\ Downgrade0001 \in Seq(StepsMaking(Early)) /\ Downgrade0002 \in Seq(StepsMaking(Early))
    /\ Downgrade0003 \in Seq(StepsMaking(Early))
<1>0. Early \subseteq TableNames BY DEF Early
<1>1. Downgrade0001 \in Seq(StepsMaking(Early))
  <2>1. <<"sync_runs", "sync_checkpoints", "gst_details", "voucher_inventory_entries",
          "voucher_ledger_entries", "vouchers", "stock_items", "stock_groups", "godowns",
          "units", "voucher_types", "ledgers", "ledger_groups", "companies">> \in Seq(TableNames)
    BY DEF TableNames
  <2> QED BY <2>1, <1>0, AllSteps DEF Downgrade0001
<1>2. Downgrade0002 \in Seq(StepsMaking(Early))
  <2>1. <<"purchase_order_items", "purchase_orders">> \in Seq(TableNames) BY DEF TableNames
  <2> QED BY <2>1, <1>0, AllSteps DEF Downgrade0002
<1>3. Downgrade0003 \in Seq(StepsMaking(Early))
  <2>1. <<"tally_entity_versions", "tally_raw_archive">> \in Seq(TableNames) BY DEF TableNames
  <2>2. DropAll(<<"tally_entity_versions", "tally_raw_archive">>) \in Seq(StepsMaking(Early))
    BY <2>1, <1>0, AllSteps
  <2>3. DropColumns("sync_runs", RunStatistics) \in StepsMaking(Early) BY ColumnTypes DEF DropColumns, StepsMaking, TableNames
  <2>4. <<DropColumns("sync_runs", RunStatistics)>> \in Seq(StepsMaking(Early)) BY <2>3
  <2> QED BY <2>2, <2>4, <1>0, AllSteps DEF Downgrade0003
<1> QED BY <1>1, <1>2, <1>3

LEMMA PathType ==
    ASSUME NEW from \in 0..Newest, NEW to \in 0..Newest
    PROVE  /\ Path(from, to) \in Seq(Steps)
           /\ to # Newest => Path(from, to) \in Seq(StepsMaking(Early))
<1> DEFINE up(n) == IF from < n /\ n <= to THEN Upgrades[n] ELSE <<>>
           down(n) == IF to < n /\ n <= from THEN Downgrades[n] ELSE <<>>
<1>1. Early \subseteq TableNames BY DEF Early
<1>2. \A names : <<>> \in Seq(StepsMaking(names)) OBVIOUS
<1>3. up(1) \in Seq(StepsMaking(Early)) /\ up(2) \in Seq(StepsMaking(Early))
  BY <1>2, UpgradeTypes DEF Upgrades
<1>4. up(3) \in Seq(Steps) /\ (to # Newest => up(3) = <<>>)
  BY <1>2, UpgradeTypes DEF Upgrades, Newest, Steps
<1>5. /\ down(1) \in Seq(StepsMaking(Early)) /\ down(2) \in Seq(StepsMaking(Early))
      /\ down(3) \in Seq(StepsMaking(Early))
  BY <1>2, DowngradeTypes DEF Downgrades
<1>6. Path(from, to) = up(1) \o up(2) \o up(3) \o down(3) \o down(2) \o down(1)
  BY DEF Path
<1> HIDE DEF up, down
<1>7. to # Newest => Path(from, to) \in Seq(StepsMaking(Early))
  BY <1>1, <1>2, <1>3, <1>4, <1>5, <1>6, AllSteps
<1>8. Path(from, to) \in Seq(Steps)
  <2>1. /\ up(1) \in Seq(Steps) /\ up(2) \in Seq(Steps) /\ up(3) \in Seq(Steps)
        /\ down(1) \in Seq(Steps) /\ down(2) \in Seq(Steps) /\ down(3) \in Seq(Steps)
    BY <1>1, <1>3, <1>4, <1>5, AllSteps
  <2>2. \A s, t \in Seq(Steps) : s \o t \in Seq(Steps) OBVIOUS
  <2> QED BY <1>6, <2>1, <2>2
<1> QED BY <1>7, <1>8

(***************************************************************************)
(* Migrations: a table that is there afterwards is new and empty, or has   *)
(* the rows it had.                                                        *)
(***************************************************************************)

Contents(old) == {old[t].rows : t \in DOMAIN old}

\* What a database is, as far as migrations go.
Databases(contents) == UNION {[D -> Fields(contents)] : D \in SUBSET TableNames}

Shrunk(old) ==
    {new \in Databases({{}} \cup Contents(old)) :
        \A t \in DOMAIN new :
            new[t].rows = {} \/ (t \in DOMAIN old /\ new[t].rows = old[t].rows)}

Outcomes(old) == [failed : BOOLEAN, tables : Shrunk(old)]

LEMMA EffectShrinks ==
    ASSUME NEW old, NEW new \in Shrunk(old), NEW step \in Steps, Possible(step, new)
    PROVE  Effect(step, new) \in Shrunk(old)
<1> DEFINE F == Fields({{}} \cup Contents(old))
<1>1. new \in [DOMAIN new -> F] /\ DOMAIN new \subseteq TableNames BY DEF Shrunk, Databases
<1>2. ASSUME NEW D \in SUBSET TableNames, NEW g \in [D -> F],
             \A t \in D : g[t].rows = {} \/ (t \in DOMAIN old /\ g[t].rows = old[t].rows)
      PROVE  g \in Shrunk(old)
  BY <1>2 DEF Shrunk, Databases
<1>3. step.op \in {"create", "drop", "add", "remove"} /\ step.table \in TableNames
  BY DEF Steps, StepsMaking
<1>4. CASE step.op = "create"
  <2> DEFINE def == [unique |-> step.unique, parent |-> step.parent, later |-> {}, rows |-> {}]
             made == [t \in {step.table} |-> def]
  <2>1. step.unique \in SUBSET Columns /\ step.parent \in TableNames \cup {""}
    BY <1>4 DEF Steps, StepsMaking
  <2>2. def \in F BY <2>1 DEF Fields
  <2>3. Effect(step, new) = Overlay(new, made) BY <1>4 DEF Effect
  <2>4. DOMAIN Overlay(new, made) = DOMAIN new \cup {step.table} BY DEF Overlay
  <2>5. ASSUME NEW t \in DOMAIN new \cup {step.table}
        PROVE  Overlay(new, made)[t] = IF t = step.table THEN def ELSE new[t]
    BY DEF Overlay
  <2> HIDE DEF made
  <2>6. Overlay(new, made) = [t \in DOMAIN new \cup {step.table} |-> Overlay(new, made)[t]]
    BY <2>4 DEF Overlay
  <2>7. Overlay(new, made) \in [DOMAIN new \cup {step.table} -> F]
    <3> HIDE DEF def, F
    <3> QED BY <1>1, <2>2, <2>5, <2>6
  <2>8. ASSUME NEW t \in DOMAIN new \cup {step.table}
        PROVE  \/ Overlay(new, made)[t].rows = {}
               \/ t \in DOMAIN old /\ Overlay(new, made)[t].rows = old[t].rows
    BY <2>5 DEF Shrunk
  <2> HIDE DEF F
  <2> QED BY <1>1, <1>2, <1>3, <2>3, <2>7, <2>8
<1>5. CASE step.op = "drop"
  <2> DEFINE D == DOMAIN new \ {step.table}
             left == [t \in D |-> new[t]]
  <2>1. Effect(step, new) = left BY <1>5 DEF Effect, Restrict
  <2>2. left \in [D -> F] BY <1>1
  <2>3. \A t \in D : left[t].rows = {} \/ (t \in DOMAIN old /\ left[t].rows = old[t].rows)
    BY DEF Shrunk
  <2> HIDE DEF left, F
  <2> QED BY <1>1, <1>2, <2>1, <2>2, <2>3
<1>6. CASE step.op \in {"add", "remove"}
  <2>1. PICK later : Effect(step, new) = [new EXCEPT ![step.table].later = later]
                     /\ later \in SUBSET Columns
    <3>1. step.columns \in SUBSET Columns BY <1>6 DEF Steps, StepsMaking
    <3>2. step.table \in DOMAIN new BY <1>6 DEF Possible
    <3>3. new[step.table].later \in SUBSET Columns BY <1>1, <3>2 DEF Fields
    <3>4. CASE step.op = "add"
      <4> DEFINE columns == new[step.table].later \cup step.columns
      <4>1. Effect(step, new) = [new EXCEPT ![step.table].later = columns]
        BY <3>4 DEF Effect
      <4>2. columns \in SUBSET Columns BY <3>1, <3>3
      <4> HIDE DEF columns
      <4> QED BY <4>1, <4>2
    <3>5. CASE step.op = "remove"
      <4> DEFINE columns == new[step.table].later \ step.columns
      <4>1. Effect(step, new) = [new EXCEPT ![step.table].later = columns]
        BY <3>5 DEF Effect
      <4>2. columns \in SUBSET Columns BY <3>1, <3>3
      <4> HIDE DEF columns
      <4> QED BY <4>1, <4>2
    <3> QED BY <1>6, <3>4, <3>5
  <2> DEFINE g == [new EXCEPT ![step.table].later = later]
  <2>2. \A t \in DOMAIN new : new[t] \in F BY <1>1
  <2>3. ASSUME NEW t \in DOMAIN new PROVE g[t] \in F /\ g[t].rows = new[t].rows
    BY <2>1, <2>2 DEF Fields
  <2>4. DOMAIN g = DOMAIN new /\ g = [t \in DOMAIN new |-> g[t]] OBVIOUS
  <2> HIDE DEF g, F
  <2>5. g \in [DOMAIN new -> F] BY <2>3, <2>4
  <2>6. \A t \in DOMAIN new : g[t].rows = {} \/ (t \in DOMAIN old /\ g[t].rows = old[t].rows)
    BY <2>3 DEF Shrunk
  <2> QED BY <1>1, <1>2, <2>1, <2>5, <2>6 DEF g
<1> QED BY <1>3, <1>4, <1>5, <1>6

LEMMA DoneStays ==
    ASSUME NEW old, NEW before \in Outcomes(old), NEW step \in Steps
    PROVE  Done(step, before) \in Outcomes(old)
<1>1. before.failed \in BOOLEAN /\ before.tables \in Shrunk(old) BY DEF Outcomes
<1>2. CASE before.failed \/ ~Possible(step, before.tables)
  <2>1. Done(step, before) = [before EXCEPT !.failed = TRUE] BY <1>2 DEF Done
  <2> QED BY <2>1 DEF Outcomes
<1>3. CASE ~(before.failed \/ ~Possible(step, before.tables))
  <2>1. Done(step, before) = [before EXCEPT !.tables = Effect(step, before.tables)]
    BY <1>3 DEF Done
  <2>2. Effect(step, before.tables) \in Shrunk(old) BY <1>1, <1>3, EffectShrinks
  <2> QED BY <2>1, <2>2 DEF Outcomes
<1> QED BY <1>2, <1>3

\* The outcomes of the steps, one after the other.
Run(done, steps, old) ==
    /\ done \in [0..Len(steps) -> Outcomes(old)]
    /\ done[0] = [failed |-> FALSE, tables |-> old]
    /\ \A i \in 1..Len(steps) : done[i] = Done(steps[i], done[i-1])

LEMMA MigratedRuns ==
    ASSUME NEW old, old \in Databases(Contents(old)), NEW steps \in Seq(Steps)
    PROVE  \E done : Run(done, steps, old) /\ Migrated(steps, old) = done[Len(steps)]
<1> DEFINE n == Len(steps)
           init == [failed |-> FALSE, tables |-> old]
           S == Outcomes(old)
           turn == [i \in 1..n |-> [before \in S |-> Done(steps[i], before)]]
           Body(f) == [i \in 0..n |-> IF i = 0 THEN init ELSE Done(steps[i], f[i-1])]
           done == CHOOSE f : f = Body(f)
<1>1. n \in Nat OBVIOUS
<1>2. init \in S
  <2>1. old \in Shrunk(old)
    <3>1. Fields(Contents(old)) \subseteq Fields({{}} \cup Contents(old)) BY DEF Fields
    <3>2. PICK D \in SUBSET TableNames : old \in [D -> Fields(Contents(old))] BY DEF Databases
    <3>3. old \in [D -> Fields({{}} \cup Contents(old))] BY <3>1, <3>2
    <3>4. old \in Databases({{}} \cup Contents(old)) BY <3>3 DEF Databases
    <3> QED BY <3>4 DEF Shrunk
  <2> QED BY <2>1 DEF Outcomes
<1>3. ASSUME NEW i \in 1..n, NEW before \in S PROVE Done(steps[i], before) \in S
  <2>1. steps[i] \in Steps OBVIOUS
  <2> QED BY <2>1, DoneStays
<1>4. turn \in [1..n -> [S -> S]]
  <2> HIDE DEF S, n
  <2> QED BY <1>3
<1> HIDE DEF n, S, init
<1>5. \E f : f = Body(f)
  <2>1. PICK g \in [0..n -> S] : g[0] = init /\ \A i \in 1..n : g[i] = turn[i][g[i-1]]
    <3>1. Results(S, init, n, turn) # {}
      <4> HIDE DEF turn, done, Body
      <4> QED BY <1>1, <1>2, <1>4, LoopExists
    <3> HIDE DEF turn
    <3> QED BY <3>1 DEF Results
  <2>2. ASSUME NEW i \in 0..n PROVE g[i] = Body(g)[i]
    <3>1. CASE i = 0 BY <2>1, <3>1
    <3>2. CASE i # 0
      <4>1. i \in 1..n /\ i - 1 \in 0..n BY <3>2, <1>1
      <4>2. g[i-1] \in S BY <2>1, <4>1
      <4>3. g[i] = Done(steps[i], g[i-1]) BY <2>1, <4>1, <4>2
      <4> QED BY <3>2, <4>3
    <3> QED BY <3>1, <3>2
  <2> QED BY <2>1, <2>2
<1>6. done = Body(done) BY <1>5
<1> HIDE DEF done
<1>7. done = [i \in 0..n |-> done[i]] BY <1>6
<1>8. done[0] = init BY <1>1, <1>6
<1>9. ASSUME NEW i \in 1..n PROVE done[i] = Done(steps[i], done[i-1])
  <2>1. i \in 0..n /\ i # 0 BY <1>1
  <2>2. done[i] = Body(done)[i] BY <1>6
  <2> QED BY <2>1, <2>2
<1>10. \A i \in 0..n : done[i] \in S
  <2> DEFINE Always == [i \in 0..n |-> S]
  <2>1. 0 \in 0..n /\ done[0] \in Always[0] BY <1>1, <1>2, <1>8
  <2>2. ASSUME NEW i \in 1..n, done[i-1] \in Always[i-1] PROVE done[i] \in Always[i]
    <3>1. i \in 0..n /\ i - 1 \in 0..n BY <1>1
    <3>2. done[i-1] \in S BY <2>2, <3>1
    <3> QED BY <1>3, <1>9, <3>1, <3>2
  <2>3. Holds(done, Always, 0, n)
    <3> HIDE DEF Always
    <3> QED BY <1>1, <2>1, <2>2, LoopKeeps
  <2> QED BY <1>1, <2>3 DEF Holds
<1>11. Run(done, steps, old)
  <2> QED BY <1>7, <1>8, <1>9, <1>10 DEF Run, n, S, init
<1>12. Migrated(steps, old) = done[n] BY DEF Migrated, n, init, done
<1> QED BY <1>11, <1>12 DEF n

\* What a migration leaves is a database again.
LEMMA ShrunkSelf ==
    ASSUME NEW old, NEW new \in Shrunk(old)
    PROVE  new \in Databases(Contents(new)) /\ new \in Shrunk(new)
<1>1. PICK D \in SUBSET TableNames : new \in [D -> Fields({{}} \cup Contents(old))]
  BY DEF Shrunk, Databases
<1>2. ASSUME NEW t \in D
      PROVE  new[t] \in Fields(Contents(new)) /\ new[t] \in Fields({{}} \cup Contents(new))
  <2>1. new[t] \in Fields({{}} \cup Contents(old)) BY <1>1
  <2>2. new[t].rows \in Contents(new) BY <1>1 DEF Contents
  <2> QED BY <2>1, <2>2 DEF Fields
<1>3. /\ new \in [D -> Fields(Contents(new))]
      /\ new \in [D -> Fields({{}} \cup Contents(new))]
  BY <1>1, <1>2
<1>4. new \in Databases(Contents(new)) /\ new \in Databases({{}} \cup Contents(new))
  BY <1>3 DEF Databases
<1> QED BY <1>4 DEF Shrunk

LEMMA MigratedShrinks ==
    ASSUME NEW old, old \in Databases(Contents(old)), NEW steps \in Seq(Steps)
    PROVE  Migrated(steps, old).tables \in Shrunk(old)
<1>1. PICK done : Run(done, steps, old) /\ Migrated(steps, old) = done[Len(steps)]
  BY MigratedRuns
<1>2. Len(steps) \in 0..Len(steps) OBVIOUS
<1>3. done[Len(steps)] \in Outcomes(old) BY <1>1, <1>2 DEF Run
<1> QED BY <1>1, <1>3 DEF Outcomes

LEMMA EffectDomain ==
    ASSUME NEW step \in Steps, NEW new, Possible(step, new)
    PROVE  DOMAIN Effect(step, new) =
              IF step.op = "create" THEN DOMAIN new \cup {step.table}
              ELSE IF step.op = "drop" THEN DOMAIN new \ {step.table} ELSE DOMAIN new
<1>1. step.op \in {"create", "drop", "add", "remove"} BY DEF Steps, StepsMaking
<1>2. CASE step.op = "create" BY <1>2 DEF Effect, Overlay
<1>3. CASE step.op = "drop" BY <1>3 DEF Effect, Restrict
<1>4. CASE step.op = "add" BY <1>4 DEF Effect
<1>5. CASE step.op = "remove" BY <1>5 DEF Effect
<1> QED BY <1>1, <1>2, <1>3, <1>4, <1>5

\* In the tables that the step leaves there is t, or there is not.
Leaves(step, t, there) ==
    step.op = (IF there THEN "create" ELSE "drop") /\ step.table = t

\* What a step makes of a table is so at the end of a migration of which no
\* later step makes the opposite of it.
LEMMA Lasts ==
    ASSUME NEW old, old \in Databases(Contents(old)), NEW t, NEW there \in BOOLEAN,
           NEW steps \in Seq(Steps), NEW k \in 0..Len(steps),
           IF k = 0 THEN (t \in DOMAIN old) = there ELSE Leaves(steps[k], t, there),
           \A i \in 1..Len(steps) : k < i => ~Leaves(steps[i], t, ~there),
           ~Migrated(steps, old).failed
    PROVE  (t \in DOMAIN Migrated(steps, old).tables) = there
<1> DEFINE n == Len(steps)
           Good == {d \in Outcomes(old) : d.failed \/ (t \in DOMAIN d.tables) = there}
           Always == [i \in 0..n |-> Good]
<1>1. PICK done : Run(done, steps, old) /\ Migrated(steps, old) = done[n]
  BY MigratedRuns
<1>2. n \in Nat OBVIOUS
<1>3. ASSUME NEW i \in 1..n
      PROVE  /\ i - 1 \in 0..n /\ i \in 0..n /\ done[i-1] \in Outcomes(old)
             /\ steps[i] \in Steps
             /\ done[i] \in Outcomes(old) /\ done[i] = Done(steps[i], done[i-1])
  <2>1. i - 1 \in 0..n /\ i \in 0..n BY <1>2
  <2>2. steps[i] \in Steps OBVIOUS
  <2> QED BY <1>1, <2>1, <2>2 DEF Run
<1>4. ASSUME NEW i \in 1..n, ~done[i].failed
      PROVE  /\ ~done[i-1].failed /\ Possible(steps[i], done[i-1].tables)
             /\ done[i].tables = Effect(steps[i], done[i-1].tables)
  <2>1. ~(done[i-1].failed \/ ~Possible(steps[i], done[i-1].tables))
    <3> SUFFICES ASSUME done[i-1].failed \/ ~Possible(steps[i], done[i-1].tables) PROVE FALSE
      OBVIOUS
    <3>1. done[i] = [done[i-1] EXCEPT !.failed = TRUE] BY <1>3 DEF Done
    <3> QED BY <1>3, <1>4, <3>1 DEF Outcomes
  <2>2. done[i] = [done[i-1] EXCEPT !.tables = Effect(steps[i], done[i-1].tables)]
    BY <1>3, <2>1 DEF Done
  <2> QED BY <1>3, <2>1, <2>2 DEF Outcomes
<1>5. ASSUME NEW i \in 1..n,
             \/ Leaves(steps[i], t, there)
             \/ done[i-1] \in Good /\ ~Leaves(steps[i], t, ~there)
      PROVE  done[i] \in Good
  <2> DEFINE step == steps[i]
             before == done[i-1].tables
  <2> SUFFICES ASSUME ~done[i].failed PROVE (t \in DOMAIN Effect(step, before)) = there
    BY <1>3, <1>4
  <2>1. /\ ~done[i-1].failed
        /\ DOMAIN Effect(step, before) =
              IF step.op = "create" THEN DOMAIN before \cup {step.table}
              ELSE IF step.op = "drop" THEN DOMAIN before \ {step.table} ELSE DOMAIN before
    BY <1>3, <1>4, EffectDomain
  <2> HIDE DEF step, before
  <2>2. CASE Leaves(step, t, there) BY <2>1, <2>2 DEF Leaves
  <2>3. CASE ~Leaves(step, t, there)
    <3>1. (t \in DOMAIN before) = there /\ ~Leaves(step, t, ~there)
      BY <1>5, <2>1, <2>3 DEF step, before
    <3> QED BY <2>1, <2>3, <3>1 DEF Leaves
  <2> QED BY <2>2, <2>3
<1>6. done[k] \in Always[k]
  <2>1. CASE k = 0
    <3>1. 0 \in 0..Len(steps) BY <1>2
    <3>2. done[0] = [failed |-> FALSE, tables |-> old] /\ done[0] \in Outcomes(old)
      BY <1>1, <3>1 DEF Run
    <3> QED BY <2>1, <3>1, <3>2
  <2>2. CASE k # 0
    <3>1. k \in 1..n /\ Leaves(steps[k], t, there) BY <2>2
    <3> HIDE DEF Good
    <3> QED BY <1>5, <3>1
  <2> QED BY <2>1, <2>2
<1>7. ASSUME NEW i \in 1..n, k < i, done[i-1] \in Always[i-1] PROVE done[i] \in Always[i]
  <2>1. i \in 0..n /\ i - 1 \in 0..n BY <1>2
  <2>2. ~Leaves(steps[i], t, ~there) BY <1>7
  <2> HIDE DEF Good
  <2> QED BY <1>5, <1>7, <2>1, <2>2
<1>8. Holds(done, Always, k, n)
  <2>1. k \in 0..n OBVIOUS
  <2> HIDE DEF Always, n
  <2> QED BY <1>2, <1>6, <1>7, <2>1, LoopKeeps
<1>9. done[n] \in Good
  <2>1. n \in k..n /\ n \in 0..n BY <1>2
  <2>2. done[n] \in Always[n]
    <3> HIDE DEF Always
    <3> QED BY <1>8, <2>1 DEF Holds
  <2> QED BY <2>1, <2>2
<1> QED BY <1>1, <1>9

\* On the way up to the newest revision the archive is created, and not
\* dropped again.
LEMMA ArchiveCreated ==
    ASSUME NEW from \in 0..Newest, from # Newest
    PROVE  \E k \in 1..Len(Path(from, Newest)) :
              /\ Leaves(Path(from, Newest)[k], "tally_raw_archive", TRUE)
              /\ \A i \in 1..Len(Path(from, Newest)) :
                    k < i => ~Leaves(Path(from, Newest)[i], "tally_raw_archive", FALSE)
<1> DEFINE up(n) == IF from < n /\ n <= Newest THEN Upgrades[n] ELSE <<>>
           down(n) == IF Newest < n /\ n <= from THEN Downgrades[n] ELSE <<>>
           creates == CreateAll(<<Table("tally_raw_archive", ArchiveKey),
                                  Table("tally_entity_versions", VersionKey)>>)
<1>1. down(1) = <<>> /\ down(2) = <<>> /\ down(3) = <<>> BY DEF Newest
<1>2. up(3) = Upgrade0003 BY DEF Newest, Upgrades
<1>3. up(1) \in Seq(Steps) /\ up(2) \in Seq(Steps) /\ Upgrade0003 \in Seq(Steps)
  <2>1. Early \subseteq TableNames BY DEF Early
  <2>2. up(1) \in Seq(StepsMaking(Early)) /\ up(2) \in Seq(StepsMaking(Early))
    BY UpgradeTypes DEF Upgrades
  <2> QED BY <2>1, <2>2, UpgradeTypes, AllSteps
<1>4. Path(from, Newest) = up(1) \o up(2) \o up(3) \o down(3) \o down(2) \o down(1)
  BY DEF Path
<1> HIDE DEF up, down
<1>5. Path(from, Newest) = (up(1) \o up(2)) \o Upgrade0003
  <2>1. \A s \in Seq(Steps) : s \o <<>> = s /\ s \o Upgrade0003 \in Seq(Steps) BY <1>3
  <2>2. up(1) \o up(2) \in Seq(Steps) BY <1>3
  <2>3. (up(1) \o up(2)) \o Upgrade0003 \in Seq(Steps) BY <2>1, <2>2
  <2> QED BY <1>1, <1>2, <1>4, <2>1, <2>3
<1>6. /\ Len(Upgrade0003) = 3
      /\ Upgrade0003[1].op = "create" /\ Upgrade0003[1].table = "tally_raw_archive"
      /\ Upgrade0003[2].op = "create" /\ Upgrade0003[3].op = "add"
  <2>1. creates = <<Create(Table("tally_raw_archive", ArchiveKey)),
                    Create(Table("tally_entity_versions", VersionKey))>>
    BY DEF CreateAll
  <2>2. Upgrade0003 = creates \o <<AddColumns("sync_runs", RunStatistics)>> BY DEF Upgrade0003
  <2> HIDE DEF creates
  <2>3. /\ Len(Upgrade0003) = 3
        /\ Upgrade0003[1] = Create(Table("tally_raw_archive", ArchiveKey))
        /\ Upgrade0003[2] = Create(Table("tally_entity_versions", VersionKey))
        /\ Upgrade0003[3] = AddColumns("sync_runs", RunStatistics)
    BY <2>1, <2>2
  <2>4. \A def : Create(def).op = "create" /\ Create(def).table = def.table BY DEF Create
  <2>5. AddColumns("sync_runs", RunStatistics).op = "add" BY DEF AddColumns
  <2>6. Table("tally_raw_archive", ArchiveKey).table = "tally_raw_archive" BY DEF Table
  <2> QED BY <2>3, <2>4, <2>5, <2>6
<1>7. ASSUME NEW s \in Seq(Steps), NEW u \in Seq(Steps)
      PROVE  /\ Len(s \o u) = Len(s) + Len(u) /\ Len(s) \in Nat
             /\ \A i \in 1..Len(u) : (s \o u)[Len(s) + i] = u[i]
  OBVIOUS
<1> DEFINE front == up(1) \o up(2)
<1>8. front \in Seq(Steps) BY <1>3
<1> HIDE DEF front
<1>9. /\ Len(front \o Upgrade0003) = Len(front) + 3 /\ Len(front) \in Nat
      /\ (front \o Upgrade0003)[Len(front) + 1] = Upgrade0003[1]
      /\ (front \o Upgrade0003)[Len(front) + 2] = Upgrade0003[2]
      /\ (front \o Upgrade0003)[Len(front) + 3] = Upgrade0003[3]
  <2>1. /\ Len(front \o Upgrade0003) = Len(front) + Len(Upgrade0003) /\ Len(front) \in Nat
        /\ \A i \in 1..Len(Upgrade0003) : (front \o Upgrade0003)[Len(front) + i] = Upgrade0003[i]
    BY <1>3, <1>7, <1>8
  <2>2. Len(Upgrade0003) = 3 BY <1>6
  <2> QED BY <2>1, <2>2
<1>10. Path(from, Newest) = front \o Upgrade0003 BY <1>5 DEF front
<1> DEFINE path == Path(from, Newest)
           k == Len(front) + 1
<1>11. k \in 1..Len(path) /\ Leaves(path[k], "tally_raw_archive", TRUE)
  BY <1>6, <1>9, <1>10 DEF Leaves
<1>12. ASSUME NEW i \in 1..Len(path), k < i
       PROVE  ~Leaves(path[i], "tally_raw_archive", FALSE)
  <2>1. i = Len(front) + 2 \/ i = Len(front) + 3 BY <1>9, <1>10, <1>12
  <2>2. path[i].op = "create" \/ path[i].op = "add" BY <1>6, <1>9, <1>10, <2>1
  <2> HIDE DEF path
  <2> QED BY <2>2 DEF Leaves
<1> HIDE DEF path, k
<1> QED BY <1>11, <1>12 DEF path

\* On the way down from the newest revision the archive is dropped.
LEMMA ArchiveDropped ==
    ASSUME NEW to \in 0..Newest, to # Newest
    PROVE  3 \in 1..Len(Path(Newest, to)) /\ Path(Newest, to)[3] = Drop("tally_raw_archive")
<1> DEFINE up(n) == IF Newest < n /\ n <= to THEN Upgrades[n] ELSE <<>>
           down(n) == IF to < n /\ n <= Newest THEN Downgrades[n] ELSE <<>>
<1>1. up(1) = <<>> /\ up(2) = <<>> /\ up(3) = <<>> BY DEF Newest
<1>2. down(3) = Downgrade0003 BY DEF Newest, Downgrades
<1>3. down(1) \in Seq(Steps) /\ down(2) \in Seq(Steps) /\ Downgrade0003 \in Seq(Steps)
  <2>1. Early \subseteq TableNames BY DEF Early
  <2>2. down(1) \in Seq(StepsMaking(Early)) /\ down(2) \in Seq(StepsMaking(Early))
    BY DowngradeTypes DEF Downgrades
  <2> QED BY <2>1, <2>2, DowngradeTypes, AllSteps
<1>4. Path(Newest, to) = up(1) \o up(2) \o up(3) \o down(3) \o down(2) \o down(1)
  BY DEF Path
<1>5. Path(Newest, to) = Downgrade0003 \o down(2) \o down(1)
  <2> HIDE DEF up, down
  <2>1. <<>> \o <<>> \o <<>> \o Downgrade0003 = Downgrade0003 BY <1>3
  <2> QED BY <1>1, <1>2, <1>4, <2>1
<1>6. /\ Len(Downgrade0003) = 3
      /\ Downgrade0003[3] = Drop("tally_raw_archive")
  <2> DEFINE drops == DropAll(<<"tally_entity_versions", "tally_raw_archive">>)
  <2>1. drops = <<Drop("tally_entity_versions"), Drop("tally_raw_archive")>> BY DEF DropAll
  <2>2. Downgrade0003 = <<DropColumns("sync_runs", RunStatistics)>> \o drops
    BY DEF Downgrade0003
  <2> HIDE DEF drops
  <2> QED BY <2>1, <2>2
<1>7. ASSUME NEW s \in Seq(Steps), NEW t \in Seq(Steps), 3 \in 1..Len(s)
      PROVE  s \o t \in Seq(Steps) /\ 3 \in 1..Len(s \o t) /\ (s \o t)[3] = s[3]
  BY <1>7
<1> HIDE DEF up, down
<1>8. 3 \in 1..Len(Downgrade0003) BY <1>6
<1>9. /\ Downgrade0003 \o down(2) \in Seq(Steps) /\ 3 \in 1..Len(Downgrade0003 \o down(2))
      /\ (Downgrade0003 \o down(2))[3] = Downgrade0003[3]
  BY <1>3, <1>7, <1>8
<1>10. /\ 3 \in 1..Len(Downgrade0003 \o down(2) \o down(1))
       /\ (Downgrade0003 \o down(2) \o down(1))[3] = (Downgrade0003 \o down(2))[3]
  BY <1>3, <1>7, <1>9
<1> QED BY <1>5, <1>6, <1>9, <1>10

(***************************************************************************)
(* The repositories: each entity has a table of its own, none of those     *)
(* that all entities share, in which company_name is part of the key, but  *)
(* for the companies themselves.                                           *)
(***************************************************************************)

Shared == {"tally_raw_archive", "tally_entity_versions", "sync_checkpoints"}

LEMMA RepositoryOf ==
    /\ Repository["company"] = [table |-> "companies", conflict |-> {"name"}]
    /\ Repository["ledger_group"] = Named("ledger_groups")
    /\ Repository["ledger"] = Named("ledgers")
    /\ Repository["voucher_type"] = Named("voucher_types")
    /\ Repository["unit"] = Named("units")
    /\ Repository["godown"] = Named("godowns")
    /\ Repository["stock_group"] = Named("stock_groups")
    /\ Repository["stock_item"] = Named("stock_items")
    /\ Repository["voucher"] = [table |-> "vouchers",
          conflict |-> PerCompany("voucher_number") \cup {"voucher_type"}]
    /\ Repository["purchase_order"] = [table |-> "purchase_orders",
          conflict |-> PerCompany("voucher_number")]
BY DEF Repository, Overlay, CompanyRepository, LedgerRepositories, InventoryRepositories,
       VoucherRepository, PurchaseOrderRepository

LEMMA Conflicts ==
    ASSUME NEW e \in Types
    PROVE  /\ e # "company" => "company_name" \in Repository[e].conflict
           /\ e = "company" => "company_name" \notin Repository[e].conflict
           /\ \E column \in Repository[e].conflict : column # "company_name"
BY RepositoryOf DEF Types, Named, PerCompany

LEMMA OwnTables ==
    ASSUME NEW e \in Types
    PROVE  /\ Repository[e].table \notin Shared
           /\ \A f \in Types : Repository[f].table = Repository[e].table => f = e
BY RepositoryOf DEF Types, Named, Shared

(***************************************************************************)
(* The rows a batch leaves.                                                *)
(***************************************************************************)

LEMMA KeptOne ==
    ASSUME NEW X, NEW rows \in Seq(X)
    PROVE  /\ Kept(rows) \subseteq ToSet(rows)
           /\ \A r \in ToSet(rows) : \E k \in Kept(rows) : k.key = r.key
<1> DEFINE n == Len(rows)
<1>1. n \in Nat /\ DOMAIN rows = 1..n OBVIOUS
<1> HIDE DEF n
<1>2. Kept(rows) \subseteq ToSet(rows) BY DEF Kept, ToSet
<1>3. ASSUME NEW r \in ToSet(rows) PROVE \E k \in Kept(rows) : k.key = r.key
  <2>1. PICK a \in 1..n : r = rows[a] BY <1>1 DEF ToSet
  <2> DEFINE f == [i \in 1..n |-> IF rows[i].key = r.key THEN i ELSE 0]
  <2>2. f \in [1..n -> Nat] /\ n # 0 BY <1>1, <2>1
  <2>3. PICK b \in 1..n : \A j \in 1..n : f[j] <= f[b] BY <1>1, <2>2, LargestAt
  <2>4. f[a] = a /\ a > 0 BY <1>1, <2>1
  <2>5. f[b] # 0 BY <1>1, <2>1, <2>3, <2>4
  <2>6. rows[b].key = r.key /\ f[b] = b BY <2>5
  <2>7. ASSUME NEW j \in 1..n, rows[j].key = rows[b].key PROVE j <= b
    <3>1. f[j] = j BY <2>6, <2>7
    <3> QED BY <2>3, <2>6, <3>1
  <2>8. rows[b] \in Kept(rows) BY <1>1, <2>7 DEF Kept
  <2> QED BY <2>6, <2>8
<1> QED BY <1>2, <1>3

LEMMA HighestOne ==
    ASSUME NEW X, NEW rows \in Seq(X), \A r \in ToSet(rows) : r.alter_id \in Nat \ {0}
    PROVE  /\ Highest(rows) \subseteq ToSet(rows)
           /\ \A r \in ToSet(rows) : \E k \in Highest(rows) : k.key = r.key
<1> DEFINE n == Len(rows)
<1>1. n \in Nat /\ DOMAIN rows = 1..n OBVIOUS
<1> HIDE DEF n
<1>2. Highest(rows) \subseteq ToSet(rows) BY DEF Highest
<1>3. ASSUME NEW r \in ToSet(rows) PROVE \E k \in Highest(rows) : k.key = r.key
  <2>1. PICK a \in 1..n : r = rows[a] BY <1>1 DEF ToSet
  <2>2. \A i \in 1..n : rows[i] \in ToSet(rows) BY <1>1 DEF ToSet
  <2> DEFINE f == [i \in 1..n |-> IF rows[i].key = r.key THEN rows[i].alter_id ELSE 0]
  <2>3. f \in [1..n -> Nat] /\ n # 0 BY <1>1, <2>1, <2>2
  <2>4. PICK b \in 1..n : \A j \in 1..n : f[j] <= f[b] BY <1>1, <2>3, LargestAt
  <2>5. f[a] \in Nat \ {0} BY <2>1, <2>2
  <2>6. f[b] # 0
    <3>1. f[a] <= f[b] /\ f[b] \in Nat BY <2>1, <2>3, <2>4
    <3> HIDE DEF f
    <3> QED BY <2>5, <3>1
  <2>7. rows[b].key = r.key /\ f[b] = rows[b].alter_id BY <2>6
  <2>8. ASSUME NEW s \in ToSet(rows), s.key = rows[b].key PROVE s.alter_id <= rows[b].alter_id
    <3>1. PICK j \in 1..n : s = rows[j] BY <1>1 DEF ToSet
    <3>2. f[j] = s.alter_id BY <2>7, <2>8, <3>1
    <3> HIDE DEF f
    <3> QED BY <2>4, <2>7, <3>2
  <2>9. rows[b] \in Highest(rows) BY <2>2, <2>8 DEF Highest
  <2> QED BY <2>7, <2>9
<1> QED BY <1>2, <1>3

\* Whichever row is chosen of those with a key, there is one.
LEMMA UpsertedOne ==
    ASSUME NEW X, NEW rows \in Seq(X), \A r \in ToSet(rows) : r.alter_id \in Nat \ {0}, NEW e
    PROVE  /\ Upserted(e, rows) \subseteq ToSet(rows)
           /\ \A r \in ToSet(rows) : \E k \in Upserted(e, rows) : k.key = r.key
BY KeptOne, HighestOne DEF Upserted

LEMMA UpsertKeeps ==
    ASSUME NEW old, NEW new, NEW r
    PROVE  /\ r \in Upsert(old, new) => r \in old \/ r \in new
           /\ r \in new => r \in Upsert(old, new)
           /\ r \in old /\ (\A k \in new : k.key = r.key => k = r) => r \in Upsert(old, new)
BY DEF Upsert

(***************************************************************************)
(* The invariant.                                                          *)
(***************************************************************************)

\* The saves of an object are its own, and no AlterID is above the counter.
SavesOf(o) ==
    Seq([guid : {o}, name : NamesOf[o], alter_id : 1..Counter(CompanyOf[o])])

Typed ==
    /\ revision \in 0..Newest
    /\ tables \in Databases(Contents(tables))
    /\ saves = [o \in Objects |-> saves[o]]
    /\ \A o \in Objects : saves[o] \in SavesOf(o)

\* An entity's table has rows of that entity only, keyed by their company.
Placed ==
    \A e \in Types : \A row \in RowsOf(Repository[e].table) :
        /\ EntityOf[row.guid] = e
        /\ e # "company" => row.key["company_name"] = CompanyOf[row.guid]

\* The archive is there at the newest revision only, it has nothing that Tally
\* has not given an AlterID, and all it has is in the history too.
Archived ==
    /\ "tally_raw_archive" \in DOMAIN tables <=> revision = Newest
    /\ \A row \in RowsOf("tally_raw_archive") :
          /\ row.alter_id \in 1..Counter(CompanyOf[row.key.guid])
          /\ [entity_type |-> row.key.entity_type, company_name |-> row.key.company_name,
              guid |-> row.key.guid, xml_hash |-> row.alter_id]
                \in RowsOf("tally_entity_versions")

\* SkippedIsStored at every revision.
Stored ==
    \A r \in Requests : \A o \in Scope(r[1], r[2]) :
        ArchiveRow(r[1], r[2], Current(o)) \in RowsOf("tally_raw_archive") =>
            InTable(r[1], r[2], o) \/ Shares(r[1], r[2], o)

DatabaseInv == Typed /\ Placed /\ Archived /\ Stored

(***************************************************************************)
(* Tally's counters.                                                       *)
(***************************************************************************)

SavedIn(c, given) ==
    UNION {{o} \X DOMAIN given[o] : o \in {p \in Objects : CompanyOf[p] = c}}

LEMMA SavedFinite ==
    ASSUME NEW c, NEW given, \A o \in Objects : \E R : given[o] \in Seq(R)
    PROVE  IsFiniteSet(SavedIn(c, given)) /\ Cardinality(SavedIn(c, given)) \in Nat
<1> DEFINE X == {p \in Objects : CompanyOf[p] = c}
           S == {{o} \X DOMAIN given[o] : o \in X}
           f == [o \in X |-> {o} \X DOMAIN given[o]]
<1>1. IsFiniteSet(X)
  <2>1. X \in SUBSET Objects OBVIOUS
  <2> HIDE DEF X
  <2> QED BY <2>1, FS_Subset, DatabaseAssumption
<1>2. f \in Surjection(X, S) BY DEF Surjection
<1>3. IsFiniteSet(S)
  <2> HIDE DEF X, S, f
  <2> QED BY <1>1, <1>2, FS_Surjection
<1>4. ASSUME NEW T \in S PROVE IsFiniteSet(T)
  <2>1. PICK o \in X : T = {o} \X DOMAIN given[o] OBVIOUS
  <2>2. PICK R : given[o] \in Seq(R) OBVIOUS
  <2>3. DOMAIN given[o] = 1..Len(given[o]) /\ Len(given[o]) \in Nat BY <2>2
  <2>4. IsFiniteSet(DOMAIN given[o]) BY <2>3, FS_Interval
  <2>5. IsFiniteSet({o}) BY FS_Singleton
  <2> QED BY <2>1, <2>4, <2>5, FS_Product
<1>5. IsFiniteSet(UNION S)
  <2> HIDE DEF S
  <2> QED BY <1>3, <1>4, FS_UNION
<1>6. SavedIn(c, given) = UNION S BY DEF SavedIn
<1> HIDE DEF S
<1> QED BY <1>5, <1>6, FS_CardinalityType

LEMMA SavesSequences ==
    ASSUME Typed, NEW o \in Objects
    PROVE  \E R : saves[o] \in Seq(R)
BY DEF Typed, SavesOf

\* A save takes the next AlterID of its company.
LEMMA SaveCounts ==
    ASSUME Typed, NEW o \in Objects, NEW n, Save(o, n)
    PROVE  /\ Counter(CompanyOf[o])' = Counter(CompanyOf[o]) + 1
           /\ \A c : Counter(c) \in Nat /\ Counter(c)' >= Counter(c) /\ Counter(c)' \in Nat
<1> DEFINE home == CompanyOf[o]
           rec == [guid |-> o, name |-> n, alter_id |-> Counter(home) + 1]
<1>1. saves' = [saves EXCEPT ![o] = Append(saves[o], rec)] BY DEF Save
<1>2. PICK R : saves[o] \in Seq(R) BY SavesSequences
<1>3. /\ DOMAIN Append(saves[o], rec) = DOMAIN saves[o] \cup {Len(saves[o]) + 1}
      /\ Append(saves[o], rec) \in Seq(R \cup {rec})
      /\ Len(saves[o]) + 1 \notin DOMAIN saves[o]
  <2> HIDE DEF rec
  <2>1. saves[o] \in Seq(R \cup {rec}) BY <1>2
  <2> QED BY <1>2, <2>1
<1>4. /\ saves'[o] = Append(saves[o], rec)
      /\ \A p \in Objects : p # o => saves'[p] = saves[p]
  <2> HIDE DEF rec
  <2> QED BY <1>1 DEF Typed
<1> HIDE DEF rec
<1>5. ASSUME NEW p \in Objects PROVE \E Q : saves'[p] \in Seq(Q)
  BY <1>3, <1>4, SavesSequences
<1>6. ASSUME NEW c
      PROVE  /\ IsFiniteSet(SavedIn(c, saves)) /\ Counter(c) = Cardinality(SavedIn(c, saves))
             /\ Counter(c) \in Nat
             /\ Counter(c)' = Cardinality(SavedIn(c, saves')) /\ Counter(c)' \in Nat
  <2>1. \A p \in Objects : \E Q : saves[p] \in Seq(Q) BY SavesSequences
  <2>2. IsFiniteSet(SavedIn(c, saves)) /\ Cardinality(SavedIn(c, saves)) \in Nat
    BY <2>1, SavedFinite
  <2>3. Cardinality(SavedIn(c, saves')) \in Nat BY <1>5, SavedFinite
  <2>4. /\ Counter(c) = Cardinality(SavedIn(c, saves))
        /\ Counter(c)' = Cardinality(SavedIn(c, saves'))
    BY DEF Counter, SavedIn
  <2> QED BY <2>2, <2>3, <2>4
<1>7. Counter(home)' = Counter(home) + 1
  <2> DEFINE new == <<o, Len(saves[o]) + 1>>
  <2>1. SavedIn(home, saves') = SavedIn(home, saves) \cup {new}
    <3>1. ASSUME NEW x PROVE x \in SavedIn(home, saves') <=> x \in SavedIn(home, saves) \cup {new}
      <4>1. x \in SavedIn(home, saves') <=>
              \E p \in Objects : CompanyOf[p] = home /\ x \in {p} \X DOMAIN saves'[p]
        BY DEF SavedIn
      <4>2. x \in SavedIn(home, saves) <=>
              \E p \in Objects : CompanyOf[p] = home /\ x \in {p} \X DOMAIN saves[p]
        BY DEF SavedIn
      <4>3. {o} \X DOMAIN saves'[o] = ({o} \X DOMAIN saves[o]) \cup {new} BY <1>3, <1>4
      <4> QED BY <4>1, <4>2, <4>3, <1>4
    <3> QED BY <3>1
  <2>2. new \notin SavedIn(home, saves) BY <1>3 DEF SavedIn
  <2> HIDE DEF new, home
  <2> QED BY <2>1, <2>2, <1>6, FS_AddElement
<1>8. ASSUME NEW c PROVE Counter(c)' >= Counter(c)
  <2>1. CASE c = home BY <2>1, <1>6, <1>7
  <2>2. CASE c # home
    <3>1. SavedIn(c, saves') = SavedIn(c, saves) BY <1>4, <2>2 DEF SavedIn
    <3> QED BY <3>1, <1>6
  <2> QED BY <2>1, <2>2
<1> QED BY <1>6, <1>7, <1>8

(***************************************************************************)
(* Saves and migrations.                                                   *)
(***************************************************************************)

LEMMA CurrentIs ==
    ASSUME Typed, NEW o \in Live
    PROVE  /\ Current(o) \in [guid : {o}, name : NamesOf[o], alter_id : 1..Counter(CompanyOf[o])]
           /\ Len(saves[o]) \in DOMAIN saves[o] /\ Current(o) = saves[o][Len(saves[o])]
           /\ Current(o).guid = o
<1> DEFINE R == [guid : {o}, name : NamesOf[o], alter_id : 1..Counter(CompanyOf[o])]
<1>1. saves[o] \in Seq(R) /\ saves[o] # <<>> /\ o \in Objects BY DEF Typed, SavesOf, Live
<1>2. Current(o) = saves[o][Len(saves[o])] BY DEF Current, Last
<1>3. ASSUME NEW Q, NEW s \in Seq(Q), s # <<>> PROVE s[Len(s)] \in Q /\ Len(s) \in DOMAIN s
  BY <1>3
<1>4. Current(o) \in R /\ Len(saves[o]) \in DOMAIN saves[o]
  <2> HIDE DEF R
  <2> QED BY <1>1, <1>2, <1>3
<1> QED BY <1>2, <1>4

LEMMA InitHolds == ASSUME Init PROVE DatabaseInv
<1>1. DOMAIN tables = {} /\ \A t : RowsOf(t) = {} BY DEF Init, Empty, RowsOf
<1>2. Typed
  <2>1. tables \in [{} -> Fields(Contents(tables))] BY DEF Init, Empty
  <2>2. tables \in Databases(Contents(tables)) BY <2>1 DEF Databases
  <2>3. ASSUME NEW o \in Objects PROVE saves[o] \in SavesOf(o) BY DEF Init, SavesOf
  <2>4. revision \in 0..Newest BY DEF Init, Newest
  <2>5. saves = [o \in Objects |-> saves[o]] BY DEF Init
  <2> QED BY <2>2, <2>3, <2>4, <2>5 DEF Typed
<1>3. revision # Newest BY DEF Init, Newest
<1> QED BY <1>1, <1>2, <1>3 DEF DatabaseInv, Placed, Archived, Stored

\* The new AlterID is in no row yet, so that the object is not in the archive
\* as it is now.
LEMMA SaveHolds ==
    ASSUME DatabaseInv, NEW o \in Objects, NEW n \in NamesOf[o], Save(o, n) PROVE DatabaseInv'
<1> DEFINE next == Counter(CompanyOf[o]) + 1
           rec == [guid |-> o, name |-> n, alter_id |-> next]
<1>1. Typed BY DEF DatabaseInv
<1>2. /\ Counter(CompanyOf[o])' = next
      /\ \A c : Counter(c) \in Nat /\ Counter(c)' >= Counter(c) /\ Counter(c)' \in Nat
  BY <1>1, SaveCounts
<1>3. saves' = [saves EXCEPT ![o] = Append(saves[o], rec)] BY DEF Save
<1>4. revision' = revision /\ tables' = tables /\ \A t : RowsOf(t)' = RowsOf(t)
  BY DEF Save, RowsOf
<1>5. /\ saves'[o] = Append(saves[o], rec)
      /\ \A p \in Objects : p # o => saves'[p] = saves[p]
      /\ saves' = [p \in Objects |-> saves'[p]]
  <2> HIDE DEF rec
  <2> QED BY <1>1, <1>3 DEF Typed
<1>6. Typed'
  <2>1. ASSUME NEW p \in Objects PROVE (saves[p] \in SavesOf(p))'
    <3> DEFINE R == [guid : {p}, name : NamesOf[p], alter_id : 1..Counter(CompanyOf[p])]
               Q == [guid : {p}, name : NamesOf[p], alter_id : 1..Counter(CompanyOf[p])']
    <3>1. R \subseteq Q BY <1>2
    <3>2. saves[p] \in Seq(R) BY <1>1 DEF Typed, SavesOf
    <3>3. ASSUME NEW s \in Seq(R) PROVE s \in Seq(Q)
      <4> HIDE DEF R, Q
      <4> QED BY <3>1
    <3>4. CASE p # o BY <3>2, <3>3, <3>4, <1>5 DEF SavesOf
    <3>5. CASE p = o
      <4>1. rec \in Q BY <1>2, <3>5
      <4>2. Append(saves[p], rec) \in Seq(Q)
        <5> HIDE DEF Q, R, rec
        <5> QED BY <3>2, <3>3, <4>1
      <4> QED BY <4>2, <3>5, <1>5 DEF SavesOf
    <3> QED BY <3>4, <3>5
  <2> QED BY <1>1, <1>4, <1>5, <2>1 DEF Typed
<1>7. Placed' BY <1>4 DEF DatabaseInv, Placed
<1>8. Archived'
  <2>1. ASSUME NEW row \in RowsOf("tally_raw_archive")
        PROVE  row.alter_id \in 1..Counter(CompanyOf[row.key.guid])'
    <3> DEFINE c == CompanyOf[row.key.guid]
    <3>1. row.alter_id \in 1..Counter(c) BY DEF DatabaseInv, Archived
    <3>2. c' = c OBVIOUS
    <3> HIDE DEF c
    <3>3. Counter(c) \in Nat /\ Counter(c)' >= Counter(c) /\ Counter(c)' \in Nat BY <1>2, <3>2
    <3>4. row.alter_id \in 1..Counter(c)' BY <3>1, <3>3
    <3> QED BY <3>4 DEF c
  <2> QED BY <1>4, <2>1 DEF DatabaseInv, Archived
<1>9. Stored'
  <2> SUFFICES ASSUME NEW r \in Requests, NEW p \in Scope(r[1], r[2])',
                      ArchiveRow(r[1], r[2], Current(p)') \in RowsOf("tally_raw_archive")
               PROVE  (InTable(r[1], r[2], p) \/ Shares(r[1], r[2], p))'
    BY <1>4 DEF Stored
  <2>1. p \in Objects BY DEF Scope, Live
  <2>2. CASE p = o
    <3>1. Current(o)' = rec
      <4>1. PICK R : saves[o] \in Seq(R) BY <1>1, SavesSequences
      <4>2. ASSUME NEW Q, NEW s \in Seq(Q), NEW x
            PROVE  Append(s, x)[Len(Append(s, x))] = x
        OBVIOUS
      <4> HIDE DEF rec
      <4> QED BY <1>5, <4>1, <4>2 DEF Current, Last
    <3>2. ArchiveRow(r[1], r[2], rec) \in RowsOf("tally_raw_archive") BY <2>2, <3>1
    <3>3. /\ ArchiveRow(r[1], r[2], rec).alter_id = next
          /\ ArchiveRow(r[1], r[2], rec).key.guid = o
      BY DEF ArchiveRow
    <3>4. next \in 1..Counter(CompanyOf[o]) BY <3>2, <3>3 DEF DatabaseInv, Archived
    <3> QED BY <3>4, <1>2
  <2>3. CASE p # o
    <3>1. saves'[p] = saves[p] BY <1>5, <2>1, <2>3
    <3>2. Current(p)' = Current(p) BY <3>1 DEF Current
    <3>3. p \in Scope(r[1], r[2]) BY <3>1 DEF Scope, Live
    <3>4. InTable(r[1], r[2], p) \/ Shares(r[1], r[2], p)
      BY <3>2, <3>3 DEF DatabaseInv, Stored
    <3>5. CASE InTable(r[1], r[2], p) BY <3>2, <3>5, <1>4 DEF InTable
    <3>6. CASE Shares(r[1], r[2], p)
      <4>1. PICK q \in Scope(r[1], r[2]) \ {p} :
              \E i \in DOMAIN saves[q] : saves[q][i].name = Current(p).name
        BY <3>6 DEF Shares
      <4>2. PICK i \in DOMAIN saves[q] : saves[q][i].name = Current(p).name BY <4>1
      <4>3. q \in Objects BY DEF Scope, Live
      <4>4. i \in DOMAIN saves'[q] /\ saves'[q][i] = saves[q][i] /\ saves'[q] # <<>>
        <5>1. PICK R : saves[q] \in Seq(R) BY <1>1, <4>3, SavesSequences
        <5>2. ASSUME NEW Q, NEW s \in Seq(Q), NEW x, NEW j \in DOMAIN s
              PROVE  j \in DOMAIN Append(s, x) /\ Append(s, x)[j] = s[j] /\ Append(s, x) # <<>>
          OBVIOUS
        <5>3. CASE q = o
          <6> HIDE DEF rec
          <6> QED BY <1>5, <4>2, <5>1, <5>2, <5>3
        <5>4. CASE q # o BY <1>5, <4>2, <4>3, <5>1, <5>4
        <5> QED BY <5>3, <5>4
      <4>5. q \in Scope(r[1], r[2])' BY <4>1, <4>4 DEF Scope, Live
      <4> QED BY <3>2, <4>1, <4>2, <4>4, <4>5 DEF Shares
    <3> QED BY <3>4, <3>5, <3>6
  <2> QED BY <2>2, <2>3
<1> QED BY <1>6, <1>7, <1>8, <1>9 DEF DatabaseInv

\* A table has the rows it had or none, and the archive always none.
LEMMA MigrateHolds ==
    ASSUME DatabaseInv, NEW to \in 0..Newest, Migrate(to) PROVE DatabaseInv'
<1> DEFINE done == Migrated(Path(revision, to), tables)
<1>1. Typed /\ revision \in 0..Newest /\ tables \in Databases(Contents(tables))
  BY DEF DatabaseInv, Typed
<1>2. ~done.failed /\ tables' = done.tables /\ revision' = to /\ to # revision /\ saves' = saves
  BY DEF Migrate
<1>3. /\ Path(revision, to) \in Seq(Steps)
      /\ to # Newest => Path(revision, to) \in Seq(StepsMaking(TableNames \ {"tally_raw_archive"}))
  BY <1>1, PathType DEF Early
<1>4. tables' \in Shrunk(tables)
  BY <1>1, <1>2, <1>3, MigratedShrinks
<1>5. ASSUME NEW t PROVE RowsOf(t)' = {} \/ RowsOf(t)' = RowsOf(t)
  <2> HIDE DEF done
  <2> QED BY <1>4 DEF Shrunk, RowsOf
<1>6. "tally_raw_archive" \in DOMAIN tables' <=> to = Newest
  <2> DEFINE path == Path(revision, to)
  <2>1. CASE to = Newest
    <3>1. PICK k \in 1..Len(path) :
            /\ Leaves(path[k], "tally_raw_archive", TRUE)
            /\ \A i \in 1..Len(path) : k < i => ~Leaves(path[i], "tally_raw_archive", FALSE)
      BY <1>1, <1>2, <2>1, ArchiveCreated
    <3>2. k \in 0..Len(path) /\ k # 0 OBVIOUS
    <3> HIDE DEF path
    <3>3. ("tally_raw_archive" \in DOMAIN done.tables) = TRUE
      BY <1>1, <1>2, <1>3, <3>1, <3>2, Lasts DEF path
    <3> QED BY <1>2, <2>1, <3>3
  <2>2. CASE to # Newest
    <3>1. \A i \in 1..Len(path) : ~Leaves(path[i], "tally_raw_archive", TRUE)
      <4>1. path \in Seq(StepsMaking(TableNames \ {"tally_raw_archive"})) BY <1>3, <2>2
      <4>2. \A i \in 1..Len(path) : path[i] \in StepsMaking(TableNames \ {"tally_raw_archive"})
        BY <4>1
      <4> HIDE DEF path
      <4> QED BY <4>2 DEF Leaves, StepsMaking
    <3>2. PICK k \in 0..Len(path) :
            IF k = 0 THEN "tally_raw_archive" \notin DOMAIN tables
            ELSE path[k] = Drop("tally_raw_archive")
      <4>1. CASE revision # Newest
        <5>1. "tally_raw_archive" \notin DOMAIN tables BY <4>1 DEF DatabaseInv, Archived
        <5>2. 0 \in 0..Len(path) BY <1>3
        <5> QED BY <5>1, <5>2
      <4>2. CASE revision = Newest
        <5>1. 3 \in 0..Len(path) /\ path[3] = Drop("tally_raw_archive")
          BY <2>2, <4>2, ArchiveDropped
        <5> QED BY <5>1
      <4> QED BY <4>1, <4>2
    <3> HIDE DEF path
    <3>3. IF k = 0 THEN ("tally_raw_archive" \in DOMAIN tables) = FALSE
          ELSE Leaves(path[k], "tally_raw_archive", FALSE)
      BY <3>2 DEF Leaves, Drop
    <3>4. ("tally_raw_archive" \in DOMAIN done.tables) = FALSE
      BY <1>1, <1>2, <1>3, <3>1, <3>3, Lasts DEF path
    <3> QED BY <1>2, <2>2, <3>4
  <2> QED BY <2>1, <2>2
<1> HIDE DEF done
<1>7. RowsOf("tally_raw_archive")' = {}
  <2>1. CASE to = Newest
    <3>1. RowsOf("tally_raw_archive") = {}
      BY <1>2, <2>1 DEF DatabaseInv, Archived, RowsOf
    <3> QED BY <3>1, <1>5
  <2>2. CASE to # Newest BY <1>6, <2>2 DEF RowsOf
  <2> QED BY <2>1, <2>2
<1>8. Typed'
  <2>1. (tables \in Databases(Contents(tables)))' BY <1>4, ShrunkSelf
  <2>2. \A o \in Objects : SavesOf(o)' = SavesOf(o) BY <1>2 DEF SavesOf, Counter
  <2> QED BY <1>1, <1>2, <2>1, <2>2 DEF Typed
<1>9. Placed' BY <1>5 DEF DatabaseInv, Placed
<1>10. Archived' /\ Stored' BY <1>2, <1>6, <1>7 DEF Archived, Stored
<1> QED BY <1>8, <1>9, <1>10 DEF DatabaseInv

(***************************************************************************)
(* An export.                                                              *)
(***************************************************************************)

\* What a request shows, as it is now.
Currents(c, e) == {Current(o) : o \in Scope(c, e)}

RecordsOf(objects) == {Current(o) : o \in objects}

\* A list of objects has the records of all of them and nothing else.
LEMMA ListedHas ==
    ASSUME NEW S \in SUBSET Objects, NEW items \in Listed(S)
    PROVE  items \in Seq(RecordsOf(S)) /\ ToSet(items) = RecordsOf(S)
<1> DEFINE D == 1..Cardinality(S)
           inOrder == {[i \in DOMAIN s |-> Current(s[i])] : s \in SetToSeqs(S)}
<1>1. IsFiniteSet(S) /\ Cardinality(S) \in Nat
  BY FS_Subset, FS_CardinalityType, DatabaseAssumption
<1>2. ASSUME NEW s \in SetToSeqs(S) PROVE s \in [D -> S] /\ \A o \in S : \E i \in D : s[i] = o
  <2>1. s \in [D -> S] /\ \A i, j \in D : i # j => s[i] # s[j] BY DEF SetToSeqs
  <2>2. s \in Injection(D, S) BY <2>1 DEF Injection, IsInjective
  <2>3. IsFiniteSet(D) /\ Cardinality(D) = Cardinality(S)
    BY <1>1, FS_Interval
  <2>4. s \in Surjection(D, S) BY <1>1, <2>2, <2>3, FS_Injection
  <2> HIDE DEF D
  <2> QED BY <2>1, <2>4 DEF Surjection
<1>3. ASSUME NEW list \in inOrder
      PROVE  list \in Seq(RecordsOf(S)) /\ ToSet(list) = RecordsOf(S)
  <2>1. PICK s \in SetToSeqs(S) : list = [i \in DOMAIN s |-> Current(s[i])] OBVIOUS
  <2>2. s \in [D -> S] /\ \A o \in S : \E i \in D : s[i] = o BY <1>2
  <2>3. list = [i \in D |-> Current(s[i])] BY <2>1, <2>2
  <2>4. \A i \in D : Current(s[i]) \in RecordsOf(S) BY <2>2 DEF RecordsOf
  <2>5. list \in Seq(RecordsOf(S))
    BY <1>1, <2>3, <2>4
  <2>6. ToSet(list) = RecordsOf(S)
    <3>1. DOMAIN list = D BY <2>3
    <3> QED BY <2>2, <2>3, <2>4, <3>1 DEF ToSet, RecordsOf
  <2> QED BY <2>5, <2>6
<1>4. ASSUME NEW list \in inOrder, NEW rec \in ToSet(list), items = <<rec>> \o list
      PROVE  items \in Seq(RecordsOf(S)) /\ ToSet(items) = RecordsOf(S)
  <2>1. list \in Seq(RecordsOf(S)) /\ ToSet(list) = RecordsOf(S) BY <1>3
  <2> HIDE DEF inOrder
  <2>2. rec \in RecordsOf(S) BY <2>1
  <2>3. ASSUME NEW R, NEW l \in Seq(R), NEW x \in R
        PROVE  <<x>> \o l \in Seq(R) /\ ToSet(<<x>> \o l) = {x} \cup ToSet(l)
    <3>1. <<x>> \o l \in Seq(R) /\ DOMAIN (<<x>> \o l) = 1..(Len(l) + 1) /\ Len(l) \in Nat
      OBVIOUS
    <3>2. (<<x>> \o l)[1] = x OBVIOUS
    <3>3. ASSUME NEW i \in 1..Len(l) PROVE i + 1 \in 1..(Len(l) + 1) /\ (<<x>> \o l)[i+1] = l[i]
      OBVIOUS
    <3>4. ASSUME NEW i \in 1..(Len(l) + 1), i # 1 PROVE i - 1 \in 1..Len(l) /\ (<<x>> \o l)[i] = l[i-1]
      BY <3>4
    <3>5. DOMAIN l = 1..Len(l) /\ 1 \in 1..(Len(l) + 1) OBVIOUS
    <3>6. ToSet(<<x>> \o l) \subseteq {x} \cup ToSet(l) BY <3>1, <3>2, <3>4, <3>5 DEF ToSet
    <3>7. {x} \cup ToSet(l) \subseteq ToSet(<<x>> \o l) BY <3>1, <3>2, <3>3, <3>5 DEF ToSet
    <3> QED BY <3>1, <3>6, <3>7
  <2>4. /\ <<rec>> \o list \in Seq(RecordsOf(S))
        /\ ToSet(<<rec>> \o list) = {rec} \cup ToSet(list)
    BY <2>1, <2>2, <2>3
  <2>5. {rec} \cup ToSet(list) = RecordsOf(S) BY <2>1, <2>2
  <2> HIDE DEF D
  <2> QED BY <1>4, <2>4, <2>5
<1>5. \/ items \in inOrder
      \/ \E list \in inOrder : \E rec \in ToSet(list) : items = <<rec>> \o list
  BY DEF Listed
<1> HIDE DEF inOrder
<1> QED BY <1>3, <1>4, <1>5

\* What is parsed of an answer is among what the request shows.
LEMMA AnswersHave ==
    ASSUME NEW c, NEW e, NEW items \in Answers(c, e)
    PROVE  items \in Seq(Currents(c, e)) /\ ToSet(items) \subseteq Currents(c, e)
<1>1. PICK shown \in SUBSET Scope(c, e) : items \in Listed(shown) BY DEF Answers
<1>2. shown \in SUBSET Objects BY DEF Scope, Live
<1>3. items \in Seq(RecordsOf(shown)) /\ ToSet(items) = RecordsOf(shown)
  BY <1>1, <1>2, ListedHas
<1>4. RecordsOf(shown) \subseteq Currents(c, e) BY DEF RecordsOf, Currents
<1>5. ASSUME NEW A, NEW B, A \subseteq B, NEW s \in Seq(A) PROVE s \in Seq(B)
  <2>1. Len(s) \in Nat /\ s = [i \in 1..Len(s) |-> s[i]] OBVIOUS
  <2>2. \A i \in 1..Len(s) : s[i] \in B BY <1>5
  <2> QED BY <2>1, <2>2
<1> QED BY <1>3, <1>4, <1>5

\* An export has all of it.
LEMMA ExportsHave ==
    ASSUME NEW c, NEW e, NEW items \in Exports(c, e)
    PROVE  items \in Answers(c, e) /\ ToSet(items) = Currents(c, e)
<1>1. Scope(c, e) \in SUBSET Objects BY DEF Scope, Live
<1>2. Scope(c, e) \in SUBSET Scope(c, e) OBVIOUS
<1>3. items \in Listed(Scope(c, e)) BY DEF Exports
<1>4. items \in Answers(c, e) BY <1>2, <1>3 DEF Answers
<1>5. ToSet(items) = RecordsOf(Scope(c, e)) BY <1>1, <1>3, ListedHas
<1> QED BY <1>4, <1>5 DEF RecordsOf, Currents

\* What a sync takes from an answer: it writes the records it finds changed,
\* and of the rest the archive has the same row; a full sync leaves none out.
LEMMA BatchIs ==
    ASSUME NEW c, NEW e, NEW full, NEW items \in Answers(c, e)
    PROVE  /\ Changed(c, e, full, items) \in Seq(Currents(c, e))
           /\ Skipped(c, e, full, items) \in Seq(Currents(c, e))
           /\ \A rec \in ToSet(Changed(c, e, full, items)) :
                 rec \in Currents(c, e) /\ ~Unchanged(c, e, rec)
           /\ IsInjective(items) => IsInjective(Changed(c, e, full, items))
           /\ \A rec \in ToSet(Skipped(c, e, full, items)) :
                 rec \in Currents(c, e) /\ Unchanged(c, e, rec)
           /\ full => ToSet(Changed(c, e, full, items)) \cup ToSet(Skipped(c, e, full, items))
                        = ToSet(items)
<1> DEFINE kept == {rec \in ToSet(items) : full \/ rec.alter_id > Checkpoint(c, e)}
           new == {rec \in ToSet(items) : ~Unchanged(c, e, rec)}
           same == {rec \in ToSet(items) : Unchanged(c, e, rec)}
           batch == Batch(c, e, full, items)
<1>1. items \in Seq(Currents(c, e)) /\ ToSet(items) \subseteq Currents(c, e) BY AnswersHave
<1>2. batch = Among(items, kept) BY DEF Batch
<1>3. /\ kept \subseteq Currents(c, e) /\ new \cup same = ToSet(items)
      /\ full => kept = ToSet(items)
      /\ \A rec \in same : Unchanged(c, e, rec)
      /\ \A rec \in new : ~Unchanged(c, e, rec)
  BY <1>1
<1>4. /\ Changed(c, e, full, items) = Among(batch, new)
      /\ Skipped(c, e, full, items) = Among(batch, same)
  BY DEF Changed, Skipped
<1> HIDE DEF batch, kept, new, same
<1>5. /\ batch \in Seq(Currents(c, e)) /\ ToSet(batch) = ToSet(items) \cap kept
      /\ IsInjective(items) => IsInjective(batch)
  BY <1>1, <1>2, AmongIs
<1>6. /\ Among(batch, new) \in Seq(Currents(c, e))
      /\ ToSet(Among(batch, new)) = ToSet(batch) \cap new
      /\ IsInjective(batch) => IsInjective(Among(batch, new))
      /\ Among(batch, same) \in Seq(Currents(c, e))
      /\ ToSet(Among(batch, same)) = ToSet(batch) \cap same
  BY <1>5, AmongIs
<1> QED BY <1>1, <1>3, <1>4, <1>5, <1>6

(***************************************************************************)
(* What a sync leaves in the tables.                                       *)
(***************************************************************************)

EntityRows(c, e, recs) == [i \in DOMAIN recs |-> Row(c, e, recs[i])]
ArchiveRows(c, e, recs) == [i \in DOMAIN recs |-> ArchiveRow(c, e, recs[i])]

\* A table gets other rows.
WithRows(old, t, rows) == [old EXCEPT ![t].rows = rows]

IsDatabase(d) == d \in Databases(Contents(d))

LEMMA OneTable ==
    ASSUME NEW old, IsDatabase(old), NEW t \in DOMAIN old, NEW rows
    PROVE  /\ IsDatabase(WithRows(old, t, rows)) /\ DOMAIN WithRows(old, t, rows) = DOMAIN old
           /\ WithRows(old, t, rows)[t].rows = rows
           /\ \A u \in DOMAIN old : u # t => WithRows(old, t, rows)[u] = old[u]
           /\ Declared(WithRows(old, t, rows)) = Declared(old)
<1> DEFINE R == Contents(old)
           new == WithRows(old, t, rows)
<1>1. PICK D \in SUBSET TableNames : old \in [D -> Fields(R)] BY DEF IsDatabase, Databases
<1>2. new = [old EXCEPT ![t].rows = rows] BY DEF WithRows
<1> HIDE DEF new, R
<1>3. DOMAIN new = D /\ DOMAIN old = D /\ new = [u \in D |-> new[u]] BY <1>1, <1>2
<1>4. new[t] = [old[t] EXCEPT !.rows = rows] BY <1>1, <1>2
<1>5. \A u \in D : u # t => new[u] = old[u] BY <1>1, <1>2
<1>6. old[t] \in Fields(R) BY <1>1
<1>7. new[t].rows = rows /\ new[t] \in Fields({rows}) BY <1>4, <1>6 DEF Fields
<1>8. ASSUME NEW u \in D PROVE new[u] \in Fields(Contents(new))
  <2>1. new[u].rows \in Contents(new) BY <1>3 DEF Contents
  <2>2. new[u] \in Fields(R) \/ new[u] \in Fields({rows}) BY <1>1, <1>5, <1>7
  <2> QED BY <2>1, <2>2 DEF Fields
<1>9. new \in [D -> Fields(Contents(new))] BY <1>3, <1>8
<1>10. IsDatabase(new) BY <1>9 DEF Databases, IsDatabase
<1>11. \A u \in D : /\ new[u].unique = old[u].unique /\ new[u].parent = old[u].parent
                    /\ new[u].later = old[u].later
  BY <1>4, <1>5, <1>6 DEF Fields
<1>12. Declared(new) = Declared(old) BY <1>3, <1>11 DEF Declared
<1> QED BY <1>3, <1>5, <1>7, <1>10, <1>12 DEF new

\* The four tables that a sync writes get other rows, and that is all.
LEMMA FourTables ==
    ASSUME NEW old, IsDatabase(old),
           NEW t1 \in DOMAIN old, NEW t2 \in DOMAIN old, NEW t3 \in DOMAIN old,
           NEW t4 \in DOMAIN old, t1 # t2, t1 # t3, t1 # t4, t2 # t3, t2 # t4, t3 # t4,
           NEW r1, NEW r2, NEW r3, NEW r4, NEW new,
           new = WithRows(WithRows(WithRows(WithRows(old, t1, r1), t2, r2), t3, r3), t4, r4)
    PROVE  /\ DOMAIN new = DOMAIN old /\ IsDatabase(new)
           /\ new[t1].rows = r1 /\ new[t2].rows = r2 /\ new[t3].rows = r3 /\ new[t4].rows = r4
           /\ \A t \in DOMAIN old : t \notin {t1, t2, t3, t4} => new[t] = old[t]
           /\ Declared(new) = Declared(old)
<1> DEFINE n1 == WithRows(old, t1, r1)
           n2 == WithRows(n1, t2, r2)
           n3 == WithRows(n2, t3, r3)
<1>1. /\ DOMAIN n1 = DOMAIN old /\ IsDatabase(n1) /\ n1[t1].rows = r1
      /\ \A u \in DOMAIN old : u # t1 => n1[u] = old[u]
      /\ Declared(n1) = Declared(old)
  BY OneTable
<1> HIDE DEF n1
<1>2. /\ DOMAIN n2 = DOMAIN old /\ IsDatabase(n2) /\ n2[t2].rows = r2
      /\ \A u \in DOMAIN old : u # t2 => n2[u] = n1[u]
      /\ Declared(n2) = Declared(n1)
  BY <1>1, OneTable
<1> HIDE DEF n2
<1>3. /\ DOMAIN n3 = DOMAIN old /\ IsDatabase(n3) /\ n3[t3].rows = r3
      /\ \A u \in DOMAIN old : u # t3 => n3[u] = n2[u]
      /\ Declared(n3) = Declared(n2)
  BY <1>2, OneTable
<1> HIDE DEF n3
<1>4. /\ DOMAIN new = DOMAIN old /\ IsDatabase(new) /\ new[t4].rows = r4
      /\ \A u \in DOMAIN old : u # t4 => new[u] = n3[u]
      /\ Declared(new) = Declared(n3)
  <2>1. new = WithRows(n3, t4, r4) BY DEF n1, n2, n3
  <2> QED BY <1>3, <2>1, OneTable
<1> QED BY <1>1, <1>2, <1>3, <1>4

LEMMA SyncRows ==
    ASSUME Typed, NEW c, NEW e \in Types, NEW full, NEW items, Sync(c, e, full, items)
    PROVE  LET changed == Changed(c, e, full, items)
               unchanged == Skipped(c, e, full, items)
           IN
           /\ tables' \in Databases(Contents(tables'))
           /\ "tally_raw_archive" \in DOMAIN tables /\ DOMAIN tables' = DOMAIN tables
           /\ RowsOf(Repository[e].table)' =
                 Upsert(RowsOf(Repository[e].table), Upserted(e, EntityRows(c, e, changed)))
           /\ RowsOf("tally_raw_archive")' =
                 Upsert(Upsert(RowsOf("tally_raw_archive"), Kept(ArchiveRows(c, e, changed))),
                        Kept(ArchiveRows(c, e, unchanged)))
           /\ RowsOf("tally_entity_versions")' =
                 RowsOf("tally_entity_versions")
                 \cup {VersionRow(c, e, rec) : rec \in ToSet(changed)}
           /\ RowsOf("sync_checkpoints")' =
                 Upsert(RowsOf("sync_checkpoints"), CheckpointRows(c, e, full, changed, items))
           /\ \A t : t \notin Shared \cup {Repository[e].table} => RowsOf(t)' = RowsOf(t)
           /\ Declared(tables') = Declared(tables)
<1> DEFINE changed == Changed(c, e, full, items)
           unchanged == Skipped(c, e, full, items)
           own == Repository[e].table
           archive == "tally_raw_archive"
           versions == "tally_entity_versions"
           checkpoints == "sync_checkpoints"
           r1 == Upsert(tables[own].rows, Upserted(e, EntityRows(c, e, changed)))
           r2 == Upsert(Upsert(tables[archive].rows, Kept(ArchiveRows(c, e, changed))),
                        Kept(ArchiveRows(c, e, unchanged)))
           r3 == tables[versions].rows \cup {VersionRow(c, e, rec) : rec \in ToSet(changed)}
           r4 == Upsert(tables[checkpoints].rows, CheckpointRows(c, e, full, changed, items))
<1>1. /\ own \in DOMAIN tables /\ archive \in DOMAIN tables /\ versions \in DOMAIN tables
      /\ checkpoints \in DOMAIN tables
  BY DEF Sync, Serves, Accepts
<1>2. own # archive /\ own # versions /\ own # checkpoints BY OwnTables DEF Shared
<1>3. archive # versions /\ archive # checkpoints /\ versions # checkpoints OBVIOUS
<1>4. tables \in Databases(Contents(tables)) /\ IsDatabase(tables) BY DEF Typed, IsDatabase
<1>5. tables' = WithRows(WithRows(WithRows(WithRows(tables, own, r1), archive, r2),
                                 versions, r3), checkpoints, r4)
  <2>1. tables' = [tables EXCEPT
         ![own].rows = Upsert(@, Upserted(e, EntityRows(c, e, changed))),
         ![archive].rows =
             Upsert(Upsert(@, Kept(ArchiveRows(c, e, changed))), Kept(ArchiveRows(c, e, unchanged))),
         ![versions].rows = @ \cup {VersionRow(c, e, rec) : rec \in ToSet(changed)},
         ![checkpoints].rows = Upsert(@, CheckpointRows(c, e, full, changed, items))]
    BY DEF Sync, EntityRows, ArchiveRows
  <2> HIDE DEF changed, unchanged, own, archive, versions, checkpoints
  <2>2. tables' = [tables EXCEPT ![own].rows = r1, ![archive].rows = r2,
                                 ![versions].rows = r3, ![checkpoints].rows = r4]
    BY <1>1, <1>2, <1>3, <1>4, <2>1
  <2> QED BY <2>2 DEF WithRows
<1> HIDE DEF changed, unchanged, own, archive, versions, checkpoints, r1, r2, r3, r4
<1>6. /\ DOMAIN tables' = DOMAIN tables /\ IsDatabase(tables')
      /\ tables'[own].rows = r1 /\ tables'[archive].rows = r2
      /\ tables'[versions].rows = r3 /\ tables'[checkpoints].rows = r4
      /\ \A t \in DOMAIN tables : t \notin {own, archive, versions, checkpoints}
            => tables'[t] = tables[t]
      /\ Declared(tables') = Declared(tables)
  BY <1>1, <1>2, <1>3, <1>4, <1>5, FourTables
<1>7. /\ RowsOf(own)' = r1 /\ RowsOf(archive)' = r2 /\ RowsOf(versions)' = r3
      /\ RowsOf(checkpoints)' = r4
      /\ RowsOf(own) = tables[own].rows /\ RowsOf(archive) = tables[archive].rows
      /\ RowsOf(versions) = tables[versions].rows
      /\ RowsOf(checkpoints) = tables[checkpoints].rows
  BY <1>1, <1>6 DEF RowsOf
<1>8. ASSUME NEW t, t \notin Shared \cup {own} PROVE RowsOf(t)' = RowsOf(t)
  BY <1>6, <1>8 DEF RowsOf, Shared, archive, versions, checkpoints
<1> QED BY <1>1, <1>6, <1>7, <1>8
     DEF IsDatabase, changed, unchanged, own, archive, versions, checkpoints, r1, r2, r3, r4

LEMMA UpsertTwice ==
    ASSUME NEW old, NEW one, NEW two, \A r \in one : \A k \in two : r.key = k.key => r = k
    PROVE  Upsert(Upsert(old, one), two) = Upsert(old, one \cup two)
BY DEF Upsert

\* A sync takes the records it writes and those it finds in the archive.
Taken(c, e, full, items) ==
    ToSet(Changed(c, e, full, items)) \cup ToSet(Skipped(c, e, full, items))

ArchiveOf(c, e, recs) == {ArchiveRow(c, e, rec) : rec \in recs}

LEMMA TakenIs ==
    ASSUME Typed, NEW c, NEW e, NEW full, NEW items \in Answers(c, e),
           NEW rec \in Taken(c, e, full, items)
    PROVE  /\ rec.guid \in Scope(c, e) /\ rec = Current(rec.guid)
           /\ rec.alter_id \in 1..Counter(CompanyOf[rec.guid])
           /\ rec \in ToSet(Changed(c, e, full, items)) \/ Unchanged(c, e, rec)
<1>1. rec \in Currents(c, e) BY BatchIs DEF Taken
<1>2. PICK o \in Scope(c, e) : rec = Current(o) BY <1>1 DEF Currents
<1>3. o \in Live BY DEF Scope
<1>4. rec.guid = o /\ rec.alter_id \in 1..Counter(CompanyOf[o]) BY <1>2, <1>3, CurrentIs
<1>5. rec \in ToSet(Changed(c, e, full, items)) \/ Unchanged(c, e, rec) BY BatchIs DEF Taken
<1> QED BY <1>2, <1>4, <1>5

LEMMA ArchiveKept ==
    ASSUME Typed, NEW c, NEW e, NEW recs \in Seq(Currents(c, e))
    PROVE  Kept(ArchiveRows(c, e, recs)) = ArchiveOf(c, e, ToSet(recs))
<1> DEFINE rows == ArchiveRows(c, e, recs)
           X == ArchiveOf(c, e, Currents(c, e))
<1>1. rows \in Seq(X) /\ ToSet(rows) = ArchiveOf(c, e, ToSet(recs))
  <2>1. DOMAIN recs = 1..Len(recs) /\ Len(recs) \in Nat /\ \A i \in DOMAIN recs : recs[i] \in Currents(c, e)
    OBVIOUS
  <2>2. rows = [i \in 1..Len(recs) |-> ArchiveRow(c, e, recs[i])] BY <2>1 DEF ArchiveRows
  <2>3. \A i \in 1..Len(recs) : ArchiveRow(c, e, recs[i]) \in X BY <2>1 DEF ArchiveOf
  <2>4. ToSet(rows) = ArchiveOf(c, e, ToSet(recs)) BY <2>1, <2>2 DEF ToSet, ArchiveOf
  <2> HIDE DEF rows, X
  <2>5. rows \in Seq(X) BY <2>1, <2>2, <2>3
  <2> QED BY <2>4, <2>5
<1>2. ASSUME NEW r \in X, NEW k \in X, r.key = k.key PROVE r = k
  <2>1. PICK o \in Scope(c, e), p \in Scope(c, e) :
          r = ArchiveRow(c, e, Current(o)) /\ k = ArchiveRow(c, e, Current(p))
    BY DEF ArchiveOf, Currents
  <2>2. o \in Live /\ p \in Live BY DEF Scope
  <2>3. Current(o).guid = o /\ Current(p).guid = p BY <2>2, CurrentIs
  <2>4. r.key.guid = o /\ k.key.guid = p BY <2>1, <2>3 DEF ArchiveRow
  <2> QED BY <1>2, <2>1, <2>4
<1>3. ToSet(rows) \subseteq X
  <2>1. ToSet(recs) \subseteq Currents(c, e)
    <3>1. DOMAIN recs = 1..Len(recs) OBVIOUS
    <3> QED BY <3>1 DEF ToSet
  <2> QED BY <1>1, <2>1 DEF ArchiveOf
<1> HIDE DEF rows, X
<1>4. Kept(rows) \subseteq ToSet(rows) /\ \A r \in ToSet(rows) : \E k \in Kept(rows) : k.key = r.key
  BY <1>1, KeptOne
<1>5. Kept(rows) = ToSet(rows)
  <2>1. ASSUME NEW r \in ToSet(rows) PROVE r \in Kept(rows)
    <3>1. PICK k \in Kept(rows) : k.key = r.key BY <1>4
    <3>2. r \in X /\ k \in X BY <1>3, <1>4
    <3>3. k = r BY <1>2, <3>1, <3>2
    <3> QED BY <3>3
  <2> QED BY <1>4, <2>1
<1> QED BY <1>1, <1>5 DEF rows

\* The archive has the taken records as they are now.
LEMMA ArchiveAfter ==
    ASSUME Typed, NEW c, NEW e \in Types, NEW full, NEW items \in Answers(c, e),
           Sync(c, e, full, items)
    PROVE  RowsOf("tally_raw_archive")' =
              Upsert(RowsOf("tally_raw_archive"), ArchiveOf(c, e, Taken(c, e, full, items)))
<1> DEFINE changed == Changed(c, e, full, items)
           unchanged == Skipped(c, e, full, items)
           one == ArchiveOf(c, e, ToSet(changed))
           two == ArchiveOf(c, e, ToSet(unchanged))
<1>1. changed \in Seq(Currents(c, e)) /\ unchanged \in Seq(Currents(c, e)) BY BatchIs
<1>2. RowsOf("tally_raw_archive")' =
        Upsert(Upsert(RowsOf("tally_raw_archive"), Kept(ArchiveRows(c, e, changed))),
               Kept(ArchiveRows(c, e, unchanged)))
  BY SyncRows
<1>3. Kept(ArchiveRows(c, e, changed)) = one /\ Kept(ArchiveRows(c, e, unchanged)) = two
  <2> HIDE DEF changed, unchanged
  <2> QED BY <1>1, ArchiveKept
<1>4. ASSUME NEW r \in one, NEW k \in two, r.key = k.key PROVE r = k
  <2>1. PICK x \in Taken(c, e, full, items), y \in Taken(c, e, full, items) :
          r = ArchiveRow(c, e, x) /\ k = ArchiveRow(c, e, y)
    BY DEF ArchiveOf, Taken
  <2>2. x = Current(x.guid) /\ y = Current(y.guid) BY TakenIs
  <2>3. r.key.guid = x.guid /\ k.key.guid = y.guid BY <2>1 DEF ArchiveRow
  <2> QED BY <1>4, <2>1, <2>2, <2>3
<1>5. one \cup two = ArchiveOf(c, e, Taken(c, e, full, items)) BY DEF ArchiveOf, Taken
<1> HIDE DEF one, two
<1> QED BY <1>2, <1>3, <1>4, <1>5, UpsertTwice

\* The entity's table gets a row for each changed record, or one that has its
\* place.
LEMMA EntityRowsIs ==
    ASSUME Typed, NEW c, NEW e, NEW full, NEW items \in Answers(c, e)
    PROVE  LET changed == Changed(c, e, full, items)
               new == Upserted(e, EntityRows(c, e, changed))
           IN
           /\ \A k \in new : \E p \in Scope(c, e) : k = Row(c, e, Current(p))
           /\ \A rec \in ToSet(changed) : \E k \in new : k.key = Row(c, e, rec).key
<1> DEFINE changed == Changed(c, e, full, items)
           rows == EntityRows(c, e, changed)
           X == {Row(c, e, rec) : rec \in Currents(c, e)}
<1>1. changed \in Seq(Currents(c, e)) BY BatchIs
<1> HIDE DEF changed
<1>2. /\ DOMAIN changed = 1..Len(changed) /\ Len(changed) \in Nat
      /\ \A i \in DOMAIN changed : changed[i] \in Currents(c, e)
  BY <1>1
<1>3. rows = [i \in 1..Len(changed) |-> Row(c, e, changed[i])] BY <1>2 DEF EntityRows
<1>4. \A i \in 1..Len(changed) : Row(c, e, changed[i]) \in X BY <1>2
<1>5. ToSet(rows) = {Row(c, e, rec) : rec \in ToSet(changed)} BY <1>2, <1>3 DEF ToSet
<1>6. \A r \in ToSet(rows) : r \in X BY <1>2, <1>5 DEF ToSet
<1>7. rows \in Seq(X)
  <2> HIDE DEF rows, X
  <2> QED BY <1>2, <1>3, <1>4
<1>8. ASSUME NEW r \in X
      PROVE  r.alter_id \in Nat \ {0} /\ \E p \in Scope(c, e) : r = Row(c, e, Current(p))
  <2>1. PICK p \in Scope(c, e) : r = Row(c, e, Current(p)) BY DEF Currents
  <2>2. p \in Live BY DEF Scope
  <2>3. Current(p).alter_id \in 1..Counter(CompanyOf[p]) BY <2>2, CurrentIs
  <2>4. r.alter_id = Current(p).alter_id BY <2>1 DEF Row
  <2> QED BY <2>1, <2>3, <2>4
<1> HIDE DEF rows, X
<1>9. /\ Upserted(e, rows) \subseteq ToSet(rows)
      /\ \A r \in ToSet(rows) : \E k \in Upserted(e, rows) : k.key = r.key
  BY <1>6, <1>7, <1>8, UpsertedOne
<1>10. \A k \in Upserted(e, rows) : \E p \in Scope(c, e) : k = Row(c, e, Current(p))
  BY <1>6, <1>8, <1>9
<1>11. ASSUME NEW rec \in ToSet(changed)
       PROVE  \E k \in Upserted(e, rows) : k.key = Row(c, e, rec).key
  BY <1>5, <1>9
<1> QED BY <1>10, <1>11 DEF changed, rows

\* Two objects have one place in a table only if they are of one company and
\* the name of one was given to the other as well.
LEMMA SameKey ==
    ASSUME Typed, NEW e \in Types, NEW c, NEW d, NEW o \in Scope(d, e), NEW p \in Scope(c, e),
           Row(c, e, Current(p)).key = Row(d, e, Current(o)).key
    PROVE  Row(c, e, Current(p)) = Row(d, e, Current(o)) \/ Shares(d, e, o)
<1> DEFINE columns == Repository[e].conflict
<1>1. /\ Row(c, e, Current(p)).key = [column \in columns |->
            IF column = "company_name" THEN c ELSE Current(p).name]
      /\ Row(d, e, Current(o)).key = [column \in columns |->
            IF column = "company_name" THEN d ELSE Current(o).name]
  BY DEF Row
<1> HIDE DEF columns
<1>2. Current(p).name = Current(o).name
  <2>1. PICK column \in columns : column # "company_name" BY Conflicts DEF columns
  <2>2. Row(c, e, Current(p)).key[column] = Current(p).name BY <1>1, <2>1
  <2>3. Row(d, e, Current(o)).key[column] = Current(o).name BY <1>1, <2>1
  <2> QED BY <2>2, <2>3
<1>3. e # "company" => c = d
  <2>1. e # "company" => "company_name" \in columns BY Conflicts DEF columns
  <2> QED BY <1>1, <2>1
<1>4. CASE p = o BY <1>4 DEF Row
<1>5. CASE p # o
  <2>1. p \in Scope(d, e) BY <1>3 DEF Scope
  <2>2. p \in Live BY DEF Scope
  <2>3. Len(saves[p]) \in DOMAIN saves[p] /\ saves[p][Len(saves[p])].name = Current(o).name
    BY <1>2, <2>2, CurrentIs
  <2> QED BY <1>5, <2>1, <2>3 DEF Shares
<1> QED BY <1>4, <1>5

\* A sync takes no object's row, and the changed records get theirs, but for
\* those that share a number.
LEMMA EntityAfter ==
    ASSUME Typed, NEW c, NEW e \in Types, NEW full, NEW items \in Answers(c, e),
           Sync(c, e, full, items), NEW d, NEW f \in Types, NEW o \in Scope(d, f),
           \/ InTable(d, f, o)
           \/ f = e /\ d = c /\ Current(o) \in ToSet(Changed(c, e, full, items))
    PROVE  Row(d, f, Current(o)) \in RowsOf(Repository[f].table)' \/ Shares(d, f, o)
<1> DEFINE changed == Changed(c, e, full, items)
           new == Upserted(e, EntityRows(c, e, changed))
           mine == Row(d, f, Current(o))
<1>1. RowsOf(Repository[e].table)' = Upsert(RowsOf(Repository[e].table), new) BY SyncRows
<1>2. /\ \A k \in new : \E p \in Scope(c, e) : k = Row(c, e, Current(p))
      /\ \A rec \in ToSet(changed) : \E k \in new : k.key = Row(c, e, rec).key
  BY EntityRowsIs
<1> HIDE DEF changed, new
<1>3. CASE f # e
  <2>1. Repository[f].table \notin Shared /\ Repository[f].table # Repository[e].table
    BY <1>3, OwnTables
  <2>2. RowsOf(Repository[f].table)' = RowsOf(Repository[f].table) BY <2>1, SyncRows
  <2> QED BY <1>3, <2>2 DEF InTable
<1>4. CASE f = e
  <2>1. ASSUME NEW k \in new, k.key = mine.key PROVE k = mine \/ Shares(d, f, o)
    <3>1. PICK p \in Scope(c, e) : k = Row(c, e, Current(p)) BY <1>2
    <3> QED BY <1>4, <2>1, <3>1, SameKey
  <2>2. CASE \E k \in new : k.key = mine.key
    <3>1. PICK k \in new : k.key = mine.key BY <2>2
    <3>2. k = mine \/ Shares(d, f, o) BY <2>1, <3>1
    <3> HIDE DEF mine
    <3>3. k \in RowsOf(Repository[e].table)' BY <1>1, UpsertKeeps
    <3> QED BY <1>4, <3>2, <3>3 DEF mine
  <2>3. CASE \A k \in new : k.key # mine.key
    <3>1. ~(f = e /\ d = c /\ Current(o) \in ToSet(changed)) BY <1>2, <2>3
    <3>2. mine \in RowsOf(Repository[e].table) BY <1>4, <3>1 DEF InTable, changed
    <3> HIDE DEF mine
    <3>3. mine \in RowsOf(Repository[e].table)' BY <1>1, <2>3, <3>2, UpsertKeeps
    <3> QED BY <1>4, <3>3 DEF mine
  <2> QED BY <2>2, <2>3
<1> QED BY <1>3, <1>4

\* Where nothing is saved, what Tally shows stays as it is.
LEMMA SavesSame ==
    ASSUME saves' = saves
    PROVE  /\ \A c : Counter(c)' = Counter(c)
           /\ \A c, e : Scope(c, e)' = Scope(c, e) /\ Currents(c, e)' = Currents(c, e)
           /\ \A o : Current(o)' = Current(o)
           /\ \A c, e, o : Shares(c, e, o)' = Shares(c, e, o)
BY DEF Counter, Scope, Live, Current, Shares, Currents

LEMMA SyncPlaced ==
    ASSUME DatabaseInv, NEW c, NEW e \in Types, NEW full, NEW items \in Answers(c, e),
           Sync(c, e, full, items)
    PROVE  Placed'
<1> DEFINE new == Upserted(e, EntityRows(c, e, Changed(c, e, full, items)))
<1>1. RowsOf(Repository[e].table)' = Upsert(RowsOf(Repository[e].table), new)
  BY SyncRows DEF DatabaseInv
<1>2. \A k \in new : \E p \in Scope(c, e) : k = Row(c, e, Current(p))
  BY EntityRowsIs DEF DatabaseInv
<1> HIDE DEF new
<1> SUFFICES ASSUME NEW f \in Types, NEW row \in RowsOf(Repository[f].table)'
             PROVE  /\ EntityOf[row.guid] = f
                    /\ f # "company" => row.key["company_name"] = CompanyOf[row.guid]
  BY DEF Placed
<1>3. CASE row \in RowsOf(Repository[f].table) BY <1>3 DEF DatabaseInv, Placed
<1>4. CASE row \notin RowsOf(Repository[f].table)
  <2>1. f = e
    <3> SUFFICES ASSUME f # e PROVE FALSE OBVIOUS
    <3>1. Repository[f].table \notin Shared /\ Repository[f].table # Repository[e].table
      BY OwnTables
    <3> QED BY <1>4, <3>1, SyncRows DEF DatabaseInv
  <2>2. row \in new BY <1>1, <1>4, <2>1, UpsertKeeps
  <2>3. PICK p \in Scope(c, e) : row = Row(c, e, Current(p)) BY <1>2, <2>2
  <2>4. p \in Live /\ EntityOf[p] = e /\ (e = "company" \/ CompanyOf[p] = c) BY DEF Scope
  <2>5. Current(p).guid = p BY <2>4, CurrentIs DEF DatabaseInv
  <2>6. row.guid = p BY <2>3, <2>5 DEF Row
  <2>7. e # "company" => row.key["company_name"] = c
    <3>1. e # "company" => "company_name" \in Repository[e].conflict BY Conflicts
    <3> QED BY <2>3, <3>1 DEF Row
  <2> QED BY <2>1, <2>4, <2>6, <2>7
<1> QED BY <1>3, <1>4

\* What is new in the archive is new in the history.
LEMMA SyncArchived ==
    ASSUME DatabaseInv, NEW c, NEW e \in Types, NEW full, NEW items \in Answers(c, e),
           Sync(c, e, full, items)
    PROVE  Archived'
<1> DEFINE taken == Taken(c, e, full, items)
           changed == Changed(c, e, full, items)
           history(row) ==
               [entity_type |-> row.key.entity_type, company_name |-> row.key.company_name,
                guid |-> row.key.guid, xml_hash |-> row.alter_id]
<1>1. Typed BY DEF DatabaseInv
<1>2. revision' = revision /\ saves' = saves BY DEF Sync
<1>3. "tally_raw_archive" \in DOMAIN tables' /\ revision' = Newest
  <2>1. "tally_raw_archive" \in DOMAIN tables /\ DOMAIN tables' = DOMAIN tables
    BY <1>1, SyncRows
  <2> QED BY <1>2, <2>1 DEF DatabaseInv, Archived
<1>4. RowsOf("tally_raw_archive")' = Upsert(RowsOf("tally_raw_archive"), ArchiveOf(c, e, taken))
  BY <1>1, ArchiveAfter
<1>5. RowsOf("tally_entity_versions")' =
        RowsOf("tally_entity_versions") \cup {VersionRow(c, e, rec) : rec \in ToSet(changed)}
  BY <1>1, SyncRows
<1>6. \A d : Counter(d)' = Counter(d) BY <1>2, SavesSame
<1> HIDE DEF taken, changed
<1>7. ASSUME NEW row \in RowsOf("tally_raw_archive")
      PROVE  /\ row.alter_id \in 1..Counter(CompanyOf[row.key.guid])
             /\ history(row) \in RowsOf("tally_entity_versions")'
  BY <1>5 DEF DatabaseInv, Archived
<1>8. ASSUME NEW rec \in taken
      PROVE  /\ ArchiveRow(c, e, rec).alter_id
                  \in 1..Counter(CompanyOf[ArchiveRow(c, e, rec).key.guid])
             /\ history(ArchiveRow(c, e, rec)) \in RowsOf("tally_entity_versions")'
  <2>1. /\ rec.alter_id \in 1..Counter(CompanyOf[rec.guid])
        /\ rec \in ToSet(changed) \/ Unchanged(c, e, rec)
    BY <1>1, TakenIs DEF taken, changed
  <2>2. /\ ArchiveRow(c, e, rec).alter_id = rec.alter_id
        /\ ArchiveRow(c, e, rec).key.guid = rec.guid
        /\ history(ArchiveRow(c, e, rec)) = VersionRow(c, e, rec)
    BY DEF ArchiveRow, VersionRow
  <2> HIDE DEF history
  <2>3. ASSUME rec \in ToSet(changed)
        PROVE  history(ArchiveRow(c, e, rec)) \in RowsOf("tally_entity_versions")'
    BY <1>5, <2>2, <2>3
  <2>4. ASSUME Unchanged(c, e, rec)
        PROVE  history(ArchiveRow(c, e, rec)) \in RowsOf("tally_entity_versions")'
    <3>1. "tally_raw_archive" \in DOMAIN tables BY <1>1, SyncRows
    <3>2. ArchiveRow(c, e, rec) \in RowsOf("tally_raw_archive")
      BY <2>4, <3>1 DEF Unchanged, RowsOf
    <3> QED BY <1>7, <3>2
  <2>5. history(ArchiveRow(c, e, rec)) \in RowsOf("tally_entity_versions")'
    BY <2>1, <2>3, <2>4
  <2> QED BY <2>1, <2>2, <2>5
<1>9. ASSUME NEW row \in RowsOf("tally_raw_archive")'
      PROVE  /\ row.alter_id \in 1..Counter(CompanyOf[row.key.guid])
             /\ history(row) \in RowsOf("tally_entity_versions")'
  <2>1. row \in RowsOf("tally_raw_archive") \/ row \in ArchiveOf(c, e, taken)
    BY <1>4, UpsertKeeps
  <2> HIDE DEF history
  <2> QED BY <1>7, <1>8, <2>1 DEF ArchiveOf
<1>10. ASSUME NEW row \in RowsOf("tally_raw_archive")'
       PROVE  row.alter_id \in 1..Counter(CompanyOf[row.key.guid])'
  <2> DEFINE d == CompanyOf[row.key.guid]
  <2>1. row.alter_id \in 1..Counter(d) BY <1>9
  <2>2. d' = d OBVIOUS
  <2> HIDE DEF d
  <2>3. Counter(d)' = Counter(d) BY <1>6, <2>2
  <2>4. row.alter_id \in 1..Counter(d)' BY <2>1, <2>3
  <2> QED BY <2>4 DEF d
<1> QED BY <1>3, <1>9, <1>10 DEF Archived

LEMMA SyncStored ==
    ASSUME DatabaseInv, NEW c, NEW e \in Types, NEW full, NEW items \in Answers(c, e),
           Sync(c, e, full, items)
    PROVE  Stored'
<1> DEFINE taken == Taken(c, e, full, items)
<1>1. Typed BY DEF DatabaseInv
<1>2. saves' = saves BY DEF Sync
<1>3. RowsOf("tally_raw_archive")' = Upsert(RowsOf("tally_raw_archive"), ArchiveOf(c, e, taken))
  BY <1>1, ArchiveAfter
<1>4. SUFFICES ASSUME NEW r \in Requests, NEW o \in Scope(r[1], r[2]),
                      ArchiveRow(r[1], r[2], Current(o)) \in RowsOf("tally_raw_archive")'
               PROVE  \/ Row(r[1], r[2], Current(o)) \in RowsOf(Repository[r[2]].table)'
                      \/ Shares(r[1], r[2], o)
  BY <1>2, SavesSame DEF Stored, InTable
<1> DEFINE d == r[1]
           f == r[2]
           mine == ArchiveRow(d, f, Current(o))
<1>5. f \in Types BY DatabaseAssumption
<1>6. o \in Live /\ Current(o).guid = o
  <2>1. o \in Live BY DEF Scope
  <2> QED BY <1>1, <2>1, CurrentIs
<1>7. mine \in RowsOf("tally_raw_archive") \/ mine \in ArchiveOf(c, e, taken)
  BY <1>3, <1>4, UpsertKeeps
<1>8. \/ mine \in RowsOf("tally_raw_archive")
      \/ f = e /\ d = c /\ Current(o) \in ToSet(Changed(c, e, full, items))
  <2> SUFFICES ASSUME NEW rec \in taken, mine = ArchiveRow(c, e, rec)
               PROVE  \/ mine \in RowsOf("tally_raw_archive")
                      \/ f = e /\ d = c /\ Current(o) \in ToSet(Changed(c, e, full, items))
    BY <1>7 DEF ArchiveOf
  <2>1. d = c /\ f = e /\ rec.guid = o
    <3>1. /\ mine.key.company_name = d /\ mine.key.entity_type = f
          /\ mine.key.guid = Current(o).guid
      BY DEF ArchiveRow
    <3>2. /\ ArchiveRow(c, e, rec).key.company_name = c
          /\ ArchiveRow(c, e, rec).key.entity_type = e
          /\ ArchiveRow(c, e, rec).key.guid = rec.guid
      BY DEF ArchiveRow
    <3> HIDE DEF mine, d, f
    <3> QED BY <1>6, <3>1, <3>2
  <2>2. /\ rec = Current(rec.guid)
        /\ rec \in ToSet(Changed(c, e, full, items)) \/ Unchanged(c, e, rec)
    BY <1>1, TakenIs
  <2>3. Unchanged(c, e, rec) => mine \in RowsOf("tally_raw_archive")
    <3>1. "tally_raw_archive" \in DOMAIN tables BY <1>1, SyncRows
    <3> QED BY <3>1 DEF Unchanged, RowsOf
  <2> HIDE DEF mine, d, f
  <2> QED BY <2>1, <2>2, <2>3
<1>9. CASE mine \in RowsOf("tally_raw_archive")
  <2>1. InTable(d, f, o) \/ Shares(d, f, o) BY <1>9 DEF DatabaseInv, Stored
  <2> HIDE DEF d, f
  <2>2. o \in Scope(d, f) BY DEF d, f
  <2>3. Row(d, f, Current(o)) \in RowsOf(Repository[f].table)' \/ Shares(d, f, o)
    BY <1>1, <1>5, <2>1, <2>2, EntityAfter
  <2> QED BY <2>3 DEF d, f
<1>10. CASE f = e /\ d = c /\ Current(o) \in ToSet(Changed(c, e, full, items))
  <2> HIDE DEF d, f
  <2>2. o \in Scope(d, f) BY DEF d, f
  <2>3. Row(d, f, Current(o)) \in RowsOf(Repository[f].table)' \/ Shares(d, f, o)
    BY <1>1, <1>5, <1>10, <2>2, EntityAfter
  <2> QED BY <2>3 DEF d, f
<1> QED BY <1>8, <1>9, <1>10

LEMMA SyncHolds ==
    ASSUME DatabaseInv, NEW c, NEW e \in Types, NEW full, NEW items \in Answers(c, e),
           Sync(c, e, full, items)
    PROVE  DatabaseInv'
<1>1. Typed /\ revision' = revision /\ saves' = saves BY DEF DatabaseInv, Sync
<1>2. tables' \in Databases(Contents(tables')) BY <1>1, SyncRows
<1>3. \A o \in Objects : SavesOf(o)' = SavesOf(o) BY <1>1, SavesSame DEF SavesOf
<1>4. Typed' BY <1>1, <1>2, <1>3 DEF Typed
<1> QED BY <1>4, SyncPlaced, SyncArchived, SyncStored DEF DatabaseInv

LEMMA DatabaseInvHolds == Spec => []DatabaseInv
<1>1. Init => DatabaseInv BY InitHolds
<1>2. DatabaseInv /\ [Next]_vars => DatabaseInv'
  <2> SUFFICES ASSUME DatabaseInv, [Next]_vars PROVE DatabaseInv' OBVIOUS
  <2>1. ASSUME NEW o \in Objects, NEW n \in NamesOf[o], Save(o, n) PROVE DatabaseInv'
    BY <2>1, SaveHolds
  <2>2. ASSUME NEW to \in 0..Newest, Migrate(to) PROVE DatabaseInv' BY <2>2, MigrateHolds
  <2>3. ASSUME NEW r \in Requests, NEW full \in BOOLEAN, SyncEntity(r[1], r[2], full)
        PROVE  DatabaseInv'
    <3>1. PICK items \in Answers(r[1], r[2]) : Sync(r[1], r[2], full, items)
      BY <2>3 DEF SyncEntity
    <3>2. r[2] \in Types BY DatabaseAssumption
    <3> QED BY <3>1, <3>2, SyncHolds
  <2>4. CASE UNCHANGED vars
    <3>1. revision' = revision /\ tables' = tables /\ saves' = saves BY <2>4 DEF vars
    <3>2. /\ \A c, e : Scope(c, e)' = Scope(c, e)
          /\ \A c : Counter(c)' = Counter(c)
          /\ \A o : Current(o)' = Current(o)
          /\ \A c, e, o : Shares(c, e, o)' = Shares(c, e, o)
          /\ \A t : RowsOf(t)' = RowsOf(t)
      BY <3>1, SavesSame DEF RowsOf
    <3>3. Typed' BY <3>1, <3>2 DEF DatabaseInv, Typed, SavesOf
    <3>4. Placed' BY <3>2 DEF DatabaseInv, Placed
    <3>5. Archived'
      <4>1. Archived BY DEF DatabaseInv
      <4> QED BY <3>1, <4>1 DEF Archived, RowsOf, Counter
    <3>6. Stored' BY <3>2 DEF DatabaseInv, Stored, InTable
    <3> QED BY <3>3, <3>4, <3>5, <3>6 DEF DatabaseInv
  <2> QED BY <2>1, <2>2, <2>3, <2>4 DEF Next
<1> QED BY <1>1, <1>2, PTL DEF Spec

\* The hash filter loses nothing, whatever migrations come and go and whatever
\* else is synced: what a service skips as unchanged, because the archive has
\* it, is in its table (app/services/base.py:118-133).
THEOREM SkippedAreStored == Spec => []SkippedIsStored
<1>1. DatabaseInv => SkippedIsStored
  <2> SUFFICES ASSUME DatabaseInv, NEW r \in Requests, NEW o \in Scope(r[1], r[2]),
                      Unchanged(r[1], r[2], Current(o)), revision = Newest
               PROVE  InTable(r[1], r[2], o) \/ Shares(r[1], r[2], o)
    BY DEF SkippedIsStored
  <2>1. "tally_raw_archive" \in DOMAIN tables BY DEF DatabaseInv, Archived
  <2> QED BY <2>1 DEF DatabaseInv, Stored, Unchanged, RowsOf
<1> QED BY <1>1, DatabaseInvHolds, PTL

(***************************************************************************)
(* What a sync may never do.                                               *)
(***************************************************************************)

LEMMA OthersKept ==
    ASSUME DatabaseInv, NEW c, NEW e \in Types, NEW full, NEW items \in Answers(c, e),
           Sync(c, e, full, items)
    PROVE  Foreign(c, e)' = Foreign(c, e)
<1> DEFINE new == Upserted(e, EntityRows(c, e, Changed(c, e, full, items)))
           own == Repository[e].table
           other(row) == EntityOf[row.guid] # e \/ (e # "company" /\ CompanyOf[row.guid] # c)
           tally(rows) == {row \in rows : <<row.key.company_name, row.key.entity_type>> # <<c, e>>}
           archived == ArchiveOf(c, e, Taken(c, e, full, items))
           changed == Changed(c, e, full, items)
           checkpoints == CheckpointRows(c, e, full, changed, items)
<1>1. Typed BY DEF DatabaseInv
<1>2. /\ RowsOf(own)' = Upsert(RowsOf(own), new)
      /\ RowsOf("tally_entity_versions")' =
            RowsOf("tally_entity_versions") \cup {VersionRow(c, e, rec) : rec \in ToSet(changed)}
      /\ RowsOf("sync_checkpoints")' = Upsert(RowsOf("sync_checkpoints"), checkpoints)
      /\ \A t : t \notin Shared \cup {own} => RowsOf(t)' = RowsOf(t)
  <2>1. /\ RowsOf(own)' = Upsert(RowsOf(own), new)
        /\ RowsOf("tally_entity_versions")' =
              RowsOf("tally_entity_versions")
              \cup {VersionRow(c, e, rec) : rec \in ToSet(changed)}
        /\ RowsOf("sync_checkpoints")' = Upsert(RowsOf("sync_checkpoints"), checkpoints)
    BY <1>1, SyncRows
  <2>2. \A t : t \notin Shared \cup {own} => RowsOf(t)' = RowsOf(t) BY <1>1, SyncRows
  <2> QED BY <2>1, <2>2
<1>3. RowsOf("tally_raw_archive")' = Upsert(RowsOf("tally_raw_archive"), archived)
  BY <1>1, ArchiveAfter
<1>4. \A k \in new : \E p \in Scope(c, e) : k = Row(c, e, Current(p)) BY <1>1, EntityRowsIs
<1> HIDE DEF new
<1>5. ASSUME NEW k \in new
      PROVE  /\ EntityOf[k.guid] = e /\ (e = "company" \/ CompanyOf[k.guid] = c)
             /\ e # "company" => k.key["company_name"] = c
  <2>1. PICK p \in Scope(c, e) : k = Row(c, e, Current(p)) BY <1>4
  <2>2. p \in Live /\ EntityOf[p] = e /\ (e = "company" \/ CompanyOf[p] = c) BY DEF Scope
  <2>3. k.guid = p
    <3>1. Current(p).guid = p BY <1>1, <2>2, CurrentIs
    <3> QED BY <2>1, <3>1 DEF Row
  <2>4. e # "company" => k.key["company_name"] = c
    <3>1. e # "company" => "company_name" \in Repository[e].conflict BY Conflicts
    <3> QED BY <2>1, <3>1 DEF Row
  <2> QED BY <2>2, <2>3, <2>4
\* No row of another company has a key of this one's.
<1>6. ASSUME NEW row, other(row) PROVE row \in RowsOf(own)' <=> row \in RowsOf(own)
  <2>1. row \notin new BY <1>5, <1>6
  <2>2. ASSUME row \in RowsOf(own), NEW k \in new, k.key = row.key PROVE FALSE
    <3>1. /\ EntityOf[row.guid] = e
          /\ e # "company" => row.key["company_name"] = CompanyOf[row.guid]
      BY <2>2 DEF DatabaseInv, Placed
    <3> QED BY <1>5, <1>6, <2>2, <3>1
  <2> HIDE DEF own
  <2> QED BY <1>2, <2>1, <2>2, UpsertKeeps
<1>7. Foreign(c, e).entity' = Foreign(c, e).entity
  <2>1. ASSUME NEW q \in Requests, NEW row, other(row)
        PROVE  row \in RowsOf(Repository[q[2]].table)' <=> row \in RowsOf(Repository[q[2]].table)
    <3>1. q[2] \in Types BY DatabaseAssumption
    <3>2. CASE q[2] = e BY <1>6, <2>1, <3>2
    <3>3. CASE q[2] # e
      <4>1. Repository[q[2]].table \notin Shared \cup {own} BY <3>1, <3>3, OwnTables
      <4> QED BY <1>2, <4>1
    <3> QED BY <3>2, <3>3
  <2>2. Foreign(c, e).entity =
          {row \in UNION {RowsOf(Repository[q[2]].table) : q \in Requests \ {<<c, e>>}} : other(row)}
    BY DEF Foreign
  <2>3. Foreign(c, e).entity' =
          {row \in UNION {RowsOf(Repository[q[2]].table)' : q \in Requests \ {<<c, e>>}} : other(row)}
    BY DEF Foreign
  <2> HIDE DEF other
  <2> QED BY <2>1, <2>2, <2>3
<1>8. tally(RowsOf("tally_raw_archive")') = tally(RowsOf("tally_raw_archive"))
  <2>1. \A k \in archived : k.key.company_name = c /\ k.key.entity_type = e
    BY DEF ArchiveOf, ArchiveRow
  <2> HIDE DEF archived
  <2> QED BY <1>3, <2>1 DEF Upsert
<1>9. tally(RowsOf("sync_checkpoints")') = tally(RowsOf("sync_checkpoints"))
  <2>1. \A k \in checkpoints : k.key.company_name = c /\ k.key.entity_type = e
    BY DEF CheckpointRows
  <2> HIDE DEF checkpoints
  <2> QED BY <1>2, <2>1 DEF Upsert
<1>10. {row \in RowsOf("tally_entity_versions")' :
            <<row.company_name, row.entity_type>> # <<c, e>>}
        = {row \in RowsOf("tally_entity_versions") :
            <<row.company_name, row.entity_type>> # <<c, e>>}
  <2>1. \A rec : VersionRow(c, e, rec).company_name = c /\ VersionRow(c, e, rec).entity_type = e
    BY DEF VersionRow
  <2> HIDE DEF changed
  <2> QED BY <1>2, <2>1
<1> QED BY <1>7, <1>8, <1>9, <1>10 DEF Foreign

\* Syncs do not disturb each other: a table that several companies or entities
\* share keeps every row that is not of the one that is synced
\* (app/services/base.py:141-247, app/database/bulk.py).
THEOREM OthersAreUntouched == Spec => OthersUntouched
<1> DEFINE Untouched ==
       \A r \in Requests :
          \/ Foreign(r[1], r[2])' = Foreign(r[1], r[2])
          \/ \A full \in BOOLEAN : ~SyncEntity(r[1], r[2], full)
<1>1. DatabaseInv /\ [Next]_vars => Untouched
  <2> SUFFICES ASSUME DatabaseInv, NEW r \in Requests, NEW full \in BOOLEAN,
                      SyncEntity(r[1], r[2], full)
               PROVE  Foreign(r[1], r[2])' = Foreign(r[1], r[2])
    OBVIOUS
  <2>1. PICK items \in Answers(r[1], r[2]) : Sync(r[1], r[2], full, items) BY DEF SyncEntity
  <2>2. r[2] \in Types BY DatabaseAssumption
  <2> QED BY <2>1, <2>2, OthersKept
<1>2. [][Untouched]_vars => OthersUntouched BY DEF OthersUntouched
<1> HIDE DEF Untouched
<1> QED BY <1>1, <1>2, DatabaseInvHolds, PTL DEF Spec

LEMMA FullSyncShows ==
    ASSUME DatabaseInv, NEW r \in Requests, NEW items \in Exports(r[1], r[2]),
           Sync(r[1], r[2], TRUE, items)
    PROVE  Shown(r[1], r[2])'
<1> DEFINE c == r[1]
           e == r[2]
           full == TRUE
<1>1. items \in Answers(c, e) /\ ToSet(items) = Currents(c, e) /\ Sync(c, e, full, items)
  BY ExportsHave
<1>2. Typed /\ e \in Types /\ saves' = saves BY <1>1, DatabaseAssumption DEF DatabaseInv, Sync
<1> DEFINE changed == Changed(c, e, full, items)
<1>3. SUFFICES ASSUME NEW o \in Scope(c, e)
               PROVE  /\ ArchiveRow(c, e, Current(o)) \in RowsOf("tally_raw_archive")'
                      /\ VersionRow(c, e, Current(o)) \in RowsOf("tally_entity_versions")'
                      /\ \/ Row(c, e, Current(o)) \in RowsOf(Repository[e].table)'
                         \/ Shares(c, e, o)
  BY <1>2, SavesSame DEF Shown, InTable
<1>4. Current(o) \in Taken(c, e, full, items)
  <2>1. Current(o) \in Currents(c, e) BY DEF Currents
  <2> HIDE DEF c, e
  <2> QED BY <1>1, <2>1, BatchIs DEF Taken
<1>5. ArchiveRow(c, e, Current(o)) \in RowsOf("tally_raw_archive")'
  <2> HIDE DEF c, e, full
  <2>1. RowsOf("tally_raw_archive")' =
          Upsert(RowsOf("tally_raw_archive"), ArchiveOf(c, e, Taken(c, e, full, items)))
    BY <1>1, <1>2, ArchiveAfter
  <2>2. ArchiveRow(c, e, Current(o)) \in ArchiveOf(c, e, Taken(c, e, full, items))
    BY <1>4 DEF ArchiveOf
  <2> QED BY <2>1, <2>2, UpsertKeeps
<1>6. VersionRow(c, e, Current(o)) \in RowsOf("tally_entity_versions")'
  <2> HIDE DEF c, e, full
  <2>1. Archived' BY <1>1, <1>2, SyncArchived
  <2>2. [entity_type |-> ArchiveRow(c, e, Current(o)).key.entity_type,
         company_name |-> ArchiveRow(c, e, Current(o)).key.company_name,
         guid |-> ArchiveRow(c, e, Current(o)).key.guid,
         xml_hash |-> ArchiveRow(c, e, Current(o)).alter_id]
           \in RowsOf("tally_entity_versions")'
    BY <1>5, <2>1 DEF Archived
  <2> QED BY <2>2 DEF ArchiveRow, VersionRow
<1>7. InTable(c, e, o) \/ Shares(c, e, o) \/ Current(o) \in ToSet(changed)
  <2>1. Current(o) \in ToSet(changed) \/ Unchanged(c, e, Current(o))
    <3> HIDE DEF c, e, full
    <3> QED BY <1>1, <1>2, <1>4, TakenIs
  <2>2. "tally_raw_archive" \in DOMAIN tables BY <1>1, <1>2, SyncRows
  <2>3. Unchanged(c, e, Current(o)) => ArchiveRow(c, e, Current(o)) \in RowsOf("tally_raw_archive")
    BY <2>2 DEF Unchanged, RowsOf
  <2> QED BY <2>1, <2>3 DEF DatabaseInv, Stored
<1>8. Row(c, e, Current(o)) \in RowsOf(Repository[e].table)' \/ Shares(c, e, o)
  <2> HIDE DEF c, e, full
  <2> QED BY <1>1, <1>2, <1>3, <1>7, EntityAfter
<1> QED BY <1>5, <1>6, <1>8

\* A full sync that is given the whole export makes up for everything that
\* other syncs have left out, because of the checkpoint or because their
\* answers were damaged: afterwards each object of the export is in the
\* archive, in the history and in its table as it is now, or shares its number
\* with another (app/services/base.py:84-102).
THEOREM FullSyncCatchesUp == Spec => FullSyncShowsTally
<1> DEFINE Caught ==
       \A r \in Requests :
          \/ Shown(r[1], r[2])'
          \/ \A items \in Exports(r[1], r[2]) : ~Sync(r[1], r[2], TRUE, items)
<1>1. DatabaseInv /\ [Next]_vars => Caught BY FullSyncShows
<1>2. [][Caught]_vars => FullSyncShowsTally BY DEF FullSyncShowsTally
<1> HIDE DEF Caught
<1> QED BY <1>1, <1>2, DatabaseInvHolds, PTL DEF Spec

(***************************************************************************)
(* The counts of a run.                                                    *)
(***************************************************************************)

KeysAt(I, key) == {key[i] : i \in I}

\* Distinct places have as many keys as there are places.
LEMMA KeysCounted ==
    ASSUME NEW I, IsFiniteSet(I), NEW key, \A i, j \in I : key[i] = key[j] => i = j
    PROVE  Cardinality(KeysAt(I, key)) = Cardinality(I)
<1> DEFINE S == {key[i] : i \in I}
           f == [i \in I |-> key[i]]
<1>1. f \in [I -> S] /\ \A i, j \in I : f[i] = f[j] => i = j OBVIOUS
<1>2. \A x \in S : \E i \in I : f[i] = x OBVIOUS
<1>3. f \in Injection(I, S) /\ f \in Surjection(I, S)
  <2>1. IsInjective(f) BY <1>1 DEF IsInjective
  <2> HIDE DEF S
  <2>2. DOMAIN f = I OBVIOUS
  <2> HIDE DEF f
  <2> QED BY <1>1, <1>2, <2>1 DEF Injection, Surjection
<1> HIDE DEF f, S
<1>4. ExistsBijection(I, S) BY <1>3 DEF ExistsBijection, Bijection
<1>5. KeysAt(I, key) = S BY DEF KeysAt, S
<1> QED BY <1>4, <1>5, FS_Bijection

LEMMA Counted ==
    ASSUME DatabaseInv, NEW c, NEW e \in Types, NEW full, NEW items \in Answers(c, e),
           ~Repeats(items), Sync(c, e, full, items)
    PROVE  /\ Statistics(c, e, full, items).records_inserted = Cardinality(Added)
           /\ Statistics(c, e, full, items).records_updated = Cardinality(Altered)
<1> DEFINE changed == Changed(c, e, full, items)
           n == Len(changed)
           key == [i \in 1..n |-> ArchiveRow(c, e, changed[i]).key]
           old == RowsOf("tally_raw_archive")
           taken == Taken(c, e, full, items)
           U == {i \in 1..n : Known(c, e, changed[i])}
           N == (1..n) \ U
<1>1. Typed BY DEF DatabaseInv
<1>2. "tally_raw_archive" \in DOMAIN tables BY <1>1, SyncRows
<1>3. RowsOf("tally_raw_archive")' = Upsert(old, ArchiveOf(c, e, taken)) BY <1>1, ArchiveAfter
<1>4. /\ changed \in Seq(Currents(c, e)) /\ IsInjective(changed)
      /\ \A rec \in ToSet(changed) : ~Unchanged(c, e, rec)
  <2>1. items \in Seq(Currents(c, e)) BY AnswersHave
  <2>2. IsInjective(items) BY DEF Repeats, IsInjective
  <2> QED BY <2>2, BatchIs
<1>5. n \in Nat /\ DOMAIN changed = 1..n BY <1>4
<1>6. \A i \in 1..n : changed[i] \in ToSet(changed) /\ changed[i] \in taken
  BY <1>5 DEF ToSet, Taken
<1>7. \A rec \in ToSet(changed) : \E i \in 1..n : rec = changed[i] BY <1>5 DEF ToSet
<1> HIDE DEF n, changed, taken, old
<1>8. ASSUME NEW rec \in taken
      PROVE  /\ rec = Current(rec.guid)
             /\ rec \in ToSet(changed) \/ ArchiveRow(c, e, rec) \in old
             /\ Known(c, e, rec) <=> ArchiveRow(c, e, rec).key \in ArchivedKeys
             /\ Unchanged(c, e, rec) <=> ArchiveRow(c, e, rec) \in old
  <2>1. RowsOf("tally_raw_archive") = tables["tally_raw_archive"].rows BY <1>2 DEF RowsOf
  <2>2. Known(c, e, rec) <=> ArchiveRow(c, e, rec).key \in ArchivedKeys
    BY <2>1 DEF Known, ArchivedKeys
  <2>3. Unchanged(c, e, rec) <=> ArchiveRow(c, e, rec) \in old BY <2>1 DEF Unchanged, old
  <2> QED BY <1>1, <2>2, <2>3, TakenIs DEF taken, changed
<1>9. \A i, j \in 1..n : key[i] = key[j] => i = j
  <2> SUFFICES ASSUME NEW i \in 1..n, NEW j \in 1..n, key[i] = key[j] PROVE i = j OBVIOUS
  <2>1. ArchiveRow(c, e, changed[i]).key = ArchiveRow(c, e, changed[j]).key OBVIOUS
  <2>2. changed[i].guid = changed[j].guid BY <2>1 DEF ArchiveRow
  <2>3. changed[i] = changed[j] BY <1>6, <1>8, <2>2
  <2> QED BY <1>4, <1>5, <2>3 DEF IsInjective
<1>10. /\ \A i \in U : key[i] \in ArchivedKeys /\ i \in 1..n
       /\ \A i \in N : key[i] \notin ArchivedKeys /\ i \in 1..n
  BY <1>6, <1>8
<1>11. ArchivedKeys' = ArchivedKeys \cup {key[i] : i \in 1..n}
  <2>1. ASSUME NEW row \in RowsOf("tally_raw_archive")'
        PROVE  row.key \in ArchivedKeys \cup {key[i] : i \in 1..n}
    <3>1. CASE row \in old BY <3>1 DEF ArchivedKeys, old
    <3>2. CASE row \in ArchiveOf(c, e, taken) /\ row \notin old
      <4>1. PICK rec \in taken : row = ArchiveRow(c, e, rec) BY <3>2 DEF ArchiveOf
      <4>2. PICK i \in 1..n : rec = changed[i] BY <1>7, <1>8, <3>2, <4>1
      <4> QED BY <4>1, <4>2
    <3> QED BY <1>3, <3>1, <3>2, UpsertKeeps
  <2>2. ASSUME NEW k \in ArchivedKeys PROVE k \in ArchivedKeys'
    <3>1. PICK row \in old : row.key = k BY DEF ArchivedKeys, old
    <3>2. CASE \E w \in ArchiveOf(c, e, taken) : w.key = k
      BY <1>3, <3>2, UpsertKeeps DEF ArchivedKeys
    <3>3. CASE \A w \in ArchiveOf(c, e, taken) : w.key # k
      BY <1>3, <3>1, <3>3, UpsertKeeps DEF ArchivedKeys
    <3> QED BY <3>2, <3>3
  <2>3. ASSUME NEW i \in 1..n PROVE key[i] \in ArchivedKeys'
    <3>1. ArchiveRow(c, e, changed[i]) \in ArchiveOf(c, e, taken) BY <1>6 DEF ArchiveOf
    <3>2. ArchiveRow(c, e, changed[i]) \in RowsOf("tally_raw_archive")'
      BY <1>3, <3>1, UpsertKeeps
    <3> QED BY <3>2 DEF ArchivedKeys
  <2>4. ArchivedKeys' \subseteq ArchivedKeys \cup {key[i] : i \in 1..n}
    BY <2>1 DEF ArchivedKeys
  <2> HIDE DEF key
  <2> QED BY <2>2, <2>3, <2>4
<1>12. Added = {key[i] : i \in N}
  <2> HIDE DEF key
  <2> QED BY <1>10, <1>11 DEF Added
<1>13. {row.key : row \in RowsOf("tally_raw_archive")' \ RowsOf("tally_raw_archive")}
         = {key[i] : i \in 1..n}
  <2>1. ASSUME NEW row \in RowsOf("tally_raw_archive")' \ old
        PROVE  \E i \in 1..n : row.key = key[i]
    <3>1. PICK rec \in taken : row = ArchiveRow(c, e, rec)
      BY <1>3, <2>1, UpsertKeeps DEF ArchiveOf
    <3>2. PICK i \in 1..n : rec = changed[i] BY <1>7, <1>8, <2>1, <3>1
    <3> QED BY <3>1, <3>2
  <2>2. ASSUME NEW i \in 1..n
        PROVE  \E row \in RowsOf("tally_raw_archive")' \ old : row.key = key[i]
    <3>1. ArchiveRow(c, e, changed[i]) \in ArchiveOf(c, e, taken) BY <1>6 DEF ArchiveOf
    <3>2. ArchiveRow(c, e, changed[i]) \in RowsOf("tally_raw_archive")'
      BY <1>3, <3>1, UpsertKeeps
    <3>3. ArchiveRow(c, e, changed[i]) \notin old BY <1>4, <1>6, <1>8
    <3> QED BY <3>2, <3>3
  <2> HIDE DEF key
  <2> QED BY <2>1, <2>2 DEF old
<1>14. Altered = {key[i] : i \in U}
  <2>1. Altered = {key[i] : i \in 1..n} \ {key[i] : i \in N} BY <1>12, <1>13 DEF Altered
  <2>2. \A i \in 1..n : i \in U \/ i \in N OBVIOUS
  <2> HIDE DEF key, U, N
  <2> QED BY <1>10, <2>1, <2>2
<1>15. IsFiniteSet(1..n) /\ Cardinality(1..n) = n BY <1>5, FS_Interval
<1>16. IsFiniteSet(U) /\ IsFiniteSet(N) /\ Cardinality(N) = n - Cardinality(U)
  <2>1. U \in SUBSET (1..n) /\ N \in SUBSET (1..n) /\ (1..n) \cap U = U OBVIOUS
  <2>2. N = (1..n) \ U OBVIOUS
  <2> HIDE DEF U, N
  <2>3. IsFiniteSet(U) /\ IsFiniteSet(N) BY <1>15, <2>1, FS_Subset
  <2>4. Cardinality((1..n) \ U) = Cardinality(1..n) - Cardinality((1..n) \cap U)
    BY <1>15, <2>3, FS_Difference
  <2> QED BY <1>15, <2>1, <2>2, <2>3, <2>4
<1>17. /\ Cardinality({key[i] : i \in N}) = Cardinality(N)
       /\ Cardinality({key[i] : i \in U}) = Cardinality(U)
  <2>1. U \subseteq 1..n /\ N \subseteq 1..n OBVIOUS
  <2> HIDE DEF key, U, N
  <2>2. /\ Cardinality(KeysAt(N, key)) = Cardinality(N)
        /\ Cardinality(KeysAt(U, key)) = Cardinality(U)
    BY <1>9, <1>16, <2>1, KeysCounted
  <2> QED BY <2>2 DEF KeysAt
<1>18. Updated(c, e, changed) = U BY <1>5 DEF Updated
<1>19. /\ Statistics(c, e, full, items).records_inserted = n - Cardinality(U)
       /\ Statistics(c, e, full, items).records_updated = Cardinality(U)
  <2> HIDE DEF U
  <2> QED BY <1>18 DEF Statistics, n, changed
<1> QED BY <1>12, <1>14, <1>16, <1>17, <1>19

\* The counts of a run are what the sync did to the archive, although they are
\* taken from the hashes that it read before it wrote
\* (app/services/base.py:185-214).
THEOREM CountsAreTrue == Spec => CountsTrue
<1> DEFINE True ==
       \A r \in {q \in Requests : Serves(q[2])}, full \in BOOLEAN :
          \A items \in {some \in Answers(r[1], r[2]) : ~Repeats(some)} :
              \/ LET run == Statistics(r[1], r[2], full, items) IN
                  /\ run.records_inserted = Cardinality(Added)
                  /\ run.records_updated = Cardinality(Altered)
              \/ ~Sync(r[1], r[2], full, items)
<1>1. DatabaseInv /\ [Next]_vars => True
  <2>1. \A r \in Requests : r[2] \in Types BY DatabaseAssumption
  <2> QED BY <2>1, Counted
<1>2. [][True]_vars => CountsTrue BY DEF CountsTrue
<1> HIDE DEF True
<1> QED BY <1>1, <1>2, DatabaseInvHolds, PTL DEF Spec

(***************************************************************************)
(* What the tables are declared as, step by step: Walks(steps, a, b) says  *)
(* that a migration of these steps is possible where the declarations are  *)
(* a and makes them b.                                                     *)
(***************************************************************************)

NamesIn(a) == {x.table : x \in a}

\* Possible and Effect, of declarations.
StepOn(step, a, b) ==
    \/ /\ step.op = "create" /\ step.table \notin NamesIn(a)
       /\ step.parent \in NamesIn(a) \cup {""}
       /\ b = a \cup {[table |-> step.table, unique |-> step.unique,
                       parent |-> step.parent, later |-> {}]}
    \/ /\ step.op = "drop" /\ step.table \in NamesIn(a)
       /\ \A x \in a : x.parent # step.table
       /\ b = {x \in a : x.table # step.table}
    \/ \E x \in a :
         /\ step.op = "add" /\ x.table = step.table /\ step.columns \cap x.later = {}
         /\ b = {y \in a : y.table # step.table}
                \cup {[x EXCEPT !.later = x.later \cup step.columns]}
    \/ \E x \in a :
         /\ step.op = "remove" /\ x.table = step.table /\ step.columns \subseteq x.later
         /\ b = {y \in a : y.table # step.table}
                \cup {[x EXCEPT !.later = x.later \ step.columns]}

WalksBy(d, steps, a, b) ==
    /\ d[0] = a /\ d[Len(steps)] = b
    /\ \A i \in 1..Len(steps) : StepOn(steps[i], d[i-1], d[i])

Walks(steps, a, b) == \E d : WalksBy(d, steps, a, b)

DeclaredAs(tab, t) ==
    [table |-> t, unique |-> tab[t].unique, parent |-> tab[t].parent, later |-> tab[t].later]

\* Tables that are named alike are declared alike.
LEMMA DeclaredOnce ==
    ASSUME NEW tab
    PROVE  /\ Declared(tab) = {DeclaredAs(tab, t) : t \in DOMAIN tab}
           /\ NamesIn(Declared(tab)) = DOMAIN tab
           /\ \A x \in Declared(tab) : x = DeclaredAs(tab, x.table)
<1>1. Declared(tab) = {DeclaredAs(tab, t) : t \in DOMAIN tab} BY DEF Declared, DeclaredAs
<1>2. \A t : DeclaredAs(tab, t).table = t BY DEF DeclaredAs
<1>3. NamesIn(Declared(tab)) = DOMAIN tab BY <1>1, <1>2 DEF NamesIn
<1> QED BY <1>1, <1>2, <1>3

\* A step that declarations allow is possible and does the same to them.
LEMMA StepServes ==
    ASSUME NEW D \in SUBSET TableNames, NEW contents, NEW new \in [D -> Fields(contents)],
           NEW step \in Steps, NEW b, StepOn(step, Declared(new), b)
    PROVE  Possible(step, new) /\ Declared(Effect(step, new)) = b
<1> DEFINE a == Declared(new)
<1>1. /\ a = {DeclaredAs(new, t) : t \in D} /\ NamesIn(a) = D
      /\ \A x \in a : x = DeclaredAs(new, x.table) /\ x.table \in D
  BY DeclaredOnce DEF NamesIn
<1> HIDE DEF a
<1>2. CASE step.op = "create"
  <2>1. /\ step.table \notin D /\ step.parent \in D \cup {""}
        /\ b = a \cup {[table |-> step.table, unique |-> step.unique,
                        parent |-> step.parent, later |-> {}]}
    BY <1>1, <1>2 DEF StepOn, a
  <2> DEFINE table == [unique |-> step.unique, parent |-> step.parent, later |-> {},
                       rows |-> {}]
             more == Overlay(new, [t \in {step.table} |-> table])
  <2>2. Effect(step, new) = more BY <1>2 DEF Effect
  <2>3. /\ DOMAIN more = D \cup {step.table} /\ more[step.table] = table
        /\ \A t \in D : more[t] = new[t]
    BY <2>1 DEF Overlay
  <2>4. DeclaredAs(more, step.table) = [table |-> step.table, unique |-> step.unique,
                                        parent |-> step.parent, later |-> {}]
    <3>1. table.unique = step.unique /\ table.parent = step.parent /\ table.later = {}
      OBVIOUS
    <3>2. more[step.table] = table BY <2>3
    <3> HIDE DEF table, more
    <3> QED BY <3>1, <3>2 DEF DeclaredAs
  <2>5. \A t \in D : DeclaredAs(more, t) = DeclaredAs(new, t) BY <2>3 DEF DeclaredAs
  <2> HIDE DEF more, table
  <2>6. Declared(more) = {DeclaredAs(more, t) : t \in D \cup {step.table}}
    BY <2>3, DeclaredOnce
  <2>7. Declared(more) = {DeclaredAs(more, t) : t \in D} \cup {DeclaredAs(more, step.table)}
    BY <2>6
  <2>8. {DeclaredAs(more, t) : t \in D} = a BY <1>1, <2>5
  <2>9. Declared(more) = b BY <2>1, <2>4, <2>7, <2>8
  <2>10. Possible(step, new) BY <1>2, <2>1 DEF Possible
  <2> QED BY <2>2, <2>9, <2>10
<1>3. CASE step.op = "drop"
  <2>1. step.table \in D /\ (\A x \in a : x.parent # step.table)
        /\ b = {x \in a : x.table # step.table}
    BY <1>1, <1>3 DEF StepOn, a
  <2> DEFINE left == [t \in D \ {step.table} |-> new[t]]
  <2>2. Effect(step, new) = left BY <1>3 DEF Effect, Restrict
  <2>3. \A t \in D \ {step.table} : DeclaredAs(left, t) = DeclaredAs(new, t) BY DEF DeclaredAs
  <2>4. DOMAIN left = D \ {step.table} OBVIOUS
  <2> HIDE DEF left
  <2>5. Declared(left) = {DeclaredAs(left, t) : t \in D \ {step.table}}
    BY <2>4, DeclaredOnce
  <2>6. \A t \in D : DeclaredAs(new, t).table = t /\ DeclaredAs(new, t).parent = new[t].parent
    BY DEF DeclaredAs
  <2>7. Declared(left) = {DeclaredAs(new, t) : t \in D \ {step.table}} BY <2>3, <2>5
  <2>8. {x \in a : x.table # step.table} = {DeclaredAs(new, t) : t \in D \ {step.table}}
    BY <1>1, <2>6
  <2>9. \A t \in D : new[t].parent # step.table BY <1>1, <2>1, <2>6
  <2>10. Possible(step, new) BY <1>3, <2>1, <2>9 DEF Possible
  <2> QED BY <2>1, <2>2, <2>7, <2>8, <2>10
<1>4. CASE step.op \in {"add", "remove"}
  <2> DEFINE later(x) == IF step.op = "add" THEN x.later \cup step.columns
                         ELSE x.later \ step.columns
  <2>1. PICK x \in a :
          /\ x.table = step.table /\ b = {y \in a : y.table # step.table}
                                         \cup {[x EXCEPT !.later = later(x)]}
          /\ step.op = "add" => step.columns \cap x.later = {}
          /\ step.op = "remove" => step.columns \subseteq x.later
    <3>1. CASE step.op = "add" BY <3>1 DEF StepOn, a
    <3>2. CASE step.op = "remove" BY <3>2 DEF StepOn, a
    <3> QED BY <1>4, <3>1, <3>2
  <2>2. step.table \in D /\ x = DeclaredAs(new, step.table) BY <1>1, <2>1
  <2>3. x.later = new[step.table].later BY <2>2 DEF DeclaredAs
  <2>4. Possible(step, new) BY <1>4, <2>1, <2>2, <2>3 DEF Possible
  <2> DEFINE other == [new EXCEPT ![step.table].later = later(x)]
  <2>5. Effect(step, new) = other
    <3>1. CASE step.op = "add"
      <4>1. later(x) = new[step.table].later \cup step.columns BY <2>1, <2>3, <3>1
      <4>2. Effect(step, new) =
              [new EXCEPT ![step.table].later = new[step.table].later \cup step.columns]
        BY <3>1 DEF Effect
      <4> QED BY <4>1, <4>2
    <3>2. CASE step.op = "remove"
      <4>1. later(x) = new[step.table].later \ step.columns BY <2>1, <2>3, <3>2
      <4>2. Effect(step, new) =
              [new EXCEPT ![step.table].later = new[step.table].later \ step.columns]
        BY <3>2 DEF Effect
      <4> QED BY <4>1, <4>2
    <3> QED BY <1>4, <3>1, <3>2
  <2>6. /\ DOMAIN other = D /\ \A t \in D : t # step.table => other[t] = new[t]
        /\ other[step.table] = [new[step.table] EXCEPT !.later = later(x)]
    BY <2>2
  <2> HIDE DEF other
  <2>7. new[step.table] \in Fields(contents) BY <2>2
  <2>8. DeclaredAs(other, step.table) = [x EXCEPT !.later = later(x)]
    <3> DEFINE to == later(x)
               old == new[step.table]
    <3>1. x = [table |-> step.table, unique |-> old.unique, parent |-> old.parent,
               later |-> old.later]
      BY <2>2 DEF DeclaredAs
    <3>2. other[step.table] = [old EXCEPT !.later = to] BY <2>6
    <3> HIDE DEF to, old
    <3>3. old \in Fields(contents) BY <2>7 DEF old
    <3>4. /\ other[step.table].unique = old.unique /\ other[step.table].parent = old.parent
          /\ other[step.table].later = to
      BY <3>2, <3>3 DEF Fields
    <3>5. [x EXCEPT !.later = to] = [table |-> step.table, unique |-> old.unique,
                                     parent |-> old.parent, later |-> to]
      BY <3>1
    <3> QED BY <3>4, <3>5 DEF DeclaredAs, to
  <2>9. \A t \in D : t # step.table => DeclaredAs(other, t) = DeclaredAs(new, t)
    BY <2>6 DEF DeclaredAs
  <2>10. \A t \in D : DeclaredAs(new, t).table = t BY DEF DeclaredAs
  <2>11. Declared(other) = {DeclaredAs(other, t) : t \in D} BY <2>6, DeclaredOnce
  <2>12. Declared(other) = {DeclaredAs(new, t) : t \in D \ {step.table}}
                           \cup {[x EXCEPT !.later = later(x)]}
    BY <2>2, <2>8, <2>9, <2>11
  <2>13. {y \in a : y.table # step.table} = {DeclaredAs(new, t) : t \in D \ {step.table}}
    BY <1>1, <2>10
  <2> QED BY <2>1, <2>4, <2>5, <2>12, <2>13
<1>5. step.op \in {"create", "drop", "add", "remove"} BY DEF Steps, StepsMaking
<1> QED BY <1>2, <1>3, <1>4, <1>5

\* A migration that declarations allow is not refused.
LEMMA WalkServes ==
    ASSUME NEW old, old \in Databases(Contents(old)), NEW steps \in Seq(Steps),
           NEW b, Walks(steps, Declared(old), b)
    PROVE  ~Migrated(steps, old).failed /\ Declared(Migrated(steps, old).tables) = b
<1> DEFINE n == Len(steps)
<1>1. PICK done : Run(done, steps, old) /\ Migrated(steps, old) = done[n] BY MigratedRuns
<1>2. PICK d : WalksBy(d, steps, Declared(old), b) BY DEF Walks
<1> DEFINE At(i) == {o \in Outcomes(old) : ~o.failed /\ Declared(o.tables) = d[i]}
           Level == [i \in 0..n |-> At(i)]
<1>3. n \in Nat /\ 0 \in 0..n /\ n \in 0..n OBVIOUS
<1>4. done[0] \in Level[0]
  <2>1. done[0] \in Outcomes(old) /\ ~done[0].failed /\ done[0].tables = old
    <3>1. done[0] = [failed |-> FALSE, tables |-> old] BY <1>1 DEF Run
    <3>2. done[0] \in Outcomes(old) BY <1>1, <1>3 DEF Run
    <3> HIDE DEF At, Level, n
    <3> QED BY <3>1, <3>2
  <2>2. d[0] = Declared(old) BY <1>2 DEF WalksBy
  <2>3. done[0] \in At(0) BY <2>1, <2>2
  <2> HIDE DEF At
  <2> QED BY <1>3, <2>3
<1>5. ASSUME NEW i \in 1..n, done[i-1] \in Level[i-1] PROVE done[i] \in Level[i]
  <2>1. i - 1 \in 0..n /\ i \in 0..n /\ steps[i] \in Steps BY <1>3
  <2>2. /\ done[i-1] \in Outcomes(old) /\ ~done[i-1].failed
        /\ Declared(done[i-1].tables) = d[i-1]
    BY <1>5, <2>1
  <2>3. done[i] \in Outcomes(old) /\ done[i] = Done(steps[i], done[i-1]) BY <1>1, <2>1 DEF Run
  <2> DEFINE new == done[i-1].tables
  <2>4. PICK D \in SUBSET TableNames : new \in [D -> Fields({{}} \cup Contents(old))]
    BY <2>2 DEF Outcomes, Shrunk, Databases
  <2>5. StepOn(steps[i], d[i-1], d[i]) BY <1>2 DEF WalksBy
  <2>6. Possible(steps[i], new) /\ Declared(Effect(steps[i], new)) = d[i]
    <3> HIDE DEF new
    <3>1. StepOn(steps[i], Declared(new), d[i]) BY <2>2, <2>5 DEF new
    <3> QED BY <2>1, <2>4, <3>1, StepServes
  <2>7. done[i] = [done[i-1] EXCEPT !.tables = Effect(steps[i], done[i-1].tables)]
    BY <2>2, <2>3, <2>6 DEF Done
  <2>8. ~done[i].failed /\ done[i].tables = Effect(steps[i], new)
    BY <2>2, <2>7 DEF Outcomes
  <2> HIDE DEF new
  <2> QED BY <2>1, <2>3, <2>6, <2>8
<1>6. Holds(done, Level, 0, n)
  <2> HIDE DEF Level, n
  <2> QED BY <1>3, <1>4, <1>5, LoopKeeps
<1>7. done[n] \in Level[n]
  <2> HIDE DEF Level
  <2> QED BY <1>3, <1>6 DEF Holds
<1>8. WalksBy(d, steps, Declared(old), b) => d[n] = b BY DEF WalksBy
<1> QED BY <1>1, <1>2, <1>3, <1>7, <1>8

\* One walk after another.
LEMMA WalkOn ==
    ASSUME NEW R, NEW s \in Seq(R), NEW u \in Seq(R), NEW a, NEW b, NEW c,
           Walks(s, a, b), Walks(u, b, c)
    PROVE  Walks(s \o u, a, c)
<1>1. PICK d : WalksBy(d, s, a, b) BY DEF Walks
<1>2. PICK e : WalksBy(e, u, b, c) BY DEF Walks
<1> DEFINE m == Len(s)
           n == Len(u)
           f == [i \in 0..(m+n) |-> IF i <= m THEN d[i] ELSE e[i-m]]
<1>3. /\ m \in Nat /\ n \in Nat /\ Len(s \o u) = m + n
      /\ \A i \in 1..m : (s \o u)[i] = s[i]
      /\ \A i \in m+1..m+n : (s \o u)[i] = u[i-m]
  OBVIOUS
<1>4. /\ d[0] = a /\ d[m] = b /\ e[0] = b /\ e[n] = c
      /\ \A i \in 1..m : StepOn(s[i], d[i-1], d[i])
      /\ \A i \in 1..n : StepOn(u[i], e[i-1], e[i])
  BY <1>1, <1>2 DEF WalksBy
<1> HIDE DEF m, n
<1>5. f[0] = a /\ f[m+n] = c
  <2>1. CASE n = 0 BY <1>3, <1>4, <2>1
  <2>2. CASE n # 0 BY <1>3, <1>4, <2>2
  <2> QED BY <2>1, <2>2
<1>6. ASSUME NEW i \in 1..(m+n) PROVE StepOn((s \o u)[i], f[i-1], f[i])
  <2>1. CASE i <= m
    <3>1. i \in 1..m /\ f[i-1] = d[i-1] /\ f[i] = d[i] BY <1>3, <2>1
    <3> HIDE DEF f
    <3> QED BY <1>3, <1>4, <3>1
  <2>2. CASE i > m
    <3>1. i - m \in 1..n /\ i \in m+1..m+n /\ f[i] = e[i-m] BY <1>3, <2>2
    <3>2. f[i-1] = e[i-m-1]
      <4>1. CASE i - 1 = m BY <1>3, <1>4, <4>1
      <4>2. CASE i - 1 > m BY <1>3, <4>2
      <4> QED BY <1>3, <2>2, <4>1, <4>2
    <3>3. StepOn(u[i-m], e[i-m-1], e[i-m]) BY <1>4, <3>1
    <3> HIDE DEF f
    <3> QED BY <1>3, <3>1, <3>2, <3>3
  <2> QED BY <1>3, <2>1, <2>2
<1> HIDE DEF f
<1>7. WalksBy(f, s \o u, a, c) BY <1>3, <1>5, <1>6 DEF WalksBy
<1> QED BY <1>7 DEF Walks

LEMMA NoWalk == \A a : Walks(<<>>, a, a)
<1> SUFFICES ASSUME NEW a PROVE Walks(<<>>, a, a) OBVIOUS
<1> DEFINE d == [i \in 0..0 |-> a]
<1>1. WalksBy(d, <<>>, a, a) BY DEF WalksBy
<1> QED BY <1>1 DEF Walks

\* What a table is created as.
Created(x) ==
    [table |-> x.table, unique |-> x.unique, parent |-> x.parent, later |-> {}]

\* What the definitions of Schema give a table.
LEMMA TableNamed == \A t, S : Table(t, S).table = t BY DEF Table
LEMMA TableAlone == \A t, S : Table(t, S).parent = "" BY DEF Table
LEMMA TableNew == \A t, S : Created(Table(t, S)) = Table(t, S) BY DEF Table, Created

LEMMA ChildNamed == \A t, p : Child(t, p).table = t BY DEF Child
LEMMA ChildOf == \A t, p : Child(t, p).parent = p BY DEF Child
LEMMA ChildNew == \A t, p : Created(Child(t, p)) = Child(t, p) BY DEF Child, Created

\* New tables, each after the one it refers to.
Creatable(defs, a) ==
    /\ \A i \in 1..Len(defs) :
          /\ defs[i] = Created(defs[i])
          /\ defs[i].table \notin NamesIn(a)
          /\ \/ defs[i].parent \in NamesIn(a) \cup {""}
             \/ \E j \in 1..i-1 : defs[j].table = defs[i].parent
    /\ \A i, j \in 1..Len(defs) : defs[i].table = defs[j].table => i = j

LEMMA CreateTurns ==
    ASSUME NEW R, NEW s \in Seq(R)
    PROVE  /\ CreateAll(s) \in Seq({Create(r) : r \in R}) /\ Len(CreateAll(s)) = Len(s)
           /\ \A i \in 1..Len(s) : CreateAll(s)[i] = Create(s[i])
<1>1. Len(s) \in Nat /\ DOMAIN s = 1..Len(s) /\ \A i \in 1..Len(s) : s[i] \in R OBVIOUS
<1> DEFINE C == {Create(r) : r \in R}
<1>2. \A i \in 1..Len(s) : Create(s[i]) \in C BY <1>1
<1>3. CreateAll(s) = [i \in 1..Len(s) |-> Create(s[i])] BY <1>1 DEF CreateAll
<1> HIDE DEF C
<1>4. CreateAll(s) \in Seq(C) /\ Len(CreateAll(s)) = Len(s) BY <1>1, <1>2, <1>3
<1>5. \A i \in 1..Len(s) : CreateAll(s)[i] = Create(s[i]) BY <1>3
<1> QED BY <1>4, <1>5 DEF C

LEMMA CreatesWalk ==
    ASSUME NEW R, NEW defs \in Seq(R), NEW a, Creatable(defs, a)
    PROVE  Walks(CreateAll(defs), a, a \cup ToSet(defs))
<1> DEFINE n == Len(defs)
           d == [i \in 0..n |-> a \cup {defs[j] : j \in 1..i}]
<1>1. n \in Nat /\ DOMAIN defs = 1..n OBVIOUS
<1>2. Len(CreateAll(defs)) = n /\ \A i \in 1..n : CreateAll(defs)[i] = Create(defs[i])
  BY CreateTurns
<1> HIDE DEF n
<1>3. d[0] = a /\ d[n] = a \cup ToSet(defs)
  <2>1. 0 \in 0..n /\ n \in 0..n /\ {defs[j] : j \in 1..0} = {} BY <1>1
  <2> QED BY <1>1, <2>1 DEF ToSet
<1>4. ASSUME NEW i \in 1..n PROVE StepOn(Create(defs[i]), d[i-1], d[i])
  <2>1. i - 1 \in 0..n /\ i \in 0..n /\ 1..i = (1..i-1) \cup {i} BY <1>1
  <2>2. d[i] = d[i-1] \cup {defs[i]} BY <2>1
  <2>3. NamesIn(d[i-1]) = NamesIn(a) \cup {defs[j].table : j \in 1..i-1}
    BY <2>1 DEF NamesIn
  <2> HIDE DEF d
  <2>4. /\ defs[i] = Created(defs[i]) /\ defs[i].table \notin NamesIn(a)
        /\ \/ defs[i].parent \in NamesIn(a) \cup {""}
           \/ \E j \in 1..i-1 : defs[j].table = defs[i].parent
        /\ \A j \in 1..n : defs[i].table = defs[j].table => i = j
    BY DEF Creatable, n
  <2>5. \A j \in 1..i-1 : j \in 1..n /\ j # i BY <1>1
  <2>6. defs[i].table \notin NamesIn(d[i-1]) BY <2>3, <2>4, <2>5
  <2>7. defs[i].parent \in NamesIn(d[i-1]) \cup {""} BY <2>3, <2>4
  <2>8. /\ Create(defs[i]).op = "create" /\ Create(defs[i]).table = defs[i].table
        /\ Create(defs[i]).unique = defs[i].unique
        /\ Create(defs[i]).parent = defs[i].parent
    BY DEF Create
  <2>9. defs[i] = [table |-> defs[i].table, unique |-> defs[i].unique,
                   parent |-> defs[i].parent, later |-> {}]
    BY <2>4 DEF Created
  <2> QED BY <2>2, <2>6, <2>7, <2>8, <2>9 DEF StepOn
<1> HIDE DEF d
<1>5. WalksBy(d, CreateAll(defs), a, a \cup ToSet(defs)) BY <1>2, <1>3, <1>4 DEF WalksBy
<1> QED BY <1>5 DEF Walks

\* Tables that are there, each after those that refer to it.
LEMMA DropsWalk ==
    ASSUME NEW R, NEW names \in Seq(R), NEW a,
           \A i \in 1..Len(names) : names[i] \in NamesIn(a),
           \A i, j \in 1..Len(names) : names[i] = names[j] => i = j,
           \A i \in 1..Len(names) : \A x \in a :
              x.parent = names[i] => \E j \in 1..i-1 : names[j] = x.table
    PROVE  Walks(DropAll(names), a, {x \in a : x.table \notin ToSet(names)})
<1> DEFINE n == Len(names)
           d == [i \in 0..n |-> {x \in a : \A j \in 1..i : x.table # names[j]}]
<1>1. n \in Nat /\ DOMAIN names = 1..n /\ Len(DropAll(names)) = n
      /\ \A i \in 1..n : DropAll(names)[i] = Drop(names[i])
  BY DEF DropAll
<1>2. d[0] = a /\ d[n] = {x \in a : x.table \notin ToSet(names)} BY <1>1 DEF ToSet
<1>3. ASSUME NEW i \in 1..n PROVE StepOn(Drop(names[i]), d[i-1], d[i])
  <2>1. i - 1 \in 0..n /\ i \in 0..n BY <1>1
  <2>2. d[i] = {x \in d[i-1] : x.table # names[i]} BY <1>1, <2>1
  <2>3. d[i-1] = {x \in a : \A j \in 1..i-1 : x.table # names[j]} BY <2>1
  <2> HIDE DEF d
  <2>4. names[i] \in NamesIn(d[i-1])
    <3>1. PICK x \in a : x.table = names[i] BY DEF NamesIn
    <3>2. \A j \in 1..i-1 : names[j] # names[i] BY <1>1
    <3>3. x \in d[i-1] BY <2>3, <3>1, <3>2
    <3> QED BY <3>1, <3>3 DEF NamesIn
  <2>5. \A x \in d[i-1] : x.parent # names[i] BY <2>3
  <2>6. Drop(names[i]).op = "drop" /\ Drop(names[i]).table = names[i] BY DEF Drop
  <2> QED BY <2>2, <2>4, <2>5, <2>6 DEF StepOn
<1> HIDE DEF d
<1>4. WalksBy(d, DropAll(names), a, {x \in a : x.table \notin ToSet(names)})
  BY <1>1, <1>2, <1>3 DEF WalksBy
<1> QED BY <1>4 DEF Walks

LEMMA Concatenated ==
    ASSUME NEW R, NEW s \in Seq(R), NEW u \in Seq(R)
    PROVE  /\ s \o u \in Seq(R) /\ Len(s \o u) = Len(s) + Len(u)
           /\ \A i \in 1..Len(s) : (s \o u)[i] = s[i]
           /\ \A i \in 1..Len(u) : (s \o u)[Len(s) + i] = u[i]
OBVIOUS

LEMMA CreateParts ==
    ASSUME NEW R, NEW s \in Seq(R), NEW u \in Seq(R)
    PROVE  CreateAll(s \o u) = CreateAll(s) \o CreateAll(u)
<1> DEFINE C == {Create(r) : r \in R}
           both == s \o u
           parts == CreateAll(s) \o CreateAll(u)
<1>1. /\ Len(s) \in Nat /\ Len(u) \in Nat /\ both \in Seq(R) /\ Len(both) = Len(s) + Len(u)
      /\ \A i \in 1..Len(s) : both[i] = s[i]
      /\ \A i \in 1..Len(u) : both[Len(s) + i] = u[i]
  OBVIOUS
<1> HIDE DEF C, both
<1>2. /\ CreateAll(both) \in Seq(C) /\ Len(CreateAll(both)) = Len(both)
      /\ \A i \in 1..Len(both) : CreateAll(both)[i] = Create(both[i])
  BY <1>1, CreateTurns DEF C
<1>3. /\ CreateAll(s) \in Seq(C) /\ Len(CreateAll(s)) = Len(s)
      /\ \A i \in 1..Len(s) : CreateAll(s)[i] = Create(s[i])
  BY CreateTurns DEF C
<1>4. /\ CreateAll(u) \in Seq(C) /\ Len(CreateAll(u)) = Len(u)
      /\ \A i \in 1..Len(u) : CreateAll(u)[i] = Create(u[i])
  BY CreateTurns DEF C
<1>5. /\ parts \in Seq(C) /\ Len(parts) = Len(s) + Len(u)
      /\ \A i \in 1..Len(s) : parts[i] = CreateAll(s)[i]
      /\ \A i \in 1..Len(u) : parts[Len(s) + i] = CreateAll(u)[i]
  <2> DEFINE x == CreateAll(s)
             y == CreateAll(u)
  <2>1. x \in Seq(C) /\ y \in Seq(C) /\ Len(x) = Len(s) /\ Len(y) = Len(u)
    BY <1>3, <1>4
  <2> HIDE DEF x, y
  <2>2. /\ x \o y \in Seq(C) /\ Len(x \o y) = Len(s) + Len(u)
        /\ \A i \in 1..Len(s) : (x \o y)[i] = x[i]
        /\ \A i \in 1..Len(u) : (x \o y)[Len(s) + i] = y[i]
    <3>1. /\ x \o y \in Seq(C) /\ Len(x \o y) = Len(x) + Len(y)
          /\ \A i \in 1..Len(x) : (x \o y)[i] = x[i]
          /\ \A i \in 1..Len(y) : (x \o y)[Len(x) + i] = y[i]
      <4>1. x \in Seq(C) /\ y \in Seq(C) BY <2>1
      <4> QED BY ONLY <4>1, Concatenated
    <3> QED BY <2>1, <3>1
  <2> QED BY <2>2 DEF x, y
<1> HIDE DEF parts
<1>6. ASSUME NEW i \in 1..Len(both) PROVE CreateAll(both)[i] = parts[i]
  <2>1. CASE i <= Len(s)
    <3>1. i \in 1..Len(s) BY <1>1, <2>1
    <3> QED BY <1>1, <1>2, <1>3, <1>5, <3>1
  <2>2. CASE i > Len(s)
    <3>1. PICK k \in 1..Len(u) : i = Len(s) + k
      <4>1. i - Len(s) \in 1..Len(u) /\ i = Len(s) + (i - Len(s)) BY <1>1, <2>2
      <4> QED BY <4>1
    <3> QED BY <1>1, <1>2, <1>4, <1>5, <3>1
  <2> QED BY <1>1, <2>1, <2>2
<1>7. CreateAll(both) = parts BY <1>1, <1>2, <1>5, <1>6, SameSeq
<1> QED BY <1>7 DEF both, parts

\* The models as the revisions have them.
FirstStateModels == {Table("sync_checkpoints", PerCompany("entity_type")), Table("sync_runs", {})}

FirstModels ==
    CompanyModels \cup LedgerModels \cup InventoryModels \cup VoucherModels
    \cup FirstStateModels

ModelsAt(n) ==
    CASE n = 0 -> {}
      [] n = 1 -> FirstModels
      [] n = 2 -> FirstModels \cup OrderModels
      [] n = 3 -> Models

LEMMA NamesOfBoth == \A a, b : NamesIn(a \cup b) = NamesIn(a) \cup NamesIn(b)
BY DEF NamesIn

\* The names in a set of tables.
LEMMA NamesOfSome ==
    /\ \A a : NamesIn({a}) = {a.table}
    /\ \A a, b : NamesIn({a, b}) = {a.table, b.table}
    /\ \A T, S : NamesIn({Table(t, S) : t \in T}) = T
<1>1. \A a : NamesIn({a}) = {a.table} BY DEF NamesIn
<1>2. \A a, b : NamesIn({a, b}) = {a.table, b.table} BY DEF NamesIn
<1>3. \A T, S : NamesIn({Table(t, S) : t \in T}) = T BY TableNamed DEF NamesIn
<1> QED BY <1>1, <1>2, <1>3

LEMMA ModelNames ==
    /\ NamesIn(CompanyModels) = {"companies"}
    /\ NamesIn(LedgerModels) = {"ledger_groups", "ledgers", "voucher_types"}
    /\ NamesIn(InventoryModels) = {"units", "godowns", "stock_groups", "stock_items"}
    /\ NamesIn(VoucherModels) = {"vouchers", "voucher_ledger_entries",
                                 "voucher_inventory_entries", "gst_details"}
    /\ NamesIn(FirstStateModels) = {"sync_checkpoints", "sync_runs"}
    /\ NamesIn(OrderModels) = {"purchase_orders", "purchase_order_items"}
    /\ NamesIn(ArchiveModels) = {"tally_raw_archive", "tally_entity_versions"}
    /\ NamesIn(StateModels) = {"sync_checkpoints", "sync_runs"}
<1>1. NamesIn(CompanyModels) = {"companies"} BY NamesOfSome, TableNamed DEF CompanyModels
<1>2. NamesIn(LedgerModels) = {"ledger_groups", "ledgers", "voucher_types"}
  <2> DEFINE names == {"ledger_groups", "ledgers", "voucher_types"}
  <2>1. LedgerModels = {Table(t, PerCompany("name")) : t \in names} BY DEF LedgerModels
  <2> HIDE DEF names
  <2>2. NamesIn(LedgerModels) = names BY <2>1, NamesOfSome
  <2> QED BY <2>2 DEF names
<1>3. NamesIn(InventoryModels) = {"units", "godowns", "stock_groups", "stock_items"}
  <2> DEFINE names == {"units", "godowns", "stock_groups", "stock_items"}
  <2>1. InventoryModels = {Table(t, PerCompany("name")) : t \in names} BY DEF InventoryModels
  <2> HIDE DEF names
  <2>2. NamesIn(InventoryModels) = names BY <2>1, NamesOfSome
  <2> QED BY <2>2 DEF names
<1>4. NamesIn(VoucherModels) = {"vouchers", "voucher_ledger_entries",
                                "voucher_inventory_entries", "gst_details"}
  <2> DEFINE head == {Table("vouchers", {"company_name", "voucher_number", "voucher_type"})}
             rest == {"voucher_ledger_entries", "voucher_inventory_entries", "gst_details"}
             tail == {Child(t, "vouchers") : t \in rest}
  <2>1. NamesIn(head) = {"vouchers"} BY NamesOfSome, TableNamed
  <2>2. NamesIn(tail) = rest
    <3> HIDE DEF rest
    <3> QED BY ChildNamed DEF NamesIn
  <2>3. VoucherModels = head \cup tail BY DEF VoucherModels
  <2>4. NamesIn(VoucherModels) = {"vouchers"} \cup rest
    <3> HIDE DEF head, tail, rest
    <3> QED BY <2>1, <2>2, <2>3, NamesOfBoth
  <2> QED BY <2>4
<1>5. NamesIn(FirstStateModels) = {"sync_checkpoints", "sync_runs"}
  BY NamesOfSome, TableNamed DEF FirstStateModels
<1>6. NamesIn(OrderModels) = {"purchase_orders", "purchase_order_items"}
  BY NamesOfSome, TableNamed, ChildNamed DEF OrderModels
<1>7. NamesIn(ArchiveModels) = {"tally_raw_archive", "tally_entity_versions"}
  BY NamesOfSome, TableNamed DEF ArchiveModels
<1>8. NamesIn(StateModels) = {"sync_checkpoints", "sync_runs"}
  <2> DEFINE run == [Table("sync_runs", {}) EXCEPT !.later = RunStatistics]
  <2>1. run.table = "sync_runs" BY DEF Table
  <2> HIDE DEF run
  <2>2. StateModels = {Table("sync_checkpoints", PerCompany("entity_type")), run}
    BY DEF StateModels, run
  <2> QED BY <2>1, <2>2, NamesOfSome, TableNamed
<1> QED BY <1>1, <1>2, <1>3, <1>4, <1>5, <1>6, <1>7, <1>8

\* A group of tables that refer to nothing, or to the first of them.
Grouped(defs) ==
    /\ Len(defs) # 0 /\ \A i \in 1..Len(defs) : defs[i] = Created(defs[i])
    /\ defs[1].parent = ""
    /\ \A i \in 2..Len(defs) : defs[i].parent \in {"", defs[1].table}
    /\ \A i, j \in 1..Len(defs) : defs[i].table = defs[j].table => i = j

LEMMA GroupedOf ==
    ASSUME NEW defs, NEW n, n # 0, Len(defs) = n,
           \A i \in 1..n : defs[i] = Created(defs[i]),
           defs[1].parent = "",
           \A i \in 2..n : defs[i].parent \in {"", defs[1].table},
           \A i, j \in 1..n : defs[i].table = defs[j].table => i = j
    PROVE  Grouped(defs)
BY Zenon DEF Grouped

LEMMA GroupWalk ==
    ASSUME NEW R, NEW defs \in Seq(R), NEW a, Grouped(defs),
           NamesIn(ToSet(defs)) \cap NamesIn(a) = {}
    PROVE  Walks(CreateAll(defs), a, a \cup ToSet(defs))
<1>1. Len(defs) \in Nat /\ DOMAIN defs = 1..Len(defs) OBVIOUS
<1>2. ASSUME NEW i \in 1..Len(defs)
      PROVE  /\ defs[i] = Created(defs[i]) /\ defs[i].table \notin NamesIn(a)
             /\ \/ defs[i].parent \in NamesIn(a) \cup {""}
                \/ \E j \in 1..i-1 : defs[j].table = defs[i].parent
  <2>1. defs[i].table \in NamesIn(ToSet(defs)) BY <1>1 DEF NamesIn, ToSet
  <2>2. CASE i = 1 BY <2>1, <2>2 DEF Grouped
  <2>3. CASE i # 1
    <3>1. 1 \in 1..i-1 /\ i \in 2..Len(defs) BY <1>1, <2>3
    <3>2. defs[i].parent \in {"", defs[1].table} BY <3>1 DEF Grouped
    <3>3. defs[i] = Created(defs[i]) BY DEF Grouped
    <3> QED BY <2>1, <3>1, <3>2, <3>3
  <2> QED BY <2>2, <2>3
<1>3. Creatable(defs, a) BY <1>2 DEF Creatable, Grouped
<1> QED BY <1>3, CreatesWalk

\* Revision 0001 makes what the models declare, group by group.
LEMMA FirstTables ==
    /\ ToSet(CompanyTable) = CompanyModels /\ ToSet(LedgerTables) = LedgerModels
    /\ ToSet(InventoryTables) = InventoryModels /\ ToSet(VoucherTables) = VoucherModels
    /\ ToSet(StateTables) = FirstStateModels
<1>1. ToSet(CompanyTable) = CompanyModels BY DEF ToSet, CompanyTable, CompanyModels
<1>2. ToSet(LedgerTables) = LedgerModels
  <2>1. ToSet(LedgerTables) = {LedgerTables[1], LedgerTables[2], LedgerTables[3]}
    BY DEF ToSet, LedgerTables
  <2>2. \A S : {Table(t, S) : t \in {"ledger_groups", "ledgers", "voucher_types"}}
               = {Table("ledger_groups", S), Table("ledgers", S), Table("voucher_types", S)}
    OBVIOUS
  <2> QED BY <2>1, <2>2 DEF LedgerTables, LedgerModels
<1>3. ToSet(InventoryTables) = InventoryModels
  <2>1. ToSet(InventoryTables) = {InventoryTables[1], InventoryTables[2],
                                  InventoryTables[3], InventoryTables[4]}
    BY DEF ToSet, InventoryTables
  <2>2. \A S : {Table(t, S) : t \in {"units", "godowns", "stock_groups", "stock_items"}}
               = {Table("units", S), Table("godowns", S), Table("stock_groups", S),
                  Table("stock_items", S)}
    OBVIOUS
  <2> QED BY <2>1, <2>2 DEF InventoryTables, InventoryModels
<1>4. ToSet(VoucherTables) = VoucherModels
  <2>1. ToSet(VoucherTables) = {VoucherTables[1], VoucherTables[2],
                                VoucherTables[3], VoucherTables[4]}
    BY DEF ToSet, VoucherTables
  <2>2. PerCompany("voucher_number") \cup {"voucher_type"}
        = {"company_name", "voucher_number", "voucher_type"}
    BY DEF PerCompany
  <2>3. {Child(t, "vouchers") :
           t \in {"voucher_ledger_entries", "voucher_inventory_entries", "gst_details"}}
        = {Child("voucher_ledger_entries", "vouchers"),
           Child("voucher_inventory_entries", "vouchers"), Child("gst_details", "vouchers")}
    OBVIOUS
  <2> QED BY <2>1, <2>2, <2>3 DEF VoucherTables, VoucherModels
<1>5. ToSet(StateTables) = FirstStateModels BY DEF ToSet, StateTables, FirstStateModels
<1> QED BY <1>1, <1>2, <1>3, <1>4, <1>5

\* Each group of tables of revision 0001, where none of them is.
LEMMA FirstGroups ==
    ASSUME NEW a
    PROVE  /\ NamesIn(CompanyModels) \cap NamesIn(a) = {} =>
                 Walks(CreateAll(CompanyTable), a, a \cup CompanyModels)
           /\ NamesIn(LedgerModels) \cap NamesIn(a) = {} =>
                 Walks(CreateAll(LedgerTables), a, a \cup LedgerModels)
           /\ NamesIn(InventoryModels) \cap NamesIn(a) = {} =>
                 Walks(CreateAll(InventoryTables), a, a \cup InventoryModels)
           /\ NamesIn(VoucherModels) \cap NamesIn(a) = {} =>
                 Walks(CreateAll(VoucherTables), a, a \cup VoucherModels)
           /\ NamesIn(FirstStateModels) \cap NamesIn(a) = {} =>
                 Walks(CreateAll(StateTables), a, a \cup FirstStateModels)
<1>1. Grouped(CompanyTable) /\ CompanyTable \in Seq(ToSet(CompanyTable))
  <2>1. /\ Len(CompanyTable) = 1 /\ CompanyTable \in Seq(ToSet(CompanyTable))
        /\ CompanyTable[1] = Table("companies", {"name"})
    BY DEF CompanyTable, ToSet
  <2>2. \A i \in 1..1 : CompanyTable[i] = Created(CompanyTable[i])
    BY <2>1, TableNew
  <2>3. CompanyTable[1].table = "companies"
    BY <2>1, TableNamed
  <2>4. CompanyTable[1].parent = ""
    BY <2>1, TableAlone
  <2>5. \A i, j \in 1..1 : CompanyTable[i].table = CompanyTable[j].table => i = j BY <2>3
  <2>6. CompanyTable \in Seq(ToSet(CompanyTable)) /\ Len(CompanyTable) = 1 /\ 1 # 0
    BY <2>1
  <2>7. \A i \in 2..1 : CompanyTable[i].parent \in {"", CompanyTable[1].table}
    <3>1. 2..1 = {} OBVIOUS
    <3> QED BY <3>1
  <2> QED BY <2>2, <2>4, <2>5, <2>6, <2>7, GroupedOf, Zenon
<1>2. Grouped(LedgerTables) /\ LedgerTables \in Seq(ToSet(LedgerTables))
  <2>1. /\ Len(LedgerTables) = 3 /\ LedgerTables \in Seq(ToSet(LedgerTables))
        /\ LedgerTables[1] = Table("ledger_groups", PerCompany("name"))
        /\ LedgerTables[2] = Table("ledgers", PerCompany("name"))
        /\ LedgerTables[3] = Table("voucher_types", PerCompany("name"))
    BY DEF LedgerTables, ToSet
  <2>2. \A i \in 1..3 : LedgerTables[i] = Created(LedgerTables[i])
    BY <2>1, TableNew
  <2>3. /\ LedgerTables[1].table = "ledger_groups"
        /\ LedgerTables[2].table = "ledgers"
        /\ LedgerTables[3].table = "voucher_types"
    BY <2>1, TableNamed
  <2>4. /\ LedgerTables[1].parent = ""
        /\ LedgerTables[2].parent = ""
        /\ LedgerTables[3].parent = ""
    BY <2>1, TableAlone
  <2>5. \A i, j \in 1..3 : LedgerTables[i].table = LedgerTables[j].table => i = j BY <2>3
  <2>6. \A i \in 2..3 : LedgerTables[i].parent \in {"", LedgerTables[1].table}
    <3>1. 2..3 = {2, 3} OBVIOUS
    <3> QED BY <2>3, <2>4, <3>1
  <2>7. LedgerTables \in Seq(ToSet(LedgerTables)) /\ Len(LedgerTables) = 3 /\ 3 # 0
    BY <2>1
  <2> QED BY <2>2, <2>4, <2>5, <2>6, <2>7, GroupedOf, Zenon
<1>3. Grouped(InventoryTables) /\ InventoryTables \in Seq(ToSet(InventoryTables))
  <2>1. /\ Len(InventoryTables) = 4 /\ InventoryTables \in Seq(ToSet(InventoryTables))
        /\ InventoryTables[1] = Table("units", PerCompany("name"))
        /\ InventoryTables[2] = Table("godowns", PerCompany("name"))
        /\ InventoryTables[3] = Table("stock_groups", PerCompany("name"))
        /\ InventoryTables[4] = Table("stock_items", PerCompany("name"))
    BY DEF InventoryTables, ToSet
  <2>2. \A i \in 1..4 : InventoryTables[i] = Created(InventoryTables[i])
    BY <2>1, TableNew
  <2>3. /\ InventoryTables[1].table = "units"
        /\ InventoryTables[2].table = "godowns"
        /\ InventoryTables[3].table = "stock_groups"
        /\ InventoryTables[4].table = "stock_items"
    BY <2>1, TableNamed
  <2>4. /\ InventoryTables[1].parent = ""
        /\ InventoryTables[2].parent = ""
        /\ InventoryTables[3].parent = ""
        /\ InventoryTables[4].parent = ""
    BY <2>1, TableAlone
  <2>5. \A i, j \in 1..4 : InventoryTables[i].table = InventoryTables[j].table => i = j BY <2>3
  <2>6. \A i \in 2..4 : InventoryTables[i].parent \in {"", InventoryTables[1].table}
    <3>1. 2..4 = {2, 3, 4} OBVIOUS
    <3> QED BY <2>3, <2>4, <3>1
  <2>7. InventoryTables \in Seq(ToSet(InventoryTables)) /\ Len(InventoryTables) = 4 /\ 4 # 0
    BY <2>1
  <2> QED BY <2>2, <2>4, <2>5, <2>6, <2>7, GroupedOf, Zenon
<1>4. Grouped(VoucherTables) /\ VoucherTables \in Seq(ToSet(VoucherTables))
  <2>1. /\ Len(VoucherTables) = 4 /\ VoucherTables \in Seq(ToSet(VoucherTables))
        /\ VoucherTables[1] =
             Table("vouchers", PerCompany("voucher_number") \cup {"voucher_type"})
        /\ VoucherTables[2] = Child("voucher_ledger_entries", "vouchers")
        /\ VoucherTables[3] = Child("voucher_inventory_entries", "vouchers")
        /\ VoucherTables[4] = Child("gst_details", "vouchers")
    BY DEF VoucherTables, ToSet
  <2>2. \A i \in 1..4 : VoucherTables[i] = Created(VoucherTables[i])
    BY <2>1, TableNew, ChildNew
  <2>3. /\ VoucherTables[1].table = "vouchers"
        /\ VoucherTables[2].table = "voucher_ledger_entries"
        /\ VoucherTables[3].table = "voucher_inventory_entries"
        /\ VoucherTables[4].table = "gst_details"
    BY <2>1, TableNamed, ChildNamed
  <2>4. /\ VoucherTables[1].parent = ""
        /\ VoucherTables[2].parent = "vouchers"
        /\ VoucherTables[3].parent = "vouchers"
        /\ VoucherTables[4].parent = "vouchers"
    <3>1. VoucherTables[1].parent = "" BY <2>1, TableAlone
    <3>2. /\ Child("voucher_ledger_entries", "vouchers").parent = "vouchers"
          /\ Child("voucher_inventory_entries", "vouchers").parent = "vouchers"
          /\ Child("gst_details", "vouchers").parent = "vouchers"
      BY ChildOf
    <3> QED BY <2>1, <3>1, <3>2
  <2>5. \A i, j \in 1..4 : VoucherTables[i].table = VoucherTables[j].table => i = j BY <2>3
  <2>6. \A i \in 2..4 : VoucherTables[i].parent \in {"", VoucherTables[1].table}
    <3>1. 2..4 = {2, 3, 4} OBVIOUS
    <3> QED BY <2>3, <2>4, <3>1
  <2>7. VoucherTables \in Seq(ToSet(VoucherTables)) /\ Len(VoucherTables) = 4 /\ 4 # 0
    BY <2>1
  <2> QED BY <2>2, <2>4, <2>5, <2>6, <2>7, GroupedOf, Zenon
<1>5. Grouped(StateTables) /\ StateTables \in Seq(ToSet(StateTables))
  <2>1. /\ Len(StateTables) = 2 /\ StateTables \in Seq(ToSet(StateTables))
        /\ StateTables[1] = Table("sync_checkpoints", PerCompany("entity_type"))
        /\ StateTables[2] = Table("sync_runs", {})
    BY DEF StateTables, ToSet
  <2>2. \A i \in 1..2 : StateTables[i] = Created(StateTables[i])
    BY <2>1, TableNew
  <2>3. /\ StateTables[1].table = "sync_checkpoints"
        /\ StateTables[2].table = "sync_runs"
    BY <2>1, TableNamed
  <2>4. /\ StateTables[1].parent = ""
        /\ StateTables[2].parent = ""
    BY <2>1, TableAlone
  <2>5. \A i, j \in 1..2 : StateTables[i].table = StateTables[j].table => i = j BY <2>3
  <2>6. \A i \in 2..2 : StateTables[i].parent \in {"", StateTables[1].table}
    <3>1. 2..2 = {2} OBVIOUS
    <3> QED BY <2>3, <2>4, <3>1
  <2>7. StateTables \in Seq(ToSet(StateTables)) /\ Len(StateTables) = 2 /\ 2 # 0
    BY <2>1
  <2> QED BY <2>2, <2>4, <2>5, <2>6, <2>7, GroupedOf, Zenon
<1> QED BY <1>1, <1>2, <1>3, <1>4, <1>5, FirstTables, GroupWalk

\* More tables, created after the first ones.
LEMMA CreatesOn ==
    ASSUME NEW R, NEW s \in Seq(R), NEW u \in Seq(R), NEW a, NEW b, NEW c,
           Walks(CreateAll(s), a, b), Walks(CreateAll(u), b, c)
    PROVE  Walks(CreateAll(s \o u), a, c)
<1> DEFINE C == {Create(r) : r \in R}
<1>1. CreateAll(s) \in Seq(C) /\ CreateAll(u) \in Seq(C) BY CreateTurns
<1>2. CreateAll(s \o u) = CreateAll(s) \o CreateAll(u) BY CreateParts
<1> HIDE DEF C
<1>3. Walks(CreateAll(s) \o CreateAll(u), a, c) BY <1>1, WalkOn
<1> QED BY <1>2, <1>3

\* The migrations, each from the revision below or to it.
LEMMA FirstUpgradeWalks == Walks(Upgrade0001, {}, FirstModels)
<1> DEFINE D == FirstModels
           s1 == CompanyTable
           s2 == s1 \o LedgerTables
           s3 == s2 \o InventoryTables
           s4 == s3 \o VoucherTables
           s5 == s4 \o StateTables
           a1 == {} \cup CompanyModels
           a2 == a1 \cup LedgerModels
           a3 == a2 \cup InventoryModels
           a4 == a3 \cup VoucherModels
           a5 == a4 \cup FirstStateModels
<1>1. /\ NamesIn({}) = {} /\ NamesIn(a1) = {"companies"}
      /\ NamesIn(a2) = {"companies", "ledger_groups", "ledgers", "voucher_types"}
      /\ NamesIn(a3) = {"companies", "ledger_groups", "ledgers", "voucher_types", "units",
                        "godowns", "stock_groups", "stock_items"}
      /\ NamesIn(a4) = {"companies", "ledger_groups", "ledgers", "voucher_types", "units",
                        "godowns", "stock_groups", "stock_items", "vouchers",
                        "voucher_ledger_entries", "voucher_inventory_entries",
                        "gst_details"}
  <2>1. NamesIn({}) = {} BY DEF NamesIn
  <2>2. NamesIn(a1) = {"companies"} BY ModelNames
  <2>3. NamesIn(a2) = NamesIn(a1) \cup NamesIn(LedgerModels) BY NamesOfBoth
  <2>4. NamesIn(a3) = NamesIn(a2) \cup NamesIn(InventoryModels) BY NamesOfBoth
  <2>5. NamesIn(a4) = NamesIn(a3) \cup NamesIn(VoucherModels) BY NamesOfBoth
  <2> HIDE DEF a1, a2, a3, a4
  <2> QED BY <2>1, <2>2, <2>3, <2>4, <2>5, ModelNames
<1>2. /\ CompanyTable \in Seq(D) /\ LedgerTables \in Seq(D) /\ InventoryTables \in Seq(D)
      /\ VoucherTables \in Seq(D) /\ StateTables \in Seq(D)
  <2>1. /\ CompanyTable \in Seq(ToSet(CompanyTable)) /\ LedgerTables \in Seq(ToSet(LedgerTables))
        /\ InventoryTables \in Seq(ToSet(InventoryTables))
        /\ VoucherTables \in Seq(ToSet(VoucherTables)) /\ StateTables \in Seq(ToSet(StateTables))
    BY DEF CompanyTable, LedgerTables, InventoryTables, VoucherTables, StateTables, ToSet
  <2>2. \A S, s : S \subseteq D /\ s \in Seq(S) => s \in Seq(D) OBVIOUS
  <2> QED BY <2>1, <2>2, FirstTables DEF FirstModels
<1>3. s2 \in Seq(D) /\ s3 \in Seq(D) /\ s4 \in Seq(D)
  <2>1. \A s, u \in Seq(D) : s \o u \in Seq(D) OBVIOUS
  <2> HIDE DEF D
  <2> QED BY <1>2, <2>1
<1>4. Walks(CreateAll(s1), {}, a1)
  <2>1. NamesIn(CompanyModels) \cap NamesIn({}) = {} BY <1>1
  <2> QED BY <2>1, FirstGroups
<1>5. Walks(CreateAll(s2), {}, a2)
  <2>1. NamesIn(LedgerModels) \cap NamesIn(a1) = {} BY <1>1, ModelNames
  <2> HIDE DEF a1
  <2>2. Walks(CreateAll(LedgerTables), a1, a2) BY <2>1, FirstGroups
  <2> HIDE DEF a2, D
  <2> QED BY <1>2, <1>4, <2>2, CreatesOn
<1>6. Walks(CreateAll(s3), {}, a3)
  <2>1. NamesIn(InventoryModels) \cap NamesIn(a2) = {} BY <1>1, ModelNames
  <2> HIDE DEF a2
  <2>2. Walks(CreateAll(InventoryTables), a2, a3) BY <2>1, FirstGroups
  <2> HIDE DEF a3, s2, D
  <2> QED BY <1>2, <1>3, <1>5, <2>2, CreatesOn
<1>7. Walks(CreateAll(s4), {}, a4)
  <2>1. NamesIn(VoucherModels) \cap NamesIn(a3) = {} BY <1>1, ModelNames
  <2> HIDE DEF a3
  <2>2. Walks(CreateAll(VoucherTables), a3, a4) BY <2>1, FirstGroups
  <2> HIDE DEF a4, s3, D
  <2> QED BY <1>2, <1>3, <1>6, <2>2, CreatesOn
<1>8. Walks(CreateAll(s5), {}, a5)
  <2>1. NamesIn(FirstStateModels) \cap NamesIn(a4) = {} BY <1>1, ModelNames
  <2> HIDE DEF a4
  <2>2. Walks(CreateAll(StateTables), a4, a5) BY <2>1, FirstGroups
  <2> HIDE DEF a5, s4, D
  <2> QED BY <1>2, <1>3, <1>7, <2>2, CreatesOn
<1>9. a5 = FirstModels BY DEF FirstModels
<1> QED BY <1>8, <1>9 DEF Upgrade0001

\* The names of the tables at a revision.
LEMMA NamesAt ==
    /\ NamesIn(ModelsAt(1)) = {"companies", "ledger_groups", "ledgers", "voucher_types",
                               "units", "godowns", "stock_groups", "stock_items", "vouchers",
                               "voucher_ledger_entries", "voucher_inventory_entries",
                               "gst_details", "sync_checkpoints", "sync_runs"}
    /\ NamesIn(ModelsAt(2)) = NamesIn(ModelsAt(1)) \cup NamesIn(OrderModels)
<1>1. ModelsAt(1) = CompanyModels \cup LedgerModels \cup InventoryModels \cup VoucherModels
                    \cup FirstStateModels
  BY DEF ModelsAt, FirstModels
<1>2. ModelsAt(2) = ModelsAt(1) \cup OrderModels BY DEF ModelsAt
<1>3. NamesIn(ModelsAt(1)) =
         NamesIn(CompanyModels) \cup NamesIn(LedgerModels) \cup NamesIn(InventoryModels)
         \cup NamesIn(VoucherModels) \cup NamesIn(FirstStateModels)
  <2> DEFINE a == CompanyModels \cup LedgerModels
             b == a \cup InventoryModels
             c == b \cup VoucherModels
             d == c \cup FirstStateModels
  <2>1. NamesIn(a) = NamesIn(CompanyModels) \cup NamesIn(LedgerModels) BY NamesOfBoth
  <2>2. NamesIn(b) = NamesIn(a) \cup NamesIn(InventoryModels) BY NamesOfBoth
  <2>3. NamesIn(c) = NamesIn(b) \cup NamesIn(VoucherModels) BY NamesOfBoth
  <2>4. NamesIn(d) = NamesIn(c) \cup NamesIn(FirstStateModels) BY NamesOfBoth
  <2>5. ModelsAt(1) = d BY <1>1
  <2> HIDE DEF a, b, c, d
  <2> QED BY <2>1, <2>2, <2>3, <2>4, <2>5
<1> QED BY <1>2, <1>3, NamesOfBoth, ModelNames

\* What refers to what.
LEMMA Parents ==
    /\ \A x \in ModelsAt(1) :
          /\ x.parent \in {"", "vouchers"}
          /\ x.parent = "vouchers" =>
                x.table \in {"voucher_ledger_entries", "voucher_inventory_entries", "gst_details"}
    /\ \A x \in OrderModels :
          /\ x.parent \in {"", "purchase_orders"}
          /\ x.parent = "purchase_orders" => x.table = "purchase_order_items"
    /\ \A x \in ArchiveModels : x.parent = ""
<1>1. \A x \in CompanyModels \cup LedgerModels \cup InventoryModels \cup FirstStateModels :
         x.parent = ""
  BY TableAlone DEF CompanyModels, LedgerModels, InventoryModels, FirstStateModels
<1>2. \A x \in VoucherModels :
         /\ x.parent \in {"", "vouchers"}
         /\ x.parent = "vouchers" =>
               x.table \in {"voucher_ledger_entries", "voucher_inventory_entries", "gst_details"}
  <2> DEFINE rest == {"voucher_ledger_entries", "voucher_inventory_entries", "gst_details"}
             head == Table("vouchers", {"company_name", "voucher_number", "voucher_type"})
  <2>1. VoucherModels = {head} \cup {Child(t, "vouchers") : t \in rest}
    BY DEF VoucherModels
  <2>2. head.parent = "" BY TableAlone
  <2>3. \A t : Child(t, "vouchers").parent = "vouchers" /\ Child(t, "vouchers").table = t
    BY ChildNamed, ChildOf
  <2> HIDE DEF rest, head
  <2>4. \A x \in VoucherModels : x.parent \in {"", "vouchers"}
                                /\ (x.parent = "vouchers" => x.table \in rest)
    BY <2>1, <2>2, <2>3
  <2> QED BY <2>4 DEF rest
<1>3. \A x \in ModelsAt(1) :
         x \in CompanyModels \cup LedgerModels \cup InventoryModels \cup FirstStateModels
         \/ x \in VoucherModels
  BY DEF ModelsAt, FirstModels
<1>4. \A x \in OrderModels :
         /\ x.parent \in {"", "purchase_orders"}
         /\ x.parent = "purchase_orders" => x.table = "purchase_order_items"
  <2> DEFINE head == Table("purchase_orders", PerCompany("voucher_number"))
             item == Child("purchase_order_items", "purchase_orders")
  <2>1. OrderModels = {head, item} BY DEF OrderModels
  <2>2. head.parent = "" BY TableAlone
  <2>3. item.parent = "purchase_orders" BY ChildOf
  <2>4. item.table = "purchase_order_items" BY ChildNamed
  <2> HIDE DEF head, item
  <2> QED BY <2>1, <2>2, <2>3, <2>4
<1>5. \A x \in ArchiveModels : x.parent = "" BY TableAlone DEF ArchiveModels
<1> QED BY <1>1, <1>2, <1>3, <1>4, <1>5

\* Dropping the tables of a group leaves the others.
LEMMA OthersLeft ==
    ASSUME NEW a, NEW group, NEW names, NamesIn(group) = names, NamesIn(a) \cap names = {}
    PROVE  {x \in a \cup group : x.table \notin names} = a
BY DEF NamesIn

LEMMA FirstDowngradeWalks == Walks(Downgrade0001, FirstModels, {})
<1> DEFINE names == <<"sync_runs", "sync_checkpoints", "gst_details",
                      "voucher_inventory_entries", "voucher_ledger_entries", "vouchers",
                      "stock_items", "stock_groups", "godowns", "units", "voucher_types",
                      "ledgers", "ledger_groups", "companies">>
           a == ModelsAt(1)
<1>1. Len(names) = 14 /\ names \in Seq(ToSet(names)) BY DEF ToSet
<1>2. ToSet(names) = NamesIn(a)
  <2>1. ToSet(names) =
          {names[1], names[2], names[3], names[4], names[5], names[6], names[7], names[8],
           names[9], names[10], names[11], names[12], names[13], names[14]}
    BY DEF ToSet
  <2>2. ToSet(names) =
          {"sync_runs", "sync_checkpoints", "gst_details", "voucher_inventory_entries",
           "voucher_ledger_entries", "vouchers", "stock_items", "stock_groups", "godowns",
           "units", "voucher_types", "ledgers", "ledger_groups", "companies"}
    BY <2>1
  <2> HIDE DEF names, a
  <2> QED BY <2>2, NamesAt DEF a
<1>3. \A i, j \in 1..Len(names) : names[i] = names[j] => i = j OBVIOUS
<1>4. ASSUME NEW i \in 1..Len(names), NEW x \in a, x.parent = names[i]
      PROVE  \E j \in 1..i-1 : names[j] = x.table
  <2>1. names[i] # ""
    <3>1. "" \notin NamesIn(a) BY NamesAt
    <3>2. names[i] \in ToSet(names) BY <1>1 DEF ToSet
    <3> HIDE DEF names, a
    <3> QED BY <1>2, <3>1, <3>2
  <2>2. x.parent = "vouchers"
        /\ x.table \in {"voucher_ledger_entries", "voucher_inventory_entries", "gst_details"}
    BY <1>4, <2>1, Parents
  <2>3. i = 6 BY <1>1, <1>3, <1>4, <2>2
  <2>4. names[3] = "gst_details" /\ names[4] = "voucher_inventory_entries"
        /\ names[5] = "voucher_ledger_entries"
    OBVIOUS
  <2> HIDE DEF names, a
  <2>5. 3 \in 1..i-1 /\ 4 \in 1..i-1 /\ 5 \in 1..i-1 BY <2>3
  <2> QED BY <2>2, <2>4, <2>5
<1>5. \A i \in 1..Len(names) : names[i] \in NamesIn(a) BY <1>1, <1>2 DEF ToSet
<1>6. {x \in a : x.table \notin ToSet(names)} = {} BY <1>2 DEF NamesIn
<1>7. Downgrade0001 = DropAll(names) BY DEF Downgrade0001
<1>8. a = FirstModels BY DEF ModelsAt
<1> HIDE DEF names, a
<1>9. Walks(DropAll(names), a, {x \in a : x.table \notin ToSet(names)})
  BY <1>1, <1>3, <1>4, <1>5, DropsWalk
<1> QED BY <1>6, <1>7, <1>8, <1>9

LEMMA OrderMigrationsWalk ==
    /\ Walks(Upgrade0002, ModelsAt(1), ModelsAt(2))
    /\ Walks(Downgrade0002, ModelsAt(2), ModelsAt(1))
<1> DEFINE defs == <<Table("purchase_orders", PerCompany("voucher_number")),
                     Child("purchase_order_items", "purchase_orders")>>
           names == <<"purchase_order_items", "purchase_orders">>
           a == ModelsAt(1)
           b == ModelsAt(2)
<1>1. ToSet(defs) = OrderModels BY DEF ToSet, OrderModels
<1>2. Grouped(defs) /\ defs \in Seq(ToSet(defs))
  <2>1. /\ Len(defs) = 2 /\ defs \in Seq(ToSet(defs))
        /\ defs[1] = Table("purchase_orders", PerCompany("voucher_number"))
        /\ defs[2] = Child("purchase_order_items", "purchase_orders")
    BY DEF ToSet
  <2> HIDE DEF defs
  <2>2. \A i \in 1..2 : defs[i] = Created(defs[i]) BY <2>1, TableNew, ChildNew
  <2>3. defs[1].table = "purchase_orders" /\ defs[2].table = "purchase_order_items"
    BY <2>1, TableNamed, ChildNamed
  <2>4. defs[1].parent = "" /\ defs[2].parent = "purchase_orders"
    BY <2>1, TableAlone, ChildOf
  <2>5. \A i, j \in 1..2 : defs[i].table = defs[j].table => i = j BY <2>3
  <2>6. \A i \in 2..2 : defs[i].parent \in {"", defs[1].table}
    <3>1. 2..2 = {2} OBVIOUS
    <3> QED BY <2>3, <2>4, <3>1
  <2>7. defs \in Seq(ToSet(defs)) /\ Len(defs) = 2 /\ 2 # 0
    BY <2>1
  <2> QED BY <2>2, <2>4, <2>5, <2>6, <2>7, GroupedOf, Zenon
<1>3. /\ Len(names) = 2 /\ names \in Seq(ToSet(names)) /\ names[1] = "purchase_order_items"
      /\ names[2] = "purchase_orders" /\ ToSet(names) = NamesIn(OrderModels)
  BY ModelNames DEF ToSet
<1>4. NamesIn(OrderModels) \cap NamesIn(a) = {} BY ModelNames, NamesAt
<1>5. b = a \cup OrderModels BY DEF ModelsAt
<1>6. Upgrade0002 = CreateAll(defs) /\ Downgrade0002 = DropAll(names)
  BY DEF Upgrade0002, Downgrade0002
<1> HIDE DEF defs, names, a, b
<1>7. Walks(CreateAll(defs), a, b) BY <1>1, <1>2, <1>4, <1>5, GroupWalk
<1>8. {x \in b : x.table \notin ToSet(names)} = a BY <1>3, <1>4, <1>5, OthersLeft
<1>9. Walks(DropAll(names), b, a)
  <2>1. \A i \in 1..Len(names) : names[i] \in NamesIn(b)
    BY <1>3, <1>5, NamesOfBoth, ModelNames
  <2>2. \A i, j \in 1..Len(names) : names[i] = names[j] => i = j BY <1>3
  <2>3. ASSUME NEW i \in 1..Len(names), NEW x \in b, x.parent = names[i]
        PROVE  \E j \in 1..i-1 : names[j] = x.table
    <3>1. x.parent \in {"", "vouchers"} \/ x.parent = "" \/
          (x.parent = "purchase_orders" /\ x.table = "purchase_order_items")
      BY <1>5, Parents DEF a
    <3>2. i \in {1, 2} BY <1>3
    <3>3. i = 2 /\ x.table = "purchase_order_items" BY <1>3, <2>3, <3>1, <3>2
    <3> QED BY <1>3, <3>3
  <2> QED BY <1>3, <1>8, <2>1, <2>2, <2>3, DropsWalk
<1> QED BY <1>6, <1>7, <1>9 DEF a, b

\* Revision 0003 adds columns to one table that revision 0001 made.
LEMMA RunsAltered ==
    LET a == ModelsAt(2) \cup ArchiveModels
        first == Table("sync_runs", {})
        last == [first EXCEPT !.later = RunStatistics]
    IN  /\ first \in a /\ Models = {x \in a : x.table # "sync_runs"} \cup {last}
        /\ a = {x \in Models : x.table # "sync_runs"} \cup {first}
<1> DEFINE first == Table("sync_runs", {})
           last == [first EXCEPT !.later = RunStatistics]
           checkpoints == Table("sync_checkpoints", PerCompany("entity_type"))
           others == CompanyModels \cup LedgerModels \cup InventoryModels \cup VoucherModels
                     \cup OrderModels \cup ArchiveModels \cup {checkpoints}
<1>1. ModelsAt(2) \cup ArchiveModels = others \cup {first}
  BY DEF ModelsAt, FirstModels, FirstStateModels
<1>2. Models = others \cup {last} BY DEF Models, StateModels
<1>3. first.table = "sync_runs" /\ last.table = "sync_runs" BY DEF Table
<1>4. \A x \in others : x.table # "sync_runs"
  <2>1. /\ "sync_runs" \notin NamesIn(CompanyModels) /\ "sync_runs" \notin NamesIn(LedgerModels)
        /\ "sync_runs" \notin NamesIn(InventoryModels)
        /\ "sync_runs" \notin NamesIn(VoucherModels) /\ "sync_runs" \notin NamesIn(OrderModels)
        /\ "sync_runs" \notin NamesIn(ArchiveModels)
    BY ModelNames
  <2>2. checkpoints.table # "sync_runs" BY DEF Table
  <2> HIDE DEF checkpoints
  <2> QED BY <2>1, <2>2 DEF NamesIn
<1> HIDE DEF first, last, others
<1>5. /\ first \in ModelsAt(2) \cup ArchiveModels
      /\ Models = {x \in ModelsAt(2) \cup ArchiveModels : x.table # "sync_runs"} \cup {last}
      /\ ModelsAt(2) \cup ArchiveModels = {x \in Models : x.table # "sync_runs"} \cup {first}
  BY <1>1, <1>2, <1>3, <1>4
<1> QED BY <1>5 DEF first, last

LEMMA ArchiveMigrationsWalk ==
    /\ Walks(Upgrade0003, ModelsAt(2), ModelsAt(3))
    /\ Walks(Downgrade0003, ModelsAt(3), ModelsAt(2))
<1> DEFINE defs == <<Table("tally_raw_archive", ArchiveKey),
                     Table("tally_entity_versions", VersionKey)>>
           names == <<"tally_entity_versions", "tally_raw_archive">>
           add == AddColumns("sync_runs", RunStatistics)
           remove == DropColumns("sync_runs", RunStatistics)
           first == Table("sync_runs", {})
           last == [first EXCEPT !.later = RunStatistics]
           a == ModelsAt(2)
           b == a \cup ArchiveModels
<1>1. ToSet(defs) = ArchiveModels
  <2>1. ToSet(defs) = {defs[1], defs[2]} BY DEF ToSet
  <2>2. ArchiveKey = {"entity_type", "company_name", "guid"}
        /\ VersionKey = {"entity_type", "company_name", "guid", "xml_hash"}
    BY DEF ArchiveKey, VersionKey, PerCompany
  <2> QED BY <2>1, <2>2 DEF ArchiveModels
<1>2. Grouped(defs) /\ defs \in Seq(ToSet(defs))
  <2>1. /\ Len(defs) = 2 /\ defs \in Seq(ToSet(defs))
        /\ defs[1] = Table("tally_raw_archive", ArchiveKey)
        /\ defs[2] = Table("tally_entity_versions", VersionKey)
    BY DEF ToSet
  <2> HIDE DEF defs
  <2>2. \A i \in 1..2 : defs[i] = Created(defs[i]) BY <2>1, TableNew
  <2>3. defs[1].table = "tally_raw_archive" /\ defs[2].table = "tally_entity_versions"
    BY <2>1, TableNamed
  <2>4. defs[1].parent = "" /\ defs[2].parent = "" BY <2>1, TableAlone
  <2>5. \A i, j \in 1..2 : defs[i].table = defs[j].table => i = j BY <2>3
  <2>6. \A i \in 2..2 : defs[i].parent \in {"", defs[1].table}
    <3>1. 2..2 = {2} OBVIOUS
    <3> QED BY <2>3, <2>4, <3>1
  <2>7. defs \in Seq(ToSet(defs)) /\ Len(defs) = 2 /\ 2 # 0
    BY <2>1
  <2> QED BY <2>2, <2>4, <2>5, <2>6, <2>7, GroupedOf, Zenon
<1>3. /\ Len(names) = 2 /\ names \in Seq(ToSet(names)) /\ names[1] = "tally_entity_versions"
      /\ names[2] = "tally_raw_archive" /\ ToSet(names) = NamesIn(ArchiveModels)
  BY ModelNames DEF ToSet
<1>4. NamesIn(ArchiveModels) \cap NamesIn(a) = {} BY ModelNames, NamesAt
<1>5. Upgrade0003 = CreateAll(defs) \o <<add>> /\ Downgrade0003 = <<remove>> \o DropAll(names)
  BY DEF Upgrade0003, Downgrade0003
<1>6. /\ add.op = "add" /\ add.table = "sync_runs" /\ add.columns = RunStatistics
      /\ remove.op = "remove" /\ remove.table = "sync_runs" /\ remove.columns = RunStatistics
  BY DEF AddColumns, DropColumns
<1>7. /\ first.table = "sync_runs" /\ first.later = {} /\ last.table = "sync_runs"
      /\ last.later = RunStatistics /\ last = [first EXCEPT !.later = RunStatistics]
      /\ first = [last EXCEPT !.later = {}]
  <2> DEFINE runs == "sync_runs"
             none == {}
             nothing == ""
  <2>1. first = [table |-> runs, unique |-> none, parent |-> nothing, later |-> none]
    BY DEF Table
  <2>2. last = [first EXCEPT !.later = RunStatistics] OBVIOUS
  <2> HIDE DEF first, last, runs, none, nothing
  <2>3. last = [table |-> runs, unique |-> none, parent |-> nothing, later |-> RunStatistics]
    BY <2>1, <2>2
  <2>4. [last EXCEPT !.later = none]
        = [table |-> runs, unique |-> none, parent |-> nothing, later |-> none]
    BY <2>3
  <2>5. first = [last EXCEPT !.later = {}] BY <2>1, <2>4 DEF none
  <2>6. first.table = "sync_runs" /\ first.later = {} BY <2>1 DEF runs, none
  <2>7. last.table = "sync_runs" /\ last.later = RunStatistics BY <2>3 DEF runs
  <2> QED BY <2>2, <2>5, <2>6, <2>7
<1>8. /\ first \in b /\ last \in Models
      /\ Models = {x \in b : x.table # "sync_runs"} \cup {last}
      /\ b = {x \in Models : x.table # "sync_runs"} \cup {first}
  BY RunsAltered
<1>9. Models = ModelsAt(3) BY DEF ModelsAt
<1>10. \A s : \A x, y : StepOn(s, x, y) => Walks(<<s>>, x, y)
  <2> SUFFICES ASSUME NEW s, NEW x, NEW y, StepOn(s, x, y) PROVE Walks(<<s>>, x, y)
    OBVIOUS
  <2> DEFINE d == [i \in 0..1 |-> IF i = 0 THEN x ELSE y]
  <2>1. d[0] = x /\ d[1] = y OBVIOUS
  <2> HIDE DEF d
  <2>2. WalksBy(d, <<s>>, x, y) BY <2>1 DEF WalksBy
  <2> QED BY <2>2 DEF Walks
<1> HIDE DEF defs, names, add, remove, first, last, a, b
<1>11. Walks(CreateAll(defs), a, b) BY <1>1, <1>2, <1>4, GroupWalk DEF b
<1>12. Walks(<<add>>, b, Models)
  <2>1. add.columns \cap first.later = {} /\ first.later \cup add.columns = RunStatistics
    BY <1>6, <1>7
  <2>2. [first EXCEPT !.later = first.later \cup add.columns] = last BY <1>7, <2>1
  <2>3. \E x \in b :
           /\ add.op = "add" /\ x.table = add.table /\ add.columns \cap x.later = {}
           /\ Models = {y \in b : y.table # add.table}
                       \cup {[x EXCEPT !.later = x.later \cup add.columns]}
    <3>1. Models = {y \in b : y.table # add.table} \cup {last} BY <1>6, <1>8
    <3>2. first \in b /\ first.table = add.table /\ add.op = "add" BY <1>6, <1>7, <1>8
    <3> QED BY <2>1, <2>2, <3>1, <3>2
  <2>4. StepOn(add, b, Models) BY <2>3 DEF StepOn
  <2> QED BY <1>10, <2>4
<1>13. Walks(<<remove>>, Models, b)
  <2>1. remove.columns \subseteq last.later /\ last.later \ remove.columns = {}
    BY <1>6, <1>7
  <2>2. [last EXCEPT !.later = last.later \ remove.columns] = first BY <1>7, <2>1
  <2>3. \E x \in Models :
           /\ remove.op = "remove" /\ x.table = remove.table /\ remove.columns \subseteq x.later
           /\ b = {y \in Models : y.table # remove.table}
                  \cup {[x EXCEPT !.later = x.later \ remove.columns]}
    <3>1. b = {y \in Models : y.table # remove.table} \cup {first} BY <1>6, <1>8
    <3>2. last \in Models /\ last.table = remove.table /\ remove.op = "remove"
      BY <1>6, <1>7, <1>8
    <3> QED BY <2>1, <2>2, <3>1, <3>2
  <2>4. StepOn(remove, Models, b) BY <2>3 DEF StepOn
  <2> QED BY <1>10, <2>4
<1>14. Walks(DropAll(names), b, a)
  <2>1. {x \in b : x.table \notin ToSet(names)} = a BY <1>3, <1>4, OthersLeft DEF b
  <2>2. \A i \in 1..Len(names) : names[i] \in NamesIn(b) BY <1>3, NamesOfBoth, ModelNames DEF b
  <2>3. \A i, j \in 1..Len(names) : names[i] = names[j] => i = j BY <1>3
  <2>4. ASSUME NEW i \in 1..Len(names), NEW x \in b PROVE x.parent # names[i]
    <3>1. x.parent \in {"", "vouchers", "purchase_orders"}
      <4>1. a = ModelsAt(1) \cup OrderModels BY DEF a, ModelsAt
      <4>2. x \in ModelsAt(1) \/ x \in OrderModels \/ x \in ArchiveModels BY <4>1 DEF b
      <4> QED BY <4>2, Parents
    <3>2. i \in {1, 2} BY <1>3
    <3> QED BY <1>3, <3>1, <3>2
  <2> QED BY <1>3, <2>1, <2>2, <2>3, <2>4, DropsWalk
<1>15. CreateAll(defs) \in Seq(Steps) /\ <<add>> \in Seq(Steps)
       /\ DropAll(names) \in Seq(Steps) /\ <<remove>> \in Seq(Steps)
  <2>1. defs \in Seq(Declarations(TableNames))
    <3>1. /\ Table("tally_raw_archive", ArchiveKey) \in Declarations(TableNames)
          /\ Table("tally_entity_versions", VersionKey) \in Declarations(TableNames)
      BY ColumnTypes, DeclarationTypes DEF TableNames
    <3> QED BY <3>1 DEF defs
  <2>2. names \in Seq(TableNames) BY DEF names, TableNames
  <2>3. add \in Steps
    BY ColumnTypes DEF add, AddColumns, Steps, StepsMaking, TableNames
  <2>4. remove \in Steps
    BY ColumnTypes DEF remove, DropColumns, Steps, StepsMaking, TableNames
  <2>5. CreateAll(defs) \in Seq(Steps) /\ DropAll(names) \in Seq(Steps)
    BY <2>1, <2>2, AllSteps DEF Steps
  <2> QED BY <2>3, <2>4, <2>5
<1> QED BY <1>5, <1>9, <1>11, <1>12, <1>13, <1>14, <1>15, WalkOn DEF a

\* From any revision to any other.
LEMMA PathWalks ==
    ASSUME NEW from \in 0..Newest, NEW to \in 0..Newest
    PROVE  Walks(Path(from, to), ModelsAt(from), ModelsAt(to))
<1> DEFINE up(n) == IF from < n /\ n <= to THEN Upgrades[n] ELSE <<>>
           down(n) == IF to < n /\ n <= from THEN Downgrades[n] ELSE <<>>
           upper == IF from < to THEN to ELSE from
           Least(n) == IF n <= from THEN from ELSE IF n <= upper THEN n ELSE upper
           Most(n) == IF to <= n THEN IF n <= upper THEN n ELSE upper ELSE to
<1>1. Path(from, to) = up(1) \o up(2) \o up(3) \o down(3) \o down(2) \o down(1)
  BY DEF Path
<1>2. /\ Walks(Upgrades[1], ModelsAt(0), ModelsAt(1)) /\ Walks(Upgrades[2], ModelsAt(1), ModelsAt(2))
      /\ Walks(Upgrades[3], ModelsAt(2), ModelsAt(3))
      /\ Walks(Downgrades[1], ModelsAt(1), ModelsAt(0))
      /\ Walks(Downgrades[2], ModelsAt(2), ModelsAt(1))
      /\ Walks(Downgrades[3], ModelsAt(3), ModelsAt(2))
  BY FirstUpgradeWalks, FirstDowngradeWalks, OrderMigrationsWalk, ArchiveMigrationsWalk
     DEF Upgrades, Downgrades, ModelsAt
<1>3. from \in {0, 1, 2, 3} /\ to \in {0, 1, 2, 3} BY DEF Newest
<1>4. /\ Walks(up(1), ModelsAt(from), ModelsAt(Least(1)))
      /\ Walks(up(2), ModelsAt(Least(1)), ModelsAt(Least(2)))
      /\ Walks(up(3), ModelsAt(Least(2)), ModelsAt(upper))
      /\ Walks(down(3), ModelsAt(upper), ModelsAt(Most(2)))
      /\ Walks(down(2), ModelsAt(Most(2)), ModelsAt(Most(1)))
      /\ Walks(down(1), ModelsAt(Most(1)), ModelsAt(to))
  BY <1>2, <1>3, NoWalk
<1>5. /\ up(1) \in Seq(Steps) /\ up(2) \in Seq(Steps) /\ up(3) \in Seq(Steps)
      /\ down(1) \in Seq(Steps) /\ down(2) \in Seq(Steps) /\ down(3) \in Seq(Steps)
  <2>1. Early \subseteq TableNames /\ <<>> \in Seq(Steps) BY DEF Early
  <2>2. \A s \in Seq(StepsMaking(Early)) : s \in Seq(Steps) BY <2>1, AllSteps
  <2>3. /\ Upgrades[1] \in Seq(Steps) /\ Upgrades[2] \in Seq(Steps)
        /\ Upgrades[3] \in Seq(Steps)
    BY <2>2, UpgradeTypes DEF Upgrades
  <2>4. /\ Downgrades[1] \in Seq(Steps) /\ Downgrades[2] \in Seq(Steps)
        /\ Downgrades[3] \in Seq(Steps)
    BY <2>2, DowngradeTypes DEF Downgrades
  <2> QED BY <2>1, <2>3, <2>4
<1> HIDE DEF up, down, upper, Least, Most
<1>6. \A s, u \in Seq(Steps) : s \o u \in Seq(Steps) OBVIOUS
<1>7. Walks(up(1) \o up(2), ModelsAt(from), ModelsAt(Least(2))) BY <1>4, <1>5, WalkOn
<1>8. up(1) \o up(2) \in Seq(Steps) BY <1>5, <1>6
<1>9. Walks(up(1) \o up(2) \o up(3), ModelsAt(from), ModelsAt(upper))
  BY <1>4, <1>5, <1>7, <1>8, WalkOn
<1>10. up(1) \o up(2) \o up(3) \in Seq(Steps) BY <1>5, <1>6, <1>8
<1>11. Walks(up(1) \o up(2) \o up(3) \o down(3), ModelsAt(from), ModelsAt(Most(2)))
  BY <1>4, <1>5, <1>9, <1>10, WalkOn
<1>12. up(1) \o up(2) \o up(3) \o down(3) \in Seq(Steps) BY <1>5, <1>6, <1>10
<1>13. Walks(up(1) \o up(2) \o up(3) \o down(3) \o down(2), ModelsAt(from),
             ModelsAt(Most(1)))
  BY <1>4, <1>5, <1>11, <1>12, WalkOn
<1>14. up(1) \o up(2) \o up(3) \o down(3) \o down(2) \in Seq(Steps)
  BY <1>5, <1>6, <1>12
<1>15. Walks(up(1) \o up(2) \o up(3) \o down(3) \o down(2) \o down(1), ModelsAt(from),
             ModelsAt(to))
  BY <1>4, <1>5, <1>13, <1>14, WalkOn
<1> QED BY <1>1, <1>15

(***************************************************************************)
(* The schema.                                                             *)
(***************************************************************************)

\* The tables are those of the revision.
Revised == Declared(tables) = ModelsAt(revision)

\* From the tables of a revision, a migration to any other is possible.
LEMMA MigrationsServe ==
    ASSUME NEW old, old \in Databases(Contents(old)), NEW from \in 0..Newest,
           Declared(old) = ModelsAt(from), NEW to \in 0..Newest
    PROVE  /\ ~Migrated(Path(from, to), old).failed
           /\ Declared(Migrated(Path(from, to), old).tables) = ModelsAt(to)
<1>1. Path(from, to) \in Seq(Steps) BY PathType
<1>2. Walks(Path(from, to), Declared(old), ModelsAt(to)) BY PathWalks
<1> QED BY <1>1, <1>2, WalkServes

LEMMA EmptyServes == Empty \in Databases(Contents(Empty)) /\ Declared(Empty) = ModelsAt(0)
<1>1. DOMAIN Empty = {} /\ Empty \in [{} -> Fields(Contents(Empty))] BY DEF Empty
<1>2. Empty \in Databases(Contents(Empty)) BY <1>1 DEF Databases
<1>3. Declared(Empty) = {} BY <1>1 DEF Declared
<1> QED BY <1>2, <1>3 DEF ModelsAt

\* No step takes the tables away from their revision.
LEMMA RevisedStep == ASSUME DatabaseInv, Revised, [Next]_vars PROVE Revised'
<1>1. Typed /\ revision \in 0..Newest /\ tables \in Databases(Contents(tables))
  BY DEF DatabaseInv, Typed
<1>2. ASSUME NEW o \in Objects, NEW n \in NamesOf[o], Save(o, n) PROVE Revised'
  BY <1>2 DEF Save, Revised
<1>3. ASSUME NEW to \in 0..Newest, Migrate(to) PROVE Revised'
  <2>1. tables' = Migrated(Path(revision, to), tables).tables /\ revision' = to
    BY <1>3 DEF Migrate
  <2>2. Declared(Migrated(Path(revision, to), tables).tables) = ModelsAt(to)
    BY <1>1, MigrationsServe DEF Revised
  <2> QED BY <2>1, <2>2 DEF Revised
<1>4. ASSUME NEW r \in Requests, NEW full \in BOOLEAN, SyncEntity(r[1], r[2], full)
      PROVE  Revised'
  <2>1. PICK items \in Answers(r[1], r[2]) : Sync(r[1], r[2], full, items)
    BY <1>4 DEF SyncEntity
  <2>2. r[2] \in Types BY DatabaseAssumption
  <2>3. Declared(tables') = Declared(tables) BY <1>1, <2>1, <2>2, SyncRows
  <2>4. revision' = revision BY <2>1 DEF Sync
  <2> QED BY <2>3, <2>4 DEF Revised
<1>5. CASE UNCHANGED vars BY <1>5 DEF vars, Revised
<1> QED BY <1>2, <1>3, <1>4, <1>5 DEF Next

\* What the models declare, in a table of that name with those columns unique,
\* is what the database has.
LEMMA ModelServes ==
    ASSUME Typed, Revised, revision = Newest, NEW t, NEW unique, Table(t, unique) \in Models
    PROVE  Accepts(t, unique)
<1>1. Table(t, unique) \in Declared(tables) BY DEF Revised, ModelsAt, Newest
<1>2. PICK u \in DOMAIN tables : Table(t, unique) = DeclaredAs(tables, u)
  BY <1>1 DEF Declared, DeclaredAs
<1>3. Table(t, unique).table = t /\ Table(t, unique).unique = unique BY DEF Table
<1>4. DeclaredAs(tables, u).table = u /\ DeclaredAs(tables, u).unique = tables[u].unique
  BY DEF DeclaredAs
<1> QED BY <1>2, <1>3, <1>4 DEF Accepts

\* The models have what the statements of each service name.
LEMMA NewestServes ==
    ASSUME Typed, Revised, revision = Newest
    PROVE  Declared(tables) = Models /\ \A e \in Types : Serves(e)
<1>1. Declared(tables) = Models BY DEF Revised, ModelsAt, Newest
<1>2. "sync_runs" \in DOMAIN tables /\ RunStatistics \subseteq tables["sync_runs"].later
  <2> DEFINE first == Table("sync_runs", {})
             last == [first EXCEPT !.later = RunStatistics]
  <2>1. last \in Models BY DEF Models, StateModels
  <2>2. PICK u \in DOMAIN tables : last = DeclaredAs(tables, u)
    BY <1>1, <2>1 DEF Declared, DeclaredAs
  <2>3. last.table = "sync_runs" BY DEF Table
  <2>4. last.later = RunStatistics BY DEF Table
  <2>5. DeclaredAs(tables, u).table = u /\ DeclaredAs(tables, u).later = tables[u].later
    BY DEF DeclaredAs
  <2> HIDE DEF last
  <2> QED BY <2>2, <2>3, <2>4, <2>5
<1>3. /\ Accepts("sync_checkpoints", {"company_name", "entity_type"})
      /\ Accepts("tally_raw_archive", {"entity_type", "company_name", "guid"})
      /\ Accepts("tally_entity_versions", {"entity_type", "company_name", "guid", "xml_hash"})
  <2>1. /\ Table("sync_checkpoints", {"company_name", "entity_type"}) \in Models
        /\ Table("tally_raw_archive", {"entity_type", "company_name", "guid"}) \in Models
        /\ Table("tally_entity_versions", {"entity_type", "company_name", "guid", "xml_hash"})
              \in Models
    BY DEF Models, StateModels, ArchiveModels, PerCompany
  <2> QED BY <2>1, ModelServes
<1>4. ASSUME NEW e \in Types PROVE Accepts(Repository[e].table, Repository[e].conflict)
  <2>1. ASSUME NEW t \in {"ledger_groups", "ledgers", "voucher_types", "units", "godowns",
                          "stock_groups", "stock_items"}
        PROVE  Accepts(Named(t).table, Named(t).conflict)
    <3>1. Table(t, PerCompany("name")) \in Models
      <4>1. CASE t \in {"ledger_groups", "ledgers", "voucher_types"}
        BY <4>1 DEF Models, LedgerModels
      <4>2. CASE t \in {"units", "godowns", "stock_groups", "stock_items"}
        BY <4>2 DEF Models, InventoryModels
      <4> QED BY <4>1, <4>2
    <3>2. Named(t).table = t /\ Named(t).conflict = PerCompany("name") BY DEF Named
    <3> QED BY <3>1, <3>2, ModelServes
  <2>2. Accepts("companies", {"name"})
    <3>1. Table("companies", {"name"}) \in Models BY DEF Models, CompanyModels
    <3> QED BY <3>1, ModelServes
  <2>3. Accepts("vouchers", PerCompany("voucher_number") \cup {"voucher_type"})
    <3>1. PerCompany("voucher_number") \cup {"voucher_type"}
          = {"company_name", "voucher_number", "voucher_type"}
      BY DEF PerCompany
    <3>2. Table("vouchers", {"company_name", "voucher_number", "voucher_type"}) \in Models
      BY DEF Models, VoucherModels
    <3> QED BY <3>1, <3>2, ModelServes
  <2>4. Accepts("purchase_orders", PerCompany("voucher_number"))
    <3>1. Table("purchase_orders", PerCompany("voucher_number")) \in Models
      BY DEF Models, OrderModels
    <3> QED BY <3>1, ModelServes
  <2>5. CASE e = "company" BY <2>2, <2>5, RepositoryOf
  <2>6. CASE e = "voucher" BY <2>3, <2>6, RepositoryOf
  <2>7. CASE e = "purchase_order" BY <2>4, <2>7, RepositoryOf
  <2>8. CASE e \notin {"company", "voucher", "purchase_order"}
    <3>1. \E t \in {"ledger_groups", "ledgers", "voucher_types", "units", "godowns",
                    "stock_groups", "stock_items"} : Repository[e] = Named(t)
      BY <2>8, RepositoryOf DEF Types
    <3> QED BY <2>1, <3>1
  <2> QED BY <2>5, <2>6, <2>7, <2>8
<1> QED BY <1>1, <1>2, <1>3, <1>4 DEF Serves

\* Whatever way up and down the migrations took, the tables are those of their
\* revision, alembic can go on to any other, and the newest revision is what
\* the ORM models declare and what the statements of all ten services name
\* (app/database/migrations/versions, app/models/db, app/repositories).
THEOREM SchemaAlwaysServes == Spec => []SchemaServes
<1>1. Init => Revised
  <2>1. Init => tables = Empty /\ revision = 0 BY DEF Init
  <2> QED BY <2>1, EmptyServes DEF Revised
<1>2. DatabaseInv /\ Revised /\ [Next]_vars => Revised' BY RevisedStep
<1>3. DatabaseInv /\ Revised => SchemaServes
  <2> SUFFICES ASSUME DatabaseInv, Revised PROVE SchemaServes OBVIOUS
  <2>1. Typed /\ revision \in 0..Newest /\ tables \in Databases(Contents(tables))
    BY DEF DatabaseInv, Typed
  <2>2. Declared(tables) = Declared(Migrated(Path(0, revision), Empty).tables)
    <3>1. 0 \in 0..Newest BY DEF Newest
    <3>2. Declared(Migrated(Path(0, revision), Empty).tables) = ModelsAt(revision)
      BY <2>1, <3>1, EmptyServes, MigrationsServe
    <3> QED BY <3>2 DEF Revised
  <2>3. \A to \in 0..Newest : ~Migrated(Path(revision, to), tables).failed
    BY <2>1, MigrationsServe DEF Revised
  <2>4. revision = Newest => Declared(tables) = Models /\ \A e \in Types : Serves(e)
    BY <2>1, NewestServes
  <2> QED BY <2>2, <2>3, <2>4 DEF SchemaServes
<1> QED BY <1>1, <1>2, <1>3, DatabaseInvHolds, PTL DEF Spec

=============================================================================
