---------------------------- MODULE SyncService ----------------------------
(***************************************************************************)
(* BaseSyncService.sync (app/services/base.py) for one entity type of one  *)
(* company, run by any number of threads (the two scheduler jobs, the      *)
(* start-up sync, the control API) that share the service object and have  *)
(* a database transaction each.                                            *)
(*                                                                         *)
(* PostgreSQL runs the transactions at READ COMMITTED: the checkpoint      *)
(* query and the hash query see what is committed when each of them runs.  *)
(* After the hash query a transaction only writes, holds the locks of the  *)
(* rows it wrote until it ends, and all its writes appear when it commits; *)
(* so the writes, finish_run and the commit are one step, Commit, and a    *)
(* failure anywhere before the commit is Fail, which leaves the tables as  *)
(* they were.                                                              *)
(***************************************************************************)
EXTENDS TallySource

CONSTANTS
    Workers,    \* the threads that may run sync() for this entity
    Guids,      \* the GUIDs found in the exported XML
    GuidOf,     \* the GUID of each object ("" may be that of several)
    Truncating  \* whether the parser may recover from a damaged response
                \* and return only some of its records

ASSUME ServiceAssumption ==
    /\ GuidOf \in [Objects -> Guids]
    /\ Truncating \in BOOLEAN

VARIABLES
    archive,    \* tally_raw_archive: guid -> record
    entity,     \* the normalised table: name -> [guid, xml]
    versions,   \* tally_entity_versions: set of [guid, xml]
    checkpoint, \* sync_checkpoints.last_alter_id, 0 when there is no row
    runs,       \* the statuses the committed sync_runs rows have
    ended,      \* how the attempts so far ended, as the caller saw it
    phase,      \* where each worker is in sync()
    full,       \* its argument full
    since,      \* its local alter_id
    response,   \* the parsed items: object -> record
    stored      \* existing_hashes: guid -> record

tables == <<archive, entity, versions, checkpoint, runs>>
locals == <<phase, full, since, response, stored>>
vars == <<sourceVars, tables, ended, locals>>

Phases == {"idle", "fetch", "compare", "write"}
Row == [guid : Guids, xml : Record]

Init ==
    /\ SourceInit
    /\ archive = Empty /\ entity = Empty /\ versions = {}
    /\ checkpoint = 0
    /\ runs = {} /\ ended = {}
    /\ phase = [w \in Workers |-> "idle"]
    /\ full = [w \in Workers |-> FALSE]
    /\ since = [w \in Workers |-> 0]
    /\ response = [w \in Workers |-> Empty]
    /\ stored = [w \in Workers |-> Empty]

(***************************************************************************)
(* The fidelity pipeline, as functions of what a worker holds.             *)
(***************************************************************************)

\* Defective variant: one AlterID too many counts as covered.
Newer_OffByOne(items, cp, isFull) ==
    IF ~isFull /\ cp > 0
    THEN {o \in DOMAIN items : items[o].alter_id > cp + 1}
    ELSE DOMAIN items

\* An incremental sync drops what its checkpoint covers.
Newer(items, cp, isFull) ==
    IF ~isFull /\ cp > 0
    THEN {o \in DOMAIN items : items[o].alter_id > cp}
    ELSE DOMAIN items

\* Defective variant: a known guid is taken for an unchanged record.
NewOrChanged_NewOnly(batch, items, hashes) ==
    {o \in batch : GuidOf[o] \notin DOMAIN hashes}

\* Defective variant: the AlterID is compared and not the hash.
NewOrChanged_ByAlterId(batch, items, hashes) ==
    {o \in batch : \/ GuidOf[o] \notin DOMAIN hashes
                   \/ hashes[GuidOf[o]].alter_id # items[o].alter_id}

\* The records whose hash is not the archived one: stored_hash is None or
\* differs.
NewOrChanged(batch, items, hashes) ==
    {o \in batch : \/ GuidOf[o] \notin DOMAIN hashes
                   \/ hashes[GuidOf[o]] # items[o]}

\* INSERT ... ON CONFLICT DO UPDATE rejects a statement that has two rows
\* with the same (entity_type, company_name, guid); the batches of the model
\* are of one statement (_CHUNK_SIZE rows or fewer).
Ambiguous(batch) == \E o, p \in batch : o # p /\ GuidOf[o] = GuidOf[p]

\* Defective variant: each row gets the highest AlterID, that of the checkpoint.
ByGuid_HighestAlterId(batch, items) ==
    [g \in {GuidOf[o] : o \in batch} |->
        [items[CHOOSE o \in batch : GuidOf[o] = g] EXCEPT !.alter_id =
            CHOOSE m \in {items[o].alter_id : o \in batch} :
                \A o \in batch : items[o].alter_id <= m]]

\* The archive rows of a batch that is not ambiguous.
ByGuid(batch, items) ==
    [g \in {GuidOf[o] : o \in batch} |->
        items[CHOOSE o \in batch : GuidOf[o] = g]]

\* Its history rows; a row the history has already is not added again.
Rows(batch, items) == {[guid |-> GuidOf[o], xml |-> items[o]] : o \in batch}

\* bulk_upsert keeps the last row of each name; the order of the rows in the
\* response is Tally's, so any of them may be the last.
ByName(batch, items) ==
    LET names == {items[o].name : o \in batch} IN
    {[n \in names |-> [guid |-> GuidOf[last[n]], xml |-> items[last[n]]]] :
        last \in {f \in [names -> batch] : \A n \in names : items[f[n]].name = n}}

\* max(alter_id of every parsed item, default 0), as a singleton.
Highest(items) ==
    {m \in {0} \cup {items[o].alter_id : o \in DOMAIN items} :
        \A o \in DOMAIN items : items[o].alter_id <= m}

\* Defective variant: the next AlterID is stored instead of the last.
NextCheckpoint_Next(old, cp, isFull, changed, m) ==
    IF (changed # {} \/ isFull) /\ (m > cp \/ isFull) THEN m + 1 ELSE old

\* When and what save_alter_id stores, after a pipeline that found changed
\* records to write (count > 0) or not.
NextCheckpoint(old, cp, isFull, changed, m) ==
    IF (changed # {} \/ isFull) /\ (m > cp \/ isFull) THEN m ELSE old

(***************************************************************************)
(* The steps of sync().                                                    *)
(***************************************************************************)

\* Leaving session_scope: the locals are gone.
Leave(w) ==
    /\ phase' = [phase EXCEPT ![w] = "idle"]
    /\ full' = [full EXCEPT ![w] = FALSE]
    /\ since' = [since EXCEPT ![w] = 0]
    /\ response' = [response EXCEPT ![w] = Empty]
    /\ stored' = [stored EXCEPT ![w] = Empty]

\* start_run (a row only this transaction sees) and the checkpoint query.
Begin(w, isFull) ==
    /\ phase[w] = "idle"
    /\ phase' = [phase EXCEPT ![w] = "fetch"]
    /\ full' = [full EXCEPT ![w] = isFull]
    /\ since' = [since EXCEPT ![w] = IF isFull THEN 0 ELSE checkpoint]
    /\ UNCHANGED <<sourceVars, tables, ended, response, stored>>

\* Tally answers with what it is asked to show, whatever the checkpoint; a
\* recovering parser may yield only some of the records.
Receive(w, shown) ==
    /\ phase[w] = "fetch"
    /\ \E kept \in IF Truncating THEN SUBSET shown ELSE {shown} :
         response' = [response EXCEPT ![w] = Restrict(tally, kept)]
    /\ phase' = [phase EXCEPT ![w] = "compare"]
    /\ UNCHANGED <<sourceVars, tables, ended, full, since, stored>>

\* A collection is exported whole, as it is now.
Fetch(w) == Receive(w, DOMAIN tally)

\* get_latest_hashes for the guids of the batch.
Compare(w) ==
    /\ phase[w] = "compare"
    /\ LET batch == Newer(response[w], since[w], full[w])
           known == {GuidOf[o] : o \in batch} \cap DOMAIN archive
       IN  stored' = [stored EXCEPT ![w] = Restrict(archive, known)]
    /\ phase' = [phase EXCEPT ![w] = "write"]
    /\ UNCHANGED <<sourceVars, tables, ended, full, since, response>>

Batch(w) == Newer(response[w], since[w], full[w])
Changed(w) == NewOrChanged(Batch(w), response[w], stored[w])
Unchanged(w) == Batch(w) \ Changed(w)

\* The writes of the pipeline, the checkpoint, finish_run and the commit.
\* The unchanged rows are archived after the changed ones.
Commit(w) ==
    /\ phase[w] = "write"
    /\ ~Ambiguous(Changed(w)) /\ ~Ambiguous(Unchanged(w))
    /\ \E rows \in ByName(Changed(w), response[w]) : entity' = Overlay(entity, rows)
    /\ archive' = Overlay(Overlay(archive, ByGuid(Changed(w), response[w])),
                          ByGuid(Unchanged(w), response[w]))
    /\ versions' = versions \cup Rows(Changed(w), response[w])
    /\ \E m \in Highest(response[w]) :
         checkpoint' = NextCheckpoint(checkpoint, since[w], full[w], Changed(w), m)
    /\ runs' = runs \cup {"success"}
    /\ ended' = ended \cup {"success"}
    /\ Leave(w)
    /\ UNCHANGED sourceVars

\* The archive statement raises CardinalityViolation.
Reject(w) ==
    /\ phase[w] = "write"
    /\ Ambiguous(Changed(w)) \/ Ambiguous(Unchanged(w))
    /\ ended' = ended \cup {"failure"}
    /\ Leave(w)
    /\ UNCHANGED <<sourceVars, tables>>

\* Tally does not answer or answers with an error, the database refuses a
\* statement or the commit.  finish_run(failure) is called and undone by the
\* rollback with everything else.
Fail(w) ==
    /\ phase[w] # "idle"
    /\ ended' = ended \cup {"failure"}
    /\ Leave(w)
    /\ UNCHANGED <<sourceVars, tables>>

\* The agent's process ends; PostgreSQL rolls its transactions back.
Crash ==
    /\ \E w \in Workers : phase[w] # "idle"
    /\ phase' = [w \in Workers |-> "idle"]
    /\ full' = [w \in Workers |-> FALSE]
    /\ since' = [w \in Workers |-> 0]
    /\ response' = [w \in Workers |-> Empty]
    /\ stored' = [w \in Workers |-> Empty]
    /\ UNCHANGED <<sourceVars, tables, ended>>

Source == SourceNext /\ UNCHANGED <<tables, ended, locals>>

Next ==
    \/ Source
    \/ \E w \in Workers :
          \/ \E isFull \in BOOLEAN : Begin(w, isFull)
          \/ Fetch(w) \/ Compare(w) \/ Commit(w) \/ Reject(w) \/ Fail(w)
    \/ Crash

Spec == Init /\ [][Next]_vars

(***************************************************************************)
(* The interval job and the cron job fire again and again, so each mode is *)
(* started again and again; strong fairness of the later steps says that   *)
(* Tally and the database do not fail every single attempt of a mode.      *)
(***************************************************************************)
InMode(w, isFull, Step(_)) == full[w] = isFull /\ Step(w)

Fairness ==
    \A w \in Workers, isFull \in BOOLEAN :
        /\ SF_vars(Begin(w, isFull))
        /\ SF_vars(InMode(w, isFull, Fetch))
        /\ SF_vars(InMode(w, isFull, Compare))
        /\ SF_vars(InMode(w, isFull, Commit))

FairSpec == Spec /\ Fairness

(***************************************************************************)
(* Properties.                                                             *)
(***************************************************************************)

\* Types of the tables and of the locals of sync().
TypeOK ==
    /\ SourceTypeOK
    /\ \E S \in SUBSET Guids : archive \in [S -> Record]
    /\ \E S \in SUBSET Names : entity \in [S -> Row]
    /\ versions \subseteq Row
    /\ checkpoint \in 0..MaxAlterId
    /\ runs \subseteq {"success", "failure"} /\ ended \subseteq {"success", "failure"}
    /\ phase \in [Workers -> Phases]
    /\ full \in [Workers -> BOOLEAN]
    /\ since \in [Workers -> 0..MaxAlterId]
    /\ DOMAIN response = Workers /\ DOMAIN stored = Workers
    /\ \A w \in Workers : \E S \in SUBSET Objects : response[w] \in [S -> Record]
    /\ \A w \in Workers : \E S \in SUBSET Guids : stored[w] \in [S -> Record]

Archived(o) == GuidOf[o] \in DOMAIN archive /\ Edit(archive[GuidOf[o]]) = Edit(tally[o])

\* The history table explains the two others: whatever threads interleave,
\* fail or overwrite each other, each row of the archive and of the entity
\* table is in tally_entity_versions.
HistoryComplete ==
    /\ \A g \in DOMAIN archive : [guid |-> g, xml |-> archive[g]] \in versions
    /\ \A n \in DOMAIN entity : entity[n] \in versions

InHistory(o) ==
    \E v \in versions : v.guid = GuidOf[o] /\ Edit(v.xml) = Edit(tally[o])

CoveredUpTo(c) == \A o \in DOMAIN tally : tally[o].alter_id <= c => InHistory(o)

\* An incremental sync never looks again at an AlterID its checkpoint covers,
\* so each save the checkpoint has passed must be in the history, for any
\* number of threads, full and incremental syncs mixed.
NoSaveMissed == CoveredUpTo(checkpoint)

\* The records the AlterID filter drops are those whose archive row is
\* up to date (app/services/company.py:20, "skip unchanged records").
SkipsOnlyArchived ==
    \A o \in DOMAIN tally : tally[o].alter_id <= checkpoint => Archived(o)

\* Where the archive has the current save of an object, the entity table has
\* the same row under the object's name: skipping the upsert of a record
\* whose hash is archived loses nothing.
EntityFollowsArchive ==
    \A o \in DOMAIN tally : Archived(o) =>
        /\ tally[o].name \in DOMAIN entity
        /\ entity[tally[o].name] = [guid |-> GuidOf[o], xml |-> archive[GuidOf[o]]]

\* "Latest state only" (app/models/db/raw_archive.py:6): the archive row of a
\* guid never goes back to an earlier save.
ArchiveNeverOlder ==
    [][\A g \in DOMAIN archive :
          g \in DOMAIN archive' /\ archive'[g].alter_id >= archive[g].alter_id]_vars

\* "One row per sync execution attempt" (app/models/db/sync_state.py:33):
\* the way each attempt ended is in sync_runs.
EveryAttemptAudited == ended \subseteq runs

Mirrored(o) ==
    /\ GuidOf[o] \in DOMAIN archive /\ archive[GuidOf[o]] = tally[o]
    /\ tally[o].name \in DOMAIN entity
    /\ entity[tally[o].name] = [guid |-> GuidOf[o], xml |-> tally[o]]

\* An entity is "still stored, never discarded" whatever its guid
\* (app/models/db/raw_archive.py:15-16).
NeverDiscarded ==
    <>[](\A o \in DOMAIN tally : InHistory(o))

(***************************************************************************)
(* The inductive invariant behind HistoryComplete and NoSaveMissed: what   *)
(* the locals of a sync in progress have to do with the tables and with    *)
(* what Tally has become since.                                            *)
(***************************************************************************)

AlterIdsGiven ==
    /\ checkpoint <= lastAlterId
    /\ \A o \in DOMAIN tally : tally[o].alter_id \in 1..lastAlterId
    /\ \A w \in Workers :
          /\ since[w] <= lastAlterId
          /\ \A o \in DOMAIN response[w] : response[w][o].alter_id \in 1..lastAlterId

StoredInHistory ==
    \A w \in Workers : \A g \in DOMAIN stored[w] :
        [guid |-> g, xml |-> stored[w][g]] \in versions

\* What a complete response does not show as it is now was saved after it.
Seen(w, o) ==
    \/ o \in DOMAIN response[w] /\ Edit(response[w][o]) = Edit(tally[o])
    \/ \A p \in DOMAIN response[w] : response[w][p].alter_id < tally[o].alter_id

ResponsesCurrent ==
    \A w \in Workers : phase[w] \in {"compare", "write"} =>
        \A o \in DOMAIN tally : Seen(w, o)

\* The strengthening that each step of sync() and of Tally preserves while no
\* response is truncated (app/services/base.py:55-90).
SyncInv ==
    /\ TypeOK /\ AlterIdsGiven
    /\ HistoryComplete /\ StoredInHistory
    /\ ResponsesCurrent
    /\ NoSaveMissed
    /\ \A w \in Workers : CoveredUpTo(since[w])

=============================================================================
