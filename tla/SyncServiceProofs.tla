------------------------- MODULE SyncServiceProofs -------------------------
(***************************************************************************)
(* Proofs about SyncService and VoucherSync, for any objects, names, guids,*)
(* threads, dates and bounds.  TypeCorrect: every step keeps the types and *)
(* the order of the AlterIDs.  HistoryIsComplete: the history explains the *)
(* other tables.  SyncInvHolds: the checkpoint never passes a save the     *)
(* history lacks.  PassedVouchersAreKept: of vouchers, it passes only such *)
(* as the period of the request does not have.                             *)
(***************************************************************************)
EXTENDS VoucherSync, TLAPS

TypeInv == TypeOK /\ AlterIdsGiven

(***************************************************************************)
(* Partial functions (the dicts and tables of the code).                   *)
(***************************************************************************)

\* A dict updated with another has the keys of both (dict.update, upserts).
LEMMA OverlayType ==
    ASSUME NEW A, NEW B, NEW V, NEW f \in [A -> V], NEW g \in [B -> V]
    PROVE  Overlay(f, g) \in [A \cup B -> V]
BY DEF Overlay

\* The empty dict is a function into any set.
LEMMA EmptyType ==
    ASSUME NEW A, NEW V
    PROVE  \E S \in SUBSET A : Empty \in [S -> V]
<1>1. Empty \in [{} -> V] BY DEF Empty
<1> QED BY <1>1

\* A part of a dict is a dict.
LEMMA RestrictType ==
    ASSUME NEW A, NEW V, NEW f, NEW T,
           \E S \in SUBSET A : f \in [S -> V],
           T \subseteq DOMAIN f
    PROVE  /\ Restrict(f, T) \in [T -> V]
           /\ \E S \in SUBSET A : Restrict(f, T) \in [S -> V]
<1>1. PICK S \in SUBSET A : f \in [S -> V] OBVIOUS
<1>2. T \in SUBSET A BY <1>1
<1>3. Restrict(f, T) \in [T -> V] BY <1>1, <1>2 DEF Restrict
<1> QED BY <1>2, <1>3

(***************************************************************************)
(* The pipeline's operators.                                               *)
(***************************************************************************)

\* Filtering keeps a subset of the response, splitting a subset of the batch.
LEMMA BatchSubset ==
    ASSUME NEW items, NEW cp, NEW isFull, NEW hashes
    PROVE  /\ Newer(items, cp, isFull) \subseteq DOMAIN items
           /\ NewOrChanged(Newer(items, cp, isFull), items, hashes)
                 \subseteq Newer(items, cp, isFull)
BY DEF Newer, NewOrChanged

\* Each archive row is the record of an object of the batch with that guid.
LEMMA ByGuidRow ==
    ASSUME NEW items, NEW batch, NEW g \in DOMAIN ByGuid(batch, items)
    PROVE  \E o \in batch : GuidOf[o] = g /\ ByGuid(batch, items)[g] = items[o]
<1> DEFINE pick(h) == CHOOSE o \in batch : GuidOf[o] = h
<1>1. ByGuid(batch, items) = [h \in {GuidOf[o] : o \in batch} |-> items[pick(h)]]
  BY DEF ByGuid
<1>2. g \in {GuidOf[o] : o \in batch} BY <1>1
<1>3. pick(g) \in batch /\ GuidOf[pick(g)] = g BY <1>2
<1>4. ByGuid(batch, items)[g] = items[pick(g)] BY <1>1, <1>2
<1> HIDE DEF pick
<1> QED BY <1>3, <1>4

\* The archive rows of a batch are typed.
LEMMA ByGuidType ==
    ASSUME NEW S \in SUBSET Objects, NEW items \in [S -> Record],
           NEW batch \in SUBSET S
    PROVE  \E G \in SUBSET Guids : ByGuid(batch, items) \in [G -> Record]
<1> DEFINE G == {GuidOf[o] : o \in batch}
<1>1. G \in SUBSET Guids BY ServiceAssumption
<1>2. \A g \in DOMAIN ByGuid(batch, items) : ByGuid(batch, items)[g] \in Record
  BY ByGuidRow
<1>3. ByGuid(batch, items) \in [G -> Record] BY <1>2 DEF ByGuid
<1> QED BY <1>1, <1>3

\* The rows bulk_upsert keeps: typed, and each is the row of an object of the
\* batch that has that name.
LEMMA ByNameType ==
    ASSUME NEW S \in SUBSET Objects, NEW items \in [S -> Record],
           NEW batch \in SUBSET S, NEW rows \in ByName(batch, items)
    PROVE  LET N == {items[o].name : o \in batch} IN
           /\ N \in SUBSET Names
           /\ rows \in [N -> Row]
           /\ \A n \in N : rows[n] \in Rows(batch, items)
<1> DEFINE N == {items[o].name : o \in batch}
<1>1. N \in SUBSET Names BY DEF Record
<1>2. PICK last \in [N -> batch] :
          rows = [n \in N |-> [guid |-> GuidOf[last[n]], xml |-> items[last[n]]]]
  BY DEF ByName
<1>3. \A n \in N : /\ last[n] \in batch
                   /\ rows[n] = [guid |-> GuidOf[last[n]], xml |-> items[last[n]]]
  BY <1>2
<1>4. \A n \in N : rows[n] \in Rows(batch, items) BY <1>3 DEF Rows
<1>5. \A o \in batch : [guid |-> GuidOf[o], xml |-> items[o]] \in Row
  BY ServiceAssumption DEF Row
<1>7. \A n \in N : rows[n] \in Row BY <1>3, <1>5
<1>6. rows \in [N -> Row] BY <1>2, <1>7
<1> QED BY <1>1, <1>4, <1>6

\* max(alter_id, default 0) is 0 or some item's AlterID, and bounds them all.
LEMMA HighestIsBound ==
    ASSUME NEW items, NEW m \in Highest(items)
    PROVE  /\ m = 0 \/ \E o \in DOMAIN items : items[o].alter_id = m
           /\ \A o \in DOMAIN items : items[o].alter_id <= m
BY DEF Highest

(***************************************************************************)
(* Types and AlterIDs.                                                     *)
(***************************************************************************)

LocalsOK ==
    /\ phase \in [Workers -> Phases]
    /\ full \in [Workers -> BOOLEAN]
    /\ since \in [Workers -> 0..MaxAlterId]
    /\ DOMAIN response = Workers /\ DOMAIN stored = Workers
    /\ \A w \in Workers : \E S \in SUBSET Objects : response[w] \in [S -> Record]
    /\ \A w \in Workers : \E S \in SUBSET Guids : stored[w] \in [S -> Record]
    /\ \A w \in Workers :
          /\ since[w] <= lastAlterId
          /\ \A o \in DOMAIN response[w] : response[w][o].alter_id \in 1..lastAlterId

TablesOK ==
    /\ \E S \in SUBSET Guids : archive \in [S -> Record]
    /\ \E S \in SUBSET Names : entity \in [S -> Row]
    /\ versions \subseteq Row
    /\ checkpoint \in 0..MaxAlterId /\ checkpoint <= lastAlterId
    /\ runs \subseteq {"success", "failure"} /\ ended \subseteq {"success", "failure"}

SourceOK ==
    /\ SourceTypeOK
    /\ \A o \in DOMAIN tally : tally[o].alter_id \in 1..lastAlterId

\* The three parts of the type invariant.
LEMMA TypeParts == TypeInv <=> SourceOK /\ TablesOK /\ LocalsOK
BY DEF TypeInv, TypeOK, AlterIdsGiven, SourceOK, TablesOK, LocalsOK

\* A table or local that is left alone keeps its type while AlterIDs grow.
LEMMA Untouched ==
    ASSUME TypeInv, lastAlterId' \in Nat, lastAlterId <= lastAlterId'
    PROVE  /\ UNCHANGED <<tables, ended>> => TablesOK'
           /\ UNCHANGED locals => LocalsOK'
<1> USE SourceAssumption, TypeParts
<1>1. lastAlterId \in Nat BY DEF SourceOK, SourceTypeOK
<1>2. ASSUME UNCHANGED <<tables, ended>> PROVE TablesOK'
  BY <1>1, <1>2 DEF TablesOK, tables
<1>3. ASSUME UNCHANGED locals PROVE LocalsOK'
  <2>1. \A w \in Workers : since[w] \in Nat BY DEF LocalsOK
  <2>2. \A w \in Workers :
           since'[w] <= lastAlterId'
           /\ \A o \in DOMAIN response'[w] : response'[w][o].alter_id \in 1..lastAlterId'
    BY <1>1, <1>3, <2>1 DEF LocalsOK, locals
  <2> QED BY <1>3, <2>2 DEF LocalsOK, locals
<1> QED BY <1>2, <1>3

\* Leaving session_scope resets the locals of one worker.
LEMMA LeaveType ==
    ASSUME TypeInv, NEW w \in Workers, Leave(w), lastAlterId' = lastAlterId
    PROVE  LocalsOK'
<1> USE SourceAssumption, TypeParts
<1>1. lastAlterId \in Nat BY DEF SourceOK, SourceTypeOK
<1>2. /\ \E S \in SUBSET Objects : Empty \in [S -> Record]
      /\ \E S \in SUBSET Guids : Empty \in [S -> Record]
      /\ DOMAIN Empty = {}
  BY EmptyType DEF Empty
<1>3. /\ phase' \in [Workers -> Phases]
      /\ full' \in [Workers -> BOOLEAN]
      /\ since' \in [Workers -> 0..MaxAlterId]
      /\ DOMAIN response' = Workers /\ DOMAIN stored' = Workers
  BY DEF Leave, LocalsOK, Phases
<1>4. ASSUME NEW v \in Workers
      PROVE  /\ \E S \in SUBSET Objects : response'[v] \in [S -> Record]
             /\ \E S \in SUBSET Guids : stored'[v] \in [S -> Record]
             /\ since'[v] <= lastAlterId'
             /\ \A o \in DOMAIN response'[v] :
                   response'[v][o].alter_id \in 1..lastAlterId'
  <2>1. CASE v = w
    BY <1>1, <1>2, <2>1 DEF Leave, LocalsOK
  <2>2. CASE v # w
    <3>1. /\ since'[v] = since[v] /\ response'[v] = response[v]
          /\ stored'[v] = stored[v]
      BY <2>2 DEF Leave, LocalsOK
    <3> QED BY <3>1 DEF LocalsOK
  <2> QED BY <2>1, <2>2
<1> QED BY <1>3, <1>4 DEF LocalsOK

\* The user's saves and deletions and Tally's recomputations.
LEMMA SourceType ==
    ASSUME TypeInv, Source
    PROVE  SourceOK' /\ lastAlterId' \in Nat /\ lastAlterId <= lastAlterId'
<1> USE SourceAssumption, TypeParts
<1>1. /\ lastAlterId \in 0..MaxAlterId /\ drifts \in 0..MaxDrift
      /\ deleted \subseteq Objects
  BY DEF SourceOK, SourceTypeOK
<1>2. PICK S \in SUBSET Objects : tally \in [S -> Record]
  BY DEF SourceOK, SourceTypeOK
<1>3. \A o \in S : tally[o].alter_id \in 1..lastAlterId
  BY <1>2 DEF SourceOK
<1>4. PICK o \in Objects : \/ \E n \in Names : Save(o, n)
                          \/ Delete(o) \/ Drift(o)
  BY DEF Source, SourceNext
<1>5. ASSUME NEW n \in Names, Save(o, n)
      PROVE  SourceOK' /\ lastAlterId' \in Nat /\ lastAlterId <= lastAlterId'
  <2> DEFINE rec == [name |-> n, alter_id |-> lastAlterId',
                     closing |-> IF o \in DOMAIN tally THEN tally[o].closing ELSE 0]
             one == [p \in {o} |-> rec]
  <2>1. /\ lastAlterId' = lastAlterId + 1 /\ lastAlterId' \in 1..MaxAlterId
        /\ tally' = Overlay(tally, one)
        /\ deleted' = deleted /\ drifts' = drifts
    BY <1>1, <1>5 DEF Save
  <2>2. rec \in Record
    BY <1>2, <2>1 DEF Record
  <2> HIDE DEF rec
  <2>3. one \in [{o} -> Record] BY <2>2
  <2> HIDE DEF one
  <2>4. tally' \in [S \cup {o} -> Record]
    BY <1>2, <2>1, <2>3, OverlayType
  <2>5. \A p \in S \cup {o} : tally'[p] = IF p = o THEN rec ELSE tally[p]
    BY <1>2, <2>1 DEF Overlay, one
  <2>6. \A p \in S \cup {o} : tally'[p].alter_id \in 1..lastAlterId'
    BY <1>1, <1>3, <2>1, <2>5 DEF rec
  <2>7. SourceTypeOK'
    BY <1>1, <2>1, <2>4 DEF SourceTypeOK
  <2> QED BY <1>1, <2>1, <2>4, <2>6, <2>7 DEF SourceOK
<1>6. ASSUME Delete(o)
      PROVE  SourceOK' /\ lastAlterId' \in Nat /\ lastAlterId <= lastAlterId'
  <2>1. tally' \in [S \ {o} -> Record] /\ (\A p \in S \ {o} : tally'[p] = tally[p])
    BY <1>2, <1>6 DEF Delete, Restrict
  <2>2. /\ lastAlterId' = lastAlterId /\ drifts' = drifts
        /\ deleted' \subseteq Objects
    BY <1>1, <1>6 DEF Delete
  <2>3. S \ {o} \in SUBSET Objects OBVIOUS
  <2>4. SourceTypeOK' BY <1>1, <2>1, <2>2, <2>3 DEF SourceTypeOK
  <2> QED BY <1>1, <1>3, <2>1, <2>2, <2>4 DEF SourceOK
<1>7. ASSUME Drift(o)
      PROVE  SourceOK' /\ lastAlterId' \in Nat /\ lastAlterId <= lastAlterId'
  <2>1. o \in S /\ tally[o] \in Record BY <1>2, <1>7 DEF Drift
  <2>2. tally' = [tally EXCEPT ![o] = [tally[o] EXCEPT !.closing = 1 - tally[o].closing]]
    BY <1>7 DEF Drift
  <2>3. [tally[o] EXCEPT !.closing = 1 - tally[o].closing] \in Record
    BY <2>1 DEF Record
  <2>4. tally' \in [S -> Record] BY <1>2, <2>1, <2>2, <2>3
  <2>5. \A p \in S : tally'[p].alter_id = tally[p].alter_id
    BY <1>2, <2>1, <2>2 DEF Record
  <2>6. /\ lastAlterId' = lastAlterId /\ deleted' = deleted
        /\ drifts' = drifts + 1 /\ drifts < MaxDrift
    BY <1>7 DEF Drift
  <2>7. DOMAIN tally' = S BY <2>4
  <2>8. SourceTypeOK' BY <1>1, <2>4, <2>6 DEF SourceTypeOK
  <2> QED BY <1>1, <1>3, <2>5, <2>6, <2>7, <2>8 DEF SourceOK
<1> QED BY <1>4, <1>5, <1>6, <1>7

\* start_run and the checkpoint query.
LEMMA BeginType ==
    ASSUME TypeInv, NEW w \in Workers, NEW isFull \in BOOLEAN, Begin(w, isFull)
    PROVE  LocalsOK'
<1> USE SourceAssumption, TypeParts
<1>1. /\ checkpoint \in 0..MaxAlterId /\ checkpoint <= lastAlterId
      /\ lastAlterId \in Nat /\ lastAlterId' = lastAlterId
  BY DEF TablesOK, SourceOK, SourceTypeOK, Begin, sourceVars
<1>2. /\ phase' \in [Workers -> Phases]
      /\ full' \in [Workers -> BOOLEAN]
      /\ since' \in [Workers -> 0..MaxAlterId]
      /\ response' = response /\ stored' = stored
  BY <1>1 DEF Begin, LocalsOK, Phases
<1>3. \A v \in Workers : since'[v] <= lastAlterId'
  BY <1>1 DEF Begin, LocalsOK
<1> QED BY <1>1, <1>2, <1>3 DEF LocalsOK

\* The parsed response is a part of what Tally holds, whatever it was asked for.
LEMMA ReceiveType ==
    ASSUME TypeInv, NEW w \in Workers, NEW shown \in SUBSET DOMAIN tally,
           Receive(w, shown)
    PROVE  LocalsOK'
<1> USE SourceAssumption, TypeParts
<1>1. /\ lastAlterId' = lastAlterId
      /\ full' = full /\ since' = since /\ stored' = stored
      /\ phase' \in [Workers -> Phases]
  BY DEF Receive, sourceVars, LocalsOK, Phases
<1>2. PICK kept \in SUBSET DOMAIN tally :
          response' = [response EXCEPT ![w] = Restrict(tally, kept)]
  BY ServiceAssumption DEF Receive
<1>3. \E S \in SUBSET Objects : Restrict(tally, kept) \in [S -> Record]
  BY RestrictType DEF SourceOK, SourceTypeOK
<1>4. \A o \in DOMAIN Restrict(tally, kept) :
          Restrict(tally, kept)[o].alter_id \in 1..lastAlterId
  BY DEF Restrict, SourceOK
<1>5. DOMAIN response' = Workers BY <1>2 DEF LocalsOK
<1>6. ASSUME NEW v \in Workers
      PROVE  /\ \E S \in SUBSET Objects : response'[v] \in [S -> Record]
             /\ \A o \in DOMAIN response'[v] :
                   response'[v][o].alter_id \in 1..lastAlterId
  <2>1. CASE v = w BY <1>2, <1>3, <1>4, <2>1 DEF LocalsOK
  <2>2. CASE v # w
    <3>1. response'[v] = response[v] BY <1>2, <2>2 DEF LocalsOK
    <3> QED BY <3>1 DEF LocalsOK
  <2> QED BY <2>1, <2>2
<1> QED BY <1>1, <1>5, <1>6 DEF LocalsOK

\* existing_hashes is a part of the archive.
LEMMA CompareType ==
    ASSUME TypeInv, NEW w \in Workers, Compare(w)
    PROVE  LocalsOK'
<1> USE SourceAssumption, TypeParts
<1>1. /\ lastAlterId' = lastAlterId
      /\ full' = full /\ since' = since /\ response' = response
      /\ phase' \in [Workers -> Phases]
  BY DEF Compare, sourceVars, LocalsOK, Phases
<1>2. PICK known \in SUBSET DOMAIN archive :
          stored' = [stored EXCEPT ![w] = Restrict(archive, known)]
  BY DEF Compare
<1>3. \E S \in SUBSET Guids : Restrict(archive, known) \in [S -> Record]
  BY RestrictType DEF TablesOK
<1>4. DOMAIN stored' = Workers BY <1>2 DEF LocalsOK
<1>5. ASSUME NEW v \in Workers
      PROVE  \E S \in SUBSET Guids : stored'[v] \in [S -> Record]
  <2>1. CASE v = w BY <1>2, <1>3, <2>1 DEF LocalsOK
  <2>2. CASE v # w
    <3>1. stored'[v] = stored[v] BY <1>2, <2>2 DEF LocalsOK
    <3> QED BY <3>1 DEF LocalsOK
  <2> QED BY <2>1, <2>2
<1> QED BY <1>1, <1>4, <1>5 DEF LocalsOK

\* What a worker about to commit holds, as typed dicts.
LEMMA Batches ==
    ASSUME TypeInv, NEW w \in Workers
    PROVE  \E S \in SUBSET Objects :
             /\ response[w] \in [S -> Record]
             /\ Batch(w) \subseteq S
             /\ Changed(w) \subseteq Batch(w)
             /\ Unchanged(w) = Batch(w) \ Changed(w)
<1>1. PICK S \in SUBSET Objects : response[w] \in [S -> Record]
  BY TypeParts DEF LocalsOK
<1>2. DOMAIN response[w] = S BY <1>1
<1>3. Batch(w) \subseteq S /\ Changed(w) \subseteq Batch(w)
  BY <1>2, BatchSubset DEF Batch, Changed
<1> QED BY <1>1, <1>3 DEF Unchanged

\* The upserts, the history rows and the checkpoint.
LEMMA CommitType ==
    ASSUME TypeInv, NEW w \in Workers, Commit(w)
    PROVE  TablesOK'
<1> USE SourceAssumption, TypeParts
<1>1. PICK S \in SUBSET Objects :
             /\ response[w] \in [S -> Record]
             /\ Batch(w) \subseteq S
             /\ Changed(w) \subseteq Batch(w)
             /\ Unchanged(w) = Batch(w) \ Changed(w)
  BY Batches
<1>2. Changed(w) \in SUBSET S /\ Unchanged(w) \in SUBSET S
  BY <1>1
<1>3. \E T \in SUBSET Guids : archive' \in [T -> Record]
  <2> DEFINE c == ByGuid(Changed(w), response[w])
             u == ByGuid(Unchanged(w), response[w])
  <2>1. PICK A \in SUBSET Guids : archive \in [A -> Record] BY DEF TablesOK
  <2>2. \E C \in SUBSET Guids : c \in [C -> Record] BY <1>1, <1>2, ByGuidType
  <2>3. \E U \in SUBSET Guids : u \in [U -> Record] BY <1>1, <1>2, ByGuidType
  <2>4. archive' = Overlay(Overlay(archive, c), u) BY DEF Commit
  <2> HIDE DEF c, u
  <2>5. PICK C \in SUBSET Guids : c \in [C -> Record] BY <2>2
  <2>6. PICK U \in SUBSET Guids : u \in [U -> Record] BY <2>3
  <2>7. Overlay(archive, c) \in [A \cup C -> Record] BY <2>1, <2>5, OverlayType
  <2>8. archive' \in [(A \cup C) \cup U -> Record] BY <2>4, <2>6, <2>7, OverlayType
  <2> QED BY <2>8
<1>4. \E T \in SUBSET Names : entity' \in [T -> Row]
  <2>1. PICK E \in SUBSET Names : entity \in [E -> Row] BY DEF TablesOK
  <2>2. PICK rows \in ByName(Changed(w), response[w]) : entity' = Overlay(entity, rows)
    BY DEF Commit
  <2>3. PICK N \in SUBSET Names : rows \in [N -> Row]
    BY <1>1, <1>2, ByNameType
  <2>4. entity' \in [E \cup N -> Row] BY <2>1, <2>2, <2>3, OverlayType
  <2> QED BY <2>4
<1>5. versions' \subseteq Row
  <2>1. \A o \in Changed(w) : [guid |-> GuidOf[o], xml |-> response[w][o]] \in Row
    BY <1>1, <1>2, ServiceAssumption DEF Row
  <2>2. Rows(Changed(w), response[w]) \subseteq Row BY <2>1 DEF Rows
  <2> QED BY <2>2 DEF Commit, TablesOK
<1>6. checkpoint' \in 0..MaxAlterId /\ checkpoint' <= lastAlterId'
  <2>1. lastAlterId \in 0..MaxAlterId /\ lastAlterId' = lastAlterId
    BY DEF SourceOK, SourceTypeOK, Commit, sourceVars
  <2>2. PICK m \in Highest(response[w]) :
           checkpoint' = NextCheckpoint(checkpoint, since[w], full[w], Changed(w), m)
    BY DEF Commit
  <2>3. m \in 0..lastAlterId
    BY <1>1, <2>1, HighestIsBound DEF LocalsOK
  <2>4. checkpoint' = m \/ checkpoint' = checkpoint
    BY <2>2 DEF NextCheckpoint
  <2> QED BY <2>1, <2>3, <2>4 DEF TablesOK
<1>7. runs' \subseteq {"success", "failure"} /\ ended' \subseteq {"success", "failure"}
  BY DEF Commit, TablesOK
<1> QED BY <1>3, <1>4, <1>5, <1>6, <1>7 DEF TablesOK

\* Before the first sync all tables and locals are empty.
LEMMA InitType == ASSUME Init PROVE TypeInv
<1> USE SourceAssumption
<1>1. /\ \E S \in SUBSET Objects : Empty \in [S -> Record]
      /\ \E S \in SUBSET Guids : Empty \in [S -> Record]
      /\ \E S \in SUBSET Names : Empty \in [S -> Row]
      /\ DOMAIN Empty = {}
  BY EmptyType DEF Empty
<1>2. SourceOK BY <1>1 DEF Init, SourceInit, SourceOK, SourceTypeOK
<1>3. TablesOK BY <1>1 DEF Init, SourceInit, TablesOK
<1>4. LocalsOK
  <2>1. /\ phase \in [Workers -> Phases] /\ full \in [Workers -> BOOLEAN]
        /\ since \in [Workers -> 0..MaxAlterId]
        /\ DOMAIN response = Workers /\ DOMAIN stored = Workers
    BY DEF Init, Phases
  <2>2. \A v \in Workers : /\ response[v] = Empty /\ stored[v] = Empty
                            /\ since[v] <= lastAlterId
    BY DEF Init, SourceInit
  <2> QED BY <1>1, <2>1, <2>2 DEF LocalsOK
<1> QED BY <1>2, <1>3, <1>4, TypeParts

\* One case per action; what a fetch is asked to show makes no difference.
LEMMA TypeStep ==
    ASSUME TypeInv, [Next]_vars \/ \E w \in Workers : \E shown \in SUBSET DOMAIN tally :
                                       Receive(w, shown)
    PROVE  TypeInv'
<1> USE SourceAssumption
<1> SUFFICES SourceOK' /\ TablesOK' /\ LocalsOK'
  BY DEF TypeInv, TypeOK, AlterIdsGiven, SourceOK, TablesOK, LocalsOK
<1>0. /\ SourceOK /\ lastAlterId \in Nat
      /\ UNCHANGED sourceVars => SourceOK' /\ lastAlterId' = lastAlterId
  BY TypeParts DEF SourceOK, SourceTypeOK, sourceVars
<1>1. CASE Source
  BY <1>1, SourceType, Untouched DEF Source
<1>2. ASSUME NEW w \in Workers, NEW isFull \in BOOLEAN, Begin(w, isFull)
      PROVE  SourceOK' /\ TablesOK' /\ LocalsOK'
  <2>1. UNCHANGED sourceVars /\ UNCHANGED <<tables, ended>>
    BY <1>2 DEF Begin, tables, sourceVars
  <2> QED BY <1>0, <1>2, <2>1, BeginType, Untouched
<1>3. ASSUME NEW w \in Workers, NEW shown \in SUBSET DOMAIN tally, Receive(w, shown)
      PROVE  SourceOK' /\ TablesOK' /\ LocalsOK'
  <2>1. UNCHANGED sourceVars /\ UNCHANGED <<tables, ended>>
    BY <1>3 DEF Receive, tables, sourceVars
  <2> QED BY <1>0, <1>3, <2>1, ReceiveType, Untouched
<1>4. ASSUME NEW w \in Workers, Compare(w)
      PROVE  SourceOK' /\ TablesOK' /\ LocalsOK'
  <2>1. UNCHANGED sourceVars /\ UNCHANGED <<tables, ended>>
    BY <1>4 DEF Compare, tables, sourceVars
  <2> QED BY <1>0, <1>4, <2>1, CompareType, Untouched
<1>5. ASSUME NEW w \in Workers, Commit(w)
      PROVE  SourceOK' /\ TablesOK' /\ LocalsOK'
  BY <1>0, <1>5, CommitType, LeaveType DEF Commit
<1>6. ASSUME NEW w \in Workers, Reject(w) \/ Fail(w)
      PROVE  SourceOK' /\ TablesOK' /\ LocalsOK'
  <2>1. UNCHANGED sourceVars /\ UNCHANGED tables /\ Leave(w)
        /\ ended' = ended \cup {"failure"}
    BY <1>6 DEF Reject, Fail
  <2>2. TablesOK'
    BY <1>0, <2>1, TypeParts DEF TablesOK, tables
  <2> QED BY <1>0, <2>1, <2>2, LeaveType
<1>7. CASE Crash
  <2>1. /\ UNCHANGED sourceVars /\ UNCHANGED <<tables, ended>>
        /\ phase' = [v \in Workers |-> "idle"] /\ full' = [v \in Workers |-> FALSE]
        /\ since' = [v \in Workers |-> 0]
        /\ response' = [v \in Workers |-> Empty] /\ stored' = [v \in Workers |-> Empty]
    BY <1>7 DEF Crash
  <2>2. /\ \E S \in SUBSET Objects : Empty \in [S -> Record]
        /\ \E S \in SUBSET Guids : Empty \in [S -> Record]
        /\ DOMAIN Empty = {}
    BY EmptyType DEF Empty
  <2>3. LocalsOK' BY <1>0, <2>1, <2>2 DEF LocalsOK, Phases
  <2> QED BY <1>0, <2>1, <2>3, Untouched
<1>8. CASE UNCHANGED vars
  BY <1>0, <1>8, Untouched DEF vars
<1> QED BY <1>1, <1>2, <1>3, <1>4, <1>5, <1>6, <1>7, <1>8 DEF Next, Fetch

\* Every table and local keeps its type, and no AlterID the agent holds is
\* above the last one Tally gave.
THEOREM TypeCorrect == Spec => []TypeInv
<1>1. Init => TypeInv BY InitType
<1>2. TypeInv /\ [Next]_vars => TypeInv' BY TypeStep
<1> QED BY <1>1, <1>2, PTL DEF Spec

\* The types of the tables, of the locals of sync() and of what Tally holds.
THEOREM TypesHold == Spec => []TypeOK
<1>1. TypeInv => TypeOK BY DEF TypeInv
<1> QED BY <1>1, TypeCorrect, PTL

(***************************************************************************)
(* The history explains the other tables.                                  *)
(***************************************************************************)

HistoryInv == HistoryComplete /\ StoredInHistory

\* What a commit writes is in the history when the commit is done: a changed
\* record gets its row, an unchanged one was found there by the hash query.
LEMMA WrittenInHistory ==
    ASSUME TypeInv, StoredInHistory, NEW w \in Workers, Commit(w),
           NEW o \in Batch(w)
    PROVE  [guid |-> GuidOf[o], xml |-> response[w][o]] \in versions'
<1>1. CASE o \in Changed(w)
  <2>1. [guid |-> GuidOf[o], xml |-> response[w][o]] \in Rows(Changed(w), response[w])
    BY <1>1 DEF Rows
  <2> QED BY <2>1 DEF Commit
<1>2. CASE o \notin Changed(w)
  <2>1. GuidOf[o] \in DOMAIN stored[w] /\ stored[w][GuidOf[o]] = response[w][o]
    BY <1>2 DEF Changed, NewOrChanged
  <2>2. [guid |-> GuidOf[o], xml |-> response[w][o]] \in versions
    BY <2>1 DEF StoredInHistory
  <2> QED BY <2>2 DEF Commit
<1> QED BY <1>1, <1>2

\* A commit keeps the history complete.
LEMMA CommitHistory ==
    ASSUME TypeInv, HistoryInv, NEW w \in Workers, Commit(w)
    PROVE  HistoryComplete'
<1>1. PICK S \in SUBSET Objects :
             /\ response[w] \in [S -> Record]
             /\ Batch(w) \subseteq S
             /\ Changed(w) \subseteq Batch(w)
             /\ Unchanged(w) = Batch(w) \ Changed(w)
  BY Batches
<1>2. versions \subseteq versions' BY DEF Commit
<1>3. ASSUME NEW b \in SUBSET Batch(w), NEW g \in DOMAIN ByGuid(b, response[w])
      PROVE  [guid |-> g, xml |-> ByGuid(b, response[w])[g]] \in versions'
  <2>1. PICK o \in b : GuidOf[o] = g /\ ByGuid(b, response[w])[g] = response[w][o]
    BY ByGuidRow
  <2>2. o \in Batch(w) OBVIOUS
  <2> QED BY <2>1, <2>2, WrittenInHistory DEF HistoryInv
<1>4. ASSUME NEW g \in DOMAIN archive'
      PROVE  [guid |-> g, xml |-> archive'[g]] \in versions'
  <2> DEFINE c == ByGuid(Changed(w), response[w])
             u == ByGuid(Unchanged(w), response[w])
  <2>1. archive' = Overlay(Overlay(archive, c), u) BY DEF Commit
  <2>2. \A h \in DOMAIN c : [guid |-> h, xml |-> c[h]] \in versions'
    BY <1>1, <1>3
  <2>3. \A h \in DOMAIN u : [guid |-> h, xml |-> u[h]] \in versions'
    BY <1>1, <1>3
  <2>4. \A h \in DOMAIN archive : [guid |-> h, xml |-> archive[h]] \in versions'
    BY <1>2 DEF HistoryInv, HistoryComplete
  <2> HIDE DEF c, u
  <2>5. \/ g \in DOMAIN u /\ archive'[g] = u[g]
        \/ g \in DOMAIN c /\ archive'[g] = c[g]
        \/ g \in DOMAIN archive /\ archive'[g] = archive[g]
    BY <2>1 DEF Overlay
  <2> QED BY <2>2, <2>3, <2>4, <2>5
<1>5. ASSUME NEW n \in DOMAIN entity'
      PROVE  entity'[n] \in versions'
  <2>1. PICK rows \in ByName(Changed(w), response[w]) : entity' = Overlay(entity, rows)
    BY DEF Commit
  <2>2. Changed(w) \in SUBSET S BY <1>1
  <2>3. /\ rows \in [{response[w][o].name : o \in Changed(w)} -> Row]
        /\ \A m \in {response[w][o].name : o \in Changed(w)} :
              rows[m] \in Rows(Changed(w), response[w])
    BY <1>1, <2>2, ByNameType
  <2>4. \/ n \in DOMAIN rows /\ entity'[n] = rows[n]
        \/ n \in DOMAIN entity /\ entity'[n] = entity[n]
    BY <2>1 DEF Overlay
  <2>5. CASE n \in DOMAIN rows /\ entity'[n] = rows[n]
    <3>1. entity'[n] \in Rows(Changed(w), response[w]) BY <2>3, <2>5
    <3> QED BY <3>1 DEF Commit
  <2>6. CASE n \in DOMAIN entity /\ entity'[n] = entity[n]
    BY <1>2, <2>6 DEF HistoryInv, HistoryComplete
  <2> QED BY <2>4, <2>5, <2>6
<1> QED BY <1>4, <1>5 DEF HistoryComplete

\* Ending an attempt forgets its hashes; the hash query reads archive rows.
LEMMA StoredStep ==
    ASSUME TypeInv, HistoryInv, NEW w \in Workers,
           Compare(w) \/ (Leave(w) /\ versions \subseteq versions')
    PROVE  StoredInHistory'
<1> SUFFICES ASSUME NEW v \in Workers, NEW g \in DOMAIN stored'[v]
             PROVE  [guid |-> g, xml |-> stored'[v][g]] \in versions'
  BY DEF StoredInHistory
<1>1. DOMAIN stored = Workers BY TypeParts DEF LocalsOK
<1>2. versions \subseteq versions' BY DEF Compare, tables
<1>3. CASE v # w
  <2>1. stored'[v] = stored[v] BY <1>1, <1>3 DEF Compare, Leave
  <2> QED BY <1>2, <2>1 DEF HistoryInv, StoredInHistory
<1>4. CASE v = w /\ Leave(w)
  <2>1. stored'[v] = Empty BY <1>1, <1>4 DEF Leave
  <2> QED BY <2>1 DEF Empty
<1>5. CASE v = w /\ Compare(w)
  <2>1. PICK known \in SUBSET DOMAIN archive :
            stored' = [stored EXCEPT ![w] = Restrict(archive, known)]
    BY <1>5 DEF Compare
  <2>2. stored'[v] = Restrict(archive, known) BY <1>1, <1>5, <2>1
  <2>3. g \in DOMAIN archive /\ stored'[v][g] = archive[g] BY <2>2 DEF Restrict
  <2> QED BY <1>2, <2>3 DEF HistoryInv, HistoryComplete
<1> QED BY <1>3, <1>4, <1>5

\* Each archive row and each row of the entity table is in
\* tally_entity_versions, whatever the threads, failures and damaged
\* responses.
LEMMA HistoryStep ==
    ASSUME TypeInv, HistoryInv,
           [Next]_vars \/ \E w \in Workers : \E shown : Receive(w, shown)
    PROVE  HistoryInv'
<1>1. ASSUME UNCHANGED <<tables, stored>> PROVE HistoryInv'
  BY <1>1 DEF HistoryInv, HistoryComplete, StoredInHistory, tables
<1>2. CASE Source
  BY <1>1, <1>2 DEF Source, locals
<1>3. ASSUME NEW w \in Workers, NEW isFull \in BOOLEAN, Begin(w, isFull)
      PROVE  HistoryInv'
  BY <1>1, <1>3 DEF Begin
<1>4. ASSUME NEW w \in Workers, NEW shown, Receive(w, shown) PROVE HistoryInv'
  BY <1>1, <1>4 DEF Receive
<1>5. ASSUME NEW w \in Workers, Compare(w) PROVE HistoryInv'
  <2>1. HistoryComplete' BY <1>5 DEF Compare, tables, HistoryInv, HistoryComplete
  <2> QED BY <1>5, <2>1, StoredStep DEF HistoryInv
<1>6. ASSUME NEW w \in Workers, Commit(w) PROVE HistoryInv'
  <2>1. Leave(w) /\ versions \subseteq versions' BY <1>6 DEF Commit
  <2> QED BY <1>6, <2>1, CommitHistory, StoredStep DEF HistoryInv
<1>7. ASSUME NEW w \in Workers, Reject(w) \/ Fail(w) PROVE HistoryInv'
  <2>1. Leave(w) /\ UNCHANGED tables BY <1>7 DEF Reject, Fail
  <2>2. HistoryComplete' BY <2>1 DEF tables, HistoryInv, HistoryComplete
  <2> QED BY <2>1, <2>2, StoredStep DEF HistoryInv, tables
<1>8. CASE Crash
  <2>1. /\ UNCHANGED <<archive, entity, versions>>
        /\ \A v \in Workers : stored'[v] = Empty
    BY <1>8 DEF Crash, tables
  <2> QED BY <2>1 DEF HistoryInv, HistoryComplete, StoredInHistory, Empty
<1>9. CASE UNCHANGED vars
  BY <1>1, <1>9 DEF vars, locals
<1> QED BY <1>2, <1>3, <1>4, <1>5, <1>6, <1>7, <1>8, <1>9 DEF Next, Fetch

\* HistoryComplete for every number of threads and every bound.
THEOREM HistoryIsComplete == Spec => []HistoryComplete
<1>1. Init => HistoryInv
  BY DEF Init, HistoryInv, HistoryComplete, StoredInHistory, Empty
<1>2. TypeInv /\ HistoryInv /\ [Next]_vars => HistoryInv'
  BY HistoryStep
<1>3. HistoryInv => HistoryComplete
  BY DEF HistoryInv
<1> QED BY <1>1, <1>2, <1>3, TypeCorrect, PTL DEF Spec

(***************************************************************************)
(* The checkpoint never passes a save the history lacks, when no response  *)
(* is truncated.  NoSaveMissed alone is not inductive: what a commit makes *)
(* of the checkpoint rests on the response being current (ResponsesCurrent)*)
(* and on the checkpoint its filter used, which another thread may since   *)
(* have replaced, having been covered too.                                 *)
(***************************************************************************)

NoSaveInv ==
    /\ ResponsesCurrent
    /\ NoSaveMissed
    /\ \A w \in Workers : CoveredUpTo(since[w])

\* A user's step gives an object the next AlterID or leaves its last save.
LEMMA EditsStep ==
    ASSUME TypeInv, Source, NEW o \in DOMAIN tally'
    PROVE  \/ o \in DOMAIN tally /\ Edit(tally'[o]) = Edit(tally[o])
           \/ tally'[o].alter_id = lastAlterId + 1
<1>1. PICK S \in SUBSET Objects : tally \in [S -> Record]
  BY TypeParts DEF SourceOK, SourceTypeOK
<1>2. PICK p \in Objects : \/ \E n \in Names : Save(p, n)
                          \/ Delete(p) \/ Drift(p)
  BY DEF Source, SourceNext
<1>3. ASSUME NEW n \in Names, Save(p, n)
      PROVE  \/ o \in DOMAIN tally /\ Edit(tally'[o]) = Edit(tally[o])
             \/ tally'[o].alter_id = lastAlterId + 1
  <2> DEFINE rec == [name |-> n, alter_id |-> lastAlterId',
                     closing |-> IF p \in DOMAIN tally THEN tally[p].closing ELSE 0]
             one == [q \in {p} |-> rec]
  <2>1. tally' = Overlay(tally, one) /\ rec.alter_id = lastAlterId + 1
    BY <1>3 DEF Save
  <2>2. DOMAIN one = {p} /\ one[p] = rec OBVIOUS
  <2> HIDE DEF rec, one
  <2>3. \/ o = p /\ tally'[o] = rec
        \/ o \in DOMAIN tally /\ tally'[o] = tally[o]
    BY <2>1, <2>2 DEF Overlay
  <2> QED BY <2>1, <2>3
<1>4. ASSUME Delete(p)
      PROVE  o \in DOMAIN tally /\ Edit(tally'[o]) = Edit(tally[o])
  BY <1>1, <1>4 DEF Delete, Restrict
<1>5. ASSUME Drift(p)
      PROVE  o \in DOMAIN tally /\ Edit(tally'[o]) = Edit(tally[o])
  <2>1. /\ p \in S
        /\ tally' = [tally EXCEPT ![p] = [tally[p] EXCEPT !.closing = 1 - tally[p].closing]]
    BY <1>1, <1>5 DEF Drift
  <2>2. o \in S BY <1>1, <2>1
  <2>3. tally[o] \in Record BY <1>1, <2>2
  <2>4. CASE o = p
    <3>1. tally'[o] = [tally[o] EXCEPT !.closing = 1 - tally[o].closing]
      BY <1>1, <2>1, <2>2, <2>4
    <3> QED BY <1>1, <2>2, <2>3, <3>1 DEF Record, Edit
  <2>5. CASE o # p
    BY <1>1, <2>1, <2>2, <2>5
  <2> QED BY <2>4, <2>5
<1> QED BY <1>2, <1>3, <1>4, <1>5

\* Equal saves have equal AlterIDs.
LEMMA EditAlterId ==
    ASSUME NEW r, NEW s, Edit(r) = Edit(s)
    PROVE  r.alter_id = s.alter_id
BY DEF Edit

\* What is in the history stays there while Tally does not change.
LEMMA HistoryGrows ==
    ASSUME UNCHANGED sourceVars, versions \subseteq versions',
           NEW o, InHistory(o)
    PROVE  InHistory(o)'
BY DEF InHistory, sourceVars

\* The user saves, deletes or posts: a new save is above every AlterID the
\* agent holds.
LEMMA NoSaveSource ==
    ASSUME TypeInv, NoSaveInv, Source
    PROVE  NoSaveInv'
<1>1. UNCHANGED <<tables, ended, locals>> /\ lastAlterId \in Nat
  BY TypeParts, SourceAssumption DEF Source, SourceOK, SourceTypeOK
<1>2. ASSUME NEW o \in DOMAIN tally', o \in DOMAIN tally,
             Edit(tally'[o]) = Edit(tally[o])
      PROVE  /\ tally'[o].alter_id = tally[o].alter_id
             /\ InHistory(o) => InHistory(o)'
             /\ \A w \in Workers : Seen(w, o) => Seen(w, o)'
  <2>1. tally'[o].alter_id = tally[o].alter_id BY <1>2, EditAlterId
  <2>2. versions' = versions /\ response' = response BY <1>1 DEF tables, locals
  <2>3. InHistory(o) => InHistory(o)' BY <1>2, <2>2 DEF InHistory
  <2>4. \A w \in Workers : Seen(w, o) => Seen(w, o)' BY <1>2, <2>1, <2>2 DEF Seen
  <2> QED BY <2>1, <2>3, <2>4
<1>3. NoSaveMissed'
  <2>1. checkpoint' = checkpoint /\ checkpoint \in Nat /\ checkpoint <= lastAlterId
    BY <1>1, TypeParts, SourceAssumption DEF TablesOK, tables
  <2>2. ASSUME NEW o \in DOMAIN tally', tally'[o].alter_id <= checkpoint
        PROVE  InHistory(o)'
    <3>1. tally'[o].alter_id # lastAlterId + 1 BY <1>1, <2>1, <2>2
    <3>2. o \in DOMAIN tally /\ Edit(tally'[o]) = Edit(tally[o]) BY <3>1, EditsStep
    <3> QED BY <1>2, <2>2, <3>2 DEF NoSaveInv, NoSaveMissed, CoveredUpTo
  <2> QED BY <2>1, <2>2 DEF NoSaveMissed, CoveredUpTo
<1>4. ASSUME NEW w \in Workers PROVE CoveredUpTo(since[w])'
  <2>1. since'[w] = since[w] /\ since[w] \in Nat /\ since[w] <= lastAlterId
    BY <1>1, TypeParts, SourceAssumption DEF LocalsOK, locals
  <2>2. ASSUME NEW o \in DOMAIN tally', tally'[o].alter_id <= since[w]
        PROVE  InHistory(o)'
    <3>1. tally'[o].alter_id # lastAlterId + 1 BY <1>1, <2>1, <2>2
    <3>2. o \in DOMAIN tally /\ Edit(tally'[o]) = Edit(tally[o]) BY <3>1, EditsStep
    <3> QED BY <1>2, <2>2, <3>2 DEF NoSaveInv, CoveredUpTo
  <2> QED BY <2>1, <2>2 DEF CoveredUpTo
<1>5. ResponsesCurrent'
  <2> SUFFICES ASSUME NEW w \in Workers, phase'[w] \in {"compare", "write"},
                      NEW o \in DOMAIN tally'
               PROVE  Seen(w, o)'
    BY DEF ResponsesCurrent
  <2>1. phase' = phase /\ response' = response BY <1>1 DEF locals
  <2>2. CASE o \in DOMAIN tally /\ Edit(tally'[o]) = Edit(tally[o])
    BY <1>2, <2>1, <2>2 DEF NoSaveInv, ResponsesCurrent
  <2>3. CASE tally'[o].alter_id = lastAlterId + 1
    <3>1. \A p \in DOMAIN response[w] : response[w][p].alter_id \in 1..lastAlterId
      BY TypeParts DEF LocalsOK
    <3>2. \A p \in DOMAIN response'[w] : response'[w][p].alter_id < tally'[o].alter_id
      BY <1>1, <2>1, <2>3, <3>1
    <3> QED BY <3>2 DEF Seen
  <2> QED BY <2>2, <2>3, EditsStep
<1> QED BY <1>3, <1>4, <1>5 DEF NoSaveInv

\* Leaving session_scope keeps the other workers' part of the invariant; an
\* idle worker has nothing to show.
LEMMA NoSaveLeave ==
    ASSUME TypeInv, NoSaveInv, NEW w \in Workers, Leave(w),
           UNCHANGED sourceVars, versions \subseteq versions'
    PROVE  ResponsesCurrent' /\ \A v \in Workers : CoveredUpTo(since[v])'
<1> USE TypeParts
<1>1. tally' = tally /\ DOMAIN response = Workers
      /\ phase \in [Workers -> Phases] /\ since \in [Workers -> 0..MaxAlterId]
  BY DEF sourceVars, LocalsOK
<1>2. ASSUME NEW v \in Workers, phase'[v] \in {"compare", "write"},
             NEW o \in DOMAIN tally'
      PROVE  Seen(v, o)'
  <2>1. v # w BY <1>1, <1>2 DEF Leave
  <2>2. phase'[v] = phase[v] /\ response'[v] = response[v]
    BY <1>1, <2>1 DEF Leave
  <2>3. Seen(v, o) BY <1>1, <1>2, <2>2 DEF NoSaveInv, ResponsesCurrent
  <2> QED BY <1>1, <2>2, <2>3 DEF Seen
<1>3. ASSUME NEW v \in Workers PROVE CoveredUpTo(since[v])'
  <2>1. CASE v # w
    <3>1. since'[v] = since[v] BY <1>1, <2>1 DEF Leave
    <3>2. CoveredUpTo(since[v]) BY DEF NoSaveInv
    <3> QED BY <1>1, <3>1, <3>2, HistoryGrows DEF CoveredUpTo
  <2>2. CASE v = w
    <3>1. since'[v] = 0 BY <1>1, <2>2 DEF Leave
    <3>2. \A o \in DOMAIN tally : tally[o].alter_id \in 1..lastAlterId
      BY DEF SourceOK
    <3>3. \A o \in DOMAIN tally' : ~(tally'[o].alter_id <= since'[v])
      BY <1>1, <3>1, <3>2, SourceAssumption DEF SourceOK, SourceTypeOK
    <3> QED BY <3>3 DEF CoveredUpTo
  <2> QED BY <2>1, <2>2
<1> QED BY <1>2, <1>3 DEF ResponsesCurrent

\* An incremental sync starts from a checkpoint that was covered, a full one
\* from nothing.
LEMMA NoSaveBegin ==
    ASSUME TypeInv, NoSaveInv, NEW w \in Workers, NEW isFull \in BOOLEAN,
           Begin(w, isFull)
    PROVE  NoSaveInv'
<1> USE TypeParts
<1>1. /\ UNCHANGED sourceVars /\ tally' = tally /\ versions' = versions
      /\ checkpoint' = checkpoint /\ response' = response
      /\ phase \in [Workers -> Phases] /\ since \in [Workers -> 0..MaxAlterId]
  BY DEF Begin, sourceVars, tables, LocalsOK
<1>2. ASSUME NEW o, InHistory(o) PROVE InHistory(o)'
  BY <1>1, <1>2, HistoryGrows
<1>3. NoSaveMissed'
  BY <1>1, <1>2 DEF NoSaveInv, NoSaveMissed, CoveredUpTo
<1>4. ASSUME NEW v \in Workers PROVE CoveredUpTo(since[v])'
  <2>1. CASE v # w
    <3>1. since'[v] = since[v] BY <1>1, <2>1 DEF Begin
    <3>2. CoveredUpTo(since[v]) BY DEF NoSaveInv
    <3> QED BY <1>1, <1>2, <3>1, <3>2 DEF CoveredUpTo
  <2>2. CASE v = w /\ ~isFull
    <3>1. since'[v] = checkpoint BY <1>1, <2>2 DEF Begin
    <3>2. CoveredUpTo(checkpoint) BY DEF NoSaveInv, NoSaveMissed
    <3> QED BY <1>1, <1>2, <3>1, <3>2 DEF CoveredUpTo
  <2>3. CASE v = w /\ isFull
    <3>1. since'[v] = 0 BY <1>1, <2>3 DEF Begin
    <3>2. \A o \in DOMAIN tally' : ~(tally'[o].alter_id <= since'[v])
      BY <1>1, <3>1, SourceAssumption DEF SourceOK, SourceTypeOK
    <3> QED BY <3>2 DEF CoveredUpTo
  <2> QED BY <2>1, <2>2, <2>3
<1>5. ResponsesCurrent'
  <2> SUFFICES ASSUME NEW v \in Workers, phase'[v] \in {"compare", "write"},
                      NEW o \in DOMAIN tally'
               PROVE  Seen(v, o)'
    BY DEF ResponsesCurrent
  <2>1. v # w BY <1>1 DEF Begin
  <2>2. phase'[v] = phase[v] BY <1>1, <2>1 DEF Begin
  <2>3. Seen(v, o) BY <1>1, <2>2 DEF NoSaveInv, ResponsesCurrent
  <2> QED BY <1>1, <2>3 DEF Seen
<1> QED BY <1>3, <1>4, <1>5 DEF NoSaveInv

\* A response that is not truncated shows every object as it is.
LEMMA NoSaveFetch ==
    ASSUME Truncating = FALSE, TypeInv, NoSaveInv, NEW w \in Workers, Fetch(w)
    PROVE  NoSaveInv'
<1> USE TypeParts
<1>1. /\ UNCHANGED sourceVars /\ tally' = tally /\ versions' = versions
      /\ checkpoint' = checkpoint /\ since' = since
      /\ phase \in [Workers -> Phases] /\ DOMAIN response = Workers
  BY DEF Fetch, Receive, sourceVars, tables, LocalsOK
<1>2. ASSUME NEW o, InHistory(o) PROVE InHistory(o)'
  BY <1>1, <1>2, HistoryGrows
<1>3. NoSaveMissed' /\ \A v \in Workers : CoveredUpTo(since[v])'
  BY <1>1, <1>2 DEF NoSaveInv, NoSaveMissed, CoveredUpTo
<1>4. ResponsesCurrent'
  <2> SUFFICES ASSUME NEW v \in Workers, phase'[v] \in {"compare", "write"},
                      NEW o \in DOMAIN tally'
               PROVE  Seen(v, o)'
    BY DEF ResponsesCurrent
  <2>1. response' = [response EXCEPT ![w] = Restrict(tally, DOMAIN tally)]
    BY DEF Fetch, Receive
  <2>2. CASE v = w
    <3>1. response'[v] = Restrict(tally, DOMAIN tally) BY <1>1, <2>1, <2>2
    <3>2. o \in DOMAIN response'[v] /\ response'[v][o] = tally'[o]
      BY <1>1, <3>1 DEF Restrict
    <3> QED BY <3>2 DEF Seen
  <2>3. CASE v # w
    <3>1. phase'[v] = phase[v] /\ response'[v] = response[v]
      BY <1>1, <2>1, <2>3 DEF Fetch, Receive
    <3>2. Seen(v, o) BY <1>1, <3>1 DEF NoSaveInv, ResponsesCurrent
    <3> QED BY <1>1, <3>1, <3>2 DEF Seen
  <2> QED BY <2>2, <2>3
<1> QED BY <1>3, <1>4 DEF NoSaveInv

\* The hash query touches nothing the invariant speaks of.
LEMMA NoSaveCompare ==
    ASSUME TypeInv, NoSaveInv, NEW w \in Workers, Compare(w)
    PROVE  NoSaveInv'
<1> USE TypeParts
<1>1. /\ UNCHANGED sourceVars /\ tally' = tally /\ versions' = versions
      /\ checkpoint' = checkpoint /\ since' = since /\ response' = response
      /\ phase \in [Workers -> Phases] /\ phase[w] = "compare"
      /\ phase' = [phase EXCEPT ![w] = "write"]
  BY DEF Compare, sourceVars, tables, LocalsOK
<1>2. ASSUME NEW o, InHistory(o) PROVE InHistory(o)'
  BY <1>1, <1>2, HistoryGrows
<1>3. NoSaveMissed' /\ \A v \in Workers : CoveredUpTo(since[v])'
  BY <1>1, <1>2 DEF NoSaveInv, NoSaveMissed, CoveredUpTo
<1>4. \A v \in Workers : phase'[v] \in {"compare", "write"} =>
          phase[v] \in {"compare", "write"}
  BY <1>1
<1>5. ResponsesCurrent'
  BY <1>1, <1>4 DEF NoSaveInv, ResponsesCurrent, Seen
<1> QED BY <1>3, <1>5 DEF NoSaveInv

\* The checkpoint a commit stores is covered: an object it covers was seen as
\* it is, and was written by this commit or covered by this sync's filter.
LEMMA NoSaveCommit ==
    ASSUME TypeInv, HistoryInv, NoSaveInv, NEW w \in Workers, Commit(w)
    PROVE  NoSaveInv'
<1> USE TypeParts
<1>1. UNCHANGED sourceVars /\ tally' = tally /\ versions \subseteq versions'
      /\ Leave(w) /\ phase[w] = "write"
  BY DEF Commit, sourceVars
<1>2. ASSUME NEW o, InHistory(o) PROVE InHistory(o)'
  BY <1>1, <1>2, HistoryGrows
<1>3. PICK S \in SUBSET Objects : response[w] \in [S -> Record] /\ Batch(w) \subseteq S
  BY Batches
<1>4. PICK m \in Highest(response[w]) :
         checkpoint' = NextCheckpoint(checkpoint, since[w], full[w], Changed(w), m)
  BY DEF Commit
<1>5. CASE checkpoint' = checkpoint
  BY <1>1, <1>2, <1>5, NoSaveLeave DEF NoSaveInv, NoSaveMissed, CoveredUpTo
<1>6. CASE checkpoint' = m
  <2>1. ASSUME NEW o \in DOMAIN tally, tally[o].alter_id <= m
        PROVE  InHistory(o)'
    <3>1. tally[o].alter_id \in 1..lastAlterId /\ lastAlterId \in Nat
      BY SourceAssumption DEF SourceOK, SourceTypeOK
    <3>2. \A p \in S : response[w][p].alter_id \in Nat /\ response[w][p].alter_id <= m
      BY <1>3, HighestIsBound DEF Record
    <3>3. m = 0 \/ \E p \in S : response[w][p].alter_id = m
      BY <1>3, HighestIsBound
    <3>4. ~(\A p \in S : response[w][p].alter_id < tally[o].alter_id)
      BY <2>1, <3>1, <3>2, <3>3
    <3>5. DOMAIN response[w] = S BY <1>3
    <3>6. Seen(w, o) BY <1>1 DEF NoSaveInv, ResponsesCurrent
    <3>7. o \in S /\ Edit(response[w][o]) = Edit(tally[o])
      BY <3>4, <3>5, <3>6 DEF Seen
    <3>8. response[w][o].alter_id = tally[o].alter_id BY <3>7, EditAlterId
    <3>9. CASE o \in Batch(w)
      <4>1. [guid |-> GuidOf[o], xml |-> response[w][o]] \in versions'
        BY <3>9, WrittenInHistory DEF HistoryInv
      <4> QED BY <1>1, <3>7, <4>1 DEF InHistory
    <3>10. CASE o \notin Batch(w)
      <4>1. ~(response[w][o].alter_id > since[w])
        BY <3>5, <3>7, <3>10 DEF Batch, Newer
      <4>2. since[w] \in Nat BY SourceAssumption DEF LocalsOK
      <4>3. tally[o].alter_id <= since[w] BY <3>1, <3>8, <4>1, <4>2
      <4>4. InHistory(o) BY <4>3 DEF NoSaveInv, CoveredUpTo
      <4> QED BY <1>2, <4>4
    <3> QED BY <3>9, <3>10
  <2>2. NoSaveMissed' BY <1>1, <1>6, <2>1 DEF NoSaveMissed, CoveredUpTo
  <2> QED BY <1>1, <2>2, NoSaveLeave DEF NoSaveInv
<1> QED BY <1>4, <1>5, <1>6 DEF NextCheckpoint

\* One case per action.
LEMMA NoSaveStep ==
    ASSUME Truncating = FALSE, TypeInv, HistoryInv, NoSaveInv, [Next]_vars
    PROVE  NoSaveInv'
<1>1. CASE Source BY <1>1, NoSaveSource
<1>2. ASSUME NEW w \in Workers, NEW isFull \in BOOLEAN, Begin(w, isFull)
      PROVE  NoSaveInv'
  BY <1>2, NoSaveBegin
<1>3. ASSUME NEW w \in Workers, Fetch(w) PROVE NoSaveInv'
  BY <1>3, NoSaveFetch
<1>4. ASSUME NEW w \in Workers, Compare(w) PROVE NoSaveInv'
  BY <1>4, NoSaveCompare
<1>5. ASSUME NEW w \in Workers, Commit(w) PROVE NoSaveInv'
  BY <1>5, NoSaveCommit
<1>6. ASSUME NEW w \in Workers, Reject(w) \/ Fail(w) PROVE NoSaveInv'
  <2>1. /\ UNCHANGED sourceVars /\ tally' = tally /\ Leave(w)
        /\ versions' = versions /\ checkpoint' = checkpoint
    BY <1>6 DEF Reject, Fail, sourceVars, tables
  <2>2. NoSaveMissed'
    BY <2>1 DEF NoSaveInv, NoSaveMissed, CoveredUpTo, InHistory
  <2> QED BY <2>1, <2>2, NoSaveLeave DEF NoSaveInv
<1>7. CASE Crash
  <2>1. /\ tally' = tally /\ lastAlterId' = lastAlterId
        /\ versions' = versions /\ checkpoint' = checkpoint
        /\ \A w \in Workers : phase'[w] = "idle" /\ since'[w] = 0
    BY <1>7 DEF Crash, sourceVars, tables
  <2>2. NoSaveMissed'
    BY <2>1 DEF NoSaveInv, NoSaveMissed, CoveredUpTo, InHistory
  <2>3. ResponsesCurrent' BY <2>1 DEF ResponsesCurrent
  <2>4. \A o \in DOMAIN tally' : ~(tally'[o].alter_id <= 0)
    BY <2>1, TypeParts, SourceAssumption DEF SourceOK, SourceTypeOK
  <2>5. \A w \in Workers : CoveredUpTo(since[w])'
    BY <2>1, <2>4 DEF CoveredUpTo
  <2> QED BY <2>2, <2>3, <2>5 DEF NoSaveInv
<1>8. CASE UNCHANGED vars
  BY <1>8 DEF vars, sourceVars, tables, locals, NoSaveInv, ResponsesCurrent,
              Seen, NoSaveMissed, CoveredUpTo, InHistory
<1> QED BY <1>1, <1>2, <1>3, <1>4, <1>5, <1>6, <1>7, <1>8 DEF Next

\* With responses that are never truncated, the strengthened invariant of
\* app/services/base.py:55-90 holds whatever the threads and failures.
THEOREM SyncInvHolds ==
    ASSUME Truncating = FALSE
    PROVE  Spec => []SyncInv
<1>1. Init => NoSaveInv
  BY DEF Init, SourceInit, NoSaveInv, ResponsesCurrent, NoSaveMissed,
         CoveredUpTo, Empty
<1>2. Init => HistoryInv
  BY DEF Init, HistoryInv, HistoryComplete, StoredInHistory, Empty
<1>3. TypeInv /\ HistoryInv /\ NoSaveInv /\ [Next]_vars
        => HistoryInv' /\ NoSaveInv'
  BY HistoryStep, NoSaveStep
<1>4. TypeInv /\ HistoryInv /\ NoSaveInv => SyncInv
  BY DEF TypeInv, HistoryInv, NoSaveInv, SyncInv
<1> QED BY <1>1, <1>2, <1>3, <1>4, TypeCorrect, PTL DEF Spec

\* Each save the checkpoint has passed is in tally_entity_versions, which is
\* what an incremental sync relies on when it skips it.
THEOREM NoSaveIsMissed ==
    ASSUME Truncating = FALSE
    PROVE  Spec => []NoSaveMissed
<1>1. SyncInv => NoSaveMissed BY DEF SyncInv
<1> QED BY <1>1, SyncInvHolds, PTL

(***************************************************************************)
(* Vouchers: a response has the vouchers of a period only, or nothing.     *)
(***************************************************************************)

\* Each step of a voucher sync is one of sync(), its fetch but for the scope.
LEMMA VoucherSteps ==
    ASSUME [VoucherNext]_voucherVars
    PROVE  [Next]_vars \/ \E w \in Workers : \E shown \in SUBSET DOMAIN tally :
                              Receive(w, shown)
<1>1. ASSUME NEW w \in Workers, FetchPeriod(w)
      PROVE  \E shown \in SUBSET DOMAIN tally : Receive(w, shown)
  BY <1>1 DEF FetchPeriod, InPeriod
<1>2. ASSUME NEW w \in Workers, FetchError(w)
      PROVE  \E shown \in SUBSET DOMAIN tally : Receive(w, shown)
  BY <1>2 DEF FetchError
<1> QED BY <1>1, <1>2 DEF VoucherNext, voucherVars, Next, BeginPeriod, NextDay

\* HistoryComplete of vouchers, whatever periods, errors and days.
THEOREM VoucherHistoryIsComplete == VoucherSpec => [](TypeInv /\ HistoryComplete)
<1>1. VoucherInit => TypeInv /\ HistoryInv
  BY InitType DEF VoucherInit, Init, HistoryInv, HistoryComplete, StoredInHistory, Empty
<1>2. TypeInv /\ HistoryInv /\ [VoucherNext]_voucherVars => TypeInv' /\ HistoryInv'
  BY VoucherSteps, TypeStep, HistoryStep
<1>3. HistoryInv => HistoryComplete BY DEF HistoryInv
<1> QED BY <1>1, <1>2, <1>3, PTL DEF VoucherSpec

\* ResponsesCurrent within the period: what a response does not show as it is
\* was saved after all it does show, or is of another day.
PeriodsCurrent ==
    /\ toDate = [w \in Workers |-> toDate[w]]
    /\ \A w \in Workers : phase[w] \in {"compare", "write"} =>
          \A o \in InPeriod(w) : Seen(w, o)

\* A step that leaves a worker's response, phase and period, and Tally, leaves
\* what the response shows.
LEMMA PeriodKept ==
    ASSUME PeriodsCurrent, tally' = tally, NEW v \in Workers,
           phase'[v] \in {"compare", "write"} => phase[v] \in {"compare", "write"},
           response'[v] = response[v], toDate'[v] = toDate[v],
           phase'[v] \in {"compare", "write"}, NEW o \in InPeriod(v)'
    PROVE  Seen(v, o)'
<1>1. InPeriod(v)' = InPeriod(v) BY DEF InPeriod
<1> QED BY <1>1 DEF PeriodsCurrent, Seen

LEMMA PeriodSource ==
    ASSUME TypeInv, PeriodsCurrent, Source, UNCHANGED toDate
    PROVE  PeriodsCurrent'
<1>1. phase' = phase /\ response' = response /\ lastAlterId \in Nat
  BY TypeParts, SourceAssumption DEF Source, locals, SourceOK, SourceTypeOK
<1>2. ASSUME NEW w \in Workers, phase'[w] \in {"compare", "write"}, NEW o \in InPeriod(w)'
      PROVE  Seen(w, o)'
  <2>1. o \in DOMAIN tally' /\ DateOf[o] \in FromDate..toDate[w] BY <1>2 DEF InPeriod
  <2>2. CASE o \in DOMAIN tally /\ Edit(tally'[o]) = Edit(tally[o])
    <3>1. tally'[o].alter_id = tally[o].alter_id BY <2>2, EditAlterId
    <3>2. Seen(w, o) BY <1>1, <1>2, <2>1, <2>2 DEF PeriodsCurrent, InPeriod
    <3> QED BY <1>1, <2>2, <3>1, <3>2 DEF Seen
  <2>3. CASE tally'[o].alter_id = lastAlterId + 1
    <3>1. \A p \in DOMAIN response[w] : response[w][p].alter_id \in 1..lastAlterId
      BY TypeParts DEF LocalsOK
    <3>2. \A p \in DOMAIN response'[w] : response'[w][p].alter_id < tally'[o].alter_id
      BY <1>1, <2>3, <3>1
    <3> QED BY <3>2 DEF Seen
  <2> QED BY <2>1, <2>2, <2>3, EditsStep
<1> QED BY <1>2 DEF PeriodsCurrent

\* The request is answered with its whole period as it is now, or with nothing.
LEMMA PeriodFetch ==
    ASSUME Truncating = FALSE, TypeInv, PeriodsCurrent, NEW w \in Workers,
           FetchPeriod(w) \/ FetchError(w)
    PROVE  PeriodsCurrent'
<1>1. PICK shown \in {InPeriod(w), {}} : Receive(w, shown) /\ UNCHANGED toDate
  BY DEF FetchPeriod, FetchError
<1>2. /\ tally' = tally
      /\ response' = [response EXCEPT ![w] = Restrict(tally, shown)]
      /\ phase' = [phase EXCEPT ![w] = "compare"]
      /\ phase \in [Workers -> Phases] /\ DOMAIN response = Workers
  BY <1>1, TypeParts DEF Receive, sourceVars, LocalsOK
<1>3. ASSUME NEW v \in Workers, phase'[v] \in {"compare", "write"}, NEW o \in InPeriod(v)'
      PROVE  Seen(v, o)'
  <2>1. CASE v # w
    <3>1. phase'[v] = phase[v] /\ response'[v] = response[v] BY <1>2, <2>1
    <3> QED BY <1>1, <1>2, <1>3, <3>1, PeriodKept
  <2>2. CASE v = w
    <3>1. response'[w] = Restrict(tally, shown) BY <1>2
    <3>2. InPeriod(w)' = InPeriod(w) BY <1>1, <1>2 DEF InPeriod
    <3>3. CASE shown = InPeriod(w)
      <4>1. o \in DOMAIN response'[w] /\ response'[w][o] = tally'[o]
        BY <1>2, <1>3, <2>2, <3>1, <3>2, <3>3 DEF Restrict
      <4> QED BY <2>2, <4>1 DEF Seen
    <3>4. CASE shown = {}
      <4>1. DOMAIN response'[w] = {} BY <3>1, <3>4 DEF Restrict
      <4> QED BY <2>2, <4>1 DEF Seen
    <3> QED BY <3>3, <3>4
  <2> QED BY <2>1, <2>2
<1> QED BY <1>1, <1>3 DEF PeriodsCurrent

\* One case per action; only a fetch gives a worker something to show.
LEMMA PeriodStep ==
    ASSUME Truncating = FALSE, TypeInv, PeriodsCurrent, [VoucherNext]_voucherVars
    PROVE  PeriodsCurrent'
<1>1. CASE Source /\ UNCHANGED toDate BY <1>1, PeriodSource
<1>2. ASSUME NEW w \in Workers, FetchPeriod(w) \/ FetchError(w) PROVE PeriodsCurrent'
  BY <1>2, PeriodFetch
<1>3. ASSUME /\ tally' = tally /\ toDate' = [v \in Workers |-> toDate'[v]]
             /\ \A v \in Workers : phase'[v] \in {"compare", "write"} =>
                   /\ phase[v] \in {"compare", "write"}
                   /\ response'[v] = response[v] /\ toDate'[v] = toDate[v]
      PROVE  PeriodsCurrent'
  BY <1>3, PeriodKept DEF PeriodsCurrent
<1>4. ASSUME NEW w \in Workers, NEW isFull \in BOOLEAN, BeginPeriod(w, isFull)
      PROVE  PeriodsCurrent'
  <2>1. /\ tally' = tally /\ response' = response
        /\ phase \in [Workers -> Phases] /\ phase' = [phase EXCEPT ![w] = "fetch"]
        /\ toDate = [v \in Workers |-> toDate[v]]
        /\ toDate' = [toDate EXCEPT ![w] = today]
    BY <1>4, TypeParts DEF BeginPeriod, Begin, sourceVars, LocalsOK, PeriodsCurrent
  <2>2. toDate' = [v \in Workers |-> toDate'[v]] BY <2>1
  <2>3. ASSUME NEW v \in Workers, phase'[v] \in {"compare", "write"}
        PROVE  /\ phase[v] \in {"compare", "write"}
               /\ response'[v] = response[v] /\ toDate'[v] = toDate[v]
    <3>1. v # w BY <2>1, <2>3
    <3>2. toDate'[v] = toDate[v]
      <4>1. DOMAIN toDate = Workers BY <2>1
      <4> QED BY <2>1, <3>1, <4>1
    <3> QED BY <2>1, <2>3, <3>1, <3>2
  <2> QED BY <1>3, <2>1, <2>2, <2>3
<1>5. ASSUME NEW w \in Workers, Leave(w), tally' = tally, UNCHANGED toDate
      PROVE  PeriodsCurrent'
  <2>1. \A v \in Workers : phase'[v] \in {"compare", "write"} =>
            phase'[v] = phase[v] /\ response'[v] = response[v]
    BY <1>5, TypeParts DEF Leave, LocalsOK
  <2> QED BY <1>3, <1>5, <2>1 DEF PeriodsCurrent
<1>6. ASSUME NEW w \in Workers, Compare(w), UNCHANGED toDate
      PROVE  PeriodsCurrent'
  <2>1. /\ tally' = tally /\ response' = response
        /\ \A v \in Workers : phase'[v] \in {"compare", "write"} =>
              phase[v] \in {"compare", "write"}
    BY <1>6, TypeParts DEF Compare, sourceVars, LocalsOK
  <2> QED BY <1>3, <1>6, <2>1 DEF PeriodsCurrent
<1>7. CASE Crash /\ UNCHANGED toDate
  <2>1. tally' = tally /\ \A v \in Workers : phase'[v] = "idle"
    BY <1>7 DEF Crash, sourceVars
  <2> QED BY <1>3, <1>7, <2>1 DEF PeriodsCurrent
<1>8. CASE UNCHANGED <<vars, toDate>>
  <2>1. tally' = tally /\ phase' = phase /\ response' = response
    BY <1>8 DEF vars, sourceVars, locals
  <2> QED BY <1>3, <1>8, <2>1 DEF PeriodsCurrent
<1>9. ASSUME NEW w \in Workers, Commit(w) \/ Reject(w) \/ Fail(w)
      PROVE  Leave(w) /\ tally' = tally
  BY <1>9 DEF Commit, Reject, Fail, sourceVars
<1> QED BY <1>1, <1>2, <1>4, <1>5, <1>6, <1>7, <1>8, <1>9 DEF VoucherNext, voucherVars, NextDay

\* What a commit moves the checkpoint past is in the history: the response had
\* something newer, so it showed the voucher as it is, and the filter took it.
LEMMA CommitKeepsPeriod ==
    ASSUME TypeInv, HistoryInv, PeriodsCurrent, NEW w \in Workers, NEW o \in InPeriod(w),
           Commit(w), checkpoint' \in Highest(response[w]),
           tally[o].alter_id \in since[w] + 1 .. checkpoint'
    PROVE  InHistory(o)'
<1> USE TypeParts
<1>1. /\ tally' = tally /\ phase[w] = "write" /\ o \in DOMAIN tally
      /\ since[w] \in Nat /\ lastAlterId \in Nat
      /\ tally[o].alter_id \in 1..lastAlterId
  BY SourceAssumption DEF Commit, sourceVars, InPeriod, LocalsOK, SourceOK, SourceTypeOK
<1>2. \A p \in DOMAIN response[w] : response[w][p].alter_id \in 1..lastAlterId
  BY DEF LocalsOK
<1>3. \E p \in DOMAIN response[w] : response[w][p].alter_id = checkpoint'
  BY <1>1, HighestIsBound
<1>4. ~(\A p \in DOMAIN response[w] : response[w][p].alter_id < tally[o].alter_id)
  BY <1>1, <1>2, <1>3
<1>5. Seen(w, o) BY <1>1 DEF PeriodsCurrent
<1>6. o \in DOMAIN response[w] /\ Edit(response[w][o]) = Edit(tally[o])
  BY <1>4, <1>5 DEF Seen
<1>7. response[w][o].alter_id > since[w]
  <2>1. response[w][o].alter_id = tally[o].alter_id BY <1>6, EditAlterId
  <2> QED BY <1>1, <2>1
<1>8. o \in Batch(w) BY <1>6, <1>7 DEF Batch, Newer
<1>9. [guid |-> GuidOf[o], xml |-> response[w][o]] \in versions'
  BY <1>8, WrittenInHistory DEF HistoryInv
<1> QED BY <1>1, <1>6, <1>9 DEF InHistory

\* PassedIsKept for any number of threads, whose checkpoints and days overtake
\* each other, while no response is truncated.
THEOREM PassedVouchersAreKept ==
    ASSUME Truncating = FALSE
    PROVE  VoucherSpec => PassedIsKept
<1> DEFINE Inv == TypeInv /\ HistoryInv /\ PeriodsCurrent
<1>1. VoucherInit => Inv
  BY InitType DEF VoucherInit, Init, HistoryInv, HistoryComplete, StoredInHistory, Empty,
                  PeriodsCurrent
<1>2. Inv /\ [VoucherNext]_voucherVars => Inv'
  BY VoucherSteps, TypeStep, HistoryStep, PeriodStep
<1> DEFINE Keeps(w, o) ==
               /\ Commit(w) /\ checkpoint' \in Highest(response[w])
               /\ tally[o].alter_id \in since[w] + 1 .. checkpoint'
               => InHistory(o)'
<1>3. Inv => \A w \in Workers : \A o \in InPeriod(w) : Keeps(w, o)
  BY CommitKeepsPeriod
<1> QED BY <1>1, <1>2, <1>3, PTL DEF VoucherSpec, PassedIsKept

=============================================================================
