-------------------------- MODULE SyncSerialProofs --------------------------
(***************************************************************************)
(* Proofs about SyncService for one thread, guids that differ and whole    *)
(* responses, for any objects, names and bounds.  SerialInvHolds is the    *)
(* inductive invariant; the three properties that only one thread has and  *)
(* the refinement of Replica follow from it.                               *)
(***************************************************************************)
EXTENDS SyncReplica, SyncServiceProofs

\* One thread at most, a guid of its own for each object, whole responses.
Serial ==
    /\ \A v, w \in Workers : v = w
    /\ \A o, p \in Objects : GuidOf[o] = GuidOf[p] => o = p
    /\ Truncating = FALSE

(***************************************************************************)
(* The inductive invariant.                                                *)
(***************************************************************************)

NamesDiffer(items) ==
    \A o, p \in DOMAIN items : items[o].name = items[p].name => o = p

\* No archive row is newer than the record it is of.
NotAhead(items) ==
    \A o \in DOMAIN items : GuidOf[o] \in DOMAIN archive =>
        archive[GuidOf[o]].alter_id <= items[o].alter_id

ArchiveGiven ==
    \A g \in DOMAIN archive : archive[g].alter_id \in 1..lastAlterId

Between ==
    /\ NamesDiffer(tally) /\ NotAhead(tally) /\ ArchiveGiven
    /\ SkipsOnlyArchived /\ EntityFollowsArchive

Saved(items, o) ==
    GuidOf[o] \in DOMAIN archive /\ Edit(archive[GuidOf[o]]) = Edit(items[o])

\* What the response does not show as it is was saved after it, and so after
\* everything in the archive.
Shown(w, o) ==
    \/ o \in DOMAIN response[w] /\ Edit(response[w][o]) = Edit(tally[o])
    \/ /\ \A p \in DOMAIN response[w] : response[w][p].alter_id < tally[o].alter_id
       /\ \A g \in DOMAIN archive : archive[g].alter_id < tally[o].alter_id

\* Nothing of what the filter drops needs to be written.
Received(w) ==
    /\ NamesDiffer(response[w]) /\ NotAhead(response[w])
    /\ \A o \in DOMAIN response[w] :
          response[w][o].alter_id <= since[w] => Saved(response[w], o)
    /\ \A o \in DOMAIN tally : Shown(w, o)

Underway(w) ==
    /\ phase[w] # "idle" => since[w] \in {0, checkpoint}
    /\ phase[w] \in {"compare", "write"} => Received(w)
    /\ phase[w] = "write" =>
          stored[w] = Restrict(archive, {GuidOf[o] : o \in Batch(w)} \cap DOMAIN archive)

SerialInv == Between /\ \A w \in Workers : Underway(w)

(***************************************************************************)
(* What the types and the operators give.                                  *)
(***************************************************************************)

\* The same save is the same name and AlterID.
LEMMA EditFields ==
    ASSUME NEW r, NEW s, Edit(r) = Edit(s)
    PROVE  r.name = s.name /\ r.alter_id = s.alter_id
<1>1. Edit(r).name = r.name /\ Edit(r).alter_id = r.alter_id BY DEF Edit
<1>2. Edit(s).name = s.name /\ Edit(s).alter_id = s.alter_id BY DEF Edit
<1> QED BY <1>1, <1>2

\* The type invariant, element by element.
LEMMA Elements ==
    ASSUME TypeInv
    PROVE  /\ lastAlterId \in Nat /\ checkpoint \in Nat /\ checkpoint <= lastAlterId
           /\ \A o \in DOMAIN tally : /\ o \in Objects /\ tally[o] \in Record
                                      /\ tally[o].alter_id \in 1..lastAlterId
           /\ \A g \in DOMAIN archive : archive[g] \in Record
           /\ \A w \in Workers : since[w] \in Nat
           /\ \A w \in Workers : \A o \in DOMAIN response[w] :
                 /\ o \in Objects /\ response[w][o] \in Record
                 /\ response[w][o].alter_id \in 1..lastAlterId
<1> USE TypeParts, SourceAssumption
<1>1. lastAlterId \in Nat /\ checkpoint \in Nat /\ checkpoint <= lastAlterId
  BY DEF SourceOK, SourceTypeOK, TablesOK
<1>2. ASSUME NEW o \in DOMAIN tally
      PROVE  o \in Objects /\ tally[o] \in Record /\ tally[o].alter_id \in 1..lastAlterId
  <2>1. PICK S \in SUBSET Objects : tally \in [S -> Record] BY DEF SourceOK, SourceTypeOK
  <2> QED BY <2>1 DEF SourceOK
<1>3. ASSUME NEW g \in DOMAIN archive PROVE archive[g] \in Record
  <2>1. PICK S \in SUBSET Guids : archive \in [S -> Record] BY DEF TablesOK
  <2> QED BY <2>1
<1>4. ASSUME NEW w \in Workers PROVE since[w] \in Nat BY DEF LocalsOK
<1>5. ASSUME NEW w \in Workers, NEW o \in DOMAIN response[w]
      PROVE  /\ o \in Objects /\ response[w][o] \in Record
             /\ response[w][o].alter_id \in 1..lastAlterId
  <2>1. PICK S \in SUBSET Objects : response[w] \in [S -> Record] BY DEF LocalsOK
  <2> QED BY <2>1 DEF LocalsOK
<1> QED BY <1>1, <1>2, <1>3, <1>4, <1>5

\* With guids that differ, the archive row of an object is its own record.
LEMMA ByGuidAt ==
    ASSUME Serial, NEW items, NEW batch \in SUBSET Objects
    PROVE  /\ DOMAIN ByGuid(batch, items) = {GuidOf[o] : o \in batch}
           /\ \A o \in batch : ByGuid(batch, items)[GuidOf[o]] = items[o]
<1>1. DOMAIN ByGuid(batch, items) = {GuidOf[o] : o \in batch} BY DEF ByGuid
<1>2. ASSUME NEW o \in batch PROVE ByGuid(batch, items)[GuidOf[o]] = items[o]
  <2>1. GuidOf[o] \in DOMAIN ByGuid(batch, items) BY <1>1
  <2>2. PICK p \in batch : GuidOf[p] = GuidOf[o]
                           /\ ByGuid(batch, items)[GuidOf[o]] = items[p]
    BY <2>1, ByGuidRow
  <2>3. p = o BY <2>2 DEF Serial
  <2> QED BY <2>2, <2>3
<1> QED BY <1>1, <1>2

\* With names that differ, so is its row of the entity table.
LEMMA ByNameAt ==
    ASSUME NEW items, NamesDiffer(items), NEW batch \in SUBSET DOMAIN items,
           NEW rows \in ByName(batch, items)
    PROVE  /\ DOMAIN rows = {items[o].name : o \in batch}
           /\ \A o \in batch :
                 rows[items[o].name] = [guid |-> GuidOf[o], xml |-> items[o]]
<1> DEFINE N == {items[o].name : o \in batch}
<1>1. PICK last \in [N -> batch] :
          /\ \A n \in N : items[last[n]].name = n
          /\ rows = [n \in N |-> [guid |-> GuidOf[last[n]], xml |-> items[last[n]]]]
  BY DEF ByName
<1>2. ASSUME NEW o \in batch
      PROVE  rows[items[o].name] = [guid |-> GuidOf[o], xml |-> items[o]]
  <2>1. items[o].name \in N OBVIOUS
  <2>2. last[items[o].name] \in batch /\ items[last[items[o].name]].name = items[o].name
    BY <1>1, <2>1
  <2>3. last[items[o].name] = o BY <2>2 DEF NamesDiffer
  <2> QED BY <1>1, <2>1, <2>3
<1> QED BY <1>1, <1>2

\* What a commit makes of the archive.
LEMMA ArchiveAfter ==
    ASSUME Serial, TypeInv, NEW w \in Workers, Commit(w)
    PROVE  /\ DOMAIN archive' = DOMAIN archive \cup {GuidOf[o] : o \in Batch(w)}
           /\ \A o \in Batch(w) : archive'[GuidOf[o]] = response[w][o]
           /\ \A g \in DOMAIN archive :
                 (\A o \in Batch(w) : GuidOf[o] # g) => archive'[g] = archive[g]
<1> DEFINE c == ByGuid(Changed(w), response[w])
           u == ByGuid(Unchanged(w), response[w])
<1>1. /\ Batch(w) \subseteq Objects /\ Changed(w) \in SUBSET Objects
      /\ Unchanged(w) \in SUBSET Objects /\ Batch(w) = Changed(w) \cup Unchanged(w)
  BY Batches
<1>2. archive' = Overlay(Overlay(archive, c), u) BY DEF Commit
<1>3. /\ DOMAIN c = {GuidOf[o] : o \in Changed(w)}
      /\ \A o \in Changed(w) : c[GuidOf[o]] = response[w][o]
  BY <1>1, ByGuidAt
<1>4. /\ DOMAIN u = {GuidOf[o] : o \in Unchanged(w)}
      /\ \A o \in Unchanged(w) : u[GuidOf[o]] = response[w][o]
  BY <1>1, ByGuidAt
<1> HIDE DEF c, u
<1>5. DOMAIN archive' = DOMAIN archive \cup DOMAIN c \cup DOMAIN u
  BY <1>2 DEF Overlay
<1>6. \A g \in DOMAIN archive' :
          archive'[g] = IF g \in DOMAIN u THEN u[g]
                        ELSE IF g \in DOMAIN c THEN c[g] ELSE archive[g]
  BY <1>2 DEF Overlay
<1>7. ASSUME NEW o \in Batch(w) PROVE archive'[GuidOf[o]] = response[w][o]
  <2>1. CASE o \in Unchanged(w) BY <1>4, <1>5, <1>6, <2>1
  <2>2. CASE o \in Changed(w) /\ o \notin Unchanged(w)
    <3>1. GuidOf[o] \notin DOMAIN u BY <1>1, <1>4, <2>2 DEF Serial
    <3> QED BY <1>3, <1>5, <1>6, <2>2, <3>1
  <2> QED BY <1>1, <2>1, <2>2
<1>8. ASSUME NEW g \in DOMAIN archive, \A o \in Batch(w) : GuidOf[o] # g
      PROVE  archive'[g] = archive[g]
  BY <1>1, <1>3, <1>4, <1>5, <1>6, <1>8
<1> QED BY <1>1, <1>3, <1>4, <1>5, <1>7, <1>8

\* What a commit makes of the entity table.
LEMMA EntityAfter ==
    ASSUME TypeInv, NEW w \in Workers, Commit(w), NamesDiffer(response[w])
    PROVE  /\ \A o \in Changed(w) :
                 /\ response[w][o].name \in DOMAIN entity'
                 /\ entity'[response[w][o].name] = [guid |-> GuidOf[o], xml |-> response[w][o]]
           /\ \A n \in DOMAIN entity :
                 (\A o \in Changed(w) : response[w][o].name # n) =>
                     n \in DOMAIN entity' /\ entity'[n] = entity[n]
<1>1. Changed(w) \in SUBSET DOMAIN response[w] BY Batches
<1>2. PICK rows \in ByName(Changed(w), response[w]) : entity' = Overlay(entity, rows)
  BY DEF Commit
<1>3. /\ DOMAIN rows = {response[w][o].name : o \in Changed(w)}
      /\ \A o \in Changed(w) :
            rows[response[w][o].name] = [guid |-> GuidOf[o], xml |-> response[w][o]]
  BY <1>1, <1>2, ByNameAt
<1>4. /\ DOMAIN entity' = DOMAIN entity \cup DOMAIN rows
      /\ \A n \in DOMAIN entity' :
            entity'[n] = IF n \in DOMAIN rows THEN rows[n] ELSE entity[n]
  BY <1>2 DEF Overlay
<1> QED BY <1>3, <1>4

(***************************************************************************)
(* The steps.                                                              *)
(***************************************************************************)

\* A table or the source left alone keeps its part.
LEMMA BetweenKept ==
    ASSUME Between, UNCHANGED sourceVars, UNCHANGED tables
    PROVE  Between'
BY DEF Between, NamesDiffer, NotAhead, ArchiveGiven, SkipsOnlyArchived,
       EntityFollowsArchive, Archived, sourceVars, tables

\* The step of a worker that has left session_scope.
LEMMA IdleUnderway ==
    ASSUME Serial, TypeInv, NEW w \in Workers, Leave(w)
    PROVE  \A v \in Workers : Underway(v)'
<1>1. phase'[w] = "idle" BY TypeParts DEF Leave, LocalsOK
<1>2. \A v \in Workers : phase'[v] = "idle" BY <1>1 DEF Serial
<1> QED BY <1>2 DEF Underway

\* The user: what is saved now is newer than all the agent has.
LEMMA SerialSource ==
    ASSUME Serial, TypeInv, SerialInv, Source
    PROVE  SerialInv'
<1>1. /\ archive' = archive /\ entity' = entity /\ checkpoint' = checkpoint
      /\ phase' = phase /\ full' = full /\ since' = since
      /\ response' = response /\ stored' = stored
  BY DEF Source, tables, locals
<1>2. /\ lastAlterId \in Nat /\ lastAlterId' \in Nat /\ lastAlterId <= lastAlterId'
      /\ checkpoint \in Nat /\ checkpoint <= lastAlterId
  BY Elements, SourceType
<1>3. \A g \in DOMAIN archive : archive[g].alter_id \in 1..lastAlterId
  BY DEF SerialInv, Between, ArchiveGiven
<1>4. ASSUME NEW o \in DOMAIN tally'
      PROVE  \/ /\ o \in DOMAIN tally /\ Edit(tally'[o]) = Edit(tally[o])
                /\ tally'[o].name = tally[o].name /\ tally'[o].alter_id = tally[o].alter_id
             \/ tally'[o].alter_id = lastAlterId + 1
  BY EditsStep, EditFields
<1>5. NamesDiffer(tally)'
  <2>1. NamesDiffer(tally) BY DEF SerialInv, Between
  <2>2. PICK p \in Objects : \/ \E n \in Names : Save(p, n)
                            \/ Delete(p) \/ Drift(p)
    BY DEF Source, SourceNext
  <2>3. ASSUME NEW n \in Names, Save(p, n) PROVE NamesDiffer(tally)'
    <3>1. /\ DOMAIN tally' = DOMAIN tally \cup {p} /\ tally'[p].name = n
          /\ \A q \in DOMAIN tally \ {p} : tally'[q] = tally[q] /\ tally[q].name # n
      BY <2>3 DEF Save, Overlay
    <3> QED BY <2>1, <3>1 DEF NamesDiffer
  <2>4. CASE Delete(p)
    <3>1. /\ DOMAIN tally' = DOMAIN tally \ {p}
          /\ \A q \in DOMAIN tally \ {p} : tally'[q] = tally[q]
      BY <2>4 DEF Delete, Restrict
    <3> QED BY <2>1, <3>1 DEF NamesDiffer
  <2>5. CASE Drift(p)
    <3>1. tally' = [tally EXCEPT ![p] = [tally[p] EXCEPT !.closing = 1 - tally[p].closing]]
      BY <2>5 DEF Drift
    <3>2. \A q \in DOMAIN tally : tally[q] \in Record BY Elements
    <3>3. DOMAIN tally' = DOMAIN tally /\ \A q \in DOMAIN tally : tally'[q].name = tally[q].name
      BY <3>1, <3>2 DEF Record
    <3> QED BY <2>1, <3>3 DEF NamesDiffer
  <2> QED BY <2>2, <2>3, <2>4, <2>5
<1>6. NotAhead(tally)'
  <2> SUFFICES ASSUME NEW o \in DOMAIN tally', GuidOf[o] \in DOMAIN archive
               PROVE  archive[GuidOf[o]].alter_id <= tally'[o].alter_id
    BY <1>1 DEF NotAhead
  <2>1. NotAhead(tally) BY DEF SerialInv, Between
  <2> QED BY <1>2, <1>3, <1>4, <2>1 DEF NotAhead
<1>7. ArchiveGiven' BY <1>1, <1>2, <1>3 DEF ArchiveGiven
<1>8. SkipsOnlyArchived'
  <2> SUFFICES ASSUME NEW o \in DOMAIN tally', tally'[o].alter_id <= checkpoint
               PROVE  Archived(o)'
    BY <1>1 DEF SkipsOnlyArchived
  <2>1. /\ o \in DOMAIN tally /\ Edit(tally'[o]) = Edit(tally[o])
        /\ tally[o].alter_id <= checkpoint
    BY <1>2, <1>4
  <2>2. Archived(o) BY <2>1 DEF SerialInv, Between, SkipsOnlyArchived
  <2> QED BY <1>1, <2>1, <2>2 DEF Archived
<1>9. EntityFollowsArchive'
  <2> SUFFICES ASSUME NEW o \in DOMAIN tally', Archived(o)'
               PROVE  /\ tally'[o].name \in DOMAIN entity
                      /\ entity[tally'[o].name] =
                            [guid |-> GuidOf[o], xml |-> archive[GuidOf[o]]]
    BY <1>1 DEF EntityFollowsArchive
  <2>1. GuidOf[o] \in DOMAIN archive /\ Edit(archive[GuidOf[o]]) = Edit(tally'[o])
    BY <1>1 DEF Archived
  <2>2. archive[GuidOf[o]].alter_id = tally'[o].alter_id BY <2>1, EditFields
  <2>3. tally'[o].alter_id # lastAlterId + 1 BY <1>2, <1>3, <2>1, <2>2
  <2>4. /\ o \in DOMAIN tally /\ Edit(tally'[o]) = Edit(tally[o])
        /\ tally'[o].name = tally[o].name
    BY <1>4, <2>3
  <2>5. Archived(o) BY <2>1, <2>4 DEF Archived
  <2> QED BY <2>4, <2>5 DEF SerialInv, Between, EntityFollowsArchive
<1>10. ASSUME NEW w \in Workers PROVE Underway(w)'
  <2>1. Underway(w) BY DEF SerialInv
  <2>2. ASSUME phase[w] \in {"compare", "write"} PROVE Received(w)'
    <3>1. Received(w) BY <2>1, <2>2 DEF Underway
    <3>2. ASSUME NEW o \in DOMAIN tally' PROVE Shown(w, o)'
      <4>1. CASE o \in DOMAIN tally /\ Edit(tally'[o]) = Edit(tally[o])
                 /\ tally'[o].alter_id = tally[o].alter_id
        <5>1. Shown(w, o) BY <3>1, <4>1 DEF Received
        <5> QED BY <1>1, <4>1, <5>1 DEF Shown
      <4>2. CASE tally'[o].alter_id = lastAlterId + 1
        <5>1. \A p \in DOMAIN response[w] : response[w][p].alter_id \in 1..lastAlterId
          BY Elements
        <5> QED BY <1>1, <1>2, <1>3, <4>2, <5>1 DEF Shown
      <4> QED BY <1>4, <4>1, <4>2
    <3> QED BY <1>1, <3>1, <3>2 DEF Received, NamesDiffer, NotAhead, Saved
  <2>3. Batch(w)' = Batch(w) BY <1>1 DEF Batch
  <2> QED BY <1>1, <2>1, <2>2, <2>3 DEF Underway
<1> QED BY <1>5, <1>6, <1>7, <1>8, <1>9, <1>10 DEF SerialInv, Between

\* The checkpoint query: nobody else moves the checkpoint until the commit.
LEMMA SerialBegin ==
    ASSUME Serial, TypeInv, SerialInv, NEW w \in Workers, NEW isFull \in BOOLEAN,
           Begin(w, isFull)
    PROVE  SerialInv'
<1>1. Between' BY BetweenKept DEF Begin, SerialInv
<1>2. phase'[w] = "fetch" /\ since'[w] \in {0, checkpoint} /\ checkpoint' = checkpoint
  BY TypeParts DEF Begin, LocalsOK, tables
<1>3. Underway(w)' BY <1>2 DEF Underway
<1> QED BY <1>1, <1>3 DEF Serial, SerialInv

\* The export: what the checkpoint covers is archived.
LEMMA SerialFetch ==
    ASSUME Serial, TypeInv, SerialInv, NEW w \in Workers, Fetch(w)
    PROVE  SerialInv'
<1>1. Between' BY BetweenKept DEF Fetch, Receive, SerialInv
<1>2. /\ tally' = tally /\ archive' = archive /\ checkpoint' = checkpoint
      /\ since' = since /\ phase[w] = "fetch" /\ phase'[w] = "compare"
  BY TypeParts DEF Fetch, Receive, sourceVars, tables, LocalsOK
<1>3. response'[w] = Restrict(tally, DOMAIN tally)
  BY TypeParts DEF Fetch, Receive, Serial, LocalsOK
<1>4. DOMAIN response'[w] = DOMAIN tally /\ \A o \in DOMAIN tally : response'[w][o] = tally[o]
  BY <1>3 DEF Restrict
<1>5. since[w] \in {0, checkpoint} BY <1>2 DEF SerialInv, Underway
<1>6. NamesDiffer(response[w])' /\ NotAhead(response[w])'
  BY <1>2, <1>4 DEF SerialInv, Between, NamesDiffer, NotAhead
<1>7. ASSUME NEW o \in DOMAIN tally, tally[o].alter_id <= since[w]
      PROVE  Saved(tally, o)
  <2>1. tally[o].alter_id \in 1..lastAlterId BY Elements
  <2>2. tally[o].alter_id <= checkpoint BY <1>5, <1>7, <2>1
  <2> QED BY <2>2 DEF SerialInv, Between, SkipsOnlyArchived, Archived, Saved
<1>8. \A o \in DOMAIN response'[w] :
          response'[w][o].alter_id <= since'[w] => Saved(response[w], o)'
  BY <1>2, <1>4, <1>7 DEF Saved
<1>9. \A o \in DOMAIN tally' : Shown(w, o)' BY <1>2, <1>4 DEF Shown
<1>10. Underway(w)' BY <1>2, <1>5, <1>6, <1>8, <1>9 DEF Underway, Received
<1> QED BY <1>1, <1>10 DEF Serial, SerialInv

\* The hash query: nobody else writes the archive until the commit.
LEMMA SerialCompare ==
    ASSUME Serial, TypeInv, SerialInv, NEW w \in Workers, Compare(w)
    PROVE  SerialInv'
<1>1. Between' BY BetweenKept DEF Compare, SerialInv
<1>2. /\ tally' = tally /\ archive' = archive /\ checkpoint' = checkpoint
      /\ since' = since /\ response' = response /\ full' = full
      /\ phase[w] = "compare" /\ phase'[w] = "write"
  BY TypeParts DEF Compare, sourceVars, tables, LocalsOK
<1>3. stored'[w] = Restrict(archive, {GuidOf[o] : o \in Batch(w)} \cap DOMAIN archive)
  BY TypeParts DEF Compare, Batch, LocalsOK
<1>4. Received(w) /\ since[w] \in {0, checkpoint}
  BY <1>2 DEF SerialInv, Underway
<1>5. Received(w)'
  BY <1>2, <1>4 DEF Received, NamesDiffer, NotAhead, Saved, Shown
<1>6. Batch(w)' = Batch(w) BY <1>2 DEF Batch
<1>7. Underway(w)' BY <1>2, <1>3, <1>4, <1>5, <1>6 DEF Underway
<1> QED BY <1>1, <1>7 DEF Serial, SerialInv

\* The filter drops what its checkpoint covers and nothing else.
LEMMA Dropped ==
    ASSUME TypeInv, NEW w \in Workers, NEW o \in DOMAIN response[w], o \notin Batch(w)
    PROVE  response[w][o].alter_id <= since[w]
<1>1. ~(response[w][o].alter_id > since[w]) BY DEF Batch, Newer
<1>2. response[w][o].alter_id \in Nat /\ since[w] \in Nat BY Elements
<1> QED BY <1>1, <1>2

\* After a commit what was received is archived, written now or before; the
\* rows of other objects are as they were.
LEMMA CommitSaved ==
    ASSUME Serial, TypeInv, SerialInv, NEW w \in Workers, Commit(w)
    PROVE  /\ \A o \in DOMAIN response[w] :
                 /\ GuidOf[o] \in DOMAIN archive'
                 /\ Edit(archive'[GuidOf[o]]) = Edit(response[w][o])
           /\ \A o \in Objects \ Batch(w) : GuidOf[o] \in DOMAIN archive' =>
                 /\ GuidOf[o] \in DOMAIN archive
                 /\ archive'[GuidOf[o]] = archive[GuidOf[o]]
           /\ \A g \in DOMAIN archive' :
                 \/ g \in DOMAIN archive /\ archive'[g] = archive[g]
                 \/ \E o \in Batch(w) : g = GuidOf[o] /\ archive'[g] = response[w][o]
<1>1. Received(w) BY DEF Commit, SerialInv, Underway
<1>2. /\ DOMAIN archive' = DOMAIN archive \cup {GuidOf[o] : o \in Batch(w)}
      /\ \A o \in Batch(w) : archive'[GuidOf[o]] = response[w][o]
      /\ \A g \in DOMAIN archive :
            (\A o \in Batch(w) : GuidOf[o] # g) => archive'[g] = archive[g]
  BY ArchiveAfter
<1>3. Batch(w) \subseteq DOMAIN response[w] BY Batches
<1>4. DOMAIN response[w] \subseteq Objects BY Elements
<1>5. ASSUME NEW o \in Objects \ Batch(w), GuidOf[o] \in DOMAIN archive'
      PROVE  GuidOf[o] \in DOMAIN archive /\ archive'[GuidOf[o]] = archive[GuidOf[o]]
  <2>1. \A p \in Batch(w) : GuidOf[p] # GuidOf[o] BY <1>3, <1>4, <1>5 DEF Serial
  <2>2. GuidOf[o] \in DOMAIN archive BY <1>2, <1>5, <2>1
  <2> QED BY <1>2, <2>1, <2>2
<1>6. ASSUME NEW o \in DOMAIN response[w]
      PROVE  /\ GuidOf[o] \in DOMAIN archive'
             /\ Edit(archive'[GuidOf[o]]) = Edit(response[w][o])
  <2>1. CASE o \in Batch(w) BY <1>2, <2>1
  <2>2. CASE o \notin Batch(w)
    <3>1. response[w][o].alter_id <= since[w] BY <2>2, Dropped
    <3>2. Saved(response[w], o) BY <1>1, <3>1 DEF Received
    <3>3. GuidOf[o] \in DOMAIN archive' BY <1>2, <3>2 DEF Saved
    <3> QED BY <1>4, <1>5, <2>2, <3>2, <3>3 DEF Saved
  <2> QED BY <2>1, <2>2
<1>7. \A g \in DOMAIN archive' :
          \/ g \in DOMAIN archive /\ archive'[g] = archive[g]
          \/ \E o \in Batch(w) : g = GuidOf[o] /\ archive'[g] = response[w][o]
  BY <1>2
<1> QED BY <1>5, <1>6, <1>7

\* An object saved after the response is newer than anything the archive has
\* after the commit.
LEMMA CommitShown ==
    ASSUME Serial, TypeInv, SerialInv, NEW w \in Workers, Commit(w),
           NEW o \in DOMAIN tally
    PROVE  \/ o \in DOMAIN response[w] /\ Edit(response[w][o]) = Edit(tally[o])
           \/ /\ \A p \in DOMAIN response[w] : response[w][p].alter_id < tally[o].alter_id
              /\ \A g \in DOMAIN archive : archive[g].alter_id < tally[o].alter_id
              /\ \A g \in DOMAIN archive' : archive'[g].alter_id < tally[o].alter_id
<1>1. Shown(w, o) BY DEF Commit, SerialInv, Underway, Received
<1>2. Batch(w) \subseteq DOMAIN response[w] BY Batches
<1> QED BY <1>1, <1>2, CommitSaved DEF Shown

\* The entity table follows the archive through a commit.
LEMMA CommitEntity ==
    ASSUME Serial, TypeInv, SerialInv, NEW w \in Workers, Commit(w)
    PROVE  EntityFollowsArchive'
<1> SUFFICES ASSUME NEW o \in DOMAIN tally', Archived(o)'
             PROVE  /\ tally'[o].name \in DOMAIN entity'
                    /\ entity'[tally'[o].name] =
                          [guid |-> GuidOf[o], xml |-> archive'[GuidOf[o]]]
  BY DEF EntityFollowsArchive
<1>1. tally' = tally /\ phase[w] = "write" BY DEF Commit, sourceVars
<1>2. /\ Received(w)
      /\ stored[w] = Restrict(archive, {GuidOf[p] : p \in Batch(w)} \cap DOMAIN archive)
  BY <1>1 DEF SerialInv, Underway
<1>3. GuidOf[o] \in DOMAIN archive' /\ Edit(archive'[GuidOf[o]]) = Edit(tally[o])
  BY <1>1 DEF Archived
<1>4. o \in DOMAIN response[w] /\ Edit(response[w][o]) = Edit(tally[o])
  <2>1. archive'[GuidOf[o]].alter_id = tally[o].alter_id BY <1>3, EditFields
  <2>2. tally[o].alter_id \in Nat BY <1>1, Elements
  <2>3. ~(archive'[GuidOf[o]].alter_id < tally[o].alter_id) BY <2>1, <2>2
  <2> QED BY <1>1, <1>3, <2>3, CommitShown
<1>5. response[w][o].name = tally[o].name /\ o \in Objects
  BY <1>4, EditFields, Elements
<1>6. NamesDiffer(response[w]) BY <1>2 DEF Received
<1>7. Changed(w) \subseteq Batch(w) /\ Batch(w) \subseteq DOMAIN response[w] BY Batches
<1>8. CASE o \in Changed(w)
  <2>1. archive'[GuidOf[o]] = response[w][o] BY <1>7, <1>8, ArchiveAfter
  <2> QED BY <1>1, <1>5, <1>6, <1>8, <2>1, EntityAfter
<1>9. ASSUME o \notin Changed(w), GuidOf[o] \in DOMAIN archive,
             archive[GuidOf[o]] = archive'[GuidOf[o]]
      PROVE  /\ tally'[o].name \in DOMAIN entity'
             /\ entity'[tally'[o].name] =
                   [guid |-> GuidOf[o], xml |-> archive'[GuidOf[o]]]
  <2>1. Archived(o) BY <1>3, <1>9 DEF Archived
  <2>2. /\ tally[o].name \in DOMAIN entity
        /\ entity[tally[o].name] = [guid |-> GuidOf[o], xml |-> archive[GuidOf[o]]]
    BY <1>1, <2>1 DEF SerialInv, Between, EntityFollowsArchive
  <2>3. \A p \in Changed(w) : response[w][p].name # tally[o].name
    BY <1>4, <1>5, <1>6, <1>7, <1>9 DEF NamesDiffer
  <2> QED BY <1>1, <1>6, <1>9, <2>2, <2>3, EntityAfter
<1>10. CASE o \in Batch(w) /\ o \notin Changed(w)
  <2>1. GuidOf[o] \in DOMAIN stored[w] /\ stored[w][GuidOf[o]] = response[w][o]
    BY <1>10 DEF Changed, NewOrChanged
  <2>2. GuidOf[o] \in DOMAIN archive /\ archive[GuidOf[o]] = response[w][o]
    BY <1>2, <2>1 DEF Restrict
  <2>3. archive'[GuidOf[o]] = response[w][o] BY <1>10, ArchiveAfter
  <2> QED BY <1>9, <1>10, <2>2, <2>3
<1>11. CASE o \notin Batch(w)
  <2>1. GuidOf[o] \in DOMAIN archive /\ archive'[GuidOf[o]] = archive[GuidOf[o]]
    BY <1>3, <1>5, <1>11, CommitSaved
  <2> QED BY <1>7, <1>9, <1>11, <2>1
<1> QED BY <1>8, <1>10, <1>11

\* The checkpoint a commit stores covers what was received, and so does the
\* one it leaves.
LEMMA CommitCovers ==
    ASSUME Serial, TypeInv, SerialInv, NEW w \in Workers, Commit(w)
    PROVE  SkipsOnlyArchived'
<1> SUFFICES ASSUME NEW o \in DOMAIN tally', tally'[o].alter_id <= checkpoint'
             PROVE  Archived(o)'
  BY DEF SkipsOnlyArchived
<1>1. tally' = tally BY DEF Commit, sourceVars
<1>2. PICK m \in Highest(response[w]) :
         checkpoint' = NextCheckpoint(checkpoint, since[w], full[w], Changed(w), m)
  BY DEF Commit
<1>3. /\ lastAlterId \in Nat /\ tally[o].alter_id \in 1..lastAlterId
      /\ \A p \in DOMAIN response[w] : response[w][p].alter_id \in 1..lastAlterId
  BY <1>1, Elements
<1>4. ASSUME \A p \in DOMAIN response[w] : response[w][p].alter_id < tally[o].alter_id,
             \A g \in DOMAIN archive : archive[g].alter_id < tally[o].alter_id
      PROVE  FALSE
  <2>1. CASE checkpoint' = m
    <3>1. m = 0 \/ \E p \in DOMAIN response[w] : response[w][p].alter_id = m
      BY HighestIsBound
    <3> QED BY <1>1, <1>3, <1>4, <2>1, <3>1
  <2>2. CASE checkpoint' = checkpoint
    <3>1. Archived(o) BY <1>1, <2>2 DEF SerialInv, Between, SkipsOnlyArchived
    <3>2. GuidOf[o] \in DOMAIN archive /\ archive[GuidOf[o]].alter_id = tally[o].alter_id
      BY <3>1, EditFields DEF Archived
    <3> QED BY <1>3, <1>4, <3>2
  <2> QED BY <1>2, <2>1, <2>2 DEF NextCheckpoint
<1>5. o \in DOMAIN response[w] /\ Edit(response[w][o]) = Edit(tally[o])
  BY <1>1, <1>4, CommitShown
<1>6. GuidOf[o] \in DOMAIN archive' /\ Edit(archive'[GuidOf[o]]) = Edit(response[w][o])
  BY <1>5, CommitSaved
<1> QED BY <1>1, <1>5, <1>6 DEF Archived

LEMMA SerialCommit ==
    ASSUME Serial, TypeInv, SerialInv, NEW w \in Workers, Commit(w)
    PROVE  SerialInv'
<1>1. tally' = tally /\ lastAlterId' = lastAlterId /\ Leave(w)
  BY DEF Commit, sourceVars
<1>2. NamesDiffer(tally)' BY <1>1 DEF SerialInv, Between, NamesDiffer
<1>3. NotAhead(tally)'
  <2> SUFFICES ASSUME NEW o \in DOMAIN tally, GuidOf[o] \in DOMAIN archive'
               PROVE  archive'[GuidOf[o]].alter_id <= tally[o].alter_id
    BY <1>1 DEF NotAhead
  <2>1. o \in Objects /\ tally[o].alter_id \in Nat BY Elements
  <2>2. CASE o \in DOMAIN response[w] /\ Edit(response[w][o]) = Edit(tally[o])
    <3>1. Edit(archive'[GuidOf[o]]) = Edit(tally[o]) BY <2>2, CommitSaved
    <3> QED BY <2>1, <3>1, EditFields
  <2>3. CASE \A g \in DOMAIN archive' : archive'[g].alter_id < tally[o].alter_id
    <3>1. archive'[GuidOf[o]].alter_id < tally[o].alter_id BY <2>3
    <3>2. archive'[GuidOf[o]].alter_id \in Nat
      <4>1. Batch(w) \subseteq DOMAIN response[w] BY Batches
      <4> QED BY <4>1, CommitSaved, Elements DEF Record
    <3> QED BY <2>1, <3>1, <3>2
  <2> QED BY <2>2, <2>3, CommitShown
<1>4. ArchiveGiven'
  <2> SUFFICES ASSUME NEW g \in DOMAIN archive'
               PROVE  archive'[g].alter_id \in 1..lastAlterId
    BY <1>1 DEF ArchiveGiven
  <2>1. Batch(w) \subseteq DOMAIN response[w] BY Batches
  <2>2. \A o \in DOMAIN response[w] : response[w][o].alter_id \in 1..lastAlterId
    BY Elements
  <2>3. \A h \in DOMAIN archive : archive[h].alter_id \in 1..lastAlterId
    BY DEF SerialInv, Between, ArchiveGiven
  <2> QED BY <2>1, <2>2, <2>3, CommitSaved
<1> QED
  BY <1>1, <1>2, <1>3, <1>4, CommitCovers, CommitEntity, IdleUnderway
  DEF SerialInv, Between

\* One case per action.
LEMMA SerialStep ==
    ASSUME Serial, TypeInv, SerialInv, [Next]_vars
    PROVE  SerialInv'
<1>1. CASE Source BY <1>1, SerialSource
<1>2. ASSUME NEW w \in Workers, NEW isFull \in BOOLEAN, Begin(w, isFull)
      PROVE  SerialInv'
  BY <1>2, SerialBegin
<1>3. ASSUME NEW w \in Workers, Fetch(w) PROVE SerialInv'
  BY <1>3, SerialFetch
<1>4. ASSUME NEW w \in Workers, Compare(w) PROVE SerialInv'
  BY <1>4, SerialCompare
<1>5. ASSUME NEW w \in Workers, Commit(w) PROVE SerialInv'
  BY <1>5, SerialCommit
<1>6. ASSUME NEW w \in Workers, Reject(w) \/ Fail(w) PROVE SerialInv'
  <2>1. UNCHANGED sourceVars /\ UNCHANGED tables /\ Leave(w)
    BY <1>6 DEF Reject, Fail
  <2> QED BY <2>1, BetweenKept, IdleUnderway DEF SerialInv
<1>7. CASE Crash
  <2>1. /\ UNCHANGED sourceVars /\ UNCHANGED tables
        /\ \A v \in Workers : phase'[v] = "idle"
    BY <1>7 DEF Crash
  <2> QED BY <2>1, BetweenKept DEF SerialInv, Underway
<1>8. CASE UNCHANGED vars
  <2>1. /\ UNCHANGED sourceVars /\ UNCHANGED tables /\ phase' = phase /\ since' = since
        /\ response' = response /\ stored' = stored /\ full' = full
        /\ tally' = tally /\ archive' = archive /\ checkpoint' = checkpoint
    BY <1>8 DEF vars, sourceVars, tables, locals
  <2>2. \A v \in Workers : Batch(v)' = Batch(v) BY <2>1 DEF Batch
  <2>3. \A v \in Workers : Underway(v)'
    BY <2>1, <2>2
    DEF SerialInv, Underway, Received, NamesDiffer, NotAhead, Saved, Shown
  <2> QED BY <2>1, <2>3, BetweenKept DEF SerialInv
<1> QED BY <1>1, <1>2, <1>3, <1>4, <1>5, <1>6, <1>7, <1>8 DEF Next

LEMMA SerialInvHolds ==
    ASSUME Serial
    PROVE  Spec => []SerialInv
<1>1. Init => SerialInv
  BY DEF Init, SourceInit, SerialInv, Between, NamesDiffer, NotAhead, ArchiveGiven,
         SkipsOnlyArchived, EntityFollowsArchive, Underway, Empty
<1>2. TypeInv /\ SerialInv /\ [Next]_vars => SerialInv'
  BY SerialStep
<1> QED BY <1>1, <1>2, TypeCorrect, PTL DEF Spec

(***************************************************************************)
(* What it gives.                                                          *)
(***************************************************************************)

\* The records an incremental sync of the one thread drops are those whose
\* archive row is up to date (app/services/base.py:146-149).
THEOREM SkipsUnchanged ==
    ASSUME Serial
    PROVE  Spec => []SkipsOnlyArchived
<1>1. SerialInv => SkipsOnlyArchived BY DEF SerialInv, Between
<1> QED BY <1>1, SerialInvHolds, PTL

\* Where the archive has the current save of an object, so has the entity
\* table: to skip the upsert of an archived hash loses nothing
\* (app/services/base.py:165-181).
THEOREM EntityKeepsUp ==
    ASSUME Serial
    PROVE  Spec => []EntityFollowsArchive
<1>1. SerialInv => EntityFollowsArchive BY DEF SerialInv, Between
<1> QED BY <1>1, SerialInvHolds, PTL

\* The archive row of a guid never goes back to an earlier save
\* (app/models/db/raw_archive.py:6).
THEOREM ArchiveGrowsNewer ==
    ASSUME Serial
    PROVE  Spec => ArchiveNeverOlder
<1>1. ASSUME TypeInv, SerialInv, [Next]_vars
      PROVE  [\A g \in DOMAIN archive :
                 g \in DOMAIN archive' /\ archive'[g].alter_id >= archive[g].alter_id]_vars
  <2>1. CASE UNCHANGED archive
    <3>1. \A g \in DOMAIN archive : archive[g].alter_id \in Nat BY <1>1, Elements DEF Record
    <3> QED BY <2>1, <3>1
  <2>2. ASSUME NEW w \in Workers, Commit(w), NEW g \in DOMAIN archive
        PROVE  g \in DOMAIN archive' /\ archive'[g].alter_id >= archive[g].alter_id
    <3>1. archive[g].alter_id \in Nat BY <1>1, Elements DEF Record
    <3>2. g \in DOMAIN archive' BY <1>1, <2>2, ArchiveAfter
    <3>3. CASE archive'[g] = archive[g] BY <3>1, <3>2, <3>3
    <3>4. ASSUME NEW o \in Batch(w), g = GuidOf[o], archive'[g] = response[w][o]
          PROVE  archive'[g].alter_id >= archive[g].alter_id
      <4>1. o \in DOMAIN response[w] BY <1>1, <3>4, Batches
      <4>2. NotAhead(response[w])
        BY <1>1, <2>2 DEF Commit, SerialInv, Underway, Received
      <4>3. response[w][o].alter_id \in Nat BY <1>1, <4>1, Elements
      <4> QED BY <3>1, <3>4, <4>1, <4>2, <4>3 DEF NotAhead
    <3> QED BY <1>1, <2>2, <3>2, <3>3, <3>4, CommitSaved
  <2>3. UNCHANGED archive \/ \E w \in Workers : Commit(w)
    BY <1>1 DEF Next, Source, Begin, Fetch, Receive, Compare, Reject, Fail, Crash, vars, tables
  <2> QED BY <2>1, <2>2, <2>3
<1> QED BY <1>1, SerialInvHolds, TypeCorrect, PTL DEF Spec, ArchiveNeverOlder

(***************************************************************************)
(* The refinement of Replica.                                              *)
(***************************************************************************)

\* The mapping of SyncReplica, named.
Edits == [name : Names, alter_id : 1..MaxAlterId]
EditsOf(items) == [o \in DOMAIN items |-> Edit(items[o])]
Looking == {w \in Workers : phase[w] \in {"compare", "write"}}
Views == {EditsOf(response[w]) : w \in Looking}

\* Replica's definitions under the mapping.
LEMMA Mapping ==
    /\ R!Init <=> EditsOf(tally) = Empty /\ Views = {} /\ EditsOf(archive) = Empty
    /\ R!Change <=>
          /\ \E S \in SUBSET Objects : EditsOf(tally)' \in [S -> Edits]
          /\ \A o \in DOMAIN EditsOf(tally)' :
                \/ o \in DOMAIN EditsOf(tally) /\ EditsOf(tally)'[o] = EditsOf(tally)[o]
                \/ \A p \in DOMAIN EditsOf(tally) :
                      EditsOf(tally)[p].alter_id < EditsOf(tally)'[o].alter_id
          /\ Views' = Views /\ EditsOf(archive)' = EditsOf(archive)
    /\ R!Look <=> /\ Views = {} /\ Views' = {EditsOf(tally)}
                  /\ EditsOf(tally)' = EditsOf(tally) /\ EditsOf(archive)' = EditsOf(archive)
    /\ R!Copy <=> /\ \E v \in Views : EditsOf(archive)' = R!Copied(v)
                  /\ Views' = {} /\ EditsOf(tally)' = EditsOf(tally)
    /\ R!Forget <=> /\ Views' = {}
                    /\ EditsOf(tally)' = EditsOf(tally) /\ EditsOf(archive)' = EditsOf(archive)
    /\ UNCHANGED R!vars <=> /\ Views' = Views
                            /\ EditsOf(tally)' = EditsOf(tally)
                            /\ EditsOf(archive)' = EditsOf(archive)
BY DEF R!Init, R!Change, R!Look, R!Copy, R!Forget, R!vars, EditsOf, Views, Looking, Edits,
       R!Empty, Empty

\* A user's step is a change of the source, or none.
LEMMA SourceChanges ==
    ASSUME Serial, TypeInv, SerialInv, Source
    PROVE  R!Change
<1>1. /\ archive' = archive /\ phase' = phase /\ response' = response
  BY DEF Source, tables, locals
<1>2. Views' = Views /\ EditsOf(archive)' = EditsOf(archive)
  BY <1>1 DEF Views, Looking, EditsOf
<1>3. SourceOK' BY SourceType
<1>4. PICK S \in SUBSET Objects : tally' \in [S -> Record]
  BY <1>3 DEF SourceOK, SourceTypeOK
<1>5. \A o \in S : EditsOf(tally)'[o] \in Edits
  <2> SUFFICES ASSUME NEW o \in S PROVE Edit(tally'[o]) \in Edits
    BY <1>4 DEF EditsOf
  <2>1. tally'[o] \in Record /\ tally'[o].alter_id \in 1..lastAlterId'
    BY <1>3, <1>4 DEF SourceOK
  <2>2. lastAlterId' \in 0..MaxAlterId BY <1>3 DEF SourceOK, SourceTypeOK
  <2>3. tally'[o].alter_id \in 1..MaxAlterId BY <2>1, <2>2, SourceAssumption
  <2> QED BY <2>1, <2>3 DEF Edit, Edits, Record
<1>6. EditsOf(tally)' \in [S -> Edits] BY <1>4, <1>5 DEF EditsOf
<1>7. ASSUME NEW o \in DOMAIN EditsOf(tally)'
      PROVE  \/ o \in DOMAIN EditsOf(tally) /\ EditsOf(tally)'[o] = EditsOf(tally)[o]
             \/ \A p \in DOMAIN EditsOf(tally) :
                   EditsOf(tally)[p].alter_id < EditsOf(tally)'[o].alter_id
  <2>1. o \in DOMAIN tally' /\ EditsOf(tally)'[o] = Edit(tally'[o])
    BY <1>7 DEF EditsOf
  <2>2. CASE o \in DOMAIN tally /\ Edit(tally'[o]) = Edit(tally[o])
    BY <2>1, <2>2 DEF EditsOf
  <2>3. CASE tally'[o].alter_id = lastAlterId + 1
    <3>1. \A p \in DOMAIN tally : tally[p].alter_id \in 1..lastAlterId
      BY Elements
    <3>2. lastAlterId \in Nat BY Elements
    <3>3. Edit(tally'[o]).alter_id = lastAlterId + 1 BY <2>3 DEF Edit
    <3>4. \A p \in DOMAIN tally : EditsOf(tally)[p].alter_id = tally[p].alter_id
      BY DEF EditsOf, Edit
    <3>5. DOMAIN EditsOf(tally) = DOMAIN tally BY DEF EditsOf
    <3> QED BY <2>1, <3>1, <3>2, <3>3, <3>4, <3>5
  <2> QED BY <2>1, <2>2, <2>3, EditsStep
<1> QED BY <1>2, <1>6, <1>7, Mapping

\* The fetch looks at the whole source.
LEMMA FetchLooks ==
    ASSUME Serial, TypeInv, NEW w \in Workers, Fetch(w)
    PROVE  R!Look
<1>1. /\ tally' = tally /\ archive' = archive
      /\ phase[w] = "fetch" /\ phase'[w] = "compare"
  BY TypeParts DEF Fetch, Receive, sourceVars, tables, LocalsOK
<1>2. response'[w] = Restrict(tally, DOMAIN tally)
  BY TypeParts DEF Fetch, Receive, Serial, LocalsOK
<1>3. EditsOf(response[w])' = EditsOf(tally) BY <1>2 DEF EditsOf, Restrict
<1>4. Looking = {} /\ Looking' = {w} BY <1>1 DEF Serial, Looking
<1>5. Views = {} BY <1>4 DEF Views
<1>6. Views' = {EditsOf(tally)} BY <1>3, <1>4 DEF Views
<1>7. EditsOf(tally)' = EditsOf(tally) /\ EditsOf(archive)' = EditsOf(archive)
  BY <1>1 DEF EditsOf
<1> QED BY <1>5, <1>6, <1>7, Mapping

\* The commit copies everything that was looked at: what it does not write is
\* in the archive as it was seen.
LEMMA CommitCopies ==
    ASSUME Serial, TypeInv, SerialInv, NEW w \in Workers, Commit(w)
    PROVE  R!Copy
<1> DEFINE v == EditsOf(response[w])
<1>1. tally' = tally /\ phase[w] = "write" /\ Leave(w) BY DEF Commit, sourceVars
<1>2. phase'[w] = "idle" BY <1>1, TypeParts DEF Leave, LocalsOK
<1>3. Looking = {w} /\ Looking' = {} BY <1>1, <1>2 DEF Serial, Looking
<1>4. v \in Views /\ Views' = {} BY <1>3 DEF Views
<1>5. EditsOf(tally)' = EditsOf(tally) BY <1>1 DEF EditsOf
<1>6. DOMAIN v = DOMAIN response[w] /\ \A o \in DOMAIN v : v[o] = Edit(response[w][o])
  BY DEF EditsOf
<1>7. DOMAIN v \subseteq Objects BY <1>6, Elements
<1>8. \A o \in DOMAIN v : GuidOf[o] \in DOMAIN archive' /\ Edit(archive'[GuidOf[o]]) = v[o]
  BY <1>6, CommitSaved
<1>9. \A g \in DOMAIN archive' :
          \/ g \in DOMAIN archive /\ archive'[g] = archive[g]
          \/ \E o \in DOMAIN v : g = GuidOf[o]
  BY <1>6, Batches, CommitSaved
<1>10. DOMAIN archive \subseteq DOMAIN archive' BY ArchiveAfter
<1> HIDE DEF v
<1>11. DOMAIN archive' = DOMAIN archive \cup {GuidOf[o] : o \in DOMAIN v}
  BY <1>8, <1>9, <1>10
<1>12. EditsOf(archive)' = [g \in DOMAIN archive' |-> Edit(archive'[g])]
  BY DEF EditsOf
<1>13. R!Copied(v) =
          [g \in DOMAIN archive \cup {GuidOf[o] : o \in DOMAIN v} |->
             IF \E o \in DOMAIN v : GuidOf[o] = g
             THEN v[CHOOSE o \in DOMAIN v : GuidOf[o] = g]
             ELSE EditsOf(archive)[g]]
  BY DEF R!Copied, EditsOf
<1>14. ASSUME NEW g \in DOMAIN archive'
       PROVE  Edit(archive'[g]) = IF \E o \in DOMAIN v : GuidOf[o] = g
                                  THEN v[CHOOSE o \in DOMAIN v : GuidOf[o] = g]
                                  ELSE EditsOf(archive)[g]
  <2>1. ASSUME NEW o \in DOMAIN v, GuidOf[o] = g
        PROVE  Edit(archive'[g]) = v[CHOOSE p \in DOMAIN v : GuidOf[p] = g]
    <3> DEFINE q == CHOOSE p \in DOMAIN v : GuidOf[p] = g
    <3>1. q \in DOMAIN v /\ GuidOf[q] = g BY <2>1
    <3> QED BY <1>8, <3>1
  <2>2. ASSUME ~ \E o \in DOMAIN v : GuidOf[o] = g
        PROVE  Edit(archive'[g]) = EditsOf(archive)[g]
    BY <1>9, <2>2 DEF EditsOf
  <2> QED BY <2>1, <2>2
<1>15. EditsOf(archive)' = R!Copied(v) BY <1>11, <1>12, <1>13, <1>14
<1> QED BY <1>4, <1>5, <1>15, Mapping

\* One case per action.
LEMMA ReplicaStep ==
    ASSUME Serial, TypeInv, SerialInv, [Next]_vars
    PROVE  [R!Next]_R!vars
<1>1. ASSUME tally' = tally, archive' = archive,
             Views' = Views \/ Views' = {}
      PROVE  R!Forget \/ UNCHANGED R!vars
  BY <1>1, Mapping DEF EditsOf
<1>2. CASE Source BY <1>2, SourceChanges DEF R!Next
<1>3. ASSUME NEW w \in Workers, NEW isFull \in BOOLEAN, Begin(w, isFull)
      PROVE  [R!Next]_R!vars
  <2>1. /\ tally' = tally /\ archive' = archive /\ response' = response
        /\ phase[w] = "idle" /\ phase'[w] = "fetch"
    BY <1>3, TypeParts DEF Begin, sourceVars, tables, LocalsOK
  <2>2. Looking' = {} BY <2>1 DEF Serial, Looking
  <2>3. Views' = {} BY <2>2 DEF Views
  <2> QED BY <1>1, <2>1, <2>3 DEF R!Next
<1>4. ASSUME NEW w \in Workers, Fetch(w) PROVE [R!Next]_R!vars
  BY <1>4, FetchLooks DEF R!Next
<1>5. ASSUME NEW w \in Workers, Compare(w) PROVE [R!Next]_R!vars
  <2>1. /\ tally' = tally /\ archive' = archive /\ response' = response
        /\ phase[w] = "compare" /\ phase'[w] = "write"
    BY <1>5, TypeParts DEF Compare, sourceVars, tables, LocalsOK
  <2>2. Looking' = Looking BY <2>1 DEF Serial, Looking
  <2>3. Views' = Views BY <2>1, <2>2 DEF Views, EditsOf
  <2> QED BY <1>1, <2>1, <2>3 DEF R!Next
<1>6. ASSUME NEW w \in Workers, Commit(w) PROVE [R!Next]_R!vars
  BY <1>6, CommitCopies DEF R!Next
<1>7. ASSUME NEW w \in Workers, Reject(w) \/ Fail(w) PROVE [R!Next]_R!vars
  <2>1. tally' = tally /\ archive' = archive /\ Leave(w)
    BY <1>7 DEF Reject, Fail, sourceVars, tables
  <2>2. phase'[w] = "idle" BY <2>1, TypeParts DEF Leave, LocalsOK
  <2>3. Looking' = {} BY <2>2 DEF Serial, Looking
  <2>4. Views' = {} BY <2>3 DEF Views
  <2> QED BY <1>1, <2>1, <2>4 DEF R!Next
<1>8. CASE Crash
  <2>1. tally' = tally /\ archive' = archive /\ \A w \in Workers : phase'[w] = "idle"
    BY <1>8 DEF Crash, sourceVars, tables
  <2>2. Looking' = {} BY <2>1 DEF Looking
  <2>3. Views' = {} BY <2>2 DEF Views
  <2> QED BY <1>1, <2>1, <2>3 DEF R!Next
<1>9. CASE UNCHANGED vars
  <2>1. tally' = tally /\ archive' = archive /\ phase' = phase /\ response' = response
    BY <1>9 DEF vars, sourceVars, tables, locals
  <2>2. Views' = Views BY <2>1 DEF Views, Looking, EditsOf
  <2> QED BY <1>1, <2>1, <2>2 DEF R!Next
<1> QED BY <1>2, <1>3, <1>4, <1>5, <1>6, <1>7, <1>8, <1>9 DEF Next

\* With one thread each sync, full or incremental, with its checkpoint, its
\* hashes and its transaction, is a copy of everything Tally showed
\* (app/services/base.py:40-110).
THEOREM SyncIsReplica ==
    ASSUME Serial
    PROVE  Spec => ReplicaSpec
<1>1. Init => R!Init
  <2> SUFFICES ASSUME Init PROVE R!Init OBVIOUS
  <2>1. /\ tally = Empty /\ archive = Empty /\ \A w \in Workers : phase[w] = "idle"
    BY DEF Init, SourceInit
  <2>2. EditsOf(Empty) = Empty BY DEF EditsOf, Empty
  <2>3. Looking = {} BY <2>1 DEF Looking
  <2>4. Views = {} BY <2>3 DEF Views
  <2> QED BY <2>1, <2>2, <2>4, Mapping
<1>2. TypeInv /\ SerialInv /\ [Next]_vars => [R!Next]_R!vars
  BY ReplicaStep
<1> QED BY <1>1, <1>2, SerialInvHolds, TypeCorrect, PTL DEF Spec, ReplicaSpec, R!Spec

=============================================================================
