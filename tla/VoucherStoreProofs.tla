------------------------ MODULE VoucherStoreProofs ------------------------
(***************************************************************************)
(* Proofs about VoucherStore, for any threads, vouchers and AlterIDs:      *)
(* StoreInvHolds, every step keeps the types, the row locks and the pending*)
(* deletes and inserts exact; EntriesMatch, what readers see of a voucher  *)
(* is always the entries of one save.                                      *)
(***************************************************************************)
EXTENDS VoucherStore, FiniteSetTheorems, TLAPS

(***************************************************************************)
(* A batch without its duplicates.                                         *)
(***************************************************************************)

\* A set of AlterIDs has a largest one.
LEMMA Largest ==
    ASSUME NEW S \in SUBSET AlterIds, S # {}
    PROVE  \E m \in S : \A n \in S : n <= m
<1> DEFINE Gaps == {MaxAlterId - n : n \in S}
<1>1. MaxAlterId \in Nat BY StoreAssumption
<1>2. S \subseteq Nat /\ \A n \in S : n <= MaxAlterId BY <1>1 DEF AlterIds
<1>3. Gaps \subseteq Nat /\ Gaps # {}
  <2>1. ASSUME NEW n \in S PROVE MaxAlterId - n \in Nat BY <1>1, <1>2
  <2>2. PICK n \in S : TRUE OBVIOUS
  <2>3. MaxAlterId - n \in Gaps BY <2>2
  <2>4. Gaps \subseteq Nat BY <2>1
  <2> QED BY <2>3, <2>4
<1> HIDE DEF Gaps
<1>4. PICK g \in Gaps : \A h \in Gaps : ~ (<<h, g>> \in OpToRel(<, Nat))
  BY <1>3, WFMin, NatLessThanWellFounded
<1>5. \A h \in Gaps : ~ (h < g) BY <1>3, <1>4 DEF OpToRel
<1>6. PICK m \in S : g = MaxAlterId - m BY DEF Gaps
<1>7. ASSUME NEW n \in S PROVE n <= m
  <2>1. MaxAlterId - n \in Gaps BY DEF Gaps
  <2> QED BY <2>1, <1>1, <1>2, <1>5, <1>6
<1> QED BY <1>7

\* Of each key of a batch, exactly one record is kept.
LEMMA KeptOne ==
    ASSUME NEW b \in SUBSET Records, NEW k \in KeysOf(b)
    PROVE  /\ \E r \in Kept(b) : r.key = k
           /\ \A r, s \in Kept(b) : r.key = k /\ s.key = k => r = s
<1> DEFINE Ids == {r.alter_id : r \in {s \in b : s.key = k}}
<1>1. Ids \in SUBSET AlterIds /\ Ids # {} BY DEF Records, KeysOf
<1> HIDE DEF Ids
<1>2. PICK m \in Ids : \A n \in Ids : n <= m BY <1>1, Largest
<1>3. PICK r \in b : r.key = k /\ r.alter_id = m BY DEF Ids
<1>4. ASSUME NEW s \in b, s.key = r.key PROVE s.alter_id <= r.alter_id
  BY <1>2, <1>3, <1>4 DEF Ids
<1>5. r \in Kept(b) BY <1>4 DEF Kept
<1>6. ASSUME NEW p \in Kept(b), NEW q \in Kept(b), p.key = k, q.key = k PROVE p = q
  <2>1. p \in Records /\ q \in Records BY DEF Kept
  <2>2. p.alter_id \in Nat /\ q.alter_id \in Nat BY <2>1, StoreAssumption DEF Records, AlterIds
  <2>3. p.alter_id <= q.alter_id /\ q.alter_id <= p.alter_id BY <1>6 DEF Kept
  <2>4. p.alter_id = q.alter_id BY <2>2, <2>3
  <2> QED BY <1>6, <2>1, <2>4 DEF Records
<1> QED BY <1>3, <1>5, <1>6

\* The alter_id that Commit writes to the header is that of the record kept.
LEMMA KeptChosen ==
    ASSUME NEW b \in SUBSET Records, NEW r \in Kept(b)
    PROVE  (CHOOSE s \in Kept(b) : s.key = r.key) = r
<1>1. r.key \in KeysOf(b) BY DEF Kept, KeysOf
<1> QED BY <1>1, KeptOne

\* An order in which a batch's keys come has all of them.
LEMMA OrderHasAll ==
    ASSUME NEW b \in SUBSET Records, b # {}, NEW order \in SetToSeqs(KeysOf(b))
    PROVE  order \in Seq(Keys) /\ order # <<>> /\ Range(order) = KeysOf(b)
<1> DEFINE K == KeysOf(b)
<1>1. K \subseteq Keys /\ K # {} BY DEF KeysOf, Records
<1>2. IsFiniteSet(K) BY <1>1, FS_Subset, StoreAssumption
<1> HIDE DEF K
<1>3. Cardinality(K) \in Nat /\ Cardinality(K) # 0 BY <1>1, <1>2, FS_CardinalityType, FS_EmptySet
<1> DEFINE D == 1..Cardinality(K)
<1>4. order \in [D -> K] /\ \A i, j \in D : i # j => order[i] # order[j]
  BY DEF SetToSeqs, K
<1>5. IsFiniteSet(D) /\ Cardinality(D) = Cardinality(K) BY <1>3, FS_Interval
<1> HIDE DEF D
<1>6. order \in Injection(D, K) BY <1>4 DEF Injection, IsInjective
<1>7. order \in Surjection(D, K) BY <1>2, <1>5, <1>6, FS_Injection
<1>8. Range(order) = K BY <1>4, <1>7 DEF Surjection, Range
<1>9. order \in [1..Cardinality(K) -> Keys] BY <1>1, <1>4 DEF D
<1>10. order \in Seq(Keys) BY <1>3, <1>9
<1>11. order # <<>> BY <1>3, <1>9
<1> QED BY <1>8, <1>10, <1>11 DEF K

(***************************************************************************)
(* The steps of a transaction.                                             *)
(***************************************************************************)

\* The parts of StoreInv that speak of one thread.
ThreadInv(t) ==
    /\ batch[t] = {} <=> step[t] = "idle"
    /\ pending[t] = <<>> <=> step[t] # "headers"
    /\ HeadersFirst(t) /\ RemovedAll(t) /\ AddedAll(t)

\* StoreInv in the parts the proofs treat one by one.
LEMMA StoreInvParts == StoreInv <=> TypeOK /\ EntriesMatchHeader /\ \A t \in Txns : ThreadInv(t)
BY DEF StoreInv, ThreadInv

\* Tables and threads are empty at first.
LEMMA InitStoreInv == Init => StoreInv
<1> SUFFICES ASSUME Init PROVE StoreInv
  OBVIOUS
<1>1. TypeOK
  <2>1. headers \in [{} -> AlterIds] BY DEF Init, Empty
  <2>2. \E S \in SUBSET Keys : headers \in [S -> AlterIds] BY <2>1
  <2>3. <<>> \in Seq(Keys) OBVIOUS
  <2>4. pending \in [Txns -> Seq(Keys)] BY <2>3 DEF Init
  <2>5. /\ entries \subseteq Entry
        /\ holder \in [Keys -> Txns \cup {NoTxn}]
        /\ step \in [Txns -> Steps]
        /\ batch \in [Txns -> SUBSET Records]
    BY DEF Init, Steps
  <2>6. removed \in [Txns -> SUBSET Entry] /\ added \in [Txns -> SUBSET Entry]
    BY DEF Init
  <2> QED BY <2>2, <2>4, <2>5, <2>6 DEF TypeOK
<1>2. EntriesMatchHeader BY DEF Init, EntriesMatchHeader, Empty
<1>3. ASSUME NEW t \in Txns PROVE ThreadInv(t)
  BY DEF Init, ThreadInv, HeadersFirst, RemovedAll, AddedAll, KeysOf
<1> QED BY <1>1, <1>2, <1>3, StoreInvParts

\* The rows a batch adds are rows of its keys.
LEMMA NewEntriesType ==
    ASSUME TypeOK, NEW t \in Txns
    PROVE  /\ NewEntries(t) \subseteq Entry
           /\ \A e \in NewEntries(t) : e.voucher \in KeysOf(batch[t])
<1>1. batch[t] \subseteq Records BY DEF TypeOK
<1> QED BY <1>1 DEF NewEntries, Entry, Kept, Records, KeysOf

LEMMA BeginKeeps ==
    ASSUME StoreInv, NEW t \in Txns, NEW b \in Batches,
           NEW order \in SetToSeqs(KeysOf(b)), Begin(t, b, order)
    PROVE  StoreInv'
<1>1. b \in SUBSET Records /\ b # {} BY DEF Batches
<1>2. order \in Seq(Keys) /\ order # <<>> /\ Range(order) = KeysOf(b)
  BY <1>1, OrderHasAll
<1>3. TypeOK /\ EntriesMatchHeader /\ \A u \in Txns : ThreadInv(u) BY StoreInvParts
<1>4. step' = [step EXCEPT ![t] = "headers"] BY DEF Begin, Advance, Following
<1>5. TypeOK' BY <1>1, <1>2, <1>3, <1>4 DEF Begin, TypeOK, Steps
<1>6. EntriesMatchHeader' BY <1>3 DEF Begin, EntriesMatchHeader
<1>7. ASSUME NEW u \in Txns PROVE ThreadInv(u)'
  <2>1. CASE u = t
    <3>1. step'[t] = "headers" /\ pending'[t] = order /\ batch'[t] = b
      BY <1>3, <1>4 DEF Begin, TypeOK
    <3> QED BY <2>1, <3>1, <1>1, <1>2 DEF ThreadInv, HeadersFirst, RemovedAll, AddedAll
  <2>2. CASE u # t
    <3>1. /\ step'[u] = step[u] /\ pending'[u] = pending[u] /\ batch'[u] = batch[u]
          /\ UNCHANGED <<entries, holder, removed, added>>
      BY <2>2, <1>3, <1>4 DEF Begin, TypeOK
    <3> QED BY <3>1, <1>3
          DEF ThreadInv, HeadersFirst, RemovedAll, AddedAll, OldEntries, NewEntries
  <2> QED BY <2>1, <2>2
<1> QED BY <1>5, <1>6, <1>7 DEF StoreInv, ThreadInv

\* What is left of a queue after its head.
LEMMA TailKeepsRest ==
    ASSUME NEW s \in Seq(Keys), s # <<>>
    PROVE  /\ Head(s) \in Keys /\ Tail(s) \in Seq(Keys)
           /\ Range(s) \subseteq {Head(s)} \cup Range(Tail(s))
<1>1. Head(s) \in Keys /\ Tail(s) \in Seq(Keys) OBVIOUS
<1>2. Len(s) \in Nat /\ Len(Tail(s)) = Len(s) - 1 OBVIOUS
<1>3. ASSUME NEW i \in DOMAIN s PROVE s[i] \in {Head(s)} \cup Range(Tail(s))
  <2>1. i \in 1..Len(s) OBVIOUS
  <2>2. CASE i = 1 BY <2>2
  <2>3. CASE i # 1
    <3>1. i - 1 \in 1..Len(Tail(s)) BY <1>2, <2>1, <2>3
    <3>2. Tail(s)[i - 1] = s[i] BY <2>1, <2>3, <3>1
    <3>3. i - 1 \in DOMAIN Tail(s) BY <1>1, <3>1
    <3> QED BY <3>2, <3>3 DEF Range
  <2> QED BY <2>2, <2>3
<1> QED BY <1>1, <1>3 DEF Range

LEMMA UpsertHeaderKeeps ==
    ASSUME StoreInv, NEW t \in Txns, UpsertHeader(t)
    PROVE  StoreInv'
<1> DEFINE k == Head(pending[t])
<1>1. TypeOK /\ EntriesMatchHeader /\ \A u \in Txns : ThreadInv(u) BY StoreInvParts
<1>2. pending[t] \in Seq(Keys) /\ pending[t] # <<>>
  BY <1>1 DEF TypeOK, UpsertHeader, ThreadInv
<1>3. /\ k \in Keys /\ Tail(pending[t]) \in Seq(Keys)
      /\ Range(pending[t]) \subseteq {k} \cup Range(Tail(pending[t]))
  BY <1>2, TailKeepsRest
<1> HIDE DEF k
<1>4. /\ holder[k] = NoTxn /\ holder' = [holder EXCEPT ![k] = t]
      /\ pending' = [pending EXCEPT ![t] = Tail(pending[t])]
      /\ step[t] = "headers"
      /\ UNCHANGED <<headers, entries, batch, removed, added>>
  BY DEF UpsertHeader, k
<1>5. pending'[t] = Tail(pending[t]) BY <1>1, <1>4 DEF TypeOK
<1>6. /\ step' \in [Txns -> Steps]
      /\ \A u \in Txns : u # t => step'[u] = step[u]
      /\ step'[t] = IF pending'[t] = <<>> THEN "delete" ELSE "headers"
  <2>1. step \in [Txns -> Steps] BY <1>1 DEF TypeOK
  <2>2. "delete" \in Steps BY DEF Steps
  <2>3. CASE pending'[t] = <<>>
    <3>1. Advance(t) BY <2>3 DEF UpsertHeader
    <3>2. step' = [step EXCEPT ![t] = "delete"]
      BY <3>1, <1>4 DEF Advance, Following
    <3> QED BY <3>2, <2>1, <2>2, <2>3
  <2>4. CASE pending'[t] # <<>>
    <3>1. UNCHANGED step BY <2>4 DEF UpsertHeader
    <3> QED BY <3>1, <2>1, <2>4, <1>4
  <2> QED BY <2>3, <2>4
<1>7. TypeOK' BY <1>1, <1>3, <1>4, <1>6 DEF TypeOK
<1>8. EntriesMatchHeader' BY <1>1, <1>4 DEF EntriesMatchHeader
<1>9. ASSUME NEW u \in Txns PROVE ThreadInv(u)'
  <2>1. CASE u = t
    <3>1. pending'[t] = <<>> <=> step'[t] # "headers" BY <1>6
    <3>2. ASSUME NEW x \in KeysOf(batch[t])
          PROVE  \/ holder'[x] = t
                 \/ step'[t] = "headers" /\ x \in Range(pending'[t])
      <4>1. x \in Keys BY <1>1 DEF TypeOK, KeysOf, Records
      <4>2. holder[x] = t \/ x \in Range(pending[t]) BY <1>1 DEF ThreadInv, HeadersFirst
      <4>3. CASE holder[x] = t BY <4>1, <4>3, <1>1, <1>4 DEF TypeOK
      <4>4. CASE x = k BY <4>4, <4>1, <1>1, <1>4 DEF TypeOK
      <4>5. CASE x \in Range(Tail(pending[t]))
        <5>1. Tail(pending[t]) # <<>> BY <4>5 DEF Range
        <5> QED BY <4>5, <5>1, <1>5, <1>6
      <4> QED BY <4>2, <4>3, <4>4, <4>5, <1>3
    <3>3. step'[t] \notin {"insert", "commit"} BY <1>6
    <3>4. batch'[t] # {} /\ step'[t] # "idle" BY <1>1, <1>4, <1>6 DEF ThreadInv
    <3> QED BY <2>1, <3>1, <3>2, <3>3, <3>4, <1>4
          DEF ThreadInv, HeadersFirst, RemovedAll, AddedAll
  <2>2. CASE u # t
    <3>1. step'[u] = step[u] /\ pending'[u] = pending[u] BY <2>2, <1>1, <1>4, <1>6 DEF TypeOK
    <3>2. \A x \in Keys : holder[x] = u => holder'[x] = u
      BY <1>1, <1>4, StoreAssumption DEF TypeOK
    <3>3. KeysOf(batch[u]) \subseteq Keys BY <1>1 DEF TypeOK, KeysOf, Records
    <3>4. HeadersFirst(u)' BY <3>1, <3>2, <3>3, <1>1, <1>4 DEF ThreadInv, HeadersFirst
    <3> QED BY <3>1, <3>4, <1>1, <1>4
          DEF ThreadInv, RemovedAll, AddedAll, OldEntries, NewEntries
  <2> QED BY <2>1, <2>2
<1> QED BY <1>7, <1>8, <1>9 DEF StoreInv, ThreadInv

LEMMA DeleteEntriesKeeps ==
    ASSUME StoreInv, NEW t \in Txns, DeleteEntries(t)
    PROVE  StoreInv'
<1>1. TypeOK /\ EntriesMatchHeader /\ \A u \in Txns : ThreadInv(u) BY StoreInvParts
<1>2. step' = [step EXCEPT ![t] = "insert"] /\ step[t] = "delete"
  BY DEF DeleteEntries, Advance, Following
<1>3. OldEntries(t) \subseteq Entry BY <1>1 DEF OldEntries, TypeOK
<1>4. TypeOK' BY <1>1, <1>2, <1>3 DEF DeleteEntries, TypeOK, Steps
<1>5. EntriesMatchHeader' BY <1>1 DEF DeleteEntries, EntriesMatchHeader
<1>6. ASSUME NEW u \in Txns PROVE ThreadInv(u)'
  <2>1. UNCHANGED <<entries, holder, batch, pending, added>> BY DEF DeleteEntries
  <2>2. removed'[u] = IF u = t THEN OldEntries(t) ELSE removed[u]
    BY <1>1 DEF DeleteEntries, TypeOK
  <2>3. step'[u] = IF u = t THEN "insert" ELSE step[u] BY <1>1, <1>2 DEF TypeOK
  <2>4. ThreadInv(u) BY <1>1
  <2>5. /\ (batch[u] = {} <=> step[u] = "idle")'
        /\ (pending[u] = <<>> <=> step[u] # "headers")' /\ HeadersFirst(u)'
    BY <2>1, <2>3, <2>4, <1>2 DEF ThreadInv, HeadersFirst
  <2>6. RemovedAll(u)' BY <2>1, <2>2, <2>3, <2>4 DEF ThreadInv, RemovedAll, OldEntries
  <2>7. AddedAll(u)' BY <2>1, <2>3, <2>4 DEF ThreadInv, AddedAll, NewEntries
  <2> QED BY <2>5, <2>6, <2>7 DEF ThreadInv
<1> QED BY <1>4, <1>5, <1>6 DEF StoreInv, ThreadInv

LEMMA InsertEntriesKeeps ==
    ASSUME StoreInv, NEW t \in Txns, InsertEntries(t)
    PROVE  StoreInv'
<1>1. TypeOK /\ EntriesMatchHeader /\ \A u \in Txns : ThreadInv(u) BY StoreInvParts
<1>2. step' = [step EXCEPT ![t] = "commit"] /\ step[t] = "insert"
  BY DEF InsertEntries, Advance, Following
<1>3. NewEntries(t) \subseteq Entry BY <1>1, NewEntriesType
<1>4. TypeOK' BY <1>1, <1>2, <1>3 DEF InsertEntries, TypeOK, Steps
<1>5. EntriesMatchHeader' BY <1>1 DEF InsertEntries, EntriesMatchHeader
<1>6. ASSUME NEW u \in Txns PROVE ThreadInv(u)'
  <2>1. UNCHANGED <<entries, holder, batch, pending, removed>> BY DEF InsertEntries
  <2>2. added'[u] = IF u = t THEN NewEntries(t) ELSE added[u]
    BY <1>1 DEF InsertEntries, TypeOK
  <2>3. step'[u] = IF u = t THEN "commit" ELSE step[u] BY <1>1, <1>2 DEF TypeOK
  <2>4. ThreadInv(u) BY <1>1
  <2>5. /\ (batch[u] = {} <=> step[u] = "idle")'
        /\ (pending[u] = <<>> <=> step[u] # "headers")' /\ HeadersFirst(u)'
    BY <2>1, <2>3, <2>4, <1>2 DEF ThreadInv, HeadersFirst
  <2>6. RemovedAll(u)' BY <2>1, <2>3, <2>4, <1>2 DEF ThreadInv, RemovedAll, OldEntries
  <2>7. AddedAll(u)' BY <2>1, <2>2, <2>3, <2>4 DEF ThreadInv, AddedAll, NewEntries
  <2> QED BY <2>5, <2>6, <2>7 DEF ThreadInv
<1> QED BY <1>4, <1>5, <1>6 DEF StoreInv, ThreadInv

\* The end of a transaction, committed or rolled back, leaves its thread empty
\* and takes no row from another.
LEMMA EndKeepsTypes ==
    ASSUME TypeOK, NEW t \in Txns, End(t)
    PROVE  /\ holder' \in [Keys -> Txns \cup {NoTxn}]
           /\ step' \in [Txns -> Steps]
           /\ batch' \in [Txns -> SUBSET Records]
           /\ pending' \in [Txns -> Seq(Keys)]
           /\ removed' \in [Txns -> SUBSET Entry]
           /\ added' \in [Txns -> SUBSET Entry]
<1>1. holder' \in [Keys -> Txns \cup {NoTxn}] BY DEF TypeOK, End, Released
<1>2. <<>> \in Seq(Keys) OBVIOUS
<1>3. pending' \in [Txns -> Seq(Keys)] BY <1>2 DEF TypeOK, End
<1>4. step' \in [Txns -> Steps] BY DEF TypeOK, End, Steps
<1>5. /\ batch' \in [Txns -> SUBSET Records]
      /\ removed' \in [Txns -> SUBSET Entry] /\ added' \in [Txns -> SUBSET Entry]
  BY DEF TypeOK, End
<1> QED BY <1>1, <1>3, <1>4, <1>5

\* A thread's own part of the invariant survives when another thread's
\* transaction ends and leaves the entries of its vouchers alone.
LEMMA EndKeepsThreads ==
    ASSUME TypeOK, \A u \in Txns : ThreadInv(u), NEW t \in Txns, End(t),
           \A e : (e \in entries) # (e \in entries')
                      => \A u \in Txns \ {t} :
                            step[u] \in {"insert", "commit"} => e.voucher \notin KeysOf(batch[u])
    PROVE  \A u \in Txns : ThreadInv(u)'
<1> SUFFICES ASSUME NEW u \in Txns PROVE ThreadInv(u)'
  OBVIOUS
<1>1. CASE u = t
  <2>1. step'[t] = "idle" /\ batch'[t] = {} /\ pending'[t] = <<>>
    BY DEF TypeOK, End
  <2> QED BY <1>1, <2>1 DEF ThreadInv, HeadersFirst, RemovedAll, AddedAll, KeysOf
<1>2. CASE u # t
  <2>1. /\ step'[u] = step[u] /\ batch'[u] = batch[u] /\ pending'[u] = pending[u]
        /\ removed'[u] = removed[u] /\ added'[u] = added[u]
    BY <1>2 DEF TypeOK, End
  <2>2. \A k \in Keys : holder[k] = u => holder'[k] = u
    BY <1>2 DEF End, Released
  <2>3. KeysOf(batch[u]) \subseteq Keys BY DEF TypeOK, KeysOf, Records
  <2>4. HeadersFirst(u)' BY <2>1, <2>2, <2>3 DEF ThreadInv, HeadersFirst
  <2>5. RemovedAll(u)'
    <3>1. SUFFICES ASSUME step[u] \in {"insert", "commit"}
                   PROVE  removed[u] = OldEntries(u)'
      BY <2>1 DEF RemovedAll
    <3>2. removed[u] = OldEntries(u) BY <3>1 DEF ThreadInv, RemovedAll
    <3>3. \A e : e.voucher \in KeysOf(batch[u]) => (e \in entries <=> e \in entries')
      BY <1>2, <3>1
    <3> QED BY <2>1, <3>2, <3>3 DEF OldEntries
  <2>6. AddedAll(u)' BY <2>1 DEF ThreadInv, AddedAll, NewEntries
  <2> QED BY <2>1, <2>4, <2>5, <2>6 DEF ThreadInv
<1> QED BY <1>1, <1>2

LEMMA FailKeeps ==
    ASSUME StoreInv, NEW t \in Txns, Fail(t)
    PROVE  StoreInv'
<1>1. TypeOK /\ EntriesMatchHeader /\ \A u \in Txns : ThreadInv(u) BY StoreInvParts
<1>2. End(t) /\ UNCHANGED <<headers, entries>> BY DEF Fail
<1>3. TypeOK' BY <1>1, <1>2, EndKeepsTypes DEF TypeOK
<1>4. EntriesMatchHeader' BY <1>1, <1>2 DEF EntriesMatchHeader
<1>5. \A u \in Txns : ThreadInv(u)' BY <1>1, <1>2, EndKeepsThreads
<1> QED BY <1>3, <1>4, <1>5 DEF StoreInv, ThreadInv

\* What readers see of a batch's vouchers once it is committed: the header
\* and the one row of entries of the record kept; of the others, what was there.
LEMMA CommitShows ==
    ASSUME StoreInv, NEW t \in Txns, Commit(t)
    PROVE  /\ \E S \in SUBSET Keys : headers' \in [S -> AlterIds]
           /\ DOMAIN headers' = DOMAIN headers \cup KeysOf(batch[t])
           /\ \A k \in DOMAIN headers \ KeysOf(batch[t]) : headers'[k] = headers[k]
           /\ \A r \in Kept(batch[t]) : headers'[r.key] = r.alter_id
           /\ entries' = (entries \ OldEntries(t)) \cup NewEntries(t)
           /\ KeysOf(batch[t]) \subseteq {k \in Keys : holder[k] = t}
<1> DEFINE b == batch[t]
           new == [k \in KeysOf(b) |-> (CHOOSE r \in Kept(b) : r.key = k).alter_id]
<1>1. TypeOK /\ ThreadInv(t) BY StoreInvParts
<1>2. b \in SUBSET Records BY <1>1 DEF TypeOK
<1>3. KeysOf(b) \subseteq Keys BY <1>2 DEF KeysOf, Records
<1>4. headers' = Overlay(headers, new) BY DEF Commit
<1> HIDE DEF b
<1>5. ASSUME NEW r \in Kept(b)
      PROVE  r.key \in KeysOf(b) /\ new[r.key] = r.alter_id /\ r.alter_id \in AlterIds
  <2>1. r.key \in KeysOf(b) /\ r \in Records BY <1>2 DEF Kept, KeysOf
  <2>2. new[r.key] = (CHOOSE s \in Kept(b) : s.key = r.key).alter_id BY <2>1
  <2> QED BY <2>1, <2>2, <1>2, KeptChosen DEF Records
<1>6. new \in [KeysOf(b) -> AlterIds]
  <2>1. ASSUME NEW k \in KeysOf(b) PROVE new[k] \in AlterIds
    <3>1. PICK r \in Kept(b) : r.key = k BY <1>2, KeptOne
    <3> QED BY <3>1, <1>5
  <2> QED BY <2>1
<1>7. DOMAIN new = KeysOf(b) OBVIOUS
<1> HIDE DEF new
<1>8. PICK S \in SUBSET Keys : headers \in [S -> AlterIds] BY <1>1 DEF TypeOK
<1>9. headers' \in [S \cup KeysOf(b) -> AlterIds] BY <1>4, <1>6, <1>8 DEF Overlay
<1>10. S \cup KeysOf(b) \in SUBSET Keys BY <1>3, <1>8
<1>11. DOMAIN headers' = DOMAIN headers \cup KeysOf(b) BY <1>8, <1>9
<1>12. \A k \in DOMAIN headers \ KeysOf(b) : headers'[k] = headers[k]
  BY <1>4, <1>7 DEF Overlay
<1>13. \A r \in Kept(b) : headers'[r.key] = r.alter_id
  BY <1>4, <1>5, <1>7 DEF Overlay
<1>14. entries' = (entries \ OldEntries(t)) \cup NewEntries(t)
  BY <1>1 DEF Commit, ThreadInv, RemovedAll, AddedAll
<1>15. \A k \in KeysOf(b) : holder[k] = t
  BY <1>1 DEF Commit, ThreadInv, HeadersFirst, b
<1> QED BY <1>3, <1>9, <1>10, <1>11, <1>12, <1>13, <1>14, <1>15 DEF b

LEMMA CommitKeeps ==
    ASSUME StoreInv, NEW t \in Txns, Commit(t)
    PROVE  StoreInv'
<1> DEFINE b == batch[t]
<1>1. TypeOK /\ EntriesMatchHeader /\ \A u \in Txns : ThreadInv(u) BY StoreInvParts
<1>2. /\ \E S \in SUBSET Keys : headers' \in [S -> AlterIds]
      /\ DOMAIN headers' = DOMAIN headers \cup KeysOf(b)
      /\ \A k \in DOMAIN headers \ KeysOf(b) : headers'[k] = headers[k]
      /\ \A r \in Kept(b) : headers'[r.key] = r.alter_id
      /\ entries' = (entries \ OldEntries(t)) \cup NewEntries(t)
      /\ KeysOf(b) \subseteq {k \in Keys : holder[k] = t}
  BY CommitShows
<1>3. End(t) BY DEF Commit
<1>4. b \in SUBSET Records BY <1>1 DEF TypeOK
<1>5. /\ NewEntries(t) \subseteq Entry
      /\ \A e \in NewEntries(t) : e.voucher \in KeysOf(b)
  BY <1>1, NewEntriesType
<1>6. OldEntries(t) = {e \in entries : e.voucher \in KeysOf(b)} BY DEF OldEntries
<1>7. NewEntries(t) = {[voucher |-> r.key, of |-> r.alter_id, by |-> t] : r \in Kept(b)}
  BY DEF NewEntries
<1> HIDE DEF b
<1>8. TypeOK'
  <2>1. entries' \subseteq Entry BY <1>1, <1>2, <1>5 DEF TypeOK
  <2> QED BY <1>1, <1>2, <1>3, <2>1, EndKeepsTypes DEF TypeOK
<1>9. \A e \in entries' :
         \/ e \in entries /\ e.voucher \notin KeysOf(b)
         \/ \E r \in Kept(b) : e = [voucher |-> r.key, of |-> r.alter_id, by |-> t]
  BY <1>2, <1>6, <1>7
<1>10. \A r \in Kept(b) : r.key \in KeysOf(b) BY DEF Kept, KeysOf
<1>11. EntriesMatchHeader'
  <2>1. ASSUME NEW e \in entries'
        PROVE  e.voucher \in DOMAIN headers' /\ e.of = headers'[e.voucher]
    <3>1. CASE e \in entries /\ e.voucher \notin KeysOf(b)
      BY <3>1, <1>1, <1>2 DEF EntriesMatchHeader
    <3>2. CASE \E r \in Kept(b) : e = [voucher |-> r.key, of |-> r.alter_id, by |-> t]
      BY <3>2, <1>2, <1>10
    <3> QED BY <3>1, <3>2, <1>9
  <2>2. ASSUME NEW k \in DOMAIN headers' PROVE \E e \in entries' : e.voucher = k
    <3>1. CASE k \in KeysOf(b)
      <4>1. PICK r \in Kept(b) : r.key = k BY <3>1, <1>4, KeptOne
      <4>2. [voucher |-> r.key, of |-> r.alter_id, by |-> t] \in entries'
        BY <1>2, <1>7
      <4> QED BY <4>1, <4>2
    <3>2. CASE k \notin KeysOf(b)
      <4>1. k \in DOMAIN headers BY <3>2, <1>2
      <4>2. PICK e \in entries : e.voucher = k BY <4>1, <1>1 DEF EntriesMatchHeader
      <4>3. e \in entries' BY <3>2, <4>2, <1>2, <1>6
      <4> QED BY <4>2, <4>3
    <3> QED BY <3>1, <3>2
  <2>3. ASSUME NEW e \in entries', NEW f \in entries', e.voucher = f.voucher
        PROVE  e = f
    <3>1. CASE e.voucher \in KeysOf(b)
      <4>1. PICK r \in Kept(b) : e = [voucher |-> r.key, of |-> r.alter_id, by |-> t]
        BY <3>1, <1>9
      <4>2. PICK s \in Kept(b) : f = [voucher |-> s.key, of |-> s.alter_id, by |-> t]
        BY <3>1, <2>3, <1>9
      <4>3. r.key = s.key BY <4>1, <4>2, <2>3
      <4>4. r = s BY <4>3, <1>4, <1>10, KeptOne
      <4> QED BY <4>1, <4>2, <4>4
    <3>2. CASE e.voucher \notin KeysOf(b)
      <4>1. e \in entries /\ f \in entries BY <3>2, <2>3, <1>9, <1>10
      <4> QED BY <4>1, <2>3, <1>1 DEF EntriesMatchHeader
    <3> QED BY <3>1, <3>2
  <2> QED BY <2>1, <2>2, <2>3 DEF EntriesMatchHeader
<1>12. \A u \in Txns : ThreadInv(u)'
  <2>1. ASSUME NEW e, (e \in entries) # (e \in entries'),
               NEW u \in Txns \ {t}, step[u] \in {"insert", "commit"}
        PROVE  e.voucher \notin KeysOf(batch[u])
    <3>1. e.voucher \in KeysOf(b) BY <2>1, <1>2, <1>5, <1>6
    <3>2. holder[e.voucher] = t BY <3>1, <1>2
    <3>3. \A k \in KeysOf(batch[u]) : holder[k] = u
      BY <2>1, <1>1 DEF ThreadInv, HeadersFirst
    <3> QED BY <3>2, <3>3
  <2> QED BY <2>1, <1>1, <1>3, EndKeepsThreads
<1> QED BY <1>8, <1>11, <1>12 DEF StoreInv, ThreadInv

(***************************************************************************)
(* The theorems.                                                           *)
(***************************************************************************)

\* Each step of a thread keeps the invariant.
LEMMA StepKeepsStoreInv == StoreInv /\ [Next]_vars => StoreInv'
<1> SUFFICES ASSUME StoreInv, [Next]_vars PROVE StoreInv'
  OBVIOUS
<1>1. CASE UNCHANGED vars
  BY <1>1 DEF vars, StoreInv, TypeOK, EntriesMatchHeader, HeadersFirst, RemovedAll,
              AddedAll, OldEntries, NewEntries
<1>2. ASSUME NEW t \in Txns, NEW b \in Batches, NEW order \in SetToSeqs(KeysOf(b)),
             Begin(t, b, order)
      PROVE  StoreInv'
  BY <1>2, BeginKeeps
<1>3. ASSUME NEW t \in Txns, UpsertHeader(t) PROVE StoreInv' BY <1>3, UpsertHeaderKeeps
<1>4. ASSUME NEW t \in Txns, DeleteEntries(t) PROVE StoreInv' BY <1>4, DeleteEntriesKeeps
<1>5. ASSUME NEW t \in Txns, InsertEntries(t) PROVE StoreInv' BY <1>5, InsertEntriesKeeps
<1>6. ASSUME NEW t \in Txns, Commit(t) PROVE StoreInv' BY <1>6, CommitKeeps
<1>7. ASSUME NEW t \in Txns, Fail(t) PROVE StoreInv' BY <1>7, FailKeeps
<1> QED BY <1>1, <1>2, <1>3, <1>4, <1>5, <1>6, <1>7 DEF Next, Statement

\* A thread that has upserted the headers of its batch holds their rows until
\* it commits, so what it deleted and inserted stays exactly what the commit
\* must replace and add, whatever other threads store
\* (app/repositories/postgres/voucher.py:57-164).
THEOREM StoreInvHolds == Spec => []StoreInv
BY InitStoreInv, StepKeepsStoreInv, PTL DEF Spec

\* Readers of the database see each voucher with the entries of its header's
\* save, once, and nothing of another save: for any number of concurrent
\* syncs, vouchers, duplicates in a batch, deadlocks and failures
\* (app/repositories/postgres/voucher.py:57-164).
THEOREM EntriesMatch == Spec => []EntriesMatchHeader
<1>1. StoreInv => EntriesMatchHeader BY DEF StoreInv
<1> QED BY <1>1, StoreInvHolds, PTL

(***************************************************************************)
(* VoucherStore implements VoucherTable.                                   *)
(***************************************************************************)

\* What a reader sees of the tables.
Visible == [k \in DOMAIN headers |->
               [alter_id |-> {headers[k]},
                entries  |-> {[key |-> k, alter_id |-> e.of] :
                                 e \in {f \in entries : f.voucher = k}}]]

\* A commit is the abstract Store of the batch the thread has begun with.
LEMMA CommitStores ==
    ASSUME StoreInv, NEW t \in Txns, Commit(t)
    PROVE  Table!Store(t)
<1> DEFINE b == batch[t]
<1>1. TypeOK /\ EntriesMatchHeader /\ ThreadInv(t) BY StoreInvParts
<1>2. b \in SUBSET Records /\ b # {} BY <1>1 DEF TypeOK, ThreadInv, Commit
<1>3. /\ DOMAIN headers' = DOMAIN headers \cup KeysOf(b)
      /\ \A k \in DOMAIN headers \ KeysOf(b) : headers'[k] = headers[k]
      /\ \A r \in Kept(b) : headers'[r.key] = r.alter_id
      /\ entries' = (entries \ OldEntries(t)) \cup NewEntries(t)
  BY CommitShows
<1>4. OldEntries(t) = {e \in entries : e.voucher \in KeysOf(b)} BY DEF OldEntries
<1>5. NewEntries(t) = {[voucher |-> r.key, of |-> r.alter_id, by |-> t] : r \in Kept(b)}
  BY DEF NewEntries
<1>6. batch' = [batch EXCEPT ![t] = {}] BY DEF Commit, End
<1> HIDE DEF b
<1> DEFINE top(k) == {r \in b : r.key = k /\ \A s \in b : s.key = k => s.alter_id <= r.alter_id}
<1>7. ASSUME NEW r \in Kept(b)
      PROVE  r.key \in KeysOf(b) /\ top(r.key) = {r} /\ r = [key |-> r.key, alter_id |-> r.alter_id]
  <2>1. r \in b /\ r \in Records /\ r.key \in KeysOf(b) BY <1>2 DEF Kept, KeysOf
  <2>2. top(r.key) \subseteq Kept(b) /\ r \in top(r.key) BY DEF Kept
  <2>3. \A s \in top(r.key) : s = r BY <2>1, <2>2, <1>2, KeptOne
  <2> QED BY <2>1, <2>2, <2>3 DEF Records
<1>8. ASSUME NEW k \in KeysOf(b)
      PROVE  Visible'[k] = [alter_id |-> {r.alter_id : r \in top(k)}, entries |-> top(k)]
  <2>1. PICK r \in Kept(b) : r.key = k BY <1>2, KeptOne
  <2>2. top(k) = {r} /\ r = [key |-> k, alter_id |-> r.alter_id] BY <2>1, <1>7
  <2>3. headers'[k] = r.alter_id BY <2>1, <1>3
  <2>4. {e \in entries' : e.voucher = k} = {[voucher |-> k, of |-> r.alter_id, by |-> t]}
    <3>1. [voucher |-> k, of |-> r.alter_id, by |-> t] \in entries' BY <2>1, <1>3, <1>5
    <3>2. ASSUME NEW e \in entries', e.voucher = k
          PROVE  e = [voucher |-> k, of |-> r.alter_id, by |-> t]
      <4>1. e \in NewEntries(t) BY <3>2, <1>3, <1>4
      <4>2. PICK s \in Kept(b) : e = [voucher |-> s.key, of |-> s.alter_id, by |-> t]
        BY <4>1, <1>5
      <4>3. s.key = k BY <3>2, <4>2
      <4>4. s = r BY <4>3, <2>1, <1>2, KeptOne
      <4> QED BY <2>1, <4>2, <4>4
    <3> QED BY <3>1, <3>2
  <2>5. {[key |-> k, alter_id |-> e.of] : e \in {f \in entries' : f.voucher = k}} = {r}
    <3> DEFINE x == [voucher |-> k, of |-> r.alter_id, by |-> t]
    <3>1. x.of = r.alter_id OBVIOUS
    <3> HIDE DEF x
    <3>2. {[key |-> k, alter_id |-> e.of] : e \in {x}} = {[key |-> k, alter_id |-> x.of]}
      OBVIOUS
    <3>3. {f \in entries' : f.voucher = k} = {x} BY <2>4 DEF x
    <3> QED BY <2>2, <3>1, <3>2, <3>3
  <2>6. {q.alter_id : q \in top(k)} = {r.alter_id} BY <2>2
  <2>7. k \in DOMAIN headers' BY <1>3
  <2>8. Visible'[k] = [alter_id |-> {headers'[k]},
                       entries |-> {[key |-> k, alter_id |-> e.of] :
                                       e \in {f \in entries' : f.voucher = k}}]
    BY <2>7 DEF Visible
  <2> QED BY <2>2, <2>3, <2>5, <2>6, <2>8
<1>9. ASSUME NEW k \in DOMAIN headers \ KeysOf(b) PROVE Visible'[k] = Visible[k]
  <2>1. headers'[k] = headers[k] BY <1>3
  <2>2. {e \in entries' : e.voucher = k} = {e \in entries : e.voucher = k}
    <3>1. \A e \in NewEntries(t) : e.voucher \in KeysOf(b) BY <1>5, <1>7
    <3> QED BY <3>1, <1>3, <1>4
  <2>3. k \in DOMAIN headers' BY <1>3
  <2> QED BY <2>1, <2>2, <2>3 DEF Visible
<1>10. Visible' = Table!Overlay(Visible, Table!Stored(b))
  <2>1. DOMAIN Visible' = DOMAIN Visible \cup KeysOf(b) BY <1>3 DEF Visible
  <2>2. Table!Stored(b) = [k \in KeysOf(b) |->
            [alter_id |-> {r.alter_id : r \in top(k)}, entries |-> top(k)]]
    BY DEF Table!Stored, KeysOf
  <2>3. DOMAIN Table!Stored(b) = KeysOf(b) BY <2>2
  <2>4. \A k \in KeysOf(b) : Visible'[k] = Table!Stored(b)[k] BY <2>2, <1>8
  <2>5. \A k \in DOMAIN Visible \ KeysOf(b) : Visible'[k] = Visible[k] BY <1>9 DEF Visible
  <2>6. Visible' = [k \in DOMAIN Visible' |-> Visible'[k]] BY DEF Visible
  <2> QED BY <2>1, <2>3, <2>4, <2>5, <2>6 DEF Table!Overlay
<1> QED BY <1>2, <1>6, <1>10 DEF Table!Store, Visible, b

\* Every step is one of the abstract table's, or none of its.
LEMMA StepStores == StoreInv /\ [Next]_vars => [Table!Next]_(Table!vars)
<1> SUFFICES ASSUME StoreInv, [Next]_vars PROVE Table!Next \/ UNCHANGED Table!vars
  OBVIOUS
<1>1. TypeOK /\ \A u \in Txns : ThreadInv(u) BY StoreInvParts
<1>2. CASE UNCHANGED vars BY <1>2 DEF vars, Table!vars
<1>3. ASSUME NEW t \in Txns, NEW b \in Batches, NEW order \in SetToSeqs(KeysOf(b)),
             Begin(t, b, order)
      PROVE  Table!Next
  <2>1. batch[t] = {} BY <1>1, <1>3 DEF Begin, ThreadInv
  <2>2. Table!Ask(t, b) BY <2>1, <1>3 DEF Begin, Table!Ask
  <2> QED BY <2>2 DEF Table!Next
<1>4. ASSUME NEW t \in Txns, UpsertHeader(t) \/ DeleteEntries(t) \/ InsertEntries(t)
      PROVE  UNCHANGED Table!vars
  BY <1>4 DEF UpsertHeader, DeleteEntries, InsertEntries, Table!vars
<1>5. ASSUME NEW t \in Txns, Commit(t) PROVE Table!Next
  BY <1>5, CommitStores DEF Table!Next
<1>6. ASSUME NEW t \in Txns, Fail(t) PROVE Table!Next
  BY <1>6 DEF Fail, End, Table!Drop, Table!Next
<1> QED BY <1>2, <1>3, <1>4, <1>5, <1>6 DEF Next, Statement

\* For any number of threads and vouchers: the statements, locks, deadlocks
\* and failures of upsert_batch together store each batch whole and at once,
\* of duplicates the record with the highest AlterID, or not at all
\* (app/repositories/postgres/voucher.py:57-164).
THEOREM StoresBatches == Spec => StoresWholeBatches
<1>1. Init => Table!Init
  <2>1. SUFFICES ASSUME Init PROVE Table!Init
    OBVIOUS
  <2>2. DOMAIN headers = {} /\ batch = [t \in Txns |-> {}] BY <2>1 DEF Init, Empty
  <2> QED BY <2>2 DEF Table!Init, Table!Empty
<1> QED BY <1>1, StoreInvHolds, StepStores, PTL DEF Spec, StoresWholeBatches, Table!Spec
===========================================================================
