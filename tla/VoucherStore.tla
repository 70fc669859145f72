---------------------------- MODULE VoucherStore ----------------------------
(***************************************************************************)
(* VoucherRepository.upsert_batch (app/repositories/postgres/voucher.py)   *)
(* inside the transactions of concurrent syncs, row by row and statement   *)
(* by statement.  PurchaseOrderRepository.upsert_batch runs the same       *)
(* statements in the same order.                                           *)
(*                                                                         *)
(* PostgreSQL at READ COMMITTED: an upsert waits for another transaction   *)
(* that wrote the same row and holds the row until its own transaction     *)
(* ends; a delete sees the rows that are committed when it starts; what a  *)
(* transaction wrote appears when it commits.  A chunk of the header       *)
(* upsert takes its rows one after the other, in the order of Tally's      *)
(* response, so the size of the chunks does not show.  The three   *)
(* tables of entries are deleted and filled one after the other by the     *)
(* same ids; they are one table here.                                      *)
(***************************************************************************)
EXTENDS Naturals, FiniteSets, SequencesExt, Dicts

CONSTANTS
    Txns,       \* the threads that store vouchers
    Keys,       \* (voucher_number, voucher_type)
    MaxAlterId, \* bound on Tally's AlterIDs
    NoTxn       \* not a thread

ASSUME StoreAssumption ==
    /\ IsFiniteSet(Keys)
    /\ MaxAlterId \in Nat
    /\ NoTxn \notin Txns

AlterIds == 1..MaxAlterId

\* A voucher as Tally sends it; its entries are those of this one save.
Records == [key : Keys, alter_id : AlterIds]

Batches == (SUBSET Records) \ {{}}

VARIABLES
    headers,    \* vouchers: key -> alter_id, as committed
    entries,    \* the rows of the tables of entries, as committed
    holder,     \* the transaction that holds the header row of each key
    step,       \* where each thread is in upsert_batch
    batch,      \* its argument records
    pending,    \* the keys whose header it has yet to upsert, in order
    removed,    \* the committed rows it has deleted
    added       \* the rows it has inserted

vars == <<headers, entries, holder, step, batch, pending, removed, added>>

\* One row of entries stands for all those of one record; rows that different
\* transactions inserted are different rows.
Entry == [voucher : Keys, of : AlterIds, by : Txns]

Steps == {"idle", "headers", "delete", "insert", "commit"}

Init ==
    /\ headers = Empty /\ entries = {}
    /\ holder = [k \in Keys |-> NoTxn]
    /\ step = [t \in Txns |-> "idle"]
    /\ batch = [t \in Txns |-> {}]
    /\ pending = [t \in Txns |-> <<>>]
    /\ removed = [t \in Txns |-> {}] /\ added = [t \in Txns |-> {}]

KeysOf(b) == {r.key : r \in b}

\* Defective variant: the record with the lowest AlterID stays.
Kept_Lowest(b) ==
    {r \in b : \A s \in b : s.key = r.key => r.alter_id <= s.alter_id}

\* deduped: the record with the highest AlterID of each key.
Kept(b) ==
    {r \in b : \A s \in b : s.key = r.key => s.alter_id <= r.alter_id}

\* Defective variant: the entries are deleted before the headers are upserted,
\* by the ids that a query found.
Following_DeleteFirst ==
    [idle |-> "delete", delete |-> "headers", headers |-> "insert", insert |-> "commit"]

\* The order of the statements.
Following ==
    [idle |-> "headers", headers |-> "delete", delete |-> "insert", insert |-> "commit"]

Advance(t) == step' = [step EXCEPT ![t] = Following[@]]

\* Defective variant: the rows of a failed transaction stay locked.
Released_OnSuccess(t) ==
    IF step[t] = "commit" THEN [k \in Keys |-> IF holder[k] = t THEN NoTxn ELSE holder[k]]
    ELSE holder

\* The end of a transaction releases its rows.
Released(t) == [k \in Keys |-> IF holder[k] = t THEN NoTxn ELSE holder[k]]

\* A thread's sync reaches upsert_batch with what it fetched, whose keys came
\* in this order.
Begin(t, b, order) ==
    /\ step[t] = "idle"
    /\ batch' = [batch EXCEPT ![t] = b]
    /\ pending' = [pending EXCEPT ![t] = order]
    /\ Advance(t)
    /\ UNCHANGED <<headers, entries, holder, removed, added>>

\* The next row of the header upsert, when no other transaction holds it.
UpsertHeader(t) ==
    /\ step[t] = "headers"
    /\ holder[Head(pending[t])] = NoTxn
    /\ holder' = [holder EXCEPT ![Head(pending[t])] = t]
    /\ pending' = [pending EXCEPT ![t] = Tail(@)]
    /\ IF pending'[t] = <<>> THEN Advance(t) ELSE UNCHANGED step
    /\ UNCHANGED <<headers, entries, batch, removed, added>>

OldEntries(t) == {e \in entries : e.voucher \in KeysOf(batch[t])}

NewEntries(t) ==
    {[voucher |-> r.key, of |-> r.alter_id, by |-> t] : r \in Kept(batch[t])}

\* DELETE ... WHERE voucher_id IN the ids the upsert returned.
DeleteEntries(t) ==
    /\ step[t] = "delete"
    /\ removed' = [removed EXCEPT ![t] = OldEntries(t)]
    /\ Advance(t)
    /\ UNCHANGED <<headers, entries, holder, batch, pending, added>>

InsertEntries(t) ==
    /\ step[t] = "insert"
    /\ added' = [added EXCEPT ![t] = NewEntries(t)]
    /\ Advance(t)
    /\ UNCHANGED <<headers, entries, holder, batch, pending, removed>>

\* The transaction ends and its thread's sync with it.
End(t) ==
    /\ holder' = Released(t)
    /\ step' = [step EXCEPT ![t] = "idle"]
    /\ batch' = [batch EXCEPT ![t] = {}]
    /\ pending' = [pending EXCEPT ![t] = <<>>]
    /\ removed' = [removed EXCEPT ![t] = {}]
    /\ added' = [added EXCEPT ![t] = {}]

Commit(t) ==
    /\ step[t] = "commit"
    /\ headers' = Overlay(headers,
                     [k \in KeysOf(batch[t]) |->
                         (CHOOSE r \in Kept(batch[t]) : r.key = k).alter_id])
    /\ entries' = (entries \ removed[t]) \cup added[t]
    /\ End(t)

\* Any statement, or the commit, fails: session_scope rolls back.
Fail(t) ==
    /\ step[t] # "idle"
    /\ End(t)
    /\ UNCHANGED <<headers, entries>>

WaitsFor(t, u) ==
    /\ step[t] = "headers"
    /\ holder[Head(pending[t])] = u

\* t is in a cycle of threads that wait for each other (a thread waits for at
\* most one): the database ends one of them.
Deadlocked(t) ==
    \E D \in SUBSET Txns : t \in D /\ \A u \in D : \E v \in D : WaitsFor(v, u)

DetectDeadlock(t) == Deadlocked(t) /\ Fail(t)

Statement(t) ==
    \/ UpsertHeader(t)
    \/ DeleteEntries(t)
    \/ InsertEntries(t)
    \/ Commit(t)

Next ==
    \E t \in Txns :
        \/ \E b \in Batches : \E order \in SetToSeqs(KeysOf(b)) : Begin(t, b, order)
        \/ Statement(t)
        \/ Fail(t)

Spec == Init /\ [][Next]_vars

\* The thread keeps running its statements, gets a row that is free again and
\* again, and the database detects deadlocks.
Fairness ==
    \A t \in Txns : SF_vars(Statement(t)) /\ WF_vars(DetectDeadlock(t))

FairSpec == Spec /\ Fairness

-----------------------------------------------------------------------------

\* Types of the tables and of the transactions.
TypeOK ==
    /\ \E S \in SUBSET Keys : headers \in [S -> AlterIds]
    /\ entries \subseteq Entry
    /\ holder \in [Keys -> Txns \cup {NoTxn}]
    /\ step \in [Txns -> Steps]
    /\ batch \in [Txns -> SUBSET Records]
    /\ pending \in [Txns -> Seq(Keys)]
    /\ removed \in [Txns -> SUBSET Entry]
    /\ added \in [Txns -> SUBSET Entry]

\* Every committed voucher has the entries of the save its header shows, once,
\* and no entries of another: whatever two threads store the same voucher,
\* in whatever order, and whichever of them fails
\* (app/repositories/postgres/voucher.py:57-164).
EntriesMatchHeader ==
    /\ \A e \in entries : e.voucher \in DOMAIN headers /\ e.of = headers[e.voucher]
    /\ \A k \in DOMAIN headers : \E e \in entries : e.voucher = k
    /\ \A e, f \in entries : e.voucher = f.voucher => e = f

(***************************************************************************)
(* The inductive invariant behind EntriesMatchHeader: a thread that has    *)
(* upserted a header keeps its row, so that what it deleted is still all   *)
(* the others will have committed for it.                                  *)
(***************************************************************************)

HeadersFirst(t) ==
    \A k \in KeysOf(batch[t]) :
        \/ holder[k] = t
        \/ step[t] = "headers" /\ k \in Range(pending[t])

RemovedAll(t) ==
    step[t] \in {"insert", "commit"} => removed[t] = OldEntries(t)

AddedAll(t) == step[t] = "commit" => added[t] = NewEntries(t)

\* A thread's deletes and inserts stay exact until it commits, whatever the
\* other threads commit meanwhile (app/repositories/postgres/voucher.py:57-164).
StoreInv ==
    /\ TypeOK
    /\ EntriesMatchHeader
    /\ \A t \in Txns :
          /\ batch[t] = {} <=> step[t] = "idle"
          /\ pending[t] = <<>> <=> step[t] # "headers"
          /\ HeadersFirst(t) /\ RemovedAll(t) /\ AddedAll(t)

\* The abstract table: what a reader of the database sees.
Table == INSTANCE VoucherTable WITH
    asked <- batch,
    table <- [k \in DOMAIN headers |->
                 [alter_id |-> {headers[k]},
                  entries  |-> {[key |-> k, alter_id |-> e.of] :
                                   e \in {f \in entries : f.voucher = k}}]]

\* A batch is stored whole and at once, the highest AlterID of each voucher
\* with its own entries, or not at all.
StoresWholeBatches == Table!Spec

\* Every sync that starts to store vouchers ends, although two syncs take the
\* rows in different orders.
EveryTransactionEnds == \A t \in Txns : step[t] # "idle" ~> step[t] = "idle"
=============================================================================
