---------------------------- MODULE VoucherTable ----------------------------
(***************************************************************************)
(* What VoucherRepository.upsert_batch promises, without statements and    *)
(* locks: a voucher is a header with the entries of the same record, and a *)
(* batch that a thread asks to store is stored whole and at once, or not   *)
(* at all, the record with the highest AlterID where the batch has several *)
(* of one number and type.                                                 *)
(***************************************************************************)
EXTENDS Naturals, Dicts

CONSTANTS
    Txns,       \* the threads
    Batches     \* the non-empty sets of records [key, alter_id] they may store

VARIABLES
    table,      \* key -> [alter_id, entries]
    asked       \* what each thread has yet to store, {} when nothing

vars == <<table, asked>>

\* The vouchers of b, each with its own entries.
Stored(b) ==
    [k \in {r.key : r \in b} |->
        LET top == {r \in b : r.key = k /\ \A s \in b : s.key = k => s.alter_id <= r.alter_id}
        IN  [alter_id |-> {r.alter_id : r \in top}, entries |-> top]]

Init == table = Empty /\ asked = [t \in Txns |-> {}]

Ask(t, b) ==
    /\ asked[t] = {}
    /\ asked' = [asked EXCEPT ![t] = b]
    /\ UNCHANGED table

Store(t) ==
    /\ asked[t] # {}
    /\ table' = Overlay(table, Stored(asked[t]))
    /\ asked' = [asked EXCEPT ![t] = {}]

Drop(t) ==
    /\ asked' = [asked EXCEPT ![t] = {}]
    /\ UNCHANGED table

Next ==
    \E t \in Txns : (\E b \in Batches : Ask(t, b)) \/ Store(t) \/ Drop(t)

Spec == Init /\ [][Next]_vars
=============================================================================
