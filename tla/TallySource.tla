---------------------------- MODULE TallySource ----------------------------
(***************************************************************************)
(* TallyPrime as the agent sees it: the collection of one entity type of   *)
(* one company.  TallyPrime is not part of the repository; what is said of *)
(* it here is what app/services/base.py and the parsers rely on: every     *)
(* object has a GUID, a name and an AlterID, and every save gives the      *)
(* object an AlterID above all the earlier ones.  Some exported fields     *)
(* (a ledger's CLOSINGBALANCE) are computed by Tally and change with no    *)
(* save of the object and therefore with no new AlterID.                   *)
(***************************************************************************)
EXTENDS Naturals, Functions, Dicts

CONSTANTS
    Objects,    \* the objects a user may ever create in Tally
    Names,      \* the names an object may be given
    MaxAlterId, \* bound on the number of saves
    MaxDrift    \* bound on the changes of a computed field

ASSUME SourceAssumption == MaxAlterId \in Nat /\ MaxDrift \in Nat

VARIABLES
    tally,      \* the live objects: a function from them to their records
    deleted,    \* the objects deleted so far (a GUID is never used again)
    lastAlterId,\* the AlterID given last
    drifts      \* changes of a computed field so far

sourceVars == <<tally, deleted, lastAlterId, drifts>>

\* One exported object; the <ENTITY> element and its SHA-256 stand and fall
\* with these fields (ALTERID is exported inside the element).
Record == [name : Names, alter_id : Nat, closing : {0, 1}]

\* What a save in Tally determines: everything except the computed field.
Edit(rec) == [name |-> rec.name, alter_id |-> rec.alter_id]

SourceInit ==
    /\ tally = Empty
    /\ deleted = {}
    /\ lastAlterId = 0
    /\ drifts = 0

\* The user creates o, alters it, or renames it to n.
Save(o, n) ==
    /\ lastAlterId < MaxAlterId
    /\ o \notin deleted
    /\ \A p \in DOMAIN tally \ {o} : tally[p].name # n
    /\ lastAlterId' = lastAlterId + 1
    /\ tally' = Overlay(tally,
                  [p \in {o} |-> [name |-> n, alter_id |-> lastAlterId',
                                  closing |-> IF o \in DOMAIN tally
                                              THEN tally[o].closing ELSE 0]])
    /\ UNCHANGED <<deleted, drifts>>

Delete(o) ==
    /\ o \in DOMAIN tally
    /\ tally' = Restrict(tally, DOMAIN tally \ {o})
    /\ deleted' = deleted \cup {o}
    /\ UNCHANGED <<lastAlterId, drifts>>

\* A posting elsewhere changes the computed field of o.
Drift(o) ==
    /\ o \in DOMAIN tally
    /\ drifts < MaxDrift
    /\ drifts' = drifts + 1
    /\ tally' = [tally EXCEPT ![o].closing = 1 - @]
    /\ UNCHANGED <<deleted, lastAlterId>>

SourceNext ==
    \E o \in Objects :
        \/ \E n \in Names : Save(o, n)
        \/ Delete(o)
        \/ Drift(o)

SourceTypeOK ==
    /\ \E S \in SUBSET Objects : tally \in [S -> Record]
    /\ deleted \subseteq Objects
    /\ lastAlterId \in 0..MaxAlterId
    /\ drifts \in 0..MaxDrift
=============================================================================
