------------------------------ MODULE Replica ------------------------------
(***************************************************************************)
(* What syncing promises, without checkpoints, hashes and transactions: a  *)
(* replica, keyed by guid, is brought up to date by looking at the whole   *)
(* source and, later and in one step, copying everything that was seen.    *)
(***************************************************************************)
EXTENDS Naturals, Dicts

CONSTANTS Objects, Guids, GuidOf, Edits

VARIABLES
    source,     \* live objects: object -> edit
    view,       \* {} or {the source as it was when it was looked at}
    replica     \* guid -> edit

vars == <<source, view, replica>>

\* The replica after everything seen in v was copied to it.
Copied(v) ==
    [g \in DOMAIN replica \cup {GuidOf[o] : o \in DOMAIN v} |->
        IF \E o \in DOMAIN v : GuidOf[o] = g
        THEN v[CHOOSE o \in DOMAIN v : GuidOf[o] = g]
        ELSE replica[g]]

Init == source = Empty /\ view = {} /\ replica = Empty

\* Objects come, go and change; a change has an AlterID above all others.
Change ==
    /\ \E S \in SUBSET Objects : source' \in [S -> Edits]
    /\ \A o \in DOMAIN source' :
          \/ o \in DOMAIN source /\ source'[o] = source[o]
          \/ \A p \in DOMAIN source : source[p].alter_id < source'[o].alter_id
    /\ UNCHANGED <<view, replica>>

Look == view = {} /\ view' = {source} /\ UNCHANGED <<source, replica>>

Copy ==
    /\ \E v \in view : replica' = Copied(v)
    /\ view' = {}
    /\ UNCHANGED source

Forget == view' = {} /\ UNCHANGED <<source, replica>>

Next == Change \/ Look \/ Copy \/ Forget

Spec == Init /\ [][Next]_vars

TypeOK ==
    /\ \E S \in SUBSET Objects : source \in [S -> Edits]
    /\ \E S \in SUBSET Guids : replica \in [S -> Edits]
    /\ \A v \in view : \E S \in SUBSET Objects : v \in [S -> Edits]
=============================================================================
