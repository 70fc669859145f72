---------------------------- MODULE SyncReplica ----------------------------
(***************************************************************************)
(* SyncService as the abstract Replica, for one worker: what a save        *)
(* determines is the data, and the view is the response between the fetch  *)
(* and the end of the transaction.                                         *)
(***************************************************************************)
EXTENDS SyncService

R == INSTANCE Replica WITH
        Edits   <- [name : Names, alter_id : 1..MaxAlterId],
        source  <- [o \in DOMAIN tally |-> Edit(tally[o])],
        view    <- {[o \in DOMAIN response[w] |-> Edit(response[w][o])] :
                       w \in {v \in Workers : phase[v] \in {"compare", "write"}}},
        replica <- [g \in DOMAIN archive |-> Edit(archive[g])]

\* With one thread, checkpoints and hashes are invisible: each sync, full or
\* incremental, is a copy of everything Tally showed.
ReplicaSpec == R!Spec
=============================================================================
