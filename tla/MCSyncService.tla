--------------------------- MODULE MCSyncService ---------------------------
(***************************************************************************)
(* SyncService for TLC: objects with guids of their own, without any, and  *)
(* one with and two without.                                               *)
(***************************************************************************)
EXTENDS SyncReplica, TLC

CONSTANTS own, none

OwnGuid == [o \in Objects |-> o]
OneGuid == [o \in Objects |-> none]
Mixed == [o \in Objects |-> IF o = own THEN own ELSE none]

Interchangeable ==
    Permutations(Objects \ {own}) \cup Permutations(Names) \cup Permutations(Workers)
=============================================================================
