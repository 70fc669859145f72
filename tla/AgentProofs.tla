---------------------------- MODULE AgentProofs ----------------------------
(***************************************************************************)
(* Proof about Agent, for any services, background tasks and               *)
(* configurations: ConnectionsHold, no end of a sync, stop of the service  *)
(* or crash leaves a connection of the pool behind.                        *)
(***************************************************************************)
EXTENDS Agent, LoopTheorems, FiniteSetTheorems

InUse == {r \in Runners : busy[r]}

\* What the connections in the pool and in use add up to.
Sum == free + Cardinality(InUse) = IF scheduler = "none" THEN 0 ELSE Pool

Held == \A r \in Runners : busy[r] => todo[r] # <<>>

\* The pool is built in CreateScheduler, for the settings that Boot loaded.
Built ==
    /\ scheduler = "none" <=> main \in {"off", "boot", "created", "building"}
    /\ main = "off" => ~api
    /\ main # "off" => settings = Loaded(sources)

AgentInv == TypeOK /\ Sum /\ Held /\ Built

(***************************************************************************)
(* The operators.                                                          *)
(***************************************************************************)

LEMMA RunnersFinite == IsFiniteSet(Runners)
<1>1. IsFiniteSet({}) BY FS_EmptySet
<1>2. IsFiniteSet({} \cup {"incremental"}) BY <1>1, FS_AddElement
<1>3. IsFiniteSet(({} \cup {"incremental"}) \cup {"full"}) BY <1>2, FS_AddElement
<1>4. IsFiniteSet((({} \cup {"incremental"}) \cup {"full"}) \cup {"startup"})
  BY <1>3, FS_AddElement
<1>5. IsFiniteSet(Tasks) BY AgentAssumption
<1>6. Runners = ((({} \cup {"incremental"}) \cup {"full"}) \cup {"startup"}) \cup Tasks
  BY DEF Runners, Jobs
<1> QED BY <1>4, <1>5, <1>6, FS_Union

LEMMA ConfiguredType ==
    ASSUME AgentInv, main # "off"
    PROVE  Configured \in Seq(Services) /\ Pool \in Nat /\ settings.api.enabled \in BOOLEAN
<1>1. sources \in Sources /\ settings = Loaded(sources)
  BY DEF AgentInv, Built, TypeOK
<1>2. settings.sync.entity_order \in Seq(STRING) BY <1>1, AgentAssumption
<1>3. Configured \in Seq(Services)
  <2>1. Configured \in Seq(STRING) /\ ToSet(Configured) \subseteq Services
    BY <1>2, AmongIs DEF Configured
  <2> QED BY <2>1, SeqOver
<1> QED BY <1>1, <1>3, AgentAssumption DEF Pool

\* A checkout makes one more thread hold a connection, an end one less.
LEMMA InUseCounts ==
    ASSUME NEW r \in Runners, busy \in [Runners -> BOOLEAN]
    PROVE  /\ Cardinality(InUse) \in Nat
           /\ ~busy[r] /\ busy' = [busy EXCEPT ![r] = TRUE] =>
                 Cardinality(InUse') = Cardinality(InUse) + 1
           /\ busy[r] /\ busy' = [busy EXCEPT ![r] = FALSE] =>
                 Cardinality(InUse') = Cardinality(InUse) - 1
<1>1. InUse \subseteq Runners BY DEF InUse
<1>2. IsFiniteSet(InUse) BY <1>1, RunnersFinite, FS_Subset
<1>3. Cardinality(InUse) \in Nat BY <1>2, FS_CardinalityType
<1>4. ASSUME ~busy[r], busy' = [busy EXCEPT ![r] = TRUE]
      PROVE  Cardinality(InUse') = Cardinality(InUse) + 1
  <2>1. InUse' = InUse \cup {r} /\ r \notin InUse BY <1>4 DEF InUse
  <2> QED BY <2>1, <1>2, FS_AddElement
<1>5. ASSUME busy[r], busy' = [busy EXCEPT ![r] = FALSE]
      PROVE  Cardinality(InUse') = Cardinality(InUse) - 1
  <2>1. InUse' = InUse \ {r} /\ r \in InUse BY <1>5 DEF InUse
  <2> QED BY <2>1, <1>2, FS_RemoveElement
<1> QED BY <1>3, <1>4, <1>5

(***************************************************************************)
(* The steps.                                                              *)
(***************************************************************************)

\* Without a process there is no thread and no pool.
LEMMA OffHolds ==
    ASSUME TypeOK, Off, settings' = settings, sources' = sources, asked' = asked,
           dirty' = dirty, saves' = saves, stops' \in 0..MaxStops
    PROVE  AgentInv'
<1>1. TypeOK'
  <2>1. <<>> \in Seq(Services) OBVIOUS
  <2> QED BY <2>1 DEF Off, TypeOK
<1>2. Sum'
  <2>1. InUse' = {} BY DEF Off, InUse
  <2> QED BY <2>1, FS_EmptySet DEF Off, Sum
<1>3. Held' /\ Built' BY DEF Off, Held, Built
<1> QED BY <1>1, <1>2, <1>3 DEF AgentInv

LEMMA InitHolds == ASSUME Init PROVE AgentInv
<1>1. TypeOK
  <2>1. <<>> \in Seq(Services) OBVIOUS
  <2>2. 0 \in 0..MaxSaves /\ 0 \in 0..MaxStops BY AgentAssumption
  <2> QED BY <2>1, <2>2 DEF Init, TypeOK
<1>2. Sum
  <2>1. InUse = {} BY DEF Init, InUse
  <2> QED BY <2>1, FS_EmptySet DEF Init, Sum
<1>3. Held /\ Built BY DEF Init, Held, Built
<1> QED BY <1>1, <1>2, <1>3 DEF AgentInv

LEMMA SaveHolds == ASSUME AgentInv, NEW e \in Services, Save(e) PROVE AgentInv'
<1> USE DEF AgentInv, Save, configVars, processVars
<1>1. TypeOK'
  <2>1. saves' \in 0..MaxSaves BY AgentAssumption DEF TypeOK
  <2>2. fresh' \in [Runners -> BOOLEAN] OBVIOUS
  <2> QED BY <2>1, <2>2 DEF TypeOK
<1>2. Sum' BY DEF Sum, InUse, Pool
<1>3. Held' /\ Built' BY DEF Held, Built
<1> QED BY <1>1, <1>2, <1>3

LEMMA CheckoutHolds == ASSUME AgentInv, NEW r \in Runners, Checkout(r) PROVE AgentInv'
<1> USE DEF AgentInv, Checkout, configVars, processVars
<1>1. TypeOK' BY DEF TypeOK
<1>2. Sum'
  <2>1. Cardinality(InUse') = Cardinality(InUse) + 1 /\ Cardinality(InUse) \in Nat
    BY InUseCounts DEF TypeOK
  <2>2. Pool' = Pool BY DEF Pool
  <2>3. free \in Nat BY DEF TypeOK
  <2> QED BY <2>1, <2>2, <2>3 DEF Sum
<1>3. Held' /\ Built' BY DEF Held, Built, TypeOK
<1> QED BY <1>1, <1>2, <1>3

LEMMA PoolTimeoutHolds ==
    ASSUME AgentInv, NEW r \in Runners, PoolTimeout(r) PROVE AgentInv'
<1> USE DEF AgentInv, PoolTimeout, configVars, processVars
<1>1. TypeOK'
  <2>1. Tail(todo[r]) \in Seq(Services) BY DEF TypeOK
  <2> QED BY <2>1 DEF TypeOK
<1>2. Sum' BY DEF Sum, InUse, Pool
<1>3. Held' /\ Built' BY DEF Held, Built, TypeOK
<1> QED BY <1>1, <1>2, <1>3

\* However a sync ends, its connection is given back.
LEMMA LeaveHolds ==
    ASSUME AgentInv, NEW r \in Runners, Leave(r, Tail(todo[r]), 1), dirty' \subseteq dirty
    PROVE  AgentInv'
<1> USE DEF AgentInv, Leave, configVars, processVars
<1>1. TypeOK'
  <2>1. Tail(todo[r]) \in Seq(Services) BY DEF TypeOK, Held
  <2> QED BY <2>1 DEF TypeOK
<1>2. Sum'
  <2>1. Cardinality(InUse') = Cardinality(InUse) - 1 /\ Cardinality(InUse) \in Nat
    BY InUseCounts DEF TypeOK
  <2>2. Pool' = Pool BY DEF Pool
  <2>3. free \in Nat BY DEF TypeOK
  <2>4. free' = free + 1 OBVIOUS
  <2> QED BY <2>1, <2>2, <2>3, <2>4 DEF Sum
<1>3. Held' /\ Built' BY DEF Held, Built, TypeOK
<1> QED BY <1>1, <1>2, <1>3

\* A job, or a task of the API, begins its run.
LEMMA RunHolds ==
    ASSUME AgentInv, NEW r \in Runners, NEW entities \in Seq(Services), Run(r, entities),
           UNCHANGED <<configVars, processVars, asked, dirty, saves, stops>>
    PROVE  AgentInv'
<1> USE DEF AgentInv, Run, configVars, processVars
<1>1. TypeOK' BY DEF TypeOK
<1>2. Sum' BY DEF Sum, InUse, Pool
<1>3. Held' /\ Built' BY DEF Held, Built, TypeOK
<1> QED BY <1>1, <1>2, <1>3

\* Steps of start() and of the service that leave the threads and the pool alone.
LEMMA QuietHolds ==
    ASSUME AgentInv,
           \/ CreateAgent \/ ClearEvent \/ CronRejected \/ Wake \/ SvcStop
    PROVE  AgentInv'
<1> USE DEF AgentInv, engineVars, configVars, GoTo
<1>1. TypeOK'
  <2>1. CASE CreateAgent BY <2>1 DEF CreateAgent, TypeOK
  <2>2. CASE ClearEvent BY <2>2 DEF ClearEvent, TypeOK
  <2>3. CASE CronRejected BY <2>3 DEF CronRejected, TypeOK
  <2>4. CASE Wake BY <2>4 DEF Wake, TypeOK
  <2>5. CASE SvcStop
    <3>1. stops' \in 0..MaxStops BY <2>5, AgentAssumption DEF SvcStop, Asked, TypeOK
    <3> QED BY <2>5, <3>1 DEF SvcStop, Asked, AgentStop, TypeOK
  <2> QED BY <2>1, <2>2, <2>3, <2>4, <2>5
<1>2. Built' /\ (scheduler' = "none" <=> scheduler = "none")
  BY DEF Built, CreateAgent, ClearEvent, CronRejected, Wake, SvcStop, Asked, AgentStop
<1>3. Sum' /\ Held'
  <2>1. UNCHANGED <<engineVars, configVars>>
    BY DEF CreateAgent, ClearEvent, CronRejected, Wake, SvcStop, Asked
  <2> QED BY <1>2, <2>1 DEF Sum, InUse, Pool, Held
<1> QED BY <1>1, <1>2, <1>3

\* Other settings than before, but no pool yet.
LEMMA BootHolds == ASSUME AgentInv, Boot PROVE AgentInv'
<1> USE DEF AgentInv, Boot, GoTo, engineVars
<1>1. TypeOK' BY DEF TypeOK
<1>2. Built' BY DEF Built
<1>3. Sum' /\ Held' BY DEF Sum, InUse, Held, Built
<1> QED BY <1>1, <1>2, <1>3

\* The pool is built full, as nothing is in use before.
LEMMA CreateSchedulerHolds == ASSUME AgentInv, CreateScheduler PROVE AgentInv'
<1> USE DEF AgentInv, CreateScheduler, GoTo, configVars
<1>1. Pool \in Nat BY ConfiguredType
<1>2. TypeOK' BY <1>1 DEF TypeOK
<1>3. Built' BY DEF Built
<1>4. Sum'
  <2>1. free \in Nat BY DEF TypeOK
  <2>2. "startup" \in Runners /\ busy \in [Runners -> BOOLEAN] BY DEF Runners, TypeOK
  <2>3. Cardinality(InUse) \in Nat BY <2>2, InUseCounts
  <2>4. scheduler = "none" BY DEF Built
  <2>5. Cardinality(InUse) = 0 BY <2>1, <2>3, <2>4 DEF Sum
  <2>6. InUse' = InUse /\ Pool' = Pool BY DEF InUse, Pool
  <2> QED BY <1>1, <2>5, <2>6 DEF Sum
<1>5. Held' BY DEF Held
<1> QED BY <1>2, <1>3, <1>4, <1>5

LEMMA StartSchedulerHolds == ASSUME AgentInv, StartScheduler PROVE AgentInv'
<1> USE DEF AgentInv, StartScheduler, Run, GoTo, configVars
<1> DEFINE entities == IF settings.sync.full_sync_on_startup THEN Configured ELSE <<>>
<1>1. entities \in Seq(Services)
  <2>1. Configured \in Seq(Services) BY ConfiguredType
  <2>2. <<>> \in Seq(Services) OBVIOUS
  <2> QED BY <2>1, <2>2
<1>2. Run("startup", entities) OBVIOUS
<1> HIDE DEF entities
<1>3. "startup" \in Runners BY DEF Runners
<1>4. TypeOK' BY <1>1, <1>2 DEF TypeOK
<1>5. Built' BY DEF Built
<1>6. Sum' BY DEF Sum, InUse, Pool, Built
<1>7. Held' BY <1>2, <1>3 DEF Held, TypeOK
<1> QED BY <1>4, <1>5, <1>6, <1>7

LEMMA StartApiHolds == ASSUME AgentInv, StartApi PROVE AgentInv'
<1> USE DEF AgentInv, StartApi, GoTo, configVars, engineVars
<1>1. settings.api.enabled \in BOOLEAN BY ConfiguredType
<1>2. TypeOK' BY <1>1 DEF TypeOK
<1>3. Built' BY DEF Built
<1>4. Sum' /\ Held' BY DEF Sum, InUse, Pool, Held
<1> QED BY <1>2, <1>3, <1>4

LEMMA StepHolds == ASSUME AgentInv, [Next]_vars PROVE AgentInv'
<1>1. ASSUME NEW e \in Services, Save(e) PROVE AgentInv' BY <1>1, SaveHolds
<1>2. ASSUME NEW r \in Runners, Checkout(r) PROVE AgentInv' BY <1>2, CheckoutHolds
<1>3. ASSUME NEW r \in Runners, PoolTimeout(r) PROVE AgentInv' BY <1>3, PoolTimeoutHolds
<1>4. ASSUME NEW r \in Runners, Succeed(r) \/ Raise(r) PROVE AgentInv'
  <2>1. Leave(r, Tail(todo[r]), 1) BY <1>4 DEF Succeed, Raise
  <2>2. dirty' \subseteq dirty BY <1>4 DEF Succeed, Raise
  <2> QED BY <2>1, <2>2, LeaveHolds
<1>5. ASSUME NEW j \in Jobs, Fire(j) PROVE AgentInv'
  <2>1. main # "off" BY <1>5 DEF Fire, AgentInv, Built
  <2>2. Configured \in Seq(Services) BY <2>1, ConfiguredType
  <2>3. j \in Runners BY DEF Runners
  <2>4. Run(j, Configured) /\ UNCHANGED <<configVars, processVars, asked, dirty, saves, stops>>
    BY <1>5 DEF Fire
  <2> QED BY <2>2, <2>3, <2>4, RunHolds
<1>6. ASSUME NEW t \in Tasks, NEW entities, Request(t, entities),
             entities \in {Configured} \cup {<<e>> : e \in Services}
      PROVE  AgentInv'
  <2>1. main # "off" BY <1>6 DEF Request, AgentInv, Built
  <2>2. entities \in Seq(Services)
    <3>1. Configured \in Seq(Services) BY <2>1, ConfiguredType
    <3>2. ASSUME NEW e \in Services PROVE <<e>> \in Seq(Services) OBVIOUS
    <3> QED BY <1>6, <3>1, <3>2
  <2>3. t \in Runners BY DEF Runners
  <2>4. Run(t, entities) /\ UNCHANGED <<configVars, processVars, asked, dirty, saves, stops>>
    BY <1>6 DEF Request
  <2> QED BY <2>2, <2>3, <2>4, RunHolds
<1>7. ASSUME Exit \/ Crash PROVE AgentInv'
  <2>1. TypeOK /\ Off BY <1>7 DEF Exit, Crash, AgentInv
  <2>2. stops' \in 0..MaxStops BY <1>7, <2>1, AgentAssumption DEF Exit, Crash, TypeOK
  <2>3. UNCHANGED <<configVars, asked, dirty, saves>> BY <1>7 DEF Exit, Crash
  <2> QED BY <2>1, <2>2, <2>3, OffHolds DEF configVars
<1>8. ASSUME UNCHANGED vars PROVE AgentInv'
  BY <1>8 DEF vars, engineVars, processVars, configVars, AgentInv, TypeOK, Sum, InUse,
     Pool, Held, Built
<1> QED BY <1>1, <1>2, <1>3, <1>4, <1>5, <1>6, <1>7, <1>8, QuietHolds, BootHolds,
           CreateSchedulerHolds, StartSchedulerHolds, StartApiHolds DEF Next

(***************************************************************************)
(* The theorem.                                                            *)
(***************************************************************************)

\* Whatever the agent's threads, its service and Tally's user do, and in
\* whatever order, each connection of the pool is in it or in use by a sync
\* in progress (session_scope, app/database/session.py:24-32).
THEOREM ConnectionsHold == Spec => []ConnectionsReturned
<1>1. Init => AgentInv BY InitHolds
<1>2. AgentInv /\ [Next]_vars => AgentInv' BY StepHolds
<1>3. AgentInv => ConnectionsReturned
  BY DEF AgentInv, ConnectionsReturned, Sum, InUse, Held
<1> QED BY <1>1, <1>2, <1>3, PTL DEF Spec
=============================================================================
