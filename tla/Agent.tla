------------------------------- MODULE Agent -------------------------------
(***************************************************************************)
(* The agent's process: Agent.start and stop (app/agent.py) under the      *)
(* Windows service (app/windows_service/service.py), the two jobs of the   *)
(* scheduler, the control API and its background tasks, and SyncEngine     *)
(* (app/sync/engine.py), which any of these threads runs over the          *)
(* configured entities.  What is configured is up to Settings.  One        *)
(* entity's sync (SyncService) is here what the engine sees of it: it      *)
(* takes a connection of the database pool, and it returns or raises.      *)
(*                                                                         *)
(* APScheduler, threading and SQLAlchemy's QueuePool are external: a job   *)
(* does not overlap itself, shutdown of a scheduler that does not run      *)
(* raises, a thread that gets no connection in time gets an exception, and *)
(* the interpreter waits at its end for running jobs, not for daemon       *)
(* threads.                                                                *)
(***************************************************************************)
EXTENDS Settings, FiniteSets

CONSTANTS
    Services,   \* the entities that have a service
    Reliable,   \* the entities whose sync, when it is possible, does not fail for ever
    Tasks,      \* the threads that run the API's background tasks
    Sources,    \* what the administrator may have configured
    MaxSaves,   \* bound on the saves in Tally
    MaxStops    \* bound on the stops and crashes

ASSUME AgentAssumption ==
    /\ Reliable \subseteq Services
    /\ IsFiniteSet(Tasks)
    /\ \A given \in Sources :
          /\ {"env", "dotenv", "yaml", "bare", "keyring"} \subseteq DOMAIN given
          \* QueuePool reads a size of 0 or a negative overflow as "no limit".
          /\ Loaded(given).database.pool_size \in Nat \ {0}
          /\ Loaded(given).database.max_overflow \in Nat
          /\ Loaded(given).sync.entity_order \in Seq(STRING)
          /\ Loaded(given).api.enabled \in BOOLEAN
    /\ MaxSaves \in Nat /\ MaxStops \in Nat

Jobs == {"incremental", "full"}
Runners == Jobs \cup {"startup"} \cup Tasks

VARIABLES
    sources,    \* the environment, the files and the keyring
    settings,   \* those of the process
    main,       \* where the agent's thread is in start(), "off" without process
    stopEvent,  \* Agent._stop_event
    scheduler,  \* the state of Agent._scheduler
    api,        \* whether the control API listens
    asked,      \* whether the service manager wants the service to stop
    svcEvent,   \* the event SvcDoRun waits for
    todo,       \* what is left of each thread's run of SyncEngine.sync
    busy,       \* whether it is in the sync of the first of them
    free,       \* the connections in the pool
    fresh,      \* whether it is of the configured company and no save of the
                \* entity followed the checkout
    dirty,      \* the entities with a save that no sync has brought over
    saves, stops

engineVars == <<todo, busy, free, fresh>>
processVars == <<main, stopEvent, scheduler, api, svcEvent>>
configVars == <<sources, settings>>
vars == <<configVars, processVars, asked, engineVars, dirty, saves, stops>>

\* build_engine: the connections there may be.
Pool == settings.database.pool_size + settings.database.max_overflow

Off ==
    /\ main' = "off" /\ stopEvent' = FALSE /\ scheduler' = "none"
    /\ api' = FALSE /\ svcEvent' = FALSE
    /\ todo' = [r \in Runners |-> <<>>]
    /\ busy' = [r \in Runners |-> FALSE]
    /\ free' = 0
    /\ fresh' = [r \in Runners |-> FALSE]

Init ==
    /\ sources \in Sources /\ settings = Empty
    /\ main = "off" /\ stopEvent = FALSE /\ scheduler = "none"
    /\ api = FALSE /\ asked = FALSE /\ svcEvent = FALSE
    /\ todo = [r \in Runners |-> <<>>]
    /\ busy = [r \in Runners |-> FALSE]
    /\ free = 0
    /\ fresh = [r \in Runners |-> FALSE]
    /\ dirty = {} /\ saves = 0 /\ stops = 0

(***************************************************************************)
(* Tally's user.                                                           *)
(***************************************************************************)

\* A sync of e that has its connection already may have missed the save.
Save(e) ==
    /\ saves < MaxSaves
    /\ saves' = saves + 1
    /\ dirty' = dirty \cup {e}
    /\ fresh' = [r \in Runners |-> fresh[r] /\ Head(todo[r]) # e]
    /\ UNCHANGED <<configVars, processVars, asked, todo, busy, free, stops>>

(***************************************************************************)
(* SyncEngine.sync and sync_entity.                                        *)
(***************************************************************************)

\* Thread r begins a run over entities.
Run(r, entities) ==
    /\ todo[r] = <<>>
    /\ todo' = [todo EXCEPT ![r] = entities]
    /\ UNCHANGED <<busy, free, fresh>>

\* The first statement of the sync, start_run, takes a connection.  The company
\* of an API task may be another one (app/api/routes/sync.py:65, 79).
Checkout(r) ==
    /\ todo[r] # <<>> /\ ~busy[r]
    /\ free > 0
    /\ free' = free - 1
    /\ busy' = [busy EXCEPT ![r] = TRUE]
    /\ \E own \in BOOLEAN :
          /\ own \/ r \in Tasks
          /\ fresh' = [fresh EXCEPT ![r] = own]
    /\ UNCHANGED <<configVars, processVars, asked, todo, dirty, saves, stops>>

\* There is none in time: the sync raises, the engine goes on.
PoolTimeout(r) ==
    /\ todo[r] # <<>> /\ ~busy[r]
    /\ free = 0
    /\ todo' = [todo EXCEPT ![r] = Tail(@)]
    /\ UNCHANGED <<configVars, processVars, asked, busy, free, fresh, dirty, saves,
                   stops>>

\* The sync is over and session_scope has closed the session.
Leave(r, rest, given) ==
    /\ busy[r]
    /\ todo' = [todo EXCEPT ![r] = rest]
    /\ busy' = [busy EXCEPT ![r] = FALSE]
    /\ fresh' = [fresh EXCEPT ![r] = FALSE]
    /\ free' = free + given
    /\ UNCHANGED <<configVars, processVars, asked, saves, stops>>

\* All requests but that for the companies need a company's name.
Possible(e) == e = "company" \/ settings.tally.company_name # ""

Succeed(r) ==
    /\ busy[r] /\ Possible(Head(todo[r]))
    /\ Leave(r, Tail(todo[r]), 1)
    /\ dirty' = IF fresh[r] THEN dirty \ {Head(todo[r])} ELSE dirty

\* Defective variant: a failed sync does not close its session.
Raise_KeepsConnection(r) == Leave(r, Tail(todo[r]), 0) /\ UNCHANGED dirty

\* Defective variant: the engine does not catch the exception.
Raise_EndsRun(r) == Leave(r, <<>>, 1) /\ UNCHANGED dirty

\* The engine records the error and goes on with the next entity.
Raise(r) == Leave(r, Tail(todo[r]), 1) /\ UNCHANGED dirty

\* What a run of sync() visits: the loop skips the entities without service.
Configured == Among(settings.sync.entity_order, Services)

\* The scheduler starts a job that does not run, until the interpreter ends.
Fire(j) ==
    /\ scheduler = "running" /\ ~svcEvent
    /\ Run(j, Configured)
    /\ UNCHANGED <<configVars, processVars, asked, dirty, saves, stops>>

\* A request of the control API, of one entity (Tally's event, as a rule) or
\* of all of them; whatever is requested while it does not listen is lost.
Request(t, entities) ==
    /\ api
    /\ Run(t, entities)
    /\ UNCHANGED <<configVars, processVars, asked, dirty, saves, stops>>

(***************************************************************************)
(* Agent.start, on the thread SvcDoRun starts.                             *)
(***************************************************************************)

GoTo(from, to) == main = from /\ main' = to

\* SvcDoRun, which ends at once when from_yaml rejects the settings.
Boot ==
    /\ GoTo("off", "boot")
    /\ Valid(Loaded(sources))
    /\ settings' = Loaded(sources)
    /\ asked' = FALSE
    /\ UNCHANGED <<sources, stopEvent, scheduler, api, svcEvent, engineVars, dirty,
                   saves, stops>>

CreateAgent ==
    /\ GoTo("boot", "created")
    /\ UNCHANGED <<configVars, stopEvent, scheduler, api, asked, svcEvent,
                   engineVars, dirty, saves, stops>>

ClearEvent ==
    /\ GoTo("created", "building")
    /\ stopEvent' = FALSE
    /\ UNCHANGED <<configVars, scheduler, api, asked, svcEvent, engineVars, dirty,
                   saves, stops>>

CreateScheduler ==
    /\ GoTo("building", "scheduled")
    /\ scheduler' = "created"
    /\ free' = Pool
    /\ UNCHANGED <<configVars, stopEvent, api, asked, svcEvent, todo, busy, fresh,
                   dirty, saves, stops>>

ValidCron == Len(settings.sync.full_sync_cron) = 5

\* add_cron_job raises, and that is the end of the agent's thread.
CronRejected ==
    /\ GoTo("scheduled", "done")
    /\ ~ValidCron
    /\ UNCHANGED <<configVars, stopEvent, scheduler, api, asked, svcEvent,
                   engineVars, dirty, saves, stops>>

StartScheduler ==
    /\ GoTo("scheduled", "startup")
    /\ ValidCron
    /\ scheduler' = "running"
    /\ Run("startup", IF settings.sync.full_sync_on_startup THEN Configured ELSE <<>>)
    /\ UNCHANGED <<configVars, stopEvent, api, asked, svcEvent, dirty, saves, stops>>

\* The server may find its port taken, which ends its own thread only.
StartApi ==
    /\ GoTo("startup", "serving")
    /\ todo["startup"] = <<>>
    /\ api' \in {FALSE, settings.api.enabled}
    /\ UNCHANGED <<configVars, stopEvent, scheduler, asked, svcEvent, engineVars,
                   dirty, saves, stops>>

\* stop() in the finally clause: it shuts the scheduler down or, the second
\* time, raises.
Wake ==
    /\ GoTo("serving", "done")
    /\ stopEvent
    /\ scheduler' = "shutdown"
    /\ UNCHANGED <<configVars, stopEvent, api, asked, svcEvent, engineVars, dirty,
                   saves, stops>>

(***************************************************************************)
(* The service.                                                            *)
(***************************************************************************)

\* Agent.stop raises when there is a scheduler and it does not run.
StopRaises == main \notin {"off", "boot"} /\ scheduler \in {"created", "shutdown"}

AgentStop ==
    IF main = "boot" \/ StopRaises THEN UNCHANGED <<scheduler, stopEvent>>
    ELSE /\ scheduler' = IF scheduler = "running" THEN "shutdown" ELSE scheduler
         /\ stopEvent' = TRUE

Asked ==
    /\ main # "off" /\ ~asked
    /\ stops < MaxStops
    /\ stops' = stops + 1
    /\ asked' = TRUE
    /\ UNCHANGED <<configVars, main, api, engineVars, dirty, saves>>

\* Defective variant: SvcStop calls Agent.stop before it sets its own event.
SvcStop_AgentFirst == Asked /\ AgentStop /\ svcEvent' = (svcEvent \/ ~StopRaises)

SvcStop == Asked /\ AgentStop /\ svcEvent' = TRUE

\* SvcDoRun has returned and no job runs: the interpreter ends, and with it
\* the daemon threads of the agent and of the API, wherever they are.
Exit ==
    /\ svcEvent
    /\ \A j \in Jobs : todo[j] = <<>>
    /\ Off
    /\ UNCHANGED <<configVars, asked, dirty, saves, stops>>

Crash ==
    /\ main # "off"
    /\ stops < MaxStops
    /\ stops' = stops + 1
    /\ Off
    /\ UNCHANGED <<configVars, asked, dirty, saves>>

Next ==
    \/ \E e \in Services : Save(e)
    \/ \E r \in Runners : Checkout(r) \/ PoolTimeout(r) \/ Succeed(r) \/ Raise(r)
    \/ \E j \in Jobs : Fire(j)
    \/ \E t \in Tasks :
          \/ Request(t, Configured)
          \/ \E e \in Services : Request(t, <<e>>)
    \/ Boot \/ CreateAgent \/ ClearEvent \/ CreateScheduler \/ CronRejected
    \/ StartScheduler \/ StartApi \/ Wake
    \/ SvcStop \/ Exit \/ Crash

Spec == Init /\ [][Next]_vars

(***************************************************************************)
(* The threads run, the service is started again, a sync ends and a wait   *)
(* for a connection too (the timeouts of requests and of the pool), the    *)
(* interval job fires, and of its turns at a reliable entity neither all   *)
(* find the pool empty nor all that get a connection fail.                 *)
(***************************************************************************)
At(r, e, Step(_)) == todo[r] # <<>> /\ Head(todo[r]) = e /\ Step(r)

Fairness ==
    /\ WF_vars(Boot) /\ WF_vars(CreateAgent) /\ WF_vars(ClearEvent)
    /\ WF_vars(CreateScheduler) /\ WF_vars(CronRejected) /\ WF_vars(StartScheduler)
    /\ WF_vars(StartApi) /\ WF_vars(Wake) /\ WF_vars(Exit)
    /\ WF_vars(Fire("incremental"))
    /\ \A r \in Jobs \cup {"startup"} :
          /\ WF_vars(Checkout(r) \/ PoolTimeout(r))
          /\ WF_vars(Succeed(r) \/ Raise(r))
    /\ \A e \in Reliable :
          /\ []<><<At("incremental", e, PoolTimeout)>>_vars =>
                []<><<At("incremental", e, Checkout)>>_vars
          /\ SF_vars(At("incremental", e, Succeed))

FairSpec == Spec /\ Fairness

(***************************************************************************)
(* Properties.                                                             *)
(***************************************************************************)

TypeOK ==
    /\ main \in {"off", "boot", "created", "building", "scheduled", "startup",
                 "serving", "done"}
    /\ scheduler \in {"none", "created", "running", "shutdown"}
    /\ {stopEvent, api, asked, svcEvent} \subseteq BOOLEAN
    /\ todo \in [Runners -> Seq(Services)]
    /\ sources \in Sources /\ settings \in {Empty, Loaded(sources)}
    /\ busy \in [Runners -> BOOLEAN] /\ fresh \in [Runners -> BOOLEAN]
    /\ free \in Nat
    /\ dirty \subseteq Services
    /\ saves \in 0..MaxSaves /\ stops \in 0..MaxStops

\* Each connection is in the pool or with a sync in progress, however the
\* syncs of all threads end (app/database/session.py:24-32).
ConnectionsReturned ==
    /\ TypeOK
    /\ free + Cardinality({r \in Runners : busy[r]}) =
          IF scheduler = "none" THEN 0 ELSE Pool
    /\ \A r \in Runners : busy[r] => todo[r] # <<>>

\* The first source with a value for a setting, as the documentation has it
\* (app/config/settings.py:3-7), but for variables with bare names.
Given(section, key) ==
    LET named == SelectSeq(<<sources.env, sources.dotenv, sources.yaml>>,
                    LAMBDA source : section \in DOMAIN source /\ key \in DOMAIN source[section])
    IN  IF named # <<>> THEN Head(named)[section][key]
        ELSE IF key \in DOMAIN sources.bare THEN sources.bare[key]
        ELSE Defaults[section][key]

\* Without these, no job ever brings over a save of e.
Scheduled(e) ==
    /\ Given("sync", "batch_size") > 0 /\ Given("sync", "bulk_insert_size") > 0
    /\ Len(Given("sync", "full_sync_cron")) = 5
    /\ e \in ToSet(Given("sync", "entity_order"))
    /\ e = "company" \/ Given("tally", "company_name") # ""

\* A save in Tally is brought over in the end, with its event lost or not,
\* with the pool empty at times, across stops and crashes of the agent, from
\* whichever files and variables its settings come, and though another entity
\* fails every time: "a failure in one entity ... does not abort subsequent
\* entities" (app/sync/engine.py:25-26).
EverySaveSynced == \A e \in Reliable : Scheduled(e) /\ e \in dirty ~> e \notin dirty

\* A service that is asked to stop stops, at whatever point of start() the
\* agent is and although Agent.stop may raise
\* (app/windows_service/service.py:32-36).
StopEnds == asked ~> main = "off"
=============================================================================
