---------------------------- MODULE TallyHealth ----------------------------
(***************************************************************************)
(* TallyHealthChecker (app/client/tally_health.py) in the hands of one     *)
(* thread, on a client of its own, beside the thread whose calls           *)
(* TallyFetch has.  The clock counts in any unit of which the cache's      *)
(* lifetime is a multiple; a probe takes any time.                         *)
(***************************************************************************)
EXTENDS TallyFetch

CONSTANTS
    Lifetime,   \* cache_ttl_seconds
    MaxTime     \* bound on the clock

ASSUME HealthAssumption == Lifetime \in Nat /\ MaxTime \in Nat

VARIABLES
    now,        \* time.monotonic()
    checking,   \* the check() in progress: its argument and its now
    cached,     \* _cached, as the time its probe began and is_alive
    cacheTs,    \* _cache_ts
    invalidated,\* when invalidate() was last called
    returned    \* the last result of check() since then, and that check()

checkVars == <<checking, cached, cacheTs, returned>>
healthVars == <<now, checkVars, invalidated>>

HealthInit ==
    /\ now = 0 /\ checking = <<>>
    /\ cached = <<>> /\ cacheTs = 0
    /\ invalidated = 0
    /\ returned = <<>>

\* Time passes.
Tick ==
    /\ now < MaxTime
    /\ now' = now + 1
    /\ UNCHANGED <<checkVars, invalidated>>

Check(force) ==
    /\ checking = <<>>
    /\ checking' = <<[force |-> force, now |-> now]>>
    /\ UNCHANGED <<now, cached, cacheTs, invalidated, returned>>

Cached(check) == ~check.force /\ cached # <<>> /\ check.now - cacheTs < Lifetime

\* The answer that the cache has.
Hit ==
    /\ checking # <<>> /\ Cached(checking[1])
    /\ returned' = <<[check |-> checking[1], health |-> cached[1]]>>
    /\ checking' = <<>>
    /\ UNCHANGED <<now, cached, cacheTs, invalidated>>

\* TallyClient.is_alive: any body of a good status.
IsAlive(answer) == Content(answer) # <<>>

\* Defective variant: the result is as old as its probe's end.
CacheTime_End(check) == now

CacheTime(check) == check.now

\* _probe, when Tally has answered, and the rest of check().
Probe(answer) ==
    /\ checking # <<>> /\ ~Cached(checking[1])
    /\ LET health == [began |-> checking[1].now, is_alive |-> IsAlive(answer)] IN
         /\ cached' = <<health>>
         /\ returned' = <<[check |-> checking[1], health |-> health]>>
    /\ cacheTs' = CacheTime(checking[1])
    /\ checking' = <<>>
    /\ UNCHANGED <<now, invalidated>>

Invalidate ==
    /\ checking = <<>>
    /\ cached' = <<>> /\ cacheTs' = 0
    /\ invalidated' = now /\ returned' = <<>>
    /\ UNCHANGED <<now, checking>>

HealthNext ==
    \/ Tick
    \/ \E force \in BOOLEAN : Check(force)
    \/ Hit
    \/ \E answer \in Answers : Probe(answer)
    \/ Invalidate

ClientInit == Init /\ HealthInit

ClientNext ==
    \/ Next /\ UNCHANGED healthVars
    \/ HealthNext /\ UNCHANGED vars

\* The thread runs, posts and reads end (timeout_seconds), and a server that
\* sends does not send empty chunks only.
ClientSpec ==
    /\ ClientInit /\ [][ClientNext]_<<vars, healthVars>>
    /\ WF_vars(Work /\ UNCHANGED healthVars)

(***************************************************************************)
(* Properties.                                                             *)
(***************************************************************************)

\* What check() returns was never found out before the cache's lifetime,
\* although a probe may take longer than that, nor before the last
\* invalidate(), and a forced check finds it out itself
\* (app/client/tally_health.py:43-44, 74).
HealthIsFresh ==
    \A i \in DOMAIN returned :
        LET check == returned[i].check
            age == check.now - returned[i].health.began
        IN  /\ returned[i].health.began >= invalidated
            /\ age < Lifetime \/ age = 0
            /\ check.force => age = 0
=============================================================================
