-------------------------- MODULE TallyClientProofs --------------------------
(***************************************************************************)
(* Proofs about TallyFetch and TallyHealth, for answers, reads, retries    *)
(* and lifetimes of any size.  FetchInv says what each call has done so    *)
(* far; HealthInv relates the check in progress and the cache to the       *)
(* clock.  The two threads share nothing, so each invariant is kept by the *)
(* steps of its own thread.                                                *)
(***************************************************************************)
EXTENDS TallyHealth, SequenceTheorems, TLAPS

(***************************************************************************)
(* The calls.                                                              *)
(***************************************************************************)

CallTypes ==
    /\ call \in {"", "request", "stream"}
    /\ answers \in Seq(Answers)
    /\ wire \in Seq(Nat) /\ buf \in Seq(Nat) /\ given \in Seq(Nat)
    /\ outcome \in {"", "ok"} \cup Raised

BetweenCalls ==
    call = "" =>
        /\ answers = <<>> /\ wire = <<>> /\ buf = <<>> /\ given = <<>>
        /\ outcome = ""

\* A request that goes on has met nothing but silence, at once or half way.
RequestInv ==
    call = "request" =>
        /\ wire = <<>> /\ buf = <<>>
        /\ Len(answers) <= MaxRetries
        /\ \A i \in 1..Len(answers) - 1 : answers[i] \in {"none", "stalled"}
        /\ outcome = "" =>
              given = <<>> /\ \A i \in 1..Len(answers) : answers[i] \in {"none", "stalled"}
        /\ outcome = "ok" =>
              answers # <<>> /\ answers[Len(answers)] = "export" /\ given = Body

\* The parser, the buffer and the wire have the answer between them.
StreamInv ==
    call = "stream" =>
        /\ answers = <<>> => wire = <<>> /\ buf = <<>> /\ given = <<>> /\ outcome = ""
        /\ outcome \in {"", "ok"} => given \o buf \o wire = Whole
        /\ outcome = "ok" => buf = <<>> /\ wire = <<>>

FetchInv == CallTypes /\ BetweenCalls /\ RequestInv /\ StreamInv

\* A body is a sequence of units.
LEMMA ContentType == \A answer \in Answers : Content(answer) \in Seq(Nat)
<1>1. Body \in Seq(Nat)
  <2>1. \A i \in 1..BodyLength : i \in Nat OBVIOUS
  <2>2. BodyLength \in Nat BY FetchAssumption
  <2>3. Body \in [1..BodyLength -> Nat] BY <2>1 DEF Body
  <2> QED BY <2>2, <2>3
<1>2. <<0>> \in Seq(Nat) /\ <<>> \in Seq(Nat) OBVIOUS
<1> QED BY <1>1, <1>2 DEF Content

\* What the library says of the sequences used here.
LEMMA EmptyUnits ==
    ASSUME NEW s \in Seq(Nat)
    PROVE  s \o <<>> = s /\ <<>> \o s = s /\ <<>> \in Seq(Nat) /\ <<>> \o <<>> = <<>>
BY ConcatEmptySeq

LEMMA Regroup ==
    ASSUME NEW a \in Seq(Nat), NEW b \in Seq(Nat), NEW c \in Seq(Nat)
    PROVE  (a \o b) \o c = a \o (b \o c)
BY ConcatAssociative

LEMMA OneMore ==
    ASSUME NEW S, NEW s \in Seq(S), NEW e \in S
    PROVE  /\ Append(s, e) \in Seq(S) /\ Append(s, e) # <<>>
           /\ Len(s) \in Nat /\ Len(Append(s, e)) = Len(s) + 1
           /\ \A i \in 1..Len(s) : Append(s, e)[i] = s[i]
           /\ Append(s, e)[Len(s) + 1] = e
BY AppendProperties

\* The first n units of a sequence and the others are the sequence.
LEMMA Split ==
    ASSUME NEW s \in Seq(Nat), NEW n \in 0..Len(s)
    PROVE  /\ SubSeq(s, 1, n) \in Seq(Nat) /\ SubSeq(s, n + 1, Len(s)) \in Seq(Nat)
           /\ SubSeq(s, 1, n) \o SubSeq(s, n + 1, Len(s)) = s
<1>1. /\ Len(s) \in Nat /\ 1 \in 1..Len(s) + 1 /\ n \in 1 - 1..Len(s)
      /\ Len(s) \in n..Len(s)
  OBVIOUS
<1>2. SubSeq(s, 1, n) \in Seq(Nat) /\ SubSeq(s, n + 1, Len(s)) \in Seq(Nat)
  BY <1>1, SubSeqProperties
<1>3. SubSeq(s, 1, n) \o SubSeq(s, n + 1, Len(s)) = SubSeq(s, 1, Len(s))
  BY <1>1, ConcatAdjacentSubSeq
<1> QED BY <1>2, <1>3, SubSeqFull

\* One turn of the loop of request(): an answer after nothing but silence.
LEMMA PostStep ==
    ASSUME FetchInv, NEW answer \in Answers, Post(answer)
    PROVE  FetchInv'
<1>1. answers \in Seq(Answers) BY DEF FetchInv, CallTypes
<1>2. /\ call = "request" /\ call' = "request" /\ outcome = ""
      /\ wire = <<>> /\ buf = <<>> /\ wire' = wire /\ buf' = buf
      /\ wire \in Seq(Nat) /\ buf \in Seq(Nat)
  BY DEF FetchInv, CallTypes, RequestInv, Post, Running
<1>3. Len(answers) < MaxRetries /\ answers' = Append(answers, answer)
  BY DEF Post
<1>4. \A i \in 1..Len(answers) : answers[i] \in {"none", "stalled"}
  BY <1>2 DEF FetchInv, RequestInv
<1>5. /\ answers' \in Seq(Answers) /\ answers' # <<>>
      /\ Len(answers) \in Nat /\ Len(answers') = Len(answers) + 1
      /\ \A i \in 1..Len(answers) : answers'[i] = answers[i]
      /\ answers'[Len(answers) + 1] = answer
  BY <1>1, <1>3, OneMore
<1>6. /\ outcome' = Result(answer)
      /\ given' = IF outcome' = "ok" THEN Content(answer) ELSE <<>>
  BY DEF Post
<1>7. /\ outcome' \in {"", "ok"} \cup Raised
      /\ outcome' = "ok" => answer = "export" /\ given' = Body
      /\ outcome' # "ok" => given' = <<>>
      /\ outcome' = "" => answer \in {"none", "stalled"}
  BY <1>6 DEF Result, Raised, Answers, Cuts, Content
<1>8. given' \in Seq(Nat) BY <1>6, ContentType
<1>9. CallTypes' BY <1>2, <1>5, <1>7, <1>8 DEF CallTypes
<1>10. RequestInv'
  <2>1. MaxRetries \in Nat BY FetchAssumption
  <2>2. Len(answers') <= MaxRetries BY <1>3, <1>5, <2>1
  <2>3. \A i \in 1..Len(answers') - 1 : answers'[i] \in {"none", "stalled"} BY <1>4, <1>5
  <2>4. answers'[Len(answers')] = answer BY <1>5
  <2>5. answer \in {"none", "stalled"} =>
          \A i \in 1..Len(answers') : answers'[i] \in {"none", "stalled"}
    BY <1>4, <1>5
  <2> QED BY <1>2, <1>5, <1>7, <2>2, <2>3, <2>4, <2>5 DEF RequestInv
<1> QED BY <1>2, <1>9, <1>10 DEF FetchInv, BetweenCalls, StreamInv

\* stream_request's post puts the answer on the wire.
LEMMA PostStreamStep ==
    ASSUME FetchInv, NEW answer \in Answers, PostStream(answer)
    PROVE  FetchInv'
<1>1. /\ call = "stream" /\ call' = "stream" /\ answers' = <<answer>>
      /\ wire' = Content(answer) /\ buf' = buf /\ given' = given
      /\ buf = <<>> /\ given = <<>> /\ buf \in Seq(Nat) /\ given \in Seq(Nat)
  BY DEF FetchInv, CallTypes, StreamInv, PostStream, Running
<1>2. outcome' \in {"", "TallyConnectionError", "HTTPError"} BY DEF PostStream
<1>3. answers' \in Seq(Answers) /\ answers' # <<>> /\ answers'[Len(answers')] = answer
  BY <1>1
<1>4. wire' \in Seq(Nat) BY <1>1, ContentType
<1>5. Whole' = wire' BY <1>1, <1>3 DEF Whole
<1>6. given' \o buf' \o wire' = Whole' BY <1>1, <1>4, <1>5, EmptyUnits
<1>7. CallTypes' BY <1>1, <1>2, <1>3, <1>4 DEF CallTypes, Raised
<1>8. StreamInv' BY <1>1, <1>2, <1>3, <1>6 DEF StreamInv
<1> QED BY <1>1, <1>7, <1>8 DEF FetchInv, BetweenCalls, RequestInv

\* readinto's next chunk moves from the wire into an empty buffer.
LEMMA NextChunkStep ==
    ASSUME FetchInv, NEW n \in 0..BodyLength, NextChunk(n)
    PROVE  FetchInv'
<1>1. /\ call = "stream" /\ outcome = "" /\ answers # <<>>
      /\ wire \in Seq(Nat) /\ given \in Seq(Nat)
      /\ UNCHANGED <<call, answers, given, outcome>>
  BY DEF FetchInv, CallTypes, NextChunk, Streaming, Running
<1>2. /\ buf = <<>> /\ n <= Len(wire)
      /\ buf' = SubSeq(wire, 1, n) /\ wire' = SubSeq(wire, n + 1, Len(wire))
  BY DEF NextChunk
<1>3. given \o buf \o wire = Whole BY <1>1 DEF FetchInv, StreamInv
<1>4. n \in 0..Len(wire)
  <2>1. wire \in Seq(Nat) BY <1>1
  <2>2. Len(wire) \in Nat BY <2>1, LenProperties
  <2> QED BY <1>2, <2>2
<1>5. buf' \in Seq(Nat) /\ wire' \in Seq(Nat) /\ buf' \o wire' = wire
  BY <1>1, <1>2, <1>4, Split
<1>6. given' \o buf' \o wire' = given \o wire
  <2>1. (given \o buf') \o wire' = given \o (buf' \o wire')
    BY <1>1, <1>5, Regroup
  <2> QED BY <1>1, <1>5, <2>1
<1>7. given \o buf \o wire = given \o wire BY <1>1, <1>2, EmptyUnits
<1>8. given' \o buf' \o wire' = Whole' BY <1>1, <1>3, <1>6, <1>7 DEF Whole
<1>9. CallTypes' BY <1>1, <1>5 DEF FetchInv, CallTypes
<1>10. StreamInv' BY <1>1, <1>8 DEF StreamInv, Raised
<1> QED BY <1>1, <1>9, <1>10 DEF FetchInv, BetweenCalls, RequestInv

\* A read moves units from the buffer to the parser.
LEMMA ReadStep ==
    ASSUME FetchInv, NEW n \in 1..MaxRead, Read(n)
    PROVE  FetchInv'
<1> DEFINE m == IF n < Len(buf) THEN n ELSE Len(buf)
           taken == SubSeq(buf, 1, m)
<1>1. /\ call = "stream" /\ outcome = "" /\ answers # <<>>
      /\ wire \in Seq(Nat) /\ buf \in Seq(Nat) /\ given \in Seq(Nat)
      /\ UNCHANGED <<call, answers, wire, outcome>>
  BY DEF FetchInv, CallTypes, Read, Streaming, Running
<1>2. given' = given \o taken /\ buf' = SubSeq(buf, m + 1, Len(buf))
  BY DEF Read, Rest
<1>3. given \o buf \o wire = Whole BY <1>1 DEF FetchInv, StreamInv
<1>4. m \in 0..Len(buf)
  <2>1. buf \in Seq(Nat) BY <1>1
  <2>2. Len(buf) \in Nat /\ n \in Nat BY <2>1, LenProperties, FetchAssumption
  <2> QED BY <2>2
<1> HIDE DEF m
<1>5. taken \in Seq(Nat) /\ buf' \in Seq(Nat) /\ taken \o buf' = buf
  BY <1>1, <1>2, <1>4, Split
<1> HIDE DEF taken
<1>6. given' \in Seq(Nat) BY <1>1, <1>2, <1>5, ConcatProperties
<1>7. (given \o taken) \o buf' = given \o (taken \o buf')
  BY <1>1, <1>5, Regroup
<1>8. given' \o buf' = given \o buf BY <1>2, <1>5, <1>7
<1>9. given' \o buf' \o wire' = Whole' BY <1>1, <1>3, <1>8 DEF Whole
<1>10. CallTypes' BY <1>1, <1>5, <1>6 DEF FetchInv, CallTypes
<1>11. StreamInv' BY <1>1, <1>9 DEF StreamInv, Raised
<1> QED BY <1>1, <1>10, <1>11 DEF FetchInv, BetweenCalls, RequestInv

\* Between calls, and when one begins, there is nothing.
Nothing ==
    /\ call \in {"", "request", "stream"} /\ outcome = ""
    /\ answers = <<>> /\ wire = <<>> /\ buf = <<>> /\ given = <<>>

LEMMA NothingYet == Nothing => FetchInv
<1> SUFFICES ASSUME Nothing PROVE FetchInv OBVIOUS
<1>1. CallTypes BY EmptySeq DEF Nothing, CallTypes
<1>2. Len(answers) = 0 BY EmptySeq DEF Nothing
<1>3. given \o buf \o wire = Whole
  <2>1. <<>> \in Seq(Nat) BY EmptySeq
  <2>2. <<>> \o <<>> \o <<>> = <<>> BY <2>1, EmptyUnits
  <2> QED BY <2>2 DEF Nothing, Whole
<1>4. RequestInv
  <2>1. MaxRetries \in Nat /\ 0 <= MaxRetries BY FetchAssumption
  <2>2. \A i \in 1..Len(answers) - 1 : FALSE BY <1>2
  <2>3. \A i \in 1..Len(answers) : FALSE BY <1>2
  <2> QED BY <1>2, <2>1, <2>2, <2>3 DEF Nothing, RequestInv, Raised
<1>5. StreamInv BY <1>3 DEF Nothing, StreamInv, Raised
<1> QED BY <1>1, <1>4, <1>5 DEF Nothing, FetchInv, BetweenCalls

\* Each step of a call keeps what is known of it.
LEMMA FetchStep ==
    ASSUME FetchInv, [Next]_vars
    PROVE  FetchInv'
<1>1. ASSUME NEW c \in {"request", "stream"}, Call(c) PROVE FetchInv'
  <2>1. /\ call' = c /\ answers' = <<>> /\ wire' = <<>> /\ buf' = <<>> /\ given' = <<>>
        /\ outcome' = ""
    BY <1>1 DEF Call, FetchInv, BetweenCalls
  <2>2. Nothing' BY <2>1 DEF Nothing
  <2> QED BY <2>2, NothingYet, PTL
<1>2. CASE GiveUp
  BY <1>2 DEF GiveUp, Running, FetchInv, CallTypes, BetweenCalls, RequestInv,
              StreamInv, Raised
<1>3. CASE Eof
  <2>1. /\ call = "stream" /\ outcome = "" /\ answers # <<>> /\ outcome' = "ok"
        /\ buf = <<>> /\ wire = <<>>
        /\ UNCHANGED <<call, answers, wire, buf, given>>
        /\ given \o buf \o wire = Whole
    BY <1>3 DEF Eof, AtEnd, Streaming, Running, FetchInv, StreamInv
  <2>2. given' \o buf' \o wire' = Whole' BY <2>1 DEF Whole
  <2> QED
    BY <2>1, <2>2 DEF FetchInv, CallTypes, BetweenCalls, RequestInv, StreamInv, Raised
<1>4. ASSUME NEW how \in Cuts, Break(how) PROVE FetchInv'
  <2>1. /\ call = "stream" /\ answers # <<>>
        /\ outcome' \in {"TallyConnectionError", "ChunkedEncodingError"}
        /\ wire' = <<>> /\ UNCHANGED <<call, answers, buf, given>>
    BY <1>4 DEF Break, Streaming, Running
  <2>2. CallTypes' BY <2>1, EmptySeq DEF FetchInv, CallTypes, Raised
  <2>3. StreamInv' BY <2>1 DEF StreamInv
  <2> QED BY <2>1, <2>2, <2>3 DEF FetchInv, BetweenCalls, RequestInv
<1>5. CASE Return
  <2>1. /\ call' = "" /\ answers' = <<>> /\ wire' = <<>> /\ buf' = <<>> /\ given' = <<>>
        /\ outcome' = ""
    BY <1>5 DEF Return
  <2>2. Nothing' BY <2>1 DEF Nothing
  <2> QED BY <2>2, NothingYet, PTL
<1>6. CASE UNCHANGED vars
  BY <1>6 DEF vars, FetchInv, CallTypes, BetweenCalls, RequestInv, StreamInv, Whole
<1> QED
  BY <1>1, <1>2, <1>3, <1>4, <1>5, <1>6, PostStep, PostStreamStep, NextChunkStep, ReadStep
  DEF Next, Work

\* Every reachable state of the two threads satisfies FetchInv.
LEMMA FetchInvHolds == ClientSpec => []FetchInv
<1>1. ClientInit => FetchInv
  BY NothingYet DEF ClientInit, Init, Nothing
<1>2. FetchInv /\ [ClientNext]_<<vars, healthVars>> => FetchInv'
  BY FetchStep DEF ClientNext
<1> QED BY <1>1, <1>2, PTL DEF ClientSpec

\* The units of a stream reach the parser in order, each once, for bodies,
\* chunks and reads of any size (app/sync/streaming.py:18-29).
THEOREM StreamKeepsOrder == ClientSpec => []NothingLostOrRepeated
<1>1. FetchInv => NothingLostOrRepeated
  BY DEF FetchInv, StreamInv, NothingLostOrRepeated
<1> QED BY <1>1, FetchInvHolds, PTL

\* A call that returns has given its caller a whole answer, whatever answers
\* were cut short before and wherever a stream may have been
\* (app/client/tally_client.py:110-183, app/sync/streaming.py:18-25).
THEOREM CallsReturnWhole == ClientSpec => []ReturnsWhole
<1>1. ASSUME FetchInv PROVE ReturnsWhole
  <2>1. SUFFICES ASSUME outcome = "ok" PROVE given = Whole BY DEF ReturnsWhole
  <2>2. CASE call = "request"
    BY <1>1, <2>1, <2>2 DEF FetchInv, RequestInv, Whole, Content
  <2>3. CASE call = "stream"
    <3>1. given \o <<>> \o <<>> = Whole /\ given \in Seq(Nat)
      BY <1>1, <2>1, <2>3 DEF FetchInv, CallTypes, StreamInv
    <3> QED BY <3>1, ConcatEmptySeq
  <2> QED BY <1>1, <2>1, <2>2, <2>3 DEF FetchInv, CallTypes, BetweenCalls
<1> QED BY <1>1, FetchInvHolds, PTL

\* Only silence, at once or half way through an answer, is answered with another
\* post, max_retries times at most (app/client/tally_client.py:113-132).
THEOREM OnlySilenceIsRetried == ClientSpec => []RetriesOnlySilence
<1>1. FetchInv => RetriesOnlySilence
  BY DEF FetchInv, RequestInv, RetriesOnlySilence
<1> QED BY <1>1, FetchInvHolds, PTL

(***************************************************************************)
(* The health checker.                                                     *)
(***************************************************************************)

Checks == [force : BOOLEAN, now : Nat]
Healths == [began : Nat, is_alive : BOOLEAN]

ClockInv == now \in Nat /\ invalidated \in 0..now /\ cacheTs \in Nat

\* The check in progress was begun after the last invalidate() and after the
\* probe whose result the cache has.
CheckingInv ==
    checking = <<>> \/
    \E check \in Checks :
        /\ checking = <<check>>
        /\ check.now \in invalidated..now
        /\ cached # <<>> => cacheTs <= check.now

\* The cache's time is that at which its probe began.
CachedInv ==
    cached = <<>> \/
    \E health \in Healths :
        /\ cached = <<health>>
        /\ health.began = cacheTs /\ cacheTs \in invalidated..now

ReturnedInv ==
    returned = <<>> \/
    \E check \in Checks, health \in Healths :
        /\ returned = <<[check |-> check, health |-> health]>>
        /\ health.began \in invalidated..check.now
        /\ check.now - health.began < Lifetime \/ check.now = health.began
        /\ check.force => check.now = health.began

HealthInv == ClockInv /\ CheckingInv /\ CachedInv /\ ReturnedInv

\* Each step of the checker, and the clock's.
LEMMA HealthStep ==
    ASSUME HealthInv, [HealthNext]_healthVars
    PROVE  HealthInv'
<1> USE HealthAssumption
<1>1. CASE Tick
  <2>1. now' = now + 1 /\ UNCHANGED <<checking, cached, cacheTs, returned, invalidated>>
    BY <1>1 DEF Tick, checkVars
  <2>2. ClockInv' BY <2>1 DEF HealthInv, ClockInv
  <2>3. CheckingInv' BY <2>1 DEF HealthInv, ClockInv, CheckingInv, Checks
  <2>4. CachedInv' BY <2>1 DEF HealthInv, ClockInv, CachedInv
  <2>5. ReturnedInv' BY <2>1 DEF HealthInv, ReturnedInv
  <2> QED BY <2>2, <2>3, <2>4, <2>5 DEF HealthInv
<1>2. ASSUME NEW force \in BOOLEAN, Check(force) PROVE HealthInv'
  <2> DEFINE check == [force |-> force, now |-> now]
  <2>1. /\ checking' = <<check>>
        /\ UNCHANGED <<now, cached, cacheTs, invalidated, returned>>
    BY <1>2 DEF Check
  <2>2. check \in Checks /\ check.now = now /\ check.now \in invalidated..now
    BY DEF HealthInv, ClockInv, Checks
  <2>3. cached # <<>> => cacheTs <= now
    BY DEF HealthInv, ClockInv, CachedInv
  <2> HIDE DEF check
  <2>4. CheckingInv' BY <2>1, <2>2, <2>3 DEF CheckingInv
  <2> QED BY <2>1, <2>4 DEF HealthInv, ClockInv, CachedInv, ReturnedInv
<1>3. CASE Hit
  <2>1. PICK check \in Checks :
            checking = <<check>> /\ check.now \in invalidated..now
            /\ (cached # <<>> => cacheTs <= check.now)
    BY <1>3 DEF Hit, HealthInv, CheckingInv
  <2>2. ~check.force /\ cached # <<>> /\ check.now - cacheTs < Lifetime
    BY <1>3, <2>1 DEF Hit, Cached
  <2>3. PICK health \in Healths :
            cached = <<health>> /\ health.began = cacheTs /\ cacheTs \in invalidated..now
    BY <2>2 DEF HealthInv, CachedInv
  <2>4. /\ returned' = <<[check |-> check, health |-> health]>> /\ checking' = <<>>
        /\ UNCHANGED <<now, cached, cacheTs, invalidated>>
    BY <1>3, <2>1, <2>3 DEF Hit
  <2>5. health.began \in invalidated..check.now
    BY <2>1, <2>2, <2>3 DEF HealthInv, ClockInv, Checks
  <2>6. ReturnedInv' BY <2>2, <2>3, <2>4, <2>5 DEF ReturnedInv
  <2> QED BY <2>4, <2>6 DEF HealthInv, ClockInv, CheckingInv, CachedInv
<1>4. ASSUME NEW answer \in Answers, Probe(answer) PROVE HealthInv'
  <2>1. PICK check \in Checks : checking = <<check>> /\ check.now \in invalidated..now
    BY <1>4 DEF Probe, HealthInv, CheckingInv
  <2> DEFINE health == [began |-> check.now, is_alive |-> IsAlive(answer)]
  <2>2. /\ cached' = <<health>> /\ cacheTs' = check.now /\ checking' = <<>>
        /\ returned' = <<[check |-> check, health |-> health]>>
        /\ UNCHANGED <<now, invalidated>>
    BY <1>4, <2>1 DEF Probe, CacheTime
  <2>3. health \in Healths /\ health.began = check.now /\ check.now \in Nat
    BY DEF Healths, Checks, IsAlive
  <2> HIDE DEF health
  <2>4. CachedInv' BY <2>1, <2>2, <2>3 DEF CachedInv
  <2>5. ReturnedInv'
    BY <2>1, <2>2, <2>3 DEF ReturnedInv, HealthInv, ClockInv
  <2> QED BY <2>2, <2>3, <2>4, <2>5 DEF HealthInv, ClockInv, CheckingInv
<1>5. CASE Invalidate
  BY <1>5 DEF Invalidate, HealthInv, ClockInv, CheckingInv, CachedInv, ReturnedInv
<1>6. CASE UNCHANGED healthVars
  BY <1>6 DEF healthVars, checkVars, HealthInv, ClockInv, CheckingInv, CachedInv, ReturnedInv
<1> QED BY <1>1, <1>2, <1>3, <1>4, <1>5, <1>6 DEF HealthNext

\* What check() returns is no older than the cache's lifetime, nor than the
\* last invalidate(), however long the probes take
\* (app/client/tally_health.py:43-44, 74).
THEOREM HealthStaysFresh == ClientSpec => []HealthIsFresh
<1>1. ClientInit => HealthInv
  BY DEF ClientInit, HealthInit, HealthInv, ClockInv, CheckingInv, CachedInv, ReturnedInv
<1>2. HealthInv /\ [ClientNext]_<<vars, healthVars>> => HealthInv'
  <2> SUFFICES ASSUME HealthInv, [ClientNext]_<<vars, healthVars>> PROVE HealthInv'
    OBVIOUS
  <2>1. [HealthNext]_healthVars BY DEF ClientNext
  <2> QED BY <2>1, HealthStep
<1>3. ASSUME HealthInv PROVE HealthIsFresh
  <2> SUFFICES ASSUME NEW i \in DOMAIN returned
               PROVE  LET check == returned[i].check
                          age == check.now - returned[i].health.began
                      IN  /\ returned[i].health.began >= invalidated
                          /\ age < Lifetime \/ age = 0
                          /\ check.force => age = 0
    BY DEF HealthIsFresh
  <2>1. PICK check \in Checks, health \in Healths :
            /\ returned = <<[check |-> check, health |-> health]>>
            /\ health.began \in invalidated..check.now
            /\ check.now - health.began < Lifetime \/ check.now = health.began
            /\ check.force => check.now = health.began
    BY <1>3 DEF HealthInv, ReturnedInv
  <2>2. returned[i].check = check /\ returned[i].health = health BY <2>1
  <2>3. check.now \in Nat /\ health.began \in Nat /\ invalidated \in Nat
    BY <1>3 DEF Checks, Healths, HealthInv, ClockInv
  <2> QED BY <2>1, <2>2, <2>3
<1> QED BY <1>1, <1>2, <1>3, PTL DEF ClientSpec

=============================================================================
