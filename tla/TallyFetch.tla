----------------------------- MODULE TallyFetch -----------------------------
(***************************************************************************)
(* One thread's calls of TallyClient (app/client/tally_client.py): request *)
(* for most entities; stream_request read through IteratorIO               *)
(* (app/sync/streaming.py) for vouchers and purchase orders.  A body is a  *)
(* sequence of units that stand for bytes.  requests, the network and      *)
(* io.BufferedReader with lxml on top of it are external: a chunk has any  *)
(* size, 0 included, a read asks for any positive number of units, and an  *)
(* exception in a read passes through both, and through the frame that has *)
(* the list of what was parsed before it (app/services/voucher.py:51-58).  *)
(***************************************************************************)
EXTENDS Naturals, Sequences

CONSTANTS
    BodyLength, \* bound on the units of a good answer
    MaxRead,    \* bound on the units a read asks for
    MaxRetries  \* settings.tally.max_retries

ASSUME FetchAssumption ==
    BodyLength \in Nat \ {0} /\ MaxRead \in Nat \ {0} /\ MaxRetries \in Nat

\* How a body can be cut short: nothing more comes in time, for which requests
\* raises its ConnectionError; the connection breaks or the body is
\* incomplete, which is its ChunkedEncodingError.
Cuts == {"stalled", "broken"}

\* No answer at all (ConnectionError, Timeout), an HTTP status that
\* raise_for_status raises for, an empty body, a body with STATUS 1 or
\* LINEERROR, the export, or a body that is cut short.
Answers == {"none", "http_error", "empty", "app_error", "export"} \cup Cuts

Body == [i \in 1..BodyLength |-> i]

\* 0 stands for the text of an error.
Content(answer) ==
    CASE answer = "export" -> Body
      [] answer = "app_error" -> <<0>>
      [] OTHER -> <<>>

Raised ==
    {"HTTPError", "ChunkedEncodingError", "TallyConnectionError", "TallyEmptyResponseError",
     "TallyRequestError"}

VARIABLES
    call,       \* "request", "stream" or "" between calls
    answers,    \* what Tally answered to the posts of this call
    wire,       \* what the server has yet to send of the last answer
    buf,        \* IteratorIO._buf
    given,      \* what the parser has been given
    outcome     \* "" while it runs, "ok" or the exception

vars == <<call, answers, wire, buf, given, outcome>>

Init ==
    /\ call = "" /\ answers = <<>>
    /\ wire = <<>> /\ buf = <<>> /\ given = <<>>
    /\ outcome = ""

Running(c) == call = c /\ outcome = ""

Streaming == Running("stream") /\ answers # <<>>

Call(c) ==
    /\ call = ""
    /\ call' = c
    /\ UNCHANGED <<answers, wire, buf, given, outcome>>

\* What becomes of a post of request(), which reads the body too: no answer and
\* half an answer keep the loop going, unless the connection broke.
Result(answer) ==
    CASE answer \in {"none", "stalled"} -> ""
      [] answer = "broken" -> "ChunkedEncodingError"
      [] answer = "http_error" -> "HTTPError"
      [] answer = "empty" -> "TallyEmptyResponseError"
      [] answer = "app_error" -> "TallyRequestError"
      [] answer = "export" -> "ok"

\* Defective variant: whatever is wrong is tried again.
Post_RetriesAll(answer) ==
    /\ Running("request")
    /\ Len(answers) < MaxRetries
    /\ answers' = Append(answers, answer)
    /\ outcome' = IF answer = "export" THEN "ok" ELSE ""
    /\ given' = IF outcome' = "ok" THEN Content(answer) ELSE <<>>
    /\ UNCHANGED <<call, wire, buf>>

\* One turn of the loop.
Post(answer) ==
    /\ Running("request")
    /\ Len(answers) < MaxRetries
    /\ answers' = Append(answers, answer)
    /\ outcome' = Result(answer)
    /\ given' = IF outcome' = "ok" THEN Content(answer) ELSE <<>>
    /\ UNCHANGED <<call, wire, buf>>

\* The loop has had its turns, which are none when max_retries is 0.
GiveUp ==
    /\ Running("request")
    /\ Len(answers) >= MaxRetries
    /\ outcome' = "TallyConnectionError"
    /\ UNCHANGED <<call, answers, wire, buf, given>>

\* The only post of stream_request; the body is not looked at.
PostStream(answer) ==
    /\ Running("stream") /\ answers = <<>>
    /\ answers' = <<answer>>
    /\ wire' = Content(answer)
    /\ outcome' = CASE answer = "none" -> "TallyConnectionError"
                    [] answer = "http_error" -> "HTTPError"
                    [] OTHER -> ""
    /\ UNCHANGED <<call, buf, given>>

\* The loop of readinto takes the next chunk; one of 0 units is skipped.
NextChunk(n) ==
    /\ Streaming
    /\ buf = <<>> /\ wire # <<>>
    /\ n <= Len(wire)
    /\ buf' = SubSeq(wire, 1, n)
    /\ wire' = SubSeq(wire, n + 1, Len(wire))
    /\ UNCHANGED <<call, answers, given, outcome>>

\* Defective variant: what the reader did not ask for is dropped.
Rest_Dropped(n) == <<>>

Rest(n) == SubSeq(buf, n + 1, Len(buf))

\* The end of readinto: at most n units for the reader.
Read(n) ==
    /\ Streaming
    /\ buf # <<>>
    /\ LET m == IF n < Len(buf) THEN n ELSE Len(buf) IN
         /\ given' = given \o SubSeq(buf, 1, m)
         /\ buf' = Rest(m)
    /\ UNCHANGED <<call, answers, wire, outcome>>

\* Defective variant: an empty chunk ends the stream.
AtEnd_EmptyBuffer == buf = <<>>

\* Defective variant: StopIteration is taken for an empty chunk.
AtEnd_Never == FALSE

AtEnd == buf = <<>> /\ wire = <<>>

\* StopIteration: readinto returns 0, the parser is done.
Eof ==
    /\ Streaming
    /\ AtEnd
    /\ outcome' = "ok"
    /\ UNCHANGED <<call, answers, wire, buf, given>>

\* Defective variant: readinto takes any exception for StopIteration.
Break_Swallowed(how) ==
    /\ Streaming
    /\ buf = <<>>
    /\ wire' = <<>>
    /\ UNCHANGED <<call, answers, buf, given, outcome>>

\* The body is cut short while a chunk is awaited, and the generator is at its
\* end.  stream_request catches ConnectionError and Timeout only.
Break(how) ==
    /\ Streaming
    /\ buf = <<>>
    /\ wire' = <<>>
    /\ outcome' = IF how = "stalled" THEN "TallyConnectionError" ELSE "ChunkedEncodingError"
    /\ UNCHANGED <<call, answers, buf, given>>

\* The caller has its bytes or its exception.
Return ==
    /\ outcome # ""
    /\ call' = "" /\ answers' = <<>>
    /\ wire' = <<>> /\ buf' = <<>> /\ given' = <<>>
    /\ outcome' = ""

Work ==
    \/ \E answer \in Answers : Post(answer)
    \/ \E answer \in Answers \ Cuts : PostStream(answer)
    \/ GiveUp
    \/ \E n \in 0..BodyLength : NextChunk(n)
    \/ \E n \in 1..MaxRead : Read(n)
    \/ Eof
    \/ Return

Next ==
    \/ \E c \in {"request", "stream"} : Call(c)
    \/ Work
    \/ \E how \in Cuts : Break(how)

Spec == Init /\ [][Next]_vars

(***************************************************************************)
(* Properties.                                                             *)
(***************************************************************************)

Whole == IF answers = <<>> THEN <<>> ELSE Content(answers[Len(answers)])

\* The units of a stream reach the parser in order, each once, whatever the
\* sizes of the chunks and of the reads (app/sync/streaming.py:18-29).
NothingLostOrRepeated ==
    call = "stream" /\ outcome \in {"", "ok"} => given \o buf \o wire = Whole

\* A call that returns has given its caller a whole answer: neither a request
\* that came through after some bodies were cut short nor a stream, which may
\* be cut short after any unit, ever passes a part for it, although the parser
\* accepts what it has when the reader reports the end
\* (app/client/tally_client.py:110-183, app/sync/streaming.py:18-25,
\* app/parser/base.py:75).
ReturnsWhole == outcome = "ok" => given = Whole

\* Only a post that no whole answer came for in time is followed by another,
\* max_retries times at most; a connection that breaks within the answer is
\* not such a post, and a request never takes an error for an export
\* (app/client/tally_client.py:113-132).
RetriesOnlySilence ==
    call = "request" =>
        /\ Len(answers) <= MaxRetries
        /\ \A i \in 1..Len(answers) - 1 : answers[i] \in {"none", "stalled"}
        /\ outcome = "ok" => answers[Len(answers)] = "export"

\* Each call ends.
CallsEnd == call # "" ~> call = ""
=============================================================================
