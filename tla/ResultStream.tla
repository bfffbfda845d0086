---------------------------- MODULE ResultStream ----------------------------
(***************************************************************************)
(* The stream of results of one load test: the collector task that reports *)
(* once a second (share_result.rs), the end of batch(), which makes the    *)
(* summary and stops the collector (batch.rs), the task around batch()     *)
(* that closes the stream (run_batch.rs), and the consumer.                *)
(*                                                                         *)
(* Abstracted: all figures but the number of requests, those of one of the *)
(* endpoints, the number of errors, and what is derived from the three     *)
(* across reports, before any smoothing (RateFigures has that); a rate is  *)
(* the difference it is computed from; an engine error is a number, given  *)
(* in the order in which they are raised.                                  *)
(***************************************************************************)
EXTENDS Integers, Sequences, SequencesExt

CONSTANTS
  ChannelCap,  \* capacity of the result channel, 1024 in run_batch()
  Word,        \* usize counts modulo Word, which no counter of a test reaches
  MaxRequests, \* bound of the model: requests of the test
  MaxErrors,   \* bound of the model: failed requests
  Means,       \* bound of the model: the means the last rates may have, in requests
  MaxRaised,   \* bound of the model: engine errors of the test
  MaxTicks     \* bound of the model: live reports

ASSUME StreamAssumption ==
  /\ ChannelCap \in Nat \ {0}
  /\ Word \in Nat \ {0}
  /\ MaxRequests \in Nat /\ MaxErrors \in Nat /\ Means \subseteq Nat
  /\ MaxRaised \in Nat /\ MaxTicks \in Nat
  /\ MaxRequests < Word

VARIABLES
  main,        \* where batch() and the task around it are
  requests,    \* total_requests
  api,         \* total_requests of one of the endpoints
  bad,         \* err_count
  raised,      \* engine errors raised so far
  engine,      \* engine_errors: those nobody has taken yet
  lastErrors,  \* number_of_last_errors
  lastRequests,  \* number_of_last_requests
  known,       \* what api_res_number_map has of the endpoint
  badFinal,    \* err_count_final and total_requests_final
  requestsFinal,
  epsFinal,    \* errors_per_second of the summary
  restFinal,   \* the engine errors the summary carries
  stopped,     \* should_stop_tx has been used or dropped
  collector,   \* where the collector is
  draft,       \* the live report it is working on
  ticks,       \* how many it has begun
  channel,     \* results on their way
  consumer,    \* "reading", "ended" by the mark, "closed" or "dropped"
  received,    \* what the consumer has been given
  lost         \* history: engine errors that went down with a cancelled send

countVars  == <<requests, api, bad>>
lastVars   == <<lastErrors, lastRequests, known>>
engineVars == <<raised, engine, lost>>
mainVars   == <<main, badFinal, requestsFinal, epsFinal, restFinal, stopped>>
tickVars   == <<collector, draft, ticks>>
flowVars   == <<channel, consumer, received>>
vars == <<mainVars, tickVars, flowVars, engineVars, countVars, lastVars>>

Empty ==
  [kind |-> "tick", total |-> 0, rps |-> 0, api |-> 0, apiRps |-> 0, err |-> 0, eps |-> 0,
   rest |-> {}, late |-> FALSE, rpsLate |-> FALSE]

Init ==
  /\ main = "setup"
  /\ requests = 0 /\ api = 0 /\ bad = 0
  /\ lastErrors = 0 /\ lastRequests = 0 /\ known = 0
  /\ badFinal = 0 /\ requestsFinal = 0 /\ epsFinal = 0 /\ restFinal = {}
  /\ raised = 0 /\ engine = {} /\ lost = {}
  /\ stopped = FALSE
  /\ collector = "unborn"
  /\ draft = Empty
  /\ ticks = 0
  /\ channel = <<>>
  /\ consumer = "reading"
  /\ received = <<>>

(* A usize difference: it wraps, the wheels are release builds. *)
Minus(a, b) == (a - b) % Word

-----------------------------------------------------------------------------
(* The test: workers count requests and errors, and everybody may raise an *)
(* engine error, until batch() takes the final figures.                    *)

Testing == main \in {"setup", "test"}

(* A request is counted for the test, and then for its endpoint. Requests  *)
(* of other endpoints are counted for the test only.                       *)
CountRequest ==
  /\ main = "test"
  /\ requests < MaxRequests
  /\ requests' = requests + 1
  /\ UNCHANGED <<mainVars, tickVars, flowVars, engineVars, api, bad, lastVars>>

CountAtEndpoint ==
  /\ main = "test"
  /\ api < requests
  /\ api' = api + 1
  /\ UNCHANGED <<mainVars, tickVars, flowVars, engineVars, requests, bad, lastVars>>

CountError ==
  /\ main = "test"
  /\ bad < requests /\ bad < MaxErrors
  /\ bad' = bad + 1
  /\ UNCHANGED <<mainVars, tickVars, flowVars, engineVars, requests, api, lastVars>>

(* A URL that cannot be rendered, a failed endpoint setup or teardown, a   *)
(* worker that ended with an error or a panic, the global teardown.        *)
RaiseEngineError ==
  /\ Testing
  /\ raised < MaxRaised
  /\ raised' = raised + 1
  /\ engine' = engine \cup {raised'}
  /\ UNCHANGED <<mainVars, tickVars, flowVars, lost, countVars, lastVars>>

-----------------------------------------------------------------------------
(* batch() and run_batch() *)

(* Sending waits for a place in the channel, unless the receiver is gone;  *)
(* then the result is dropped and nobody minds.                            *)
CanSend == consumer = "dropped" \/ Len(channel) < ChannelCap
Send(m) == channel' = IF consumer = "dropped" THEN channel ELSE Append(channel, m)

Step(from, to) == main = from /\ main' = to

(* The collector is spawned once all workers are; a test that cannot start *)
(* never has one.                                                          *)
StartTest ==
  /\ \/ Step("setup", "test") /\ collector' = "tick" /\ UNCHANGED stopped
     \/ Step("setup", "failed") /\ stopped' = TRUE /\ UNCHANGED collector
  /\ UNCHANGED <<badFinal, requestsFinal, epsFinal, restFinal, draft, ticks, flowVars,
                 engineVars, countVars, lastVars>>

(* A header of the global setup or teardown that does not parse panics:    *)
(* the task dies, and with it its sender and should_stop_tx.               *)
Panic ==
  /\ Step("setup", "dead") \/ Step("test", "dead")
  /\ stopped' = TRUE
  /\ UNCHANGED <<badFinal, requestsFinal, epsFinal, restFinal, tickVars, flowVars,
                 engineVars, countVars, lastVars>>

(* Workers, assert workers and the teardown are over (Batch shows that the *)
(* counters rest from here on); the final counters are read.               *)
TakeFinals ==
  /\ Step("test", "rates")
  /\ badFinal' = bad
  /\ requestsFinal' = requests
  /\ UNCHANGED <<epsFinal, restFinal, stopped, tickVars, flowVars, engineVars, countVars, lastVars>>

(* errors_per_second of the summary, from number_of_last_errors ...        *)
LoadLast ==
  /\ Step("rates", "moveLast")
  /\ epsFinal' = Minus(badFinal, lastErrors)
  /\ UNCHANGED <<badFinal, requestsFinal, restFinal, stopped, tickVars, flowVars,
                 engineVars, countVars, lastVars>>

(* ... which then moves on by as much ...                                  *)
MoveLast ==
  /\ Step("moveLast", "mean")
  /\ lastErrors' = (lastErrors + epsFinal) % Word
  /\ UNCHANGED <<badFinal, requestsFinal, epsFinal, restFinal, stopped, tickVars,
                 flowVars, engineVars, countVars, lastRequests, known>>

(* ... and number_of_last_requests, by the mean of the last rates, although*)
(* nothing has been counted.                                               *)
MoveByMean ==
  /\ Step("mean", "rest")
  /\ \E mean \in Means : lastRequests' = (lastRequests + mean) % Word
  /\ UNCHANGED <<badFinal, requestsFinal, epsFinal, restFinal, stopped, tickVars,
                 flowVars, engineVars, countVars, lastErrors, known>>

(* Variant: the summary leaves the engine errors out. *)
RestForgotten ==
  /\ Step("rest", "stop")
  /\ UNCHANGED <<restFinal, badFinal, requestsFinal, epsFinal, stopped, tickVars, flowVars,
                 engineVars, countVars, lastVars>>

(* The percentiles of an empty histogram end batch() with an error, which  *)
(* drops should_stop_tx; otherwise the summary takes what engine errors    *)
(* there are, and leaves them where they are.                              *)
TakeRest ==
  /\ \/ Step("rest", "stop") /\ restFinal' = engine /\ UNCHANGED stopped
     \/ Step("rest", "failed") /\ stopped' = TRUE /\ UNCHANGED restFinal
  /\ UNCHANGED <<badFinal, requestsFinal, epsFinal, tickVars, flowVars, engineVars, countVars,
                 lastVars>>

(* Variant: the collector is not told to stop. *)
StopForgotten ==
  /\ Step("stop", "final")
  /\ UNCHANGED <<badFinal, requestsFinal, epsFinal, restFinal, stopped, tickVars, flowVars,
                 engineVars, countVars, lastVars>>

(* should_stop_tx.send(()).unwrap() *)
StopTicks ==
  /\ Step("stop", "final")
  /\ stopped' = TRUE
  /\ UNCHANGED <<badFinal, requestsFinal, epsFinal, restFinal, tickVars, flowVars,
                 engineVars, countVars, lastVars>>

Summary ==
  [Empty EXCEPT !.kind = "final", !.total = requestsFinal, !.err = badFinal,
                !.eps = epsFinal, !.rest = restFinal]
ErrorResult == [Empty EXCEPT !.kind = "failed"]
EndMark     == [Empty EXCEPT !.kind = "end"]

(* Ok(r) is sent as the summary, Err(e) as a result that carries only e;   *)
(* the end mark follows in both cases.                                     *)
SendSummary ==
  /\ CanSend
  /\ \/ Step("final", "end") /\ Send(Summary)
     \/ Step("failed", "end") /\ Send(ErrorResult)
  /\ UNCHANGED <<badFinal, requestsFinal, epsFinal, restFinal, stopped, tickVars, consumer,
                 received, engineVars, countVars, lastVars>>

(* Variant: the end mark may be sent again. *)
EndMarkTwice ==
  /\ CanSend
  /\ main = "end" /\ main' \in {"end", "done"}
  /\ Send(EndMark)
  /\ UNCHANGED <<badFinal, requestsFinal, epsFinal, restFinal, stopped, tickVars, consumer,
                 received, engineVars, countVars, lastVars>>

SendEndMark ==
  /\ CanSend
  /\ Step("end", "done")
  /\ Send(EndMark)
  /\ UNCHANGED <<badFinal, requestsFinal, epsFinal, restFinal, stopped, tickVars, consumer,
                 received, engineVars, countVars, lastVars>>

MainStep ==
  \/ StartTest \/ Panic \/ TakeFinals \/ LoadLast \/ MoveLast \/ MoveByMean
  \/ TakeRest \/ StopTicks \/ SendSummary \/ SendEndMark

-----------------------------------------------------------------------------
(* collect_results() *)

Collect(from, to) == collector = from /\ collector' = to

(* interval.tick(), then err_count is loaded.  The stop signal is looked at *)
(* only where the loop waits, and a tick that is due may win.              *)
Tick ==
  /\ ticks < MaxTicks
  /\ Collect("tick", "counting")
  /\ ticks' = ticks + 1
  /\ draft' = [Empty EXCEPT !.err = bad]
  /\ UNCHANGED <<mainVars, flowVars, engineVars, countVars, lastVars>>

(* A little later total_requests is. *)
LoadTotal ==
  /\ Collect("counting", "endpoints")
  /\ draft' = [draft EXCEPT !.total = requests]
  /\ UNCHANGED <<mainVars, ticks, flowVars, engineVars, countVars, lastVars>>

(* After the locks of the error tables the counters of the endpoint are    *)
(* read: what is new since the last report goes into api_res_number_map.   *)
LoadEndpoint ==
  LET more == Minus(api, known) IN
  /\ Collect("endpoints", "rates")
  /\ draft' = [draft EXCEPT !.api = api, !.apiRps = more]
  /\ known' = (more + known) % Word
  /\ UNCHANGED <<mainVars, ticks, flowVars, engineVars, countVars, lastErrors, lastRequests>>

(* The errors since the last report ...                                    *)
LoadRates ==
  /\ Collect("rates", "moveLast")
  /\ draft' = [draft EXCEPT !.eps = Minus(draft.err, lastErrors),
                            !.late = main \notin {"test", "rates", "moveLast"}]
  /\ UNCHANGED <<mainVars, ticks, flowVars, engineVars, countVars, lastVars>>

(* Variant: number_of_last_errors moves by the whole count. *)
MoveRatesWholly ==
  /\ Collect("moveLast", "requests")
  /\ lastErrors' = (lastErrors + draft.err) % Word
  /\ UNCHANGED <<mainVars, draft, ticks, flowVars, engineVars, countVars, lastRequests, known>>

(* ... by which number_of_last_errors moves on, and the requests since ... *)
MoveRates ==
  /\ Collect("moveLast", "requests")
  /\ lastErrors' = (lastErrors + draft.eps) % Word
  /\ UNCHANGED <<mainVars, draft, ticks, flowVars, engineVars, countVars, lastRequests, known>>

LoadRequests ==
  /\ Collect("requests", "moveRequests")
  /\ draft' = [draft EXCEPT !.rps = Minus(draft.total, lastRequests),
                            !.rpsLate = main \notin {"test", "rates", "moveLast", "mean"}]
  /\ UNCHANGED <<mainVars, ticks, flowVars, engineVars, countVars, lastVars>>

(* Variant: number_of_last_requests is set to what is counted by now. *)
MoveRequestsToNow ==
  /\ Collect("moveRequests", "drain")
  /\ lastRequests' = requests
  /\ UNCHANGED <<mainVars, draft, ticks, flowVars, engineVars, countVars, lastErrors, known>>

(* ... by which number_of_last_requests moves on.                          *)
MoveRequests ==
  /\ Collect("moveRequests", "drain")
  /\ lastRequests' = (lastRequests + draft.rps) % Word
  /\ UNCHANGED <<mainVars, draft, ticks, flowVars, engineVars, countVars, lastErrors, known>>

(* The engine errors are copied into the report and cleared, under their   *)
(* lock.                                                                   *)
DrainErrors ==
  /\ Collect("drain", "send")
  /\ draft' = [draft EXCEPT !.rest = engine]
  /\ engine' = {}
  /\ UNCHANGED <<mainVars, ticks, flowVars, raised, lost, countVars, lastVars>>

SendTick ==
  /\ CanSend
  /\ Collect("send", "tick")
  /\ Send(draft)
  /\ draft' = Empty
  /\ UNCHANGED <<mainVars, ticks, consumer, received, engineVars, countVars, lastVars>>

(* The signal is seen while the loop waits: for the next tick, or for a    *)
(* place in the channel, and then the report is dropped half sent.         *)
HearStop ==
  /\ stopped
  /\ \/ Collect("tick", "gone") /\ UNCHANGED <<draft, lost>>
     \/ /\ ~CanSend
        /\ Collect("send", "gone")
        /\ lost' = lost \cup draft.rest
        /\ draft' = Empty
  /\ UNCHANGED <<mainVars, ticks, flowVars, raised, engine, countVars, lastVars>>

CollectorStep ==
  \/ Tick \/ LoadTotal \/ LoadEndpoint \/ LoadRates \/ MoveRates \/ LoadRequests
  \/ MoveRequests \/ DrainErrors \/ SendTick \/ HearStop

-----------------------------------------------------------------------------
(* The consumer of the stream *)

(* A reader may read on after the mark: an object used for a second test   *)
(* can do so, see ResultsKept of BatchRunner.                              *)
Reads == consumer \in {"reading", "ended"}

Receive ==
  /\ Reads
  /\ channel # <<>>
  /\ received' = Append(received, Head(channel))
  /\ channel' = Tail(channel)
  /\ consumer' = IF Head(channel).kind = "end" THEN "ended" ELSE consumer
  /\ UNCHANGED <<mainVars, tickVars, engineVars, countVars, lastVars>>

Left == main \in {"done", "dead"}

(* Every sender is gone: recv() returns None to a reader who reads on.     *)
ChannelClosed ==
  /\ Reads
  /\ channel = <<>>
  /\ Left /\ collector \in {"gone", "unborn"}
  /\ consumer' = "closed"
  /\ UNCHANGED <<channel, received, mainVars, tickVars, engineVars, countVars, lastVars>>

(* stop() drops the stream, and with it the receiver; of what the consumer *)
(* was given no more is asked.                                             *)
DropStream ==
  /\ consumer # "dropped"
  /\ consumer' = "dropped"
  /\ channel' = <<>> /\ received' = <<>>
  /\ UNCHANGED <<mainVars, tickVars, engineVars, countVars, lastVars>>

Finished ==
  Left /\ collector \in {"gone", "unborn"} /\ consumer # "reading"

Terminated == Finished /\ UNCHANGED vars

Next ==
  \/ CountRequest \/ CountAtEndpoint \/ CountError \/ RaiseEngineError
  \/ MainStep \/ CollectorStep
  \/ Receive \/ ChannelClosed \/ DropStream
  \/ Terminated

Spec == Init /\ [][Next]_vars

(* Tasks are scheduled.  Between two ticks the collector waits, so it sees *)
(* a pending stop signal sooner or later.  Nothing is assumed of the       *)
(* consumer.                                                               *)
Fairness ==
  /\ WF_vars(MainStep)
  /\ WF_vars(CollectorStep)
  /\ SF_vars(HearStop)

FairSpec == Spec /\ Fairness

-----------------------------------------------------------------------------
(* Properties *)

Report ==
  [kind : {"tick", "final", "failed", "end"}, total : Nat, rps : 0 .. Word - 1,
   api : Nat, apiRps : 0 .. Word - 1, err : Nat, eps : 0 .. Word - 1,
   rest : SUBSET Nat, late : BOOLEAN, rpsLate : BOOLEAN]

(* Types of the stream's state. *)
TypeOK ==
  /\ main \in {"setup", "test", "rates", "moveLast", "mean", "rest", "stop", "final",
               "failed", "end", "done", "dead"}
  /\ requests \in Nat /\ api \in Nat /\ bad \in Nat /\ requestsFinal \in Nat /\ badFinal \in Nat
  /\ raised \in Nat /\ epsFinal \in 0 .. Word - 1
  /\ engine \subseteq Nat /\ lost \subseteq Nat /\ restFinal \subseteq Nat
  /\ lastErrors \in 0 .. Word - 1 /\ lastRequests \in 0 .. Word - 1
  /\ known \in 0 .. Word - 1
  /\ stopped \in BOOLEAN
  /\ collector \in {"unborn", "tick", "counting", "endpoints", "rates", "moveLast",
                   "requests", "moveRequests", "drain", "send", "gone"}
  /\ draft \in Report
  /\ ticks \in Nat
  /\ channel \in Seq(Report) /\ Len(channel) <= ChannelCap
  /\ consumer \in {"reading", "ended", "closed", "dropped"}
  /\ received \in Seq(Report)

(* What the consumer has been given and will be given. *)
Stream == received \o channel
Positions(kinds) == {i \in DOMAIN Stream : Stream[i].kind \in kinds}
Results == {"final", "failed"}

(* The stream a reader relies on: the end mark comes once, and one summary *)
(* or one error result stands before it, whatever the collector still      *)
(* sends.                                                                  *)
EndMarked ==
  /\ \A i, j \in Positions({"end"}) : i = j
  /\ \A i, j \in Positions(Results) : i = j
  /\ \A i \in Positions({"end"}) : \E j \in Positions(Results) : j < i

(* should_stop_tx.send(()).unwrap() does not panic: the collector is there *)
(* to hear it.                                                             *)
StopIsHeard == main = "stop" => collector \notin {"unborn", "gone"}

(* The stream is well formed, and is shut down in order. *)
StreamSound == TypeOK /\ EndMarked /\ StopIsHeard

(* No engine error is forgotten: when everything is over, each has gone    *)
(* into the stream, in a live report or in the summary, although a late    *)
(* report may stand behind the end mark.  The exceptions are a report that *)
(* was cancelled while the channel was full, and a test without a summary. *)
EveryErrorReported ==
  collector = "gone" /\ consumer # "dropped" /\ Positions({"final"}) # {} =>
    1 .. raised \subseteq lost \cup UNION {Stream[i].rest : i \in DOMAIN Stream}

(* The reader sees the test advance: live reports are in the order of the  *)
(* test, and the summary counts at least what the reports before it count. *)
TotalsAdvance ==
  \A i, j \in Positions({"tick", "final"}) :
    i < j /\ (Stream[i].kind = "tick") =>
      \/ Stream[i].total <= Stream[j].total
      \/ \E k \in Positions({"final"}) : k < i

(* errors_per_second of a report never exceeds the errors so far, if the   *)
(* collector took it before batch() moved number_of_last_errors for the    *)
(* summary: until then the usize difference does not wrap.                 *)
DeltasSound ==
  \A i \in DOMAIN Stream :
    Stream[i].kind \in {"tick", "final"} /\ ~Stream[i].late =>
      Stream[i].eps <= Stream[i].err

(* The live figures tell the truth about the test, as far as they can. *)
FiguresSound == TotalsAdvance /\ DeltasSound

(* The rates of the live reports add up to what they count, for the test   *)
(* and for the endpoint: each is what has been counted since the report    *)
(* before it (share_result.rs:195), whatever is counted while a report is  *)
(* made.  The requests per second may be off when the collector reads      *)
(* number_of_last_requests after batch() moved it for the summary.         *)
SinceReport(r, s) ==
  /\ s.rpsLate \/ s.rps = s.total - r.total
  /\ s.apiRps = s.api - r.api
RatesAddUp ==
  LET Ticks == Positions({"tick"}) IN
  \A j \in Ticks :
    \/ (\A i \in Ticks : j <= i) /\ SinceReport(Empty, Stream[j])
    \/ \E i \in Ticks :
         /\ i < j /\ \A k \in Ticks : k <= i \/ j <= k
         /\ SinceReport(Stream[i], Stream[j])

(* A reader that reads on comes to the end of the stream. *)
ReadsOn == WF_vars(consumer = "reading" /\ (Receive \/ ChannelClosed))
StreamEnds == ReadsOn => <>(consumer # "reading")

(* The collector ends whatever the consumer does, and so does the task     *)
(* around batch(), unless the channel is full and whoever has its receiver *)
(* neither reads nor drops it: run_batch() waits for it without a limit.   *)
HeldUp == main # "done" /\ consumer # "dropped" /\ Len(channel) = ChannelCap
TasksEnd == <>[](collector \in {"gone", "unborn"} /\ (Left \/ HeldUp))

(* Both. *)
EverybodyEnds == StreamEnds /\ TasksEnd
=============================================================================
