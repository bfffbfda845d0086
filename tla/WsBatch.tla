-------------------------------- MODULE WsBatch --------------------------------
(***************************************************************************)
(* One WebSocket load test: ws_batch(), the connection workers it spawns   *)
(* endpoint by endpoint, the workers that judge messages                   *)
(* (ws_listening_assert.rs), the collector (share_ws_result.rs), the task  *)
(* that closes the stream (run_ws_batch.rs), and the consumer.             *)
(*                                                                         *)
(* Abstracted: what WsConnection and WsRequests say of one connection; of  *)
(* the figures only the connections, the messages received and the failed  *)
(* judgements are kept, and those only in the summary. Every worker has a  *)
(* permit of its own (ConcurrencyController): to wait for it is to be late *)
(* at the top of the loop.                                                 *)
(***************************************************************************)
EXTENDS Integers, Sequences, FiniteSets, SequencesExt

CONSTANTS
  Worker,        \* the connection workers
  Endpoints,     \* number of endpoints
  EndpointOf,    \* the endpoint of each worker
  Asserted,      \* the endpoints with assert_options
  Breakable,     \* the endpoints whose configuration may turn out wrong
  AssertWorker,  \* the ASSERT_WORKER_COUNT tasks that judge messages
  ConnectLimit,  \* handshakes at a time of one endpoint
  QueueCap,      \* assert_channel_buffer_size
  ChannelCap,    \* capacity of the result channel, 1024 in run_ws_batch()
  MaxOpened,     \* bound of the model: connections opened
  MaxReceived,   \* bound of the model: messages received
  MaxRaised,     \* bound of the model: engine errors
  MaxTicks,      \* bound of the model: live reports
  None           \* nobody holds the lock

Endpoint == 1 .. Endpoints

ASSUME WsBatchAssumption ==
  /\ Endpoints \in Nat \ {0}
  /\ EndpointOf \in [Worker -> Endpoint]
  /\ Asserted \subseteq Endpoint /\ Breakable \subseteq Endpoint
  /\ AssertWorker # {} /\ None \notin AssertWorker
  /\ ConnectLimit \in Nat \ {0} /\ QueueCap \in Nat \ {0} /\ ChannelCap \in Nat \ {0}
  /\ IsFiniteSet(Worker) /\ IsFiniteSet(AssertWorker)
  /\ MaxOpened \in Nat /\ MaxReceived \in Nat /\ MaxTicks \in Nat

VARIABLES
  main,       \* where ws_batch() and the task around it are
  broken,     \* the endpoints whose configuration is wrong
  spawned,    \* endpoints whose workers are spawned
  over,       \* test_end has passed or should_stop is set
  sender,     \* whether ws_batch() holds its end of the assertion channel
  worker,     \* where each connection worker is
  inFlight,   \* permits of connect_limiter in use, per endpoint
  queued,     \* messages waiting to be judged
  receiver,   \* who holds the lock on the receiving end
  judge,      \* where each assert worker is
  opened,     \* connections_opened
  active,     \* concurrent_number
  received,   \* messages_received
  failures,   \* err_count, as far as judgements make it
  owed,       \* history: messages with assertions that are neither judged nor dropped with their connection
  raised,     \* engine errors raised so far
  engine,     \* engine_errors
  lost,       \* history: engine errors that went down with a cancelled send
  collector,  \* where the collector is
  draft,      \* the report it is working on
  ticks,      \* how many it has begun
  stopped,    \* stop_tx has been used
  summary,    \* the WsBatchResult in the making
  channel,    \* results on their way
  consumer,   \* "reading", "ended" by the mark, or "dropped"
  results     \* what the consumer has been given

mainVars == <<main, broken, spawned, over, sender, stopped, summary>>
connVars == <<worker, inFlight, opened, active>>
judgeVars == <<queued, receiver, judge, failures>>
engineVars == <<raised, engine, lost>>
collectVars == <<collector, draft, ticks>>
flowVars == <<channel, consumer, results>>
vars == <<mainVars, connVars, judgeVars, received, owed, engineVars, collectVars, flowVars>>

Empty == [kind |-> "tick", opened |-> 0, active |-> 0, received |-> 0, failures |-> 0, rest |-> {}]
EndMark == [Empty EXCEPT !.kind = "end"]
ErrorResult == [Empty EXCEPT !.kind = "failed"]

HasAssert == Asserted # {}

Init ==
  /\ main = "setup" /\ broken \in SUBSET Breakable /\ spawned = 0 /\ over = FALSE
  /\ sender = FALSE /\ stopped = FALSE /\ summary = Empty
  /\ worker = [w \in Worker |-> "unborn"]
  /\ inFlight = [e \in Endpoint |-> 0]
  /\ opened = 0 /\ active = 0
  /\ queued = 0 /\ receiver = None
  /\ judge = [a \in AssertWorker |-> "closed"]
  /\ failures = 0 /\ received = 0 /\ owed = 0
  /\ raised = 0 /\ engine = {} /\ lost = {}
  /\ collector = "unborn" /\ draft = Empty /\ ticks = 0
  /\ channel = <<>> /\ consumer = "reading" /\ results = <<>>

At(S) == {w \in Worker : worker[w] \in S}

(* One engine error more. A worker that panicked is one to come. *)
Raise ==
  /\ raised' = raised + 1
  /\ engine' = engine \cup {raised'}
  /\ UNCHANGED lost

MayRaise == raised + Cardinality(At({"panicked"})) < MaxRaised

-----------------------------------------------------------------------------
(* ws_batch() *)

Step(from, to) == main = from /\ main' = to
Go(w, from, to) == worker[w] = from /\ worker' = [worker EXCEPT ![w] = to]

(* No endpoint, a ramp too slow, or a global setup that fails end the test *)
(* before anything is spawned. Then come the assertion channel and the     *)
(* workers at its end, if some endpoint has assertions.                    *)
GlobalSetup ==
  /\ \/ /\ Step("setup", "spawn")
        /\ sender' = HasAssert
        /\ judge' = [a \in AssertWorker |-> IF HasAssert THEN "lock" ELSE "closed"]
     \/ Step("setup", "failed") /\ UNCHANGED <<sender, judge>>
  /\ UNCHANGED <<broken, spawned, over, stopped, summary, connVars, queued, receiver, failures,
                 received, owed, engineVars, collectVars, flowVars>>

(* EndpointPrebuilt::build of the next endpoint, then its workers. If it   *)
(* fails, ws_batch() returns the error; the workers of the endpoints       *)
(* before are spawned, and stay.                                           *)
SpawnEndpoint ==
  /\ spawned < Endpoints
  /\ LET e == spawned + 1 IN
     \/ /\ e \notin broken
        /\ Step("spawn", "spawn")
        /\ spawned' = e
        /\ worker' = [w \in Worker |-> IF EndpointOf[w] = e THEN "loop" ELSE worker[w]]
        /\ UNCHANGED sender
     \/ /\ e \in broken
        /\ Step("spawn", "failed")
        /\ sender' = FALSE
        /\ UNCHANGED <<spawned, worker>>
  /\ UNCHANGED <<broken, over, stopped, summary, inFlight, opened, active, judgeVars, received, owed, engineVars,
                 collectVars, flowVars>>

(* drop(tx_assert_opt), and the collector is spawned. *)
StartCollector ==
  /\ spawned = Endpoints
  /\ Step("spawn", "join")
  /\ sender' = FALSE
  /\ collector' = "tick"
  /\ UNCHANGED <<broken, spawned, over, stopped, summary, connVars, judgeVars, received, owed, engineVars,
                 draft, ticks, flowVars>>

(* join_all has all the workers; of one that panicked it has the panic. *)
JoinPanicked ==
  /\ main = "join" /\ At({"ended", "panicked"}) = Worker
  /\ \E w \in Worker : Go(w, "panicked", "ended")
  /\ Raise
  /\ UNCHANGED <<mainVars, inFlight, opened, active, judgeVars, received, owed, collectVars, flowVars>>

JoinWorkers ==
  /\ Step("join", "drain")
  /\ \A w \in Worker : worker[w] = "ended"
  /\ UNCHANGED <<broken, spawned, over, sender, stopped, summary, connVars, judgeVars, received, owed,
                 engineVars, collectVars, flowVars>>

(* Variant: the assert workers are not awaited. *)
DrainNotAwaited ==
  /\ Step("drain", "teardown")
  /\ UNCHANGED <<broken, spawned, over, sender, stopped, summary, connVars, judgeVars, received, owed,
                 engineVars, collectVars, flowVars>>

DrainAsserts ==
  /\ Step("drain", "teardown")
  /\ \A a \in AssertWorker : judge[a] = "closed"
  /\ UNCHANGED <<broken, spawned, over, sender, stopped, summary, connVars, judgeVars, received, owed,
                 engineVars, collectVars, flowVars>>

GlobalTeardown ==
  /\ Step("teardown", "figures")
  /\ (MayRaise /\ Raise) \/ UNCHANGED engineVars
  /\ UNCHANGED <<broken, spawned, over, sender, stopped, summary, connVars, judgeVars, received, owed,
                 collectVars, flowVars>>

TakeFigures ==
  /\ Step("figures", "errors")
  /\ summary' = [kind |-> "final", opened |-> opened, active |-> active,
                 received |-> received, failures |-> failures, rest |-> {}]
  /\ UNCHANGED <<broken, spawned, over, sender, stopped, connVars, judgeVars, received, owed,
                 engineVars, collectVars, flowVars>>

(* Variant: the summary leaves the engine errors to the collector. *)
ErrorsLeft ==
  /\ Step("errors", "stop")
  /\ UNCHANGED <<broken, spawned, over, sender, stopped, summary, connVars, judgeVars, received, owed,
                 engineVars, collectVars, flowVars>>

(* A copy of the engine errors; they stay where they are, and a live       *)
(* report that is still to come repeats them.                              *)
TakeErrors ==
  /\ Step("errors", "stop")
  /\ summary' = [summary EXCEPT !.rest = engine]
  /\ UNCHANGED <<broken, spawned, over, sender, stopped, connVars, judgeVars, received, owed,
                 engineVars, collectVars, flowVars>>

StopCollector ==
  /\ Step("stop", "summary")
  /\ stopped' = TRUE
  /\ UNCHANGED <<broken, spawned, over, sender, summary, connVars, judgeVars, received, owed,
                 engineVars, collectVars, flowVars>>

-----------------------------------------------------------------------------
(* run_ws_batch() *)

CanSend == consumer = "dropped" \/ Len(channel) < ChannelCap
Send(m) == channel' = IF consumer = "dropped" THEN channel ELSE Append(channel, m)

SendSummary ==
  /\ CanSend
  /\ \/ Step("summary", "mark") /\ Send(summary)
     \/ Step("failed", "mark") /\ Send(ErrorResult)
  /\ UNCHANGED <<broken, spawned, over, sender, stopped, summary, connVars, judgeVars, received, owed,
                 engineVars, collectVars, consumer, results>>

SendEndMark ==
  /\ CanSend
  /\ Step("mark", "done")
  /\ Send(EndMark)
  /\ UNCHANGED <<broken, spawned, over, sender, stopped, summary, connVars, judgeVars, received, owed,
                 engineVars, collectVars, consumer, results>>

MainStep ==
  \/ GlobalSetup \/ SpawnEndpoint \/ StartCollector
  \/ JoinPanicked \/ JoinWorkers \/ DrainAsserts \/ GlobalTeardown \/ TakeFigures \/ TakeErrors \/ StopCollector
  \/ SendSummary \/ SendEndMark

TimeUp ==
  /\ ~over
  /\ over' = TRUE
  /\ UNCHANGED <<main, broken, spawned, sender, stopped, summary, connVars, judgeVars, received, owed,
                 engineVars, collectVars, flowVars>>

-----------------------------------------------------------------------------
(* start_ws_concurrency, for one worker *)

Quiet == UNCHANGED <<mainVars, judgeVars, collectVars, flowVars>>

(* Variant: only a connection looks at the time. *)
LoopTopUntimed(w) ==
  /\ Go(w, "loop", "limiter")
  /\ Quiet /\ UNCHANGED <<inFlight, opened, active, received, owed, engineVars>>

(* Between this and the handshake nobody looks at the time again. *)
LoopTop(w) ==
  /\ Go(w, "loop", IF over THEN "teardown" ELSE "limiter")
  /\ Quiet /\ UNCHANGED <<inFlight, opened, active, received, owed, engineVars>>

(* The setup fails and is tried again after a second. *)
SetupFails(w) ==
  /\ Go(w, "limiter", "loop")
  /\ MayRaise /\ Raise
  /\ Quiet /\ UNCHANGED <<inFlight, opened, active, received, owed>>

(* Variant: everybody connects at once. *)
ConnectUnlimited(w) ==
  /\ Go(w, "limiter", "handshake")
  /\ inFlight' = [inFlight EXCEPT ![EndpointOf[w]] = @ + 1]
  /\ Quiet /\ UNCHANGED <<opened, active, received, owed, engineVars>>

(* connect_limiter.acquire().await: there is no limit to the wait. *)
StartConnect(w) ==
  /\ inFlight[EndpointOf[w]] < ConnectLimit
  /\ Go(w, "limiter", "handshake")
  /\ inFlight' = [inFlight EXCEPT ![EndpointOf[w]] = @ + 1]
  /\ Quiet /\ UNCHANGED <<opened, active, received, owed, engineVars>>

Release(w) == inFlight' = [inFlight EXCEPT ![EndpointOf[w]] = @ - 1]

Connect(w) ==
  /\ opened < MaxOpened
  /\ Go(w, "handshake", "open")
  /\ Release(w)
  /\ opened' = opened + 1 /\ active' = active + 1
  /\ Quiet /\ UNCHANGED <<received, owed, engineVars>>

(* Refused or timed out; the policy allows another attempt, or not. *)
ConnectFails(w) ==
  /\ Go(w, "handshake", "loop") \/ Go(w, "handshake", "teardown")
  /\ Release(w)
  /\ Quiet /\ UNCHANGED <<opened, active, received, owed, engineVars>>

(* A message comes; one with assertions has to be handed over first. *)
Message(w) ==
  /\ received < MaxReceived
  /\ received' = received + 1
  /\ \/ /\ EndpointOf[w] \in Asserted
        /\ Go(w, "open", "asserting")
        /\ owed' = owed + 1
     \/ /\ EndpointOf[w] \notin Asserted
        /\ Go(w, "open", "open")
        /\ UNCHANGED owed
  /\ Quiet /\ UNCHANGED <<inFlight, opened, active, engineVars>>

(* Variant: a full channel is not waited for. *)
TryHandOver(w) ==
  /\ Go(w, "asserting", "open")
  /\ queued' = IF queued < QueueCap THEN queued + 1 ELSE queued
  /\ UNCHANGED <<mainVars, inFlight, opened, active, receiver, judge, failures, received, owed, engineVars,
                 collectVars, flowVars>>

HandOver(w) ==
  /\ queued < QueueCap
  /\ Go(w, "asserting", "open")
  /\ queued' = queued + 1
  /\ UNCHANGED <<mainVars, inFlight, opened, active, receiver, judge, failures, received, owed, engineVars,
                 collectVars, flowVars>>

(* The connection ends, for whatever reason, and takes the message with it *)
(* that waits to be judged.                                                *)
Disconnect(w) ==
  /\ \E from \in {"open", "asserting"}, to \in {"loop", "teardown"} :
       /\ Go(w, from, to)
       /\ owed' = IF from = "asserting" THEN owed - 1 ELSE owed
  /\ active' = active - 1
  /\ Quiet /\ UNCHANGED <<inFlight, opened, received, engineVars>>

(* The endpoint's teardown, which may fail; then the worker is gone, its   *)
(* permit is back and its end of the assertion channel dropped.            *)
Teardown(w) ==
  /\ Go(w, "teardown", "ended")
  /\ (MayRaise /\ Raise) \/ UNCHANGED engineVars
  /\ Quiet /\ UNCHANGED <<inFlight, opened, active, received, owed>>

(* A method or a regular expression in the endpoint's setup or teardown    *)
(* that cannot be read panics, and takes the worker with it.               *)
Panics(w) ==
  /\ MayRaise
  /\ Go(w, "limiter", "panicked") \/ Go(w, "teardown", "panicked")
  /\ Quiet /\ UNCHANGED <<inFlight, opened, active, received, owed, engineVars>>

WorkerStep(w) ==
  \/ LoopTop(w) \/ SetupFails(w) \/ StartConnect(w) \/ Connect(w) \/ ConnectFails(w)
  \/ Message(w) \/ HandOver(w) \/ Disconnect(w) \/ Teardown(w)
  \/ Panics(w)

-----------------------------------------------------------------------------
(* spawn_ws_assert_workers and process_ws_assert_task *)

Gone == {"unborn", "ended", "panicked"}
Senders == sender \/ \E w \in Worker : worker[w] \notin Gone

Move(a, from, to) == judge[a] = from /\ judge' = [judge EXCEPT ![a] = to]
Still == UNCHANGED <<mainVars, connVars, received, engineVars, collectVars, flowVars>>

LockReceiver(a) ==
  /\ receiver = None /\ receiver' = a
  /\ Move(a, "lock", "recv")
  /\ Still /\ UNCHANGED <<queued, failures, owed>>

(* The lock is held over the wait and given back with the message. *)
TakeMessage(a) ==
  /\ queued > 0 /\ queued' = queued - 1
  /\ Move(a, "recv", "judge")
  /\ receiver' = None
  /\ Still /\ UNCHANGED <<failures, owed>>

ChannelClosed(a) ==
  /\ queued = 0 /\ ~Senders
  /\ Move(a, "recv", "closed")
  /\ receiver' = None
  /\ Still /\ UNCHANGED <<queued, failures, owed>>

(* Each rule of the message is judged by itself: EveryMessage must be met, *)
(* FirstMatch if its path is there, and again with every message, NoMatch  *)
(* never fails. One failed rule stands for several.                        *)
Judge(a) ==
  /\ Move(a, "judge", "lock")
  /\ owed' = owed - 1
  /\ failures' \in {failures, failures + 1}
  /\ Still /\ UNCHANGED <<queued, receiver>>

JudgeStep(a) == LockReceiver(a) \/ TakeMessage(a) \/ ChannelClosed(a) \/ Judge(a)

-----------------------------------------------------------------------------
(* collect_ws_results(), and the consumer *)

Collect(from, to) == collector = from /\ collector' = to

(* The figures of a live report are snapshots of the counters, and left    *)
(* out.                                                                    *)
Tick ==
  /\ ticks < MaxTicks /\ ticks' = ticks + 1
  /\ Collect("tick", "drain")
  /\ UNCHANGED <<mainVars, connVars, judgeVars, received, owed, engineVars, draft, flowVars>>

DrainErrors ==
  /\ Collect("drain", "send")
  /\ draft' = [draft EXCEPT !.rest = engine]
  /\ engine' = {}
  /\ UNCHANGED <<mainVars, connVars, judgeVars, received, owed, raised, lost, ticks, flowVars>>

SendTick ==
  /\ CanSend
  /\ Collect("send", "tick")
  /\ Send(draft)
  /\ draft' = Empty
  /\ UNCHANGED <<mainVars, connVars, judgeVars, received, owed, engineVars, ticks, consumer, results>>

(* Seen where the loop waits: for its next tick, or for a place in the     *)
(* channel, and then the report goes down with the send.                   *)
HearStop ==
  /\ stopped
  /\ \/ Collect("tick", "gone") /\ UNCHANGED <<draft, lost>>
     \/ /\ ~CanSend
        /\ Collect("send", "gone")
        /\ lost' = lost \cup draft.rest
        /\ draft' = Empty
  /\ UNCHANGED <<mainVars, connVars, judgeVars, received, owed, raised, engine, ticks, flowVars>>

CollectorStep == Tick \/ DrainErrors \/ SendTick \/ HearStop

ReceiveResult ==
  /\ consumer = "reading" /\ channel # <<>>
  /\ results' = Append(results, Head(channel))
  /\ channel' = Tail(channel)
  /\ consumer' = IF Head(channel).kind = "end" THEN "ended" ELSE "reading"
  /\ UNCHANGED <<mainVars, connVars, judgeVars, received, owed, engineVars, collectVars>>

(* stop() drops the stream. *)
DropStream ==
  /\ consumer # "dropped"
  /\ consumer' = "dropped"
  /\ channel' = <<>>
  /\ UNCHANGED <<mainVars, connVars, judgeVars, received, owed, engineVars, collectVars, results>>

-----------------------------------------------------------------------------

(* Nothing of the test is left but what the caller holds. *)
Quieted ==
  /\ \A w \in Worker : worker[w] \in Gone
  /\ \A a \in AssertWorker : judge[a] = "closed"

Finished == main = "done" /\ Quieted /\ collector \in {"unborn", "gone"} /\ consumer # "reading"

Terminated == Finished /\ over /\ UNCHANGED vars

Next ==
  \/ MainStep \/ TimeUp
  \/ \E w \in Worker : WorkerStep(w)
  \/ \E a \in AssertWorker : JudgeStep(a)
  \/ CollectorStep
  \/ ReceiveResult \/ DropStream
  \/ Terminated

Spec == Init /\ [][Next]_vars

(* Some task that can go on does, time passes, a handshake ends one way or *)
(* the other, and so does a connection once the test is over (WorkerEnds   *)
(* of WsConnection, for a peer that reads); the caller reads on or lets    *)
(* go. No task is promised a fair share.                                   *)
Fairness ==
  /\ WF_vars(MainStep) /\ WF_vars(TimeUp)
  /\ WF_vars(\E w \in Worker : \/ LoopTop(w) \/ StartConnect(w) \/ Connect(w) \/ ConnectFails(w)
                               \/ (over /\ Disconnect(w)) \/ Teardown(w))
  /\ WF_vars(\E a \in AssertWorker : JudgeStep(a))
  /\ WF_vars(CollectorStep)
  /\ WF_vars(ReceiveResult \/ DropStream)

FairSpec == Spec /\ Fairness

-----------------------------------------------------------------------------
(* Properties *)

TypeOK ==
  /\ main \in {"setup", "spawn", "join", "drain", "teardown", "figures", "errors", "stop",
               "summary", "failed", "mark", "done"}
  /\ broken \in SUBSET Breakable /\ spawned \in 0 .. Endpoints
  /\ over \in BOOLEAN /\ sender \in BOOLEAN /\ stopped \in BOOLEAN
  /\ worker \in [Worker -> {"unborn", "loop", "limiter", "handshake", "open", "asserting",
                            "teardown", "ended", "panicked"}]
  /\ inFlight \in [Endpoint -> 0 .. ConnectLimit]
  /\ opened \in 0 .. MaxOpened /\ active \in 0 .. opened
  /\ queued \in 0 .. QueueCap /\ receiver \in AssertWorker \cup {None}
  /\ judge \in [AssertWorker -> {"lock", "recv", "judge", "closed"}]
  /\ received \in 0 .. MaxReceived /\ owed \in 0 .. received
  /\ collector \in {"unborn", "tick", "drain", "send", "gone"} /\ ticks \in 0 .. MaxTicks
  /\ Len(channel) <= ChannelCap
  /\ consumer \in {"reading", "ended", "dropped"}

(* No more handshakes are on their way to an endpoint than its limiter     *)
(* allows, and none of the limiter's permits is lost, whichever way a      *)
(* handshake ends.                                                         *)
HandshakesLimited ==
  \A e \in Endpoint :
    /\ Cardinality({w \in At({"handshake"}) : EndpointOf[w] = e}) <= ConnectLimit
    /\ main = "done" /\ Quieted => inFlight[e] = 0

(* No channel, limiter or counter goes beyond its bounds. *)
LimitsKept == TypeOK /\ HandshakesLimited

(* Every message with assertions is judged once, is on its way to be, or   *)
(* was dropped with the connection that waited to hand it over.            *)
EveryMessageJudged ==
  owed = queued + Cardinality(At({"asserting"})) + Cardinality({a \in AssertWorker : judge[a] = "judge"})

(* The figures of a summary are the last ones: nothing is connected, sent  *)
(* or judged after they were taken.                                        *)
SummaryFinal ==
  summary.kind = "final" =>
    /\ Quieted
    /\ summary.active = 0 /\ active = 0
    /\ summary.opened = opened /\ summary.received = received /\ summary.failures = failures

(* When the stream is closed, the test is over: nothing of it runs on,     *)
(* unless the configuration of a later endpoint was wrong. Then the        *)
(* workers of the endpoints before it go on, with nobody to report them.   *)
QuietAfterEnd == main = "done" => Quieted \/ broken # {}

(* What a test has reported, and closed, stays as it is. *)
NothingRunsOn == SummaryFinal /\ QuietAfterEnd

(* No engine error of a test that comes to its summary is forgotten: it    *)
(* waits for the next report (until the summary is made), or is in the     *)
(* summary or another report, or in one that was dropped half sent.        *)
Reported == UNION {results[i].rest : i \in DOMAIN results}
OnTheWay == UNION {channel[i].rest : i \in DOMAIN channel}
Waiting  == IF summary.kind = "final" /\ main # "errors" THEN {} ELSE engine
Reads    == consumer # "dropped"
EveryErrorReported ==
  (Reads /\ spawned = Endpoints) =>
    1 .. raised \subseteq Waiting \cup draft.rest \cup summary.rest \cup Reported \cup OnTheWay \cup lost

(* The consumer is given one result that is not a live report, and the     *)
(* mark after it.                                                          *)
EndMarked ==
  consumer = "ended" =>
    /\ Last(results).kind = "end"
    /\ Cardinality({i \in DOMAIN results : results[i].kind \in {"final", "failed"}}) = 1

(* The stream tells the consumer all there is to tell. *)
ResultsDelivered == EveryErrorReported /\ EndMarked

(* The workers, the assert workers and the collector all end, in a test    *)
(* that fails half-way too, and the caller comes to the end.               *)
TestEnds == <>[]Finished
================================================================================
