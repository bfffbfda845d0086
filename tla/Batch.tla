------------------------------- MODULE Batch -------------------------------
(***************************************************************************)
(* One HTTP load test: batch(), the request workers it spawns              *)
(* (start_task.rs) and the workers that judge responses                    *)
(* (listening_assert.rs).                                                  *)
(*                                                                         *)
(* Kept: every place where a task waits or leaves, and every statement     *)
(* that counts or records a request.  Abstracted: the contents of          *)
(* requests and responses, times, sizes and histograms (whether anything   *)
(* is in the histogram is all batch() reacts to), and the assertions,      *)
(* whose verdict is one of three.  A counter of the whole test and its     *)
(* counterpart of the endpoint are always changed next to each other, so   *)
(* only the former is kept.                                                *)
(***************************************************************************)
EXTENDS Integers, FiniteSets

CONSTANTS
  Worker,        \* the tasks that send requests
  Endpoint,      \* the endpoints of the test
  EndpointOf,    \* the endpoint each worker belongs to
  Asserted,      \* the endpoints with assert_options
  AssertWorker,  \* the ASSERT_WORKER_COUNT tasks that judge responses
  QueueCap,      \* capacity of the assertion channel
  Verbose,       \* whether responses are printed
  MaxRequests,   \* bound of the model on the requests sent
  None           \* no report, no lock holder

ASSUME BatchAssumption ==
  /\ IsFiniteSet(Worker)
  /\ IsFiniteSet(AssertWorker)
  /\ AssertWorker # {}
  /\ EndpointOf \in [Worker -> Endpoint]
  /\ Asserted \subseteq Endpoint
  /\ QueueCap \in Nat \ {0}
  /\ Verbose \in BOOLEAN
  /\ None \notin AssertWorker

VARIABLES
  main,        \* where batch() is
  over,        \* test_end has passed or should_stop is set
  sender,      \* whether batch() still holds its end of the channel
  issued,      \* permits released so far, per endpoint
  available,   \* permits in the semaphore, per endpoint
  worker,      \* where each request worker is
  queued,      \* judgements waiting in the channel
  receiver,    \* who holds the lock on the receiving end
  judge,       \* where each assert worker is
  total,       \* total_requests
  success,     \* successful_requests
  errors,      \* err_count
  sampled,     \* whether the response time histogram has an entry
  started,     \* concurrent_number
  httpErrors,  \* sum of the entries of http_errors
  assertErrors,\* sum of the entries of assert_errors
  unjudged,    \* history: responses that were neither a success nor an error
  repeated,    \* history: second errors of one request
  report       \* what batch() returned

counters == <<total, success, errors, sampled, started, httpErrors,
              assertErrors, unjudged, repeated>>
control  == <<main, over, sender, issued, available, report>>
judging  == <<queued, receiver, judge>>
vars     == <<control, worker, judging, counters>>

Ended     == {"exited", "failed", "crashed", "unrecorded"}
Places    == {"unborn", "permit", "loop", "retry", "send", "body", "assert",
              "record", "broken", "errorBody", "errorText", "wrapup"} \cup Ended
Stations   == {"lock", "recv", "judge", "closed"}
MainPlaces == {"setup", "spawn", "drop", "join", "drain", "teardown", "final",
               "returned"}

Failure == [ok |-> FALSE]
ReportOf(t, s, e) == [ok |-> TRUE, total |-> t, success |-> s, errors |-> e]

WorkersOf(e) == {w \in Worker : EndpointOf[w] = e}
HasAssert    == Asserted # {}

(* The channel is closed for the receiver once every sender is gone. *)
Senders == sender \/ \E w \in Worker : worker[w] \notin Ended \cup {"unborn"}

Init ==
  /\ main = "setup"
  /\ over = FALSE
  /\ sender = TRUE
  /\ issued = [e \in Endpoint |-> 0]
  /\ available = [e \in Endpoint |-> 0]
  /\ worker = [w \in Worker |-> "unborn"]
  /\ queued = 0
  /\ receiver = None
  /\ judge = [a \in AssertWorker |-> IF HasAssert THEN "lock" ELSE "closed"]
  /\ total = 0
  /\ success = 0
  /\ errors = 0
  /\ sampled = FALSE
  /\ started = 0
  /\ httpErrors = 0
  /\ assertErrors = 0
  /\ unjudged = 0
  /\ repeated = 0
  /\ report = None

-----------------------------------------------------------------------------
(* batch() *)

Main(from, to) == main = from /\ main' = to

(* The global setup; its failure ends the test, and returning drops the    *)
(* sender.                                                                 *)
GlobalSetup ==
  \/ /\ Main("setup", "spawn")
     /\ UNCHANGED <<over, sender, issued, available, report, worker, judging, counters>>
  \/ /\ Main("setup", "returned")
     /\ report' = Failure
     /\ sender' = FALSE
     /\ UNCHANGED <<over, issued, available, worker, judging, counters>>

(* Controllers and workers of all endpoints are spawned. *)
Spawn ==
  /\ Main("spawn", "drop")
  /\ worker' = [w \in Worker |-> "permit"]
  /\ UNCHANGED <<over, sender, issued, available, report, judging, counters>>

(* Variant: batch() keeps its sender. *)
DropSenderForgotten ==
  /\ Main("drop", "join")
  /\ UNCHANGED <<over, sender, issued, available, report, worker, judging, counters>>

DropSender ==
  /\ Main("drop", "join")
  /\ sender' = FALSE
  /\ UNCHANGED <<over, issued, available, report, worker, judging, counters>>

(* join_all(handles): every worker has ended, in whichever way. *)
JoinWorkers ==
  /\ \A w \in Worker : worker[w] \in Ended
  /\ Main("join", "drain")
  /\ UNCHANGED <<over, sender, issued, available, report, worker, judging, counters>>

(* Variant: the assert workers are not awaited. *)
DrainNotAwaited ==
  /\ Main("drain", "teardown")
  /\ UNCHANGED <<over, sender, issued, available, report, worker, judging, counters>>

(* Every assert worker has seen the closed channel. *)
DrainAsserts ==
  /\ \A a \in AssertWorker : judge[a] = "closed"
  /\ Main("drain", "teardown")
  /\ UNCHANGED <<over, sender, issued, available, report, worker, judging, counters>>

(* The global teardown; its failure is only noted. *)
GlobalTeardown ==
  /\ Main("teardown", "final")
  /\ UNCHANGED <<over, sender, issued, available, report, worker, judging, counters>>

(* The final figures.  A percentile of an empty histogram may be an error  *)
(* of the histogram crate, and batch() then returns that error.            *)
Finalise ==
  /\ Main("final", "returned")
  /\ \/ report' = ReportOf(total, success, errors)
     \/ ~sampled /\ report' = Failure
  /\ UNCHANGED <<over, sender, issued, available, worker, judging, counters>>

MainStep ==
  \/ GlobalSetup \/ Spawn \/ DropSender \/ JoinWorkers
  \/ DrainAsserts \/ GlobalTeardown \/ Finalise

(* The end of the test is reached, or stop() has been called. *)
TimeUp ==
  /\ ~over
  /\ main # "returned"
  /\ over' = TRUE
  /\ UNCHANGED <<main, sender, issued, available, report, worker, judging, counters>>

(* The controller of an endpoint releases a permit (ConcurrencyController  *)
(* says when).                                                             *)
ReleasePermit(e) ==
  /\ main \notin {"setup", "spawn", "returned"}
  /\ issued[e] < Cardinality(WorkersOf(e))
  /\ issued' = [issued EXCEPT ![e] = @ + 1]
  /\ available' = [available EXCEPT ![e] = @ + 1]
  /\ UNCHANGED <<main, over, sender, report, worker, judging, counters>>

-----------------------------------------------------------------------------
(* start_concurrency, for one worker *)

Go(w, from, to) == worker[w] = from /\ worker' = [worker EXCEPT ![w] = to]

(* What a worker's step leaves alone unless it says otherwise. *)
Quiet == UNCHANGED <<control, judging>>

(* The permit comes first, then the worker counts as started. *)
AcquirePermit(w) ==
  /\ Go(w, "permit", "loop")
  /\ available[EndpointOf[w]] > 0
  /\ available' = [available EXCEPT ![EndpointOf[w]] = @ - 1]
  /\ started' = started + 1
  /\ UNCHANGED <<main, over, sender, issued, report, judging, total, success,
                 errors, sampled, httpErrors, assertErrors, unjudged, repeated>>

(* Leaving the task drops the permit and the sender, whatever the reason. *)
Leave(w, from, to) ==
  /\ Go(w, from, to)
  /\ available' = [available EXCEPT ![EndpointOf[w]] = @ + 1]
  /\ UNCHANGED <<main, over, sender, issued, report, judging>>

(* The loop condition is read between requests only. *)
LeaveLoop(w) ==
  /\ over
  /\ Leave(w, "loop", "exited")
  /\ UNCHANGED counters

(* Data row, endpoint setup and the building of the request.  A failed     *)
(* setup is retried after a second; a request that cannot be built ends    *)
(* the task with an error or a panic.                                      *)
Prepare(w) ==
  /\ ~over
  /\ UNCHANGED counters
  /\ \/ total < MaxRequests /\ Go(w, "loop", "send") /\ Quiet
     \/ Go(w, "loop", "retry") /\ Quiet
     \/ Leave(w, "loop", "failed")

Retry(w) ==
  /\ Go(w, "retry", "loop")
  /\ Quiet /\ UNCHANGED counters

(* request.send() is answered with a status that counts as good. *)
AnsweredWell(w) ==
  /\ Go(w, "send", "body")
  /\ total' = total + 1
  /\ sampled' = TRUE
  /\ Quiet
  /\ UNCHANGED <<success, errors, started, httpErrors, assertErrors, unjudged, repeated>>

(* It is answered with any other status. *)
AnsweredBadly(w) ==
  /\ Go(w, "send", "errorBody")
  /\ total' = total + 1
  /\ errors' = errors + 1
  /\ sampled' = TRUE
  /\ Quiet
  /\ UNCHANGED <<success, started, httpErrors, assertErrors, unjudged, repeated>>

(* It fails or times out, which leaves no entry in the histogram. *)
Unanswered(w) ==
  /\ Go(w, "send", "record")
  /\ total' = total + 1
  /\ errors' = errors + 1
  /\ Quiet
  /\ UNCHANGED <<success, sampled, started, httpErrors, assertErrors, unjudged, repeated>>

(* The body of a good answer arrives, empty or not, or breaks off.         *)
(* Without assertions that is the verdict; with assertions a body goes to  *)
(* the channel, and an answer without a body is not judged at all.         *)
ReadBody(w) ==
  /\ \/ /\ EndpointOf[w] \notin Asserted
        /\ Go(w, "body", "wrapup")
        /\ success' = success + 1
        /\ UNCHANGED <<errors, unjudged>>
     \/ /\ EndpointOf[w] \in Asserted
        /\ Go(w, "body", "assert")
        /\ UNCHANGED <<success, errors, unjudged>>
     \/ /\ EndpointOf[w] \in Asserted
        /\ Go(w, "body", "wrapup")
        /\ unjudged' = unjudged + 1
        /\ UNCHANGED <<success, errors>>
     \/ /\ Go(w, "body", "broken")
        /\ errors' = errors + 1
        /\ UNCHANGED <<success, unjudged>>
  /\ Quiet
  /\ UNCHANGED <<total, sampled, started, httpErrors, assertErrors, repeated>>

(* Printing a body that is not UTF-8 panics. *)
PrintPanics(w) ==
  /\ Verbose
  /\ Leave(w, "body", "crashed")
  /\ unjudged' = unjudged + 1
  /\ UNCHANGED <<total, success, errors, sampled, started, httpErrors,
                 assertErrors, repeated>>

(* Variant: try_send, and the judgement is dropped when the channel is full. *)
EnqueueOrDrop(w) ==
  /\ Go(w, "assert", "wrapup")
  /\ queued' = IF queued < QueueCap THEN queued + 1 ELSE queued
  /\ UNCHANGED <<control, receiver, judge, counters>>

(* tx_assert.send(task).await: the worker waits while the channel is full. *)
Enqueue(w) ==
  /\ queued < QueueCap
  /\ Go(w, "assert", "wrapup")
  /\ queued' = queued + 1
  /\ UNCHANGED <<control, receiver, judge, counters>>

TakesEntry(n) ==
  /\ httpErrors' = httpErrors + n
  /\ UNCHANGED <<total, success, errors, sampled, started, assertErrors,
                 unjudged, repeated>>

(* The error of an unanswered request is entered into http_errors. *)
RecordUnanswered(w) ==
  /\ Go(w, "record", "wrapup")
  /\ Quiet
  /\ TakesEntry(1)

(* So is the broken body of a good answer; what did arrive is printed, and *)
(* may panic, after that.                                                  *)
RecordBroken(w) ==
  /\ \/ Go(w, "broken", "wrapup") /\ Quiet
     \/ Verbose /\ Leave(w, "broken", "crashed")
  /\ TakesEntry(1)

(* The body of an answer with an error status; if it breaks off, a second  *)
(* error is counted and entered.                                           *)
ReadErrorBody(w) ==
  /\ Go(w, "errorBody", "errorText")
  /\ \/ UNCHANGED <<errors, httpErrors, repeated>>
     \/ /\ errors' = errors + 1
        /\ httpErrors' = httpErrors + 1
        /\ repeated' = repeated + 1
  /\ Quiet
  /\ UNCHANGED <<total, success, sampled, started, assertErrors, unjudged>>

(* The error status is entered with the text of the body; a body that is   *)
(* not UTF-8 panics before that.                                           *)
RecordStatus(w) ==
  \/ Go(w, "errorText", "wrapup") /\ Quiet /\ TakesEntry(1)
  \/ Leave(w, "errorText", "unrecorded") /\ UNCHANGED counters

(* The endpoint's teardown after each request; its failure is only noted. *)
Wrapup(w) ==
  /\ Go(w, "wrapup", "loop")
  /\ Quiet /\ UNCHANGED counters

WorkerStep(w) ==
  \/ AcquirePermit(w) \/ LeaveLoop(w) \/ Prepare(w) \/ Retry(w)
  \/ AnsweredWell(w) \/ AnsweredBadly(w) \/ Unanswered(w)
  \/ ReadBody(w) \/ PrintPanics(w) \/ Enqueue(w) \/ RecordUnanswered(w)
  \/ RecordBroken(w) \/ ReadErrorBody(w) \/ RecordStatus(w) \/ Wrapup(w)

-----------------------------------------------------------------------------
(* spawn_assert_workers and process_assert_task *)

Move(a, from, to) == judge[a] = from /\ judge' = [judge EXCEPT ![a] = to]

LockReceiver(a) ==
  /\ receiver = None
  /\ Move(a, "lock", "recv")
  /\ receiver' = a
  /\ UNCHANGED <<control, worker, queued, counters>>

(* Variant: the lock is kept after a task has been received. *)
ReceiveKeepingLock(a) ==
  /\ queued > 0
  /\ Move(a, "recv", "judge")
  /\ queued' = queued - 1
  /\ UNCHANGED <<control, worker, receiver, counters>>

(* recv().await holds the lock until a task or the end of the channel. *)
Receive(a) ==
  /\ queued > 0
  /\ Move(a, "recv", "judge")
  /\ queued' = queued - 1
  /\ receiver' = None
  /\ UNCHANGED <<control, worker, counters>>

ChannelClosed(a) ==
  /\ queued = 0
  /\ ~Senders
  /\ Move(a, "recv", "closed")
  /\ receiver' = None
  /\ UNCHANGED <<control, worker, queued, counters>>

(* The verdict on a response: all assertions hold, one does not (or the    *)
(* body is not JSON), or a jsonpath cannot be evaluated, which counts as   *)
(* neither.                                                                *)
Judge(a) ==
  /\ Move(a, "judge", "lock")
  /\ \/ /\ success' = success + 1
        /\ UNCHANGED <<errors, assertErrors, unjudged>>
     \/ /\ errors' = errors + 1
        /\ assertErrors' = assertErrors + 1
        /\ UNCHANGED <<success, unjudged>>
     \/ /\ unjudged' = unjudged + 1
        /\ UNCHANGED <<success, errors, assertErrors>>
  /\ UNCHANGED <<control, worker, queued, receiver, total, sampled, started,
                 httpErrors, repeated>>

JudgeStep(a) == LockReceiver(a) \/ Receive(a) \/ ChannelClosed(a) \/ Judge(a)

-----------------------------------------------------------------------------

Finished ==
  /\ main = "returned"
  /\ \A w \in Worker : worker[w] \in Ended \cup {"unborn"}
  /\ \A a \in AssertWorker : judge[a] = "closed"

Terminated == Finished /\ UNCHANGED vars

Next ==
  \/ MainStep
  \/ TimeUp
  \/ \E e \in Endpoint : ReleasePermit(e)
  \/ \E w \in Worker : WorkerStep(w)
  \/ \E a \in AssertWorker : JudgeStep(a)
  \/ Terminated

Spec == Init /\ [][Next]_vars

(* Tasks are scheduled, the clock runs, requests are answered or time out, *)
(* and the ramp releases every permit (shown in ConcurrencyController).    *)
Fairness ==
  /\ WF_vars(MainStep)
  /\ WF_vars(TimeUp)
  /\ \A e \in Endpoint : WF_vars(ReleasePermit(e))
  /\ \A w \in Worker : WF_vars(WorkerStep(w))
  /\ \A a \in AssertWorker : WF_vars(JudgeStep(a))

FairSpec == Spec /\ Fairness

-----------------------------------------------------------------------------
(* Properties *)

ReportType == {None, Failure}
                \cup [ok : {TRUE}, total : Nat, success : Nat, errors : Nat]

TypeOK ==
  /\ main \in MainPlaces
  /\ over \in BOOLEAN
  /\ sender \in BOOLEAN
  /\ issued \in [Endpoint -> Nat]
  /\ available \in [Endpoint -> Nat]
  /\ worker \in [Worker -> Places]
  /\ queued \in 0 .. QueueCap
  /\ receiver \in AssertWorker \cup {None}
  /\ judge \in [AssertWorker -> Stations]
  /\ total \in Nat /\ success \in Nat /\ errors \in Nat
  /\ sampled \in BOOLEAN
  /\ started \in Nat
  /\ httpErrors \in Nat /\ assertErrors \in Nat
  /\ unjudged \in Nat /\ repeated \in Nat
  /\ report \in ReportType

(* The requests that are counted and not yet judged. *)
At(S)      == {w \in Worker : worker[w] \in S}
AtWorkers  == At({"body", "assert"})
AtRefusals == At({"errorBody"})
AtRecords  == At({"record", "broken", "errorBody", "errorText", "unrecorded"})
JudgesAt(S) == {a \in AssertWorker : judge[a] \in S}
AtJudges   == JudgesAt({"judge"})
OpenCount  == Cardinality(AtWorkers) + queued + Cardinality(AtJudges)

(* Every request that was sent is judged exactly once or is still open:    *)
(* nothing is lost between the worker, the channel and the assert workers, *)
(* and only the body of an error status is counted a second time.          *)
RequestAccounting ==
  total + repeated = success + errors + unjudged + OpenCount

(* Every error is explained: err_count is the sum of the entries of the    *)
(* two error tables, but for the entries workers are about to make and     *)
(* those lost to a panic on a body that is not UTF-8.                      *)
ErrorsExplained ==
  errors = httpErrors + assertErrors + Cardinality(AtRecords)

(* Both together. *)
Accounting == RequestAccounting /\ ErrorsExplained

(* The report is complete: when batch() puts it together, all workers have *)
(* ended and all judgements are in, so its figures stay the counters'      *)
(* figures ("保证最终统计不丢", batch.rs:414).                               *)
ReportComplete ==
  main \in {"teardown", "final"} =>
    /\ OpenCount = 0
    /\ \A w \in Worker : worker[w] \in Ended
    /\ \A a \in AssertWorker : judge[a] = "closed"

(* A report once made is what the counters say for ever after. *)
ReportFinal ==
  report # None /\ report.ok =>
    report = ReportOf(total, success, errors)

(* The report says all, and nothing but what stays true. *)
ReportTrue == ReportComplete /\ ReportFinal

(* The receiving end is used by its lock holder alone. *)
ReceiverExclusive ==
  \A a \in AssertWorker : (judge[a] = "recv") <=> (receiver = a)

(* A worker that ended, even by a panic, has given its permit back. *)
PermitsReturned ==
  \A e \in Endpoint :
    available[e] + Cardinality({w \in WorkersOf(e) :
                      worker[w] \notin Ended \cup {"unborn", "permit"}}) = issued[e]

(* No request is sent after batch() has begun the global teardown, and the *)
(* figures it reports do not move any more.                                *)
QuietTeardown ==
  [][(main \in {"teardown", "final", "returned"}) => UNCHANGED counters]_vars

(* The test ends: batch() returns and every task it spawned is gone. *)
TestEnds == <>Finished

(* Every response that reaches the channel is judged while the test runs:  *)
(* a full channel only delays.                                             *)
FullQueueDrains == \A w \in Worker : worker[w] = "assert" ~> worker[w] = "wrapup"

-----------------------------------------------------------------------------
(* The test implements what LoadTest promises. *)

Settled == main \in {"teardown", "final"}

Promise == INSTANCE LoadTest WITH
  open    <- OpenCount,
  reading <- Cardinality(AtRefusals),
  total   <- total,
  success <- success,
  errors  <- errors,
  phase   <- IF main = "returned" THEN "reported"
             ELSE IF Settled THEN "settled" ELSE "running",
  report  <- report,
  None    <- None

ImplementsLoadTest == Promise!Spec
=============================================================================
