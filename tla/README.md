# A verification development for atomic-bomb-engine

atomic-bomb-engine is a load generator for HTTP and WebSocket services, written
in Rust and used from Python. This directory holds TLA+ models of it, the TLC
configurations that check them on small instances, and theorems about them that
TLAPS proves for every value of the constants.

Paths are relative to the root of the repository; `core/` stands for
`src/atomic-bomb-engine/src/core/`, `py_lib/` for `src/src/py_lib/`.

## 1. The system and its parts

    Python program ── BatchRunner ── run_batch() ── batch() ─┬─ request workers ── assert channel ── assert workers
      │   │                │             │                   ├─ ConcurrencyControllers (permits)
      │   └─ async for ────┴── stream ◄── result channel ◄───┴─ collector (one report a second)
      │
      ├─ WsBatchRunner ── run_ws_batch() ── ws_batch() ── connection workers (connect loop, select! of a connection, writer)
      │                                                   assert workers, collector, result channel as above
      └─ server.py ── /run, one push task and one heartbeat task for each browser

| part | source | state it keeps | operations | correct when |
|---|---|---|---|---|
| Concurrency controller | `core/concurrency_controller.rs` | a semaphore, the permits released, the fraction carried over in an `f64` | `distribute_permits`, acquire, drop | no permit is lost or invented, the load follows the ramp however its steps are rounded, every worker gets its permit |
| HTTP load test | `core/batch.rs`, `start_task.rs`, `listening_assert.rs` | counters, error tables, the assert channel | spawn, request loop, judge, join, drain, report | every request is counted once, the report is complete and final, everything ends |
| Result stream | `core/share_result.rs`, `run_batch.rs`, end of `batch.rs` | the result channel, the counters of the last report, engine errors | one report a second, summary, end mark | one summary, one end mark, no error forgotten, rates that add up to the counts, nobody kept waiting by a reader that reads on |
| Rate figures | `core/share_result.rs`, `fixed_size_queue.rs`, `exponential_moving_average.rs` | the window, the moving average | push, add, average | the window slides, smoothing smooths |
| BatchRunner | `py_lib/batch_runner.rs` | two stop flags, a done flag, the stream, a task handle | `run`, `stop`, `__anext__`, `__next__` | a stopped test is stopped, results are not cut off, no lock is waited for for ever |
| Setup and extraction | `core/setup.rs`, `start_task.rs` | extracted values | `start_setup`, the putting together of the values of a round | a request has the values of its own round, a row drawn is sent or its failure reported |
| Data pool | `models/data_pool.rs` | a row counter, a count of cycles | `get_next_row` | each row once per cycle, whoever draws |
| WebSocket connection | `core/start_ws_task.rs` | pending requests, time of the last message, attempts, the connection's end | connect loop, sender, receiver, heartbeat, deadline, writer, timeout watcher | each request has one outcome, each connection is counted in and out, a silent peer is noticed, the worker ends |
| WebSocket load test | `core/ws_batch.rs`, `ws_listening_assert.rs`, `share_ws_result.rs`, `run_ws_batch.rs` | counters, the limiter of handshakes, the assertion channel, the result channel | spawn per endpoint, connect, judge, drain, report | the limiter holds and gets its permits back, each message is judged or went down with its connection, the summary is last, everything ends |
| WsBatchRunner | `py_lib/ws_batch_runner.rs` | as BatchRunner | as BatchRunner | as BatchRunner |
| UI server | `src/python/atomic_bomb_engine/server.py` | running flag, connection pool, result iterator, table of results | `/run`, `/ws/{id}`, heartbeat, push | every result is stored in order and pushed once, the end is told |
| Parsing, dictionaries, builders | `src/src/utils/`, rest of `py_lib/` | none | conversions | |
| Sleep guard | `core/sleep_guard.rs` | one OS handle | | |

How they interact: `run()` spawns a task that calls `run_batch()`, which spawns
`batch()` and turns its result channel into a stream. `batch()` spawns the
controllers' distribution tasks, the request workers, the assert workers and
the collector. They share atomic counters; they exchange judgements over a
bounded channel of which every worker holds a sender, results over a second
one, and stop signals through an atomic flag (`engine_should_stop`, from the
runner to the workers) and a oneshot channel (from `batch()` to the collector).

What is hard about it: counters are moved by tasks that do not know of each
other and are read while they move; shutdown depends on the last of many
senders being dropped; two bounded channels can fill up; the collector and the
end of `batch()` share the counters from which rates are taken; the flags
of a runner outlive the test they were meant for; the branches of a
connection's `select!` cancel each other in the middle of what they do; and the
tasks of the UI server share one iterator and one pool. `PROJECT.json` lists these
hazards line by line, each with the properties that cover it.

## 2. The modules

| module | models | checked by | proved in |
|---|---|---|---|
| `EndpointPlan` | the arithmetic of `batch()` on its options | with the modules that use it | |
| `ConcurrencyController` | one controller and its workers | `controller_ramp` | `Ramp_proof` |
| `LoadTest` | abstract: what a test promises of its numbers | refined by `Batch` | |
| `Batch` | `batch()`, request workers, assert workers | `batch` | `Batch_proof` |
| `ResultStream` | collector, end of `batch()`, `run_batch()`, consumer | `stream` | `ResultStream_proof` |
| `RateFigures` | moving average, windows, the rates of the summary | `rate_smooth` | |
| `BatchRunner` | the Python object | `runner`, `runner_stale` | `PythonSide_proof` |
| `TemplateValues` | setup, extraction, data pool, the values of a round | `template_values`, `values_precedence` | `TemplateValues_proof` |
| `RequestLedger` | abstract: a request gets one outcome and keeps it | refined by `WsRequests` | |
| `WsRequests` | the requests of one WebSocket connection | `ws_requests` | `WsRequests_proof` |
| `WsConnection` | one WebSocket worker, its connections one after another | `ws_connection` | `WsConnection_proof` |
| `WsBatch` | `ws_batch()`, its workers and its stream | `ws_batch` | `WsBatch_proof` |
| `UiServer` | `server.py` | `ui_server` | `PythonSide_proof` |

`PythonSide_proof` extends two modules that have nothing to do with each other, to prove
theorems about the one and about the other. So that the two can stand side by side, the
definitions that every module has carry a prefix in `BatchRunner` (`RunnerInit`,
`RunnerSpec`), and so they do in `RateFigures` (`RateInit`, `RateSpec`).

`MC*` modules give constants their values. An operator preceded by a comment
*Variant* is not part of the model: it is a plausible mistake in the operator
it stands next to, kept to show that the properties would notice it.

### ConcurrencyController

Actions: `FirstRound`, `LaterRound` and `AllAtOnce` are the three branches of
`distribute_permits`; `Acquire` and `Exit` are the first line and the end of
`start_concurrency`. The float the code carries over (`fractional_accumulator`) is
counted in units of `1 / (den * Fine)` of a permit, and what a round adds to it is
`increase_step` up to an error of `slack` units, whichever the model chooses
(`Sums`): ten rounds of a tenth may leave it below one, as they do in `f64`, and
the permit then comes a round later. `slack` is zero where the share of the endpoint is a binary
fraction (`BinaryFraction`); there, and in `floor()` and the subtraction of a whole
number everywhere, `f64` is exact. The only assumption on the error is that all rounds
of a ramp together do not err by a whole `1 / den` of a permit, which 53 bits
keep by far. The release of the permits and the addition to the counter of a round
are one step, since nothing waits between them.

### Batch

One action for each stretch of a task between two awaits that matter to the
counters. `worker[w]` says where a request worker is: waiting for its permit,
at the loop condition, waiting for the answer, for its body, for a place in
the channel, about to enter an error. A panic (`crashed`, `unrecorded`) is an
ordinary outcome: the worker's task ends, its permit and its sender are
dropped, `batch()` notes the `JoinError`. `Senders` is the reference count that
closes the channel. The workers are spawned in one step: a worker that is
already running while others are not yet spawned differs only in having
started earlier. When a permit is released is left open here
(`ReleasePermit`), and is what ConcurrencyController is about.

`LoadTest` is the promise the component makes: requests are opened, judged,
and when none is open the test is settled and reports its counts, once. The
refinement maps its `open` to the workers at the body of an answer, the
channel, and the assert workers with a task in their hands.

### ResultStream

The reads of one report are split where the code awaits or another task can
move what is read: `Tick` loads `err_count`, `LoadTotal` the requests, `LoadEndpoint`
those of an endpoint; `LoadRates` takes the difference of the errors, `MoveRates` moves
the counter behind it, `LoadRequests` and `MoveRequests` do the same for the requests;
`DrainErrors` takes the engine errors, `SendTick` sends. The end of `batch()` is split
likewise; its `MoveByMean` is the `fetch_add` of the summary's rate to
`number_of_last_requests` (`batch.rs:488`), by a mean that is no count at all. Counters
keep their width (`Word`). `HearStop` is the other branch of the `select!`:
it can only be taken where the loop waits, which is what lets a report be
finished, and sent, after the summary. That all counters rest from
`TakeFinals` on is proved of `Batch` (`TeardownIsQuiet`); here it is a guard
(`CountRequest` needs `main = "test"`). The consumer reads, lets go
(`DropStream`), or does neither, as it likes.

### RateFigures

What becomes of the rates once `ResultStream` has computed them. `Tick` is one
pass of the collector with the rates it came to, `Finish` the making of the summary,
which may come between any two passes. The queue and the average are operators
named after their methods. `Smoothed` adds to a clone of the average, which is then
dropped, and the map of windows the summary reads is not the one that is filled; see
section 4.

### BatchRunner

Each `store` of a flag, each lock and each await of the two futures is a step.
The mutex around the stream is held over an await only by the iteration
(`StreamFree`), that of the handle only by `stop()` (`HandleFree`).
Assumptions: the caller awaits every `run()` and `stop()` before it calls
either again, and begins to iterate when the first `run()` has returned; the
pause of 100 ms in `stop()` is long enough for an aborted task to be over.
`__next__` runs with the interpreter's lock and the object borrowed, so no
other call is made while it waits (`Interpreter`). A result is read from a
stream at any time; its end can only be read when its test is over.

### TemplateValues

A value is where it comes from: a global variable, the global setup, row *n* of
the pool, or the endpoint's own setup in round *n*. Which of global variables, pool and
global setup a test has is chosen in `Init` (`given`). `DrawRow` is the
`fetch_add` of the pool (or, in random mode, any row), `CountCycle` the
addition to the count of cycles that follows it as a step of its own. `Extract`
and `SetupFails` are one request of `start_setup`, good or bad; the same two
serve the global setup, the setup of a round and the teardown, whose extracted
values are thrown away. `Merge` is the insertion of the row over the values the
test shares. `RequestOf` says which parts of a request are rendered and with
what: the code has one flag for headers, cookies and JSON and another for the form. `Breaks`
stands for the ways in which a worker leaves over a request: the error returns and
`expect`s of `start_task.rs` between the method and the body, and those after the answer.
`JoinWorkers` is where `batch()` learns of them and reports each.

### WsRequests

Sender, receiver and watcher of one connection take turns at their awaits.
`Register`, `MatchOne` and `ExpireOlderThan` are the methods of `PendingState`;
`SendTick` registers a message, `Enqueue` hands it to the writer and counts it,
so that a message can be overdue before it is sent. `Answer` and `Push` are the
two kinds of message a peer may send: the peer answers in any order, late, or
never. A message is the key it is paired by; the sequential matcher is the case
of one key for all. `End` drops the table with the connection, without a count.

`RequestLedger` is the promise: a request is entered once, and gets one of the
outcomes answered, overdue, abandoned, for good.

### WsConnection

The worker's loop (`LoopTop` to `Teardown`) and the life of a connection.
`Greet` sends the on_connect messages before there is a `select!`;
`DeadlinePassed`, `StopSeen`, `Receive`, `HandOver`, `Heartbeat` and `SendTick`
are its branches, `Write` and `WriteFails` the writer task, and the socket ends
by what `Receive` finds in it. Time is discrete, and a step may come late: the
flag `held` says that the task was held up for longer than its timers, and
`SilentUnlessBlocked` and `SilenceNoticed` speak of that. `full` is the
assertion channel as this worker sees it.

### WsBatch

`ws_batch()` spawns the workers endpoint by endpoint (`SpawnEndpoint`), and an
endpoint whose configuration is wrong makes it return with the earlier workers
left running. A worker is here what a test sees of it: whether it waits for the
limiter, is connecting, connected, waiting for a place among the assertions, gone,
or dead of a panic in its setup or teardown (`Panics`), which `ws_batch()` finds when it
joins the workers and adds to the engine errors (`JoinPanicked`). `Tick`, `DrainErrors`,
`SendTick`, `SendSummary`, `SendEndMark` and `HearStop` are the result channel, as in `ResultStream`; of the figures only those
`NothingRunsOn` speaks of are kept.

### UiServer

Everything runs in one asyncio loop: an action is what happens between two
awaits that may suspend. `GetRun`, `Started` and `StartFails` are `/run`;
`Open`, `Ping`, `PongFails`, `Break` and `Finish` the handler of a connection;
`Draw`, `Stored`, `SendTo`, `SendToFails`, `SentToAll` and `NoMore` its push
task; `NobodyThere` and `TooSilent` its heartbeat task.

## 3. The runs

| run | question | instance |
|---|---|---|
| `controller_ramp` | do the permits follow the ramp, and the load stay within it, however the steps are rounded; does every worker get a permit and end | all accepted ramps of up to 2 intervals, steps to 3, concurrency to 6, five weights that give whole, exact, rounded and zero shares |
| `batch` | does the accounting balance, is the report complete and final, is `LoadTest` implemented; does the test end, is a full channel only a delay | 2 workers on 2 endpoints, one asserted, 2 assert workers, channel of 1, 3 requests |
| `stream` | one summary, one end mark, no error forgotten, totals that grow, rates that add up to them; does a reader come to the end, and do the tasks whatever the consumer does | channel of 1, 2 requests, 1 of them failed, 1 engine error, 2 reports |
| `runner` | a stopped stream does not come back, results are not cut off, a stopped test sees its flag; do `run()`, `stop()` and the iteration end | 2 `run()`, 2 `stop()` |
| `runner_stale` | *violated*: a new test's results are not cut off | 2 `run()` |
| `rate_smooth` | *violated*: `ema_alpha` smooths the curve | 3 rates, 3 reports, window of 2, `ema_alpha` of one half |
| `template_values` | is every row drawn in turn, are a round's values its own, is every row sent or its failure reported | 2 workers, 2 rows, 3 rounds each, setups of one and two requests, every combination of global variables, pool and global setup, bad answers, requests that cannot be built |
| `values_precedence` | *violated*: a value of higher precedence takes the place of a lower one | as `template_values`, good answers only |
| `ws_requests` | do table, counter and figures agree, does nothing stay longer than its timeout, do answers go to their requests, does each request get one outcome | 3 messages, three assignments of keys, both modes, table of 2, timeout 1, one message unasked |
| `ws_connection` | are connections counted in and out, are the attempts limited, is silence noticed and nothing else killed, does the worker end | 1 further attempt, test of 3 units, time to live none or 2, heartbeat 2/1, 2 greetings, writer's channel of 1 |
| `ws_batch` | does the limiter hold, is every message judged, does nothing run on after the end, is every error reported; does the test end | 3 workers on 2 endpoints, one asserted, one that may be misconfigured, channels and limiter of 1, 2 connections, 2 messages, 1 error or panic, 1 report |
| `ui_server` | results stored in order and pushed once, who is forgotten; is the end told | 2 connections with 2 ids to choose from, 2 results |

Why the bounds are enough. A channel of capacity one is full as soon as two
workers have an answer each, and both ways of a full channel (waiting, and
being let go) occur. Two assert workers are enough for one to hold the lock
while the other judges. Three requests let a worker send again while its first
answer is being judged. Two reports put the end of `batch()` before, between and
across them, and the second is compared with the first; `Word = 8` is larger than
every count of the model, so that whatever wraps has gone below zero. Shares of a third
and of two thirds are rounded in every round, up or down; with `Fine = 16` the errors of
the longest ramp's 13 rounds stay just below the assumed bound. In the runner, two
tests and two stops give every pair of calls that can overlap. Two rows and six draws go
round the pool three times with both workers between the row and the count of the cycle. Three messages
over a table of two refuse one; with a timeout of one unit and four units of
time a request is overdue, answered late, and its answer taken for the next
one's. One reconnect shows that attempts are not reset; four units let a
heartbeat of two fire twice, the second time on a silent peer. Two connections
on the same id, or on two, are every way a pool can forget one. Larger values are
covered by the theorems: every invariant and action property of the runs that
pass is proved, liveness is not. Bounds are
constants, named as such where they are declared, and appear in the guards.

## 4. Where the code and what is said of it disagree

Three runs are violated; `PROJECT.json` quotes both sides.

* `runner_stale`: an object used for a second test may read the end of the first
  test's stream as the end of the second (`batch_runner.rs:192`).
  `FirstResultsKept` is the same promise for an object used once, and holds.
* `rate_smooth`: `ema_alpha` is said to smooth the curve (`__init__.pyi:163`); every
  rate is added to a clone of an average that has seen no other
  (`share_result.rs:224`), and comes out as it was.
* `values_precedence`: `start_setup` refuses a name that is already there
  (`setup.rs:180`), where the documentation gives an order in which values
  replace each other.

Others are told here, without a run of their own:

* headers, cookies and JSON of a request are rendered only in a test with global
  variables, a data pool or a global setup (`start_task.rs:152`, `170`, `192`), a form also
  when the endpoint has a setup of its own (`:109`, `:232`). The example of the
  repository's README (`README.md:393-414`), which sends in JSON what the
  endpoint's setup extracted, needs one of the three to work; `IsRendered` has the
  rule, and `ValuesOfTheRound` speaks of what is rendered;
* a share that is no binary fraction is added up in `f64` (`concurrency_controller.rs:49`),
  where ten tenths are less than one: the permit comes a round later than the
  options ask for. `RampFaithful` says that it never gets worse than one;
* the check of a ramp sums a triangular series (`batch.rs:84`), the ramp is
  linear: an accepted ramp may reach its target only after the test;
* `errors_per_second` wraps when the end of `batch()` moves
  `number_of_last_errors` between the two reads of a report
  (`share_result.rs:152`, `219`); `FiguresSound` speaks of the reports before that;
* the rate of a report wraps likewise when the end of `batch()` has added the rate of
  the summary, which counts nothing, to `number_of_last_requests` (`batch.rs:488`,
  `share_result.rs:221`); `RatesAddUp` excepts the reports that read the counter after it;
* a live report may be sent after the summary, and after the end mark, and an engine
  error in a report that the stop signal cancels is lost (`share_result.rs:261`):
  `EveryErrorReported` names it as its exception;
* the comment at `batch.rs:465` wants the rate of an endpoint from its window first;
  the map of windows the summary reads is a different one from the map that is
  filled (`batch.rs:466`, `share_result.rs:135`), so that it is always the fallback,
  the requests over the whole time (`Finish` of `RateFigures`);
* for an accepted ramp that lasts the whole test the capacity of the window is
  zero (`batch.rs:132`), and `FixedSizeQueue::push` drops an item only when the
  length equals the capacity (`fixed_size_queue.rs:21`), which is then never true
  of a filled queue: the window of such a test is the whole test;
* a `run()` on an object that was stopped takes the stop flag back
  (`batch_runner.rs:169`), also from the test that has not yet seen it:
  `StoppedUntilReused` is what is left of the promise;
* the heartbeat's test for starvation (`start_ws_task.rs:904`) is meant to spare
  a peer whose messages lie unread; it sees a task that was scheduled late, not a
  receiver that waits for a place among the assertions: `SilentUnlessBlocked`
  names both exceptions;
* of the three triggers of a WebSocket assertion (`ws_endpoint.rs:89`) only
  `EveryMessage` does what is said of it: under `FirstMatch` every message that
  hits is judged, not only the first (`ws_listening_assert.rs:55`), and `NoMatch`
  never counts an error (`:74`);
* in one-way mode `successful_requests` is said to be the messages sent
  (`ws_endpoint_stats.rs:34-36`); the code counts messages received, and `BooksBalance`
  speaks of the successes of the other mode only;
* a late answer is taken for that of the next request of its key, and so is the
  answer of a request the full table refused (`start_ws_task.rs:152`, `953`):
  `AnswersInStep` says when answers are paired rightly;
* `on_connect` messages are sent before anything looks at the deadline or the stop flag
  (`start_ws_task.rs:507`), and a heartbeat waits behind a peer that does not read
  (`:926`): the exceptions of `WorkerEnds` and `SilenceNoticed`;
* a misconfigured later endpoint leaves the workers of the earlier ones running
  (`ws_batch.rs:248`): `NothingRunsOn` excepts such a test;
* a connection that ends removes its id from the pool of the UI server even
  when a newer connection has taken the id over (`server.py:155`):
  `ForgottenOnReconnect` says that nothing else makes it forget.

## 5. Fairness

* Tasks that can go on do: weak fairness of every step of a task. tokio and
  asyncio schedule all that is ready.
* Requests are answered or fail, sleeps end, the clock passes the end of the
  test: the same weak fairness, on `WorkerStep`, `LaterRound`, `TimeUp`.
  reqwest has a timeout only when `timeout_secs` is set; without one, a server
  that never answers keeps a worker, and `TestEnds` does not hold of it.
* `ResultStream`: nothing is assumed of the consumer, which may hold a full channel for
  ever. `EverybodyEnds` has two halves. A consumer that reads whenever there is something
  to read comes to the end of the stream: that fairness is the premise `ReadsOn` of the
  property, not an assumption of the specification. And, reader or no reader, the
  collector ends, and so does the task around `batch()` unless it waits for a place in
  a full channel that nobody reads (`HeldUp`): `run_batch.rs:56` has no limit there.
* `HearStop` of `ResultStream` is strongly fair: between two reports the collector waits most of
  a second with the signal pending, and `select!` looks at it then.
* In `BatchRunner`, `StoreStream` and `ClearStream` are strongly fair: tokio's
  mutex is served in the order of requests, so a reader that takes the lock
  again and again does not keep others out. So is the reading of an end mark
  of a test that is over, for its stream is finite.
* `WsConnection`: the clock, the steps of the worker's own loop, and its deadline
  timer. The peer owes nothing: it may be silent, not read, or never close.
  `WorkerEnds` therefore excepts a worker that is still handing an on_connect
  message to a peer that does not read: nothing looks at the deadline there.
* `WsBatch`: `ws_batch()` itself; the end of the test; *some* worker that can
  go on; *some* assert worker that can; the collector; the consumer, which
  reads or drops the stream. This is less than scheduling gives: no task is
  promised a share of its own.
* `UiServer`: the steps of push, heartbeat and handler tasks in the loop, and a
  send that ends one way or the other.
* Nothing is assumed of the caller of `stop()`, of failures, of a panicking worker, or,
  but in `WsBatch`, of the consumer. `WsRequests`, `TemplateValues` and `RateFigures` are
  checked for safety only.

## 6. What is proved

With TLAPS, for every value of the constants that satisfies the named
assumptions: any number of workers, endpoints, connections and assert workers,
any capacity, any ramp.

* `Ramp_proof` (`PlanAssumption`): `TypeCorrect`; `PermitsConserved`, permits in the
  semaphore plus workers that hold one are the permits released; `RampFollowed`, the
  permits are never ahead of the ramp and never more than one behind it, and exact
  where `f64` is; `LoadWithinRamp`. The invariant `IInv` joins the type invariant with
  an account of the error (`RampAccounting`): permits and accumulator together differ from what the
  ramp asks for by at most `slack` a round, and all rounds so far by less than
  `1 / den` of a permit. `Resolved` turns that into the statement about whole permits, which are
  `1 / den` apart. That there are not more rounds than the assumption allows for needs the lower
  half of the account: a ramp that had gone on for longer would have ended.
* `Batch_proof` (`BatchAssumption`): `TypeCorrect`, `AccountingHolds`,
  `ReportSound`, `TeardownIsQuiet`. The invariant `IInv` is the type invariant with
  four parts. `Accounting` is the two equations on the counters. `Lifecycle` says
  what each place of `batch()` implies for the workers (all ended from `drain` on)
  and for the assert workers (all closed from `teardown` on). `Channel` says that
  an assert worker that has seen the channel closed has seen it empty with all
  senders gone, which stays so. `ReportFinal` is the goal; it is not inductive
  without the other three, because a counter that moves after the report is
  excluded only by the channel's being closed and drained. The equations count
  workers by place; the lemmas `GoCount` and `MoveCountJudges` say how a step of
  one task changes such a count.
  Its last part is the theorem `Refinement`, `Spec => ImplementsLoadTest`: each step
  maps to a step of `LoadTest` or to a stutter. It needs one more invariant,
  `Unsampled`: while the histogram is empty nothing has succeeded, which is
  what makes a failed report at the end of a test one that `LoadTest` allows.
* `WsConnection_proof` (`ConnectionAssumption`): `TypeCorrect`,
  `ConnectionsCounted`, `ConnectionsLimited`, `SilenceIsNoticed`,
  `KilledForSilence`. The invariant relates the counters to the place of the
  loop (`Counted`), the attempts to the connections they paid for (`Paid`), says
  that a connection opened after the end of the test is the last (`LateOnce`),
  and ties the heartbeat's timer (`Watched`) and the time of the last message (`Heard`)
  to the clock: without them the age of a message says nothing about the peer.
* `WsBatch_proof` (`WsBatchAssumption`): `NoPermitLost`, `NoMessageLost`,
  `SummaryIsLast`, `StreamTellsAll`. `Counts` equates the limiter's permits in use, the active
  connections and the messages owed with the number of workers at given places;
  `Stages` says what each place of `ws_batch()` implies of the workers and assert
  workers, `NotSpawned` that what has not been spawned has done nothing,
  `Reports` ties results on the way to the places of their makers, and
  `SummaryFinal` is then inductive: nobody is left to move what it tells.
  `StreamTellsAll` has an invariant of its own, `Delivery`: what the draft and the
  summary can be at each place (`Kinds`), where an engine error is (`Known`), that
  the summary, once it has copied the errors, leaves none it does not know
  (`Copied`), and that the one outcome is either on its way or delivered, before the
  end mark (`Pending`, `Marked`). `StreamMoves` sorts the steps by what they do to the
  channel, so that the queue is reasoned about once.
* `PythonSide_proof`, of `UiServer` (`UiAssumption`): `TypeCorrect`,
  `ResultsPushedOnce`, `OnlyReconnectForgets`. `InHand` says that two push tasks never hold
  the same result, `SentOnce` that what a push task has still to send has not been
  sent, `Opened` that tasks, pool and lists only hold connections that were opened,
  and `EndsCounted` that a connection is told the end at most once by each push task.
  Of `BatchRunner` (`RunnerAssumption`: the runs are positive numbers, as many as
  one likes): `StoppedIsGone`, `FirstTestIsRead`, `StopIsSeen`. The calls of one
  object exclude each other (`InTurn`, `Alone`); what remains is the detached task
  of each run. `Handled` says whose task `stop()` finds behind the handle, `Aborting`
  how far it has come with it, and `Gone` that the latest of the stopped tests has no
  task left to put its stream back. `FlagsTold` says that nobody but `run()` takes
  a flag back, `Fresh` that nothing has marked the first test done but its own end.
* `WsRequests_proof` (`RequestsAssumption`): `BooksAlwaysBalance`, `NothingForgotten`,
  `AnswersCountForTheirOwn` and `Refinement`, `Spec => EveryRequestOneOutcome`. The sweep of the watcher stops
  at the first fresh request of a queue; that it misses none needs `Aged`: a queue
  holds its requests in the order of their age. `Untaken` says that what was not
  taken from the templates is new, so that a number is never entered twice.
  `AnswersCountForTheirOwn` needs one more part, `InStep`: as long as nothing has set
  the requests of a key off by one (`Undisturbed`), those that are answered are
  exactly those the peer has replied to. The head of the key's queue is then the
  oldest request without a reply (`NextInLine`), which is the one an answer in order
  is for.
* `TemplateValues_proof` (`ValuesAssumption`): `PoolStaysSound`,
  `RequestsUseTheirRound`, `NoRowIsLost`. `Waiting` says that no worker moves before the
  global setup is done, so that the shared values are fixed when a round begins;
  `Merged` what a worker's copy holds at each request of its setup: the shared
  values, its row over them if there is a pool, and over both what this very setup has
  extracted so far. `RowsAccounted` is inductive with the types: a row that is neither sent
  nor reported belongs to a round on its way, or to a broken worker not yet joined. The properties of the pool are inductive with the types, by the lemmas on
  division with remainder (`DivModNext`, `DivModBefore`).
* `ResultStream_proof` (`StreamAssumption`): `StreamStaysSound`,
  `ErrorsReachTheStream`, `FiguresStaySound`, `NoRequestBetweenReports`. The stream is what the consumer has
  and will get; a step adds a report at its end, cuts it, or leaves it
  (`Adds`, `Cuts`, `Keeps`). `Marked` says which results stand in it at each place
  of `batch()`; `Heard` that the collector runs until it is told not to;
  `Reported` where an engine error can be, and that the summary has what the
  collector has not; `Ordered` that no report has counted further than the next;
  `Even` that `number_of_last_errors` never passes what a report has counted, until
  `batch()` moves it for the summary. For the rates, `Since` compares the report at
  hand with the live report before it (`Latest`): until the collector has moved them on, the
  last counts are those of that report. That no counter reaches `Word` is an assumption.

Only model-checked: liveness (`EveryWorkerExits`, `TestEnds`, `FullQueueDrains`,
`EverybodyEnds`, `CallsReturn`, `IterationEnds`, `WorkerEnds`, `EndIsTold`), for
fairness is out of the prover's reach; and the three properties the code violates. `RateFigures` has no theorem:
its one property is violated.

## 7. What is not modelled

* The contents of requests, answers and assertions, template rendering, times
  and histograms; whether an assertion holds is a choice.
* The conversion of Python options and results, which is sequential and
  stateless. `parse_step_options` lets a step or an interval of zero pass,
  which panics in `batch()` with a division by zero; the models assume positive
  ones.
* `WsBatchRunner` as a run of its own: its code is that of `BatchRunner` statement
  by statement, but for the runtime the task is spawned on.
* The drawing of a row for each WebSocket message (`iterate_data_pool`), the
  parsing of the CSV file, and the figures of `share_ws_result`'s live reports, which
  follow those of `share_result`.
* A cancelled `__anext__`; the static front end and the packaging; the operating
  system's sleep guard; the crates the code builds on, which are taken as it uses them.

## 8. What could follow

* The composition of `WsConnection` with `WsRequests`, which now meet only in the
  step that ends a connection.
* The live figures of `share_ws_result`, as `ResultStream` has those of `share_result`.
* The draw of a row for each WebSocket message, in `TemplateValues`.
