------------------------------ MODULE BatchRunner ------------------------------
(***************************************************************************)
(* The object Python programs hold (batch_runner.rs): run() and stop()     *)
(* return futures whose steps interleave with the task that run() spawns,  *)
(* with the load tests it has started, and with the iteration over the     *)
(* results, asynchronous or synchronous.  One object can run several tests *)
(* one after the other; they share its flags.                              *)
(*                                                                         *)
(* The caller awaits each run() and each stop() before the next call of    *)
(* either.  The iteration goes on beside them, in a coroutine of its own,  *)
(* from the moment the first run() has returned.                           *)
(*                                                                         *)
(* Abstracted: what a result says.  A load test is running or over; its    *)
(* workers look at the stop flag before every request, and ResultStream    *)
(* says what its stream carries.                                           *)
(***************************************************************************)
EXTENDS Naturals

CONSTANTS
  Runs,  \* bound of the model: calls of run(), 1 .. n, in this order
  Stops  \* bound of the model: calls of stop()

ASSUME RunnerAssumption == Runs \subseteq Nat \ {0}

VARIABLES
  shouldStop,  \* should_stop
  engineStop,  \* engine_should_stop, shared with the load tests
  isDone,      \* is_done
  handle,      \* task_handle: the run whose task it is, 0 for None
  stream,      \* the run whose stream it is, 0 for None
  runAt,       \* where the future of each run() is
  task,        \* where the task spawned by each run() is
  aborted,     \* runs whose task has been told to abort
  engine,      \* the load test of each run
  ended,       \* runs whose end mark has been read
  stopAt,      \* where each stop() is
  reader,      \* where the iteration is
  given,       \* what it got last
  stopped      \* history: runs that were there when a stop() that returned was called

flags   == <<shouldStop, engineStop, isDone>>
runVars == <<runAt, task, aborted, engine>>
readVars == <<reader, given, ended>>
stopVars == <<stopAt, stopped>>
runnerVars == <<flags, handle, stream, runVars, readVars, stopVars>>

RunnerInit ==
  /\ shouldStop = FALSE /\ engineStop = FALSE /\ isDone = FALSE
  /\ handle = 0 /\ stream = 0
  /\ runAt = [r \in Runs |-> "uncalled"]
  /\ task = [r \in Runs |-> "unborn"]
  /\ aborted = {}
  /\ engine = [r \in Runs |-> "unborn"]
  /\ ended = {}
  /\ stopAt = [s \in Stops |-> "uncalled"]
  /\ reader = "idle"
  /\ given = "nothing"
  /\ stopped = {}

(* __next__ keeps the interpreter for itself while it waits. *)
Interpreter == reader \notin {"syncLocked", "syncWaiting"}

(* The mutexes: the one around the stream is held over an await only by    *)
(* the iteration, the one around the handle only by a stop().              *)
StreamFree == reader \notin {"waiting", "syncLocked", "syncWaiting"}
HandleFree == \A s \in Stops : stopAt[s] \notin {"pausing", "clearing", "marking"}

(* The caller awaits what it has called. *)
CallerFree ==
  /\ Interpreter
  /\ \A r \in Runs : runAt[r] \in {"uncalled", "returned"}
  /\ \A s \in Stops : stopAt[s] \in {"uncalled", "returned"}

-----------------------------------------------------------------------------
(* run() *)

RunStep(r, from, to) == runAt[r] = from /\ runAt' = [runAt EXCEPT ![r] = to]

CallRun(r) ==
  /\ CallerFree
  /\ \A q \in Runs : q < r => runAt[q] = "returned"
  /\ RunStep(r, "uncalled", "called")
  /\ UNCHANGED <<flags, handle, stream, task, aborted, engine, readVars, stopVars>>

(* The future resets the flags one by one ...                              *)
ResetStop(r) ==
  /\ RunStep(r, "called", "resetEngine")
  /\ shouldStop' = FALSE
  /\ UNCHANGED <<engineStop, isDone, handle, stream, task, aborted, engine, readVars, stopVars>>

ResetEngine(r) ==
  /\ RunStep(r, "resetEngine", "resetDone")
  /\ engineStop' = FALSE
  /\ UNCHANGED <<shouldStop, isDone, handle, stream, task, aborted, engine, readVars, stopVars>>

(* Variant: is_done of an earlier stop() stays set. *)
ResetDoneForgotten(r) ==
  /\ RunStep(r, "resetDone", "storing")
  /\ task' = [task EXCEPT ![r] = "spawned"]
  /\ UNCHANGED <<flags, handle, stream, aborted, engine, readVars, stopVars>>

(* ... and spawns the task. *)
ResetDone(r) ==
  /\ RunStep(r, "resetDone", "storing")
  /\ isDone' = FALSE
  /\ task' = [task EXCEPT ![r] = "spawned"]
  /\ UNCHANGED <<shouldStop, engineStop, handle, stream, aborted, engine, readVars, stopVars>>

(* Storing the new handle detaches the task of the old one. *)
StoreHandle(r) ==
  /\ HandleFree
  /\ RunStep(r, "storing", "returned")
  /\ handle' = r
  /\ UNCHANGED <<flags, stream, task, aborted, engine, readVars, stopVars>>

(* The task: run_batch() spawns the load test and makes the stream, ...    *)
Launch(r) ==
  /\ task[r] = "spawned" /\ r \notin aborted
  /\ task' = [task EXCEPT ![r] = "holding"]
  /\ engine' = [engine EXCEPT ![r] = "running"]
  /\ UNCHANGED <<flags, handle, stream, runAt, aborted, readVars, stopVars>>

(* ... which the task stores.  If it need not wait for the lock it does so *)
(* even when it has been told to abort meanwhile.                          *)
StoreStream(r) ==
  /\ task[r] = "holding"
  /\ StreamFree
  /\ task' = [task EXCEPT ![r] = "over"]
  /\ stream' = r
  /\ UNCHANGED <<flags, handle, runAt, aborted, engine, readVars, stopVars>>

(* An aborted task ends where it waits; a stream in its hands goes too. *)
Abandon(r) ==
  /\ r \in aborted /\ task[r] \in {"spawned", "holding"}
  /\ task' = [task EXCEPT ![r] = "over"]
  /\ UNCHANGED <<flags, handle, stream, runAt, aborted, engine, readVars, stopVars>>

(* The load test ends when its time is up, or when its workers see the     *)
(* stop flag.                                                              *)
TestOver(r) ==
  /\ engine[r] = "running"
  /\ engine' = [engine EXCEPT ![r] = "over"]
  /\ UNCHANGED <<flags, handle, stream, runAt, task, aborted, readVars, stopVars>>

-----------------------------------------------------------------------------
(* stop() *)

StopStep(s, from, to) == stopAt[s] = from /\ stopAt' = [stopAt EXCEPT ![s] = to]

(* The call stores the first flag ... *)
CallStop(s) ==
  /\ CallerFree
  /\ StopStep(s, "uncalled", "flagging")
  /\ shouldStop' = TRUE
  /\ UNCHANGED <<engineStop, isDone, handle, stream, runVars, readVars, stopped>>

(* Variant: the load test is not told. *)
FlagEngineForgotten(s) ==
  /\ StopStep(s, "flagging", "called")
  /\ UNCHANGED <<flags, handle, stream, runVars, readVars, stopped>>

(* ... and the second. *)
FlagEngine(s) ==
  /\ StopStep(s, "flagging", "called")
  /\ engineStop' = TRUE
  /\ UNCHANGED <<shouldStop, isDone, handle, stream, runVars, readVars, stopped>>

(* The future takes the handle, if there is one, aborts its task, and      *)
(* pauses 100 ms.  It keeps the lock of the handle to its end.             *)
TakeHandle(s) ==
  /\ HandleFree
  /\ \/ /\ handle = 0
        /\ StopStep(s, "called", "clearing")
        /\ UNCHANGED <<handle, aborted>>
     \/ /\ handle # 0
        /\ StopStep(s, "called", "pausing")
        /\ aborted' = aborted \cup {handle}
        /\ handle' = 0
  /\ UNCHANGED <<flags, stream, runAt, task, engine, readVars, stopped>>

(* Variant: the pause is too short for the task to come to its end. *)
PauseTooShort(s) ==
  /\ StopStep(s, "pausing", "clearing")
  /\ UNCHANGED <<flags, handle, stream, runVars, readVars, stopped>>

(* Timing: an aborted task is over within the 100 ms, unless the lock of   *)
(* the stream is all it waits for (it is over by then too, by Abandon).    *)
Pause(s) ==
  /\ \A r \in aborted : task[r] = "over"
  /\ StopStep(s, "pausing", "clearing")
  /\ UNCHANGED <<flags, handle, stream, runVars, readVars, stopped>>

(* Variant: it waits for a stream to be there. *)
ClearStreamPresent(s) ==
  /\ StreamFree /\ stream # 0
  /\ StopStep(s, "clearing", "marking")
  /\ stream' = 0
  /\ UNCHANGED <<flags, handle, runVars, readVars, stopped>>

(* Then it clears the stream, under its lock. *)
ClearStream(s) ==
  /\ StreamFree
  /\ StopStep(s, "clearing", "marking")
  /\ stream' = 0
  /\ UNCHANGED <<flags, handle, runVars, readVars, stopped>>

(* is_done is stored and the future returns. *)
MarkDone(s) ==
  /\ StopStep(s, "marking", "returned")
  /\ isDone' = TRUE
  /\ stopped' = stopped \cup {r \in Runs : runAt[r] = "returned"}
  /\ UNCHANGED <<shouldStop, engineStop, handle, stream, runVars, readVars>>

-----------------------------------------------------------------------------
(* The iteration: __anext__ ...                                            *)

Read(from, to, item) ==
  /\ \E r \in Runs : runAt[r] = "returned"
  /\ reader = from /\ reader' = to
  /\ given' = item

NextCheck ==
  /\ Read("idle", IF shouldStop \/ isDone THEN "ending" ELSE "checked", given)
  /\ UNCHANGED <<flags, handle, stream, runVars, ended, stopVars>>

(* Variant: is_done is stored by the side that has seen the end mark only. *)
EndNextUnmarked ==
  /\ Read("ending", "idle", "done")
  /\ UNCHANGED <<flags, handle, stream, runVars, ended, stopVars>>

EndNext ==
  /\ Read("ending", "idle", "done")
  /\ isDone' = TRUE
  /\ UNCHANGED <<shouldStop, engineStop, handle, stream, runVars, ended, stopVars>>

(* Without a stream the consumer is asked to wait; with one, its lock is   *)
(* kept until the next item is there.                                      *)
LockStream ==
  /\ StreamFree
  /\ \/ stream = 0 /\ Read("checked", "idle", "should_wait")
     \/ stream # 0 /\ Read("checked", "waiting", given)
  /\ UNCHANGED <<flags, handle, stream, runVars, ended, stopVars>>

(* A test that runs sends results, one that is over ends with a summary    *)
(* and the end mark; behind the mark there may be a late report.           *)
Item ==
  /\ Read("waiting", "idle", "data")
  /\ UNCHANGED <<flags, handle, stream, runVars, ended, stopVars>>

EndMark ==
  /\ Read("waiting", "ending", given)
  /\ engine[stream] = "over" /\ stream \notin ended
  /\ ended' = ended \cup {stream}
  /\ UNCHANGED <<flags, handle, stream, runVars, stopVars>>

Closed ==
  /\ stream \in ended
  /\ Read("waiting", "ending", given)
  /\ UNCHANGED <<flags, handle, stream, runVars, ended, stopVars>>

(* ... and __next__, which nobody else's call can interrupt. *)
SyncStopped ==
  /\ shouldStop /\ StreamFree
  /\ Read("idle", "idle", "done")
  /\ isDone' = TRUE
  /\ stream' = 0
  /\ UNCHANGED <<shouldStop, engineStop, handle, runVars, ended, stopVars>>

SyncDone ==
  /\ ~shouldStop /\ isDone
  /\ Read("idle", "idle", "done")
  /\ UNCHANGED <<flags, handle, stream, runVars, ended, stopVars>>

SyncLock ==
  /\ ~shouldStop /\ ~isDone /\ StreamFree
  /\ \/ stream = 0 /\ Read("idle", "idle", "should_wait")
     \/ stream # 0 /\ Read("idle", "syncLocked", given)
  /\ UNCHANGED <<flags, handle, stream, runVars, ended, stopVars>>

(* The flag is looked at once more under the lock. *)
SyncPoll ==
  /\ \/ /\ shouldStop /\ Read("syncLocked", "idle", "done")
        /\ isDone' = TRUE
     \/ /\ ~shouldStop /\ Read("syncLocked", "syncWaiting", given)
        /\ UNCHANGED isDone
  /\ UNCHANGED <<shouldStop, engineStop, handle, stream, runVars, ended, stopVars>>

SyncItem ==
  /\ Read("syncWaiting", "idle", "data")
  /\ UNCHANGED <<flags, handle, stream, runVars, ended, stopVars>>

(* The end mark is given out as an empty dictionary. *)
SyncEndMark ==
  /\ Read("syncWaiting", "idle", "empty")
  /\ engine[stream] = "over" /\ stream \notin ended
  /\ ended' = ended \cup {stream}
  /\ isDone' = TRUE
  /\ UNCHANGED <<shouldStop, engineStop, handle, stream, runVars, stopVars>>

SyncClosed ==
  /\ stream \in ended
  /\ Read("syncWaiting", "idle", "done")
  /\ isDone' = TRUE
  /\ UNCHANGED <<shouldStop, engineStop, handle, stream, runVars, ended, stopVars>>

-----------------------------------------------------------------------------
RunFuture(r) == ResetStop(r) \/ ResetEngine(r) \/ ResetDone(r) \/ StoreHandle(r)
Task(r) == Launch(r) \/ StoreStream(r) \/ Abandon(r)
StopFuture(s) == FlagEngine(s) \/ TakeHandle(s) \/ Pause(s) \/ ClearStream(s) \/ MarkDone(s)
AsyncNext == NextCheck \/ EndNext \/ LockStream \/ Item \/ EndMark \/ Closed
SyncNext ==
  \/ SyncStopped \/ SyncDone \/ SyncLock \/ SyncPoll
  \/ SyncItem \/ SyncEndMark \/ SyncClosed

RunnerNext ==
  \/ \E r \in Runs : CallRun(r) \/ RunFuture(r) \/ Task(r) \/ TestOver(r)
  \/ \E s \in Stops : CallStop(s) \/ StopFuture(s)
  \/ AsyncNext \/ SyncNext

RunnerSpec == RunnerInit /\ [][RunnerNext]_runnerVars

(* Tasks are scheduled, a load test has a duration, the stream of a test   *)
(* that is over comes to its end, and tokio's mutex around the stream      *)
(* serves those who wait for it in order.                                  *)
RunnerFairness ==
  /\ \A r \in Runs :
       /\ WF_runnerVars(RunFuture(r)) /\ WF_runnerVars(TestOver(r))
       /\ WF_runnerVars(Launch(r) \/ Abandon(r)) /\ SF_runnerVars(StoreStream(r))
  /\ \A s \in Stops : WF_runnerVars(StopFuture(s)) /\ SF_runnerVars(ClearStream(s))
  /\ WF_runnerVars(AsyncNext \/ SyncNext)
  /\ SF_runnerVars(EndMark \/ SyncEndMark)

FairRunnerSpec == RunnerSpec /\ RunnerFairness

-----------------------------------------------------------------------------
(* Properties *)

(* Types of the runner's state. *)
RunnerTypeOK ==
  /\ shouldStop \in BOOLEAN /\ engineStop \in BOOLEAN /\ isDone \in BOOLEAN
  /\ handle \in Runs \cup {0} /\ stream \in Runs \cup {0}
  /\ runAt \in [Runs -> {"uncalled", "called", "resetEngine", "resetDone", "storing",
                         "returned"}]
  /\ task \in [Runs -> {"unborn", "spawned", "holding", "over"}]
  /\ aborted \subseteq Runs /\ ended \subseteq Runs /\ stopped \subseteq Runs
  /\ engine \in [Runs -> {"unborn", "running", "over"}]
  /\ stopAt \in [Stops -> {"uncalled", "flagging", "called", "pausing", "clearing",
                           "marking", "returned"}]
  /\ reader \in {"idle", "checked", "waiting", "ending", "syncLocked", "syncWaiting"}
  /\ given \in {"nothing", "data", "should_wait", "empty", "done"}

(* Once a stop() has returned, the iteration gives out no result of the    *)
(* test it stopped, not even in a call that had passed the check of the    *)
(* flags before: the stream is gone, and no late task puts it back.  (The  *)
(* task of an earlier run() is detached, stop() does not abort it.)        *)
StoppedStreamGone == stream \in stopped => \E r \in stopped : r > stream

(* While the test of the latest run() has not been stopped and its end     *)
(* mark has not been read, an iteration begun after the run() returned is  *)
(* not told that it is over ("重置标志", batch_runner.rs:168: run() resets   *)
(* the flags, for an object that has run before).                          *)
Unfinished(r) ==
  /\ runAt[r] = "returned" /\ r \notin ended
  /\ \A q \in Runs : q > r => runAt[q] = "uncalled"
  /\ ~shouldStop
ResultsKept == \A r \in Runs : Unfinished(r) => ~isDone

(* The same for the first test of an object: neither a stop() before it    *)
(* nor an iteration that waits already cuts its results off.               *)
FirstResultsKept ==
  \A r \in Runs : Unfinished(r) /\ (\A q \in Runs : r <= q) => ~isDone

(* stop() stops the load test ("设置停止标志，中止后台任务", __init__.pyi:176): *)
(* a test still winding down when it has returned sees the stop flag, as   *)
(* long as no later run() has been called.                                 *)
StoppedUntilReused ==
  \A r \in stopped :
    engine[r] = "running" /\ (\A q \in Runs : q > r => runAt[q] = "uncalled") => engineStop

(* Neither lock keeps a stop() or a run() waiting for ever, although an    *)
(* iteration holds the stream's while it waits for an item and a stop()    *)
(* holds the handle's while it waits for the stream's.                     *)
StopReturns == \A s \in Stops : stopAt[s] # "uncalled" ~> stopAt[s] = "returned"
RunReturns == \A r \in Runs : runAt[r] # "uncalled" ~> runAt[r] = "returned"
CallsReturn == StopReturns /\ RunReturns

(* An iteration that reads on is told that it is over. *)
IterationEnds == \A r \in Runs : runAt[r] = "returned" ~> isDone
=============================================================================
