----------------------------- MODULE WsConnection -----------------------------
(***************************************************************************)
(* One WebSocket worker (start_ws_concurrency in start_ws_task.rs): its    *)
(* connect loop, and the life of a connection, in which sender, receiver,  *)
(* heartbeat, deadline and stop are the branches of one select!, beside a  *)
(* writer task that owns the socket.                                       *)
(*                                                                         *)
(* Abstracted: what is sent and received (WsRequests has the requests);    *)
(* the entry ws_errors gets beside every connection failed or dropped; the *)
(* engine error of a setup or teardown that fails. The permits are those   *)
(* of WsBatch. A unit of time is a second or less; a step may be as        *)
(* late as it likes, and held says that one was.                           *)
(***************************************************************************)
EXTENDS Integers, Sequences

CONSTANTS
  MaxAttempts, \* ReconnectPolicy::max_attempts, 0 for no policy
  Backoff,     \* backoff_ms, in units
  TestEnd,     \* test_end
  Second,      \* units of the pause after a failed setup
  Ttls,        \* values of connection_ttl_secs in units, 0 for none
  HbInterval,  \* heartbeat interval, in units
  HbTimeout,   \* heartbeat timeout, in units
  Greetings,   \* number of on_connect messages
  WriteCap,    \* places of the channel to the writer, 64 in the code
  MaxUnread,   \* bound of the model: messages in the socket
  MaxNow       \* bound of the model: time

ASSUME ConnectionAssumption ==
  /\ MaxAttempts \in Nat /\ Backoff \in Nat /\ TestEnd \in Nat
  /\ Second \in Nat \ {0} /\ Ttls \subseteq Nat
  /\ HbInterval \in Nat \ {0} /\ HbTimeout \in Nat \ {0}
  /\ Greetings \in Nat /\ WriteCap \in Nat \ {0}
  /\ MaxUnread \in Nat /\ MaxNow \in Nat /\ TestEnd <= MaxNow

VARIABLES
  now,
  stop,        \* should_stop
  pc,          \* where the connect loop is
  wake,        \* end of its present sleep
  attempts,    \* reconnect_attempts
  deadline,    \* effective_deadline of the connection
  greeted,     \* on_connect messages handed to the writer
  exit,        \* the last connection's ExitReason
  opened, failed, dropped, heartbeats, reconnects, concurrent, errors,
               \* the connection figures of WsEndpointStats
  socket,      \* what the peer has sent and nobody has read
  writer,      \* the writer task: "running" or "gone"
  queued,      \* messages in the channel to it
  tx,          \* sender_loop: "tick", or "writing" while the channel is full
  rx,          \* receiver_loop: "reading", or "asserting" while it waits for
               \* a place among the assertions
  full,        \* the channel of assertions, which all connections share
  hb,          \* heartbeat_loop: "waiting" for its tick, or "sending"
  hbDue,       \* the next tick of its interval
  hbFrom,      \* before_tick
  lastRecv,    \* last_recv
  heard,       \* history: when the peer last sent something
  held,        \* history: "late" if the connection's task was late for
               \* something, "assertions" while time passed since the last
               \* message was read with the receiver waiting for a place
  lateOpened   \* history: connections opened after the end or a stop

figures  == <<opened, failed, dropped, heartbeats, reconnects, concurrent, errors>>
loopVars == <<pc, wake, attempts, deadline, greeted, exit>>
hbVars   == <<hb, hbDue, hbFrom>>
peerVars == <<socket, heard>>
ioVars   == <<writer, queued, tx, rx>>
vars == <<now, stop, loopVars, figures, peerVars, ioVars, full, hbVars, lastRecv, held, lateOpened>>

Init ==
  /\ now = 0 /\ stop = FALSE
  /\ pc = "loop" /\ wake = 0 /\ attempts = 0 /\ deadline = 0 /\ greeted = 0 /\ exit = "none"
  /\ opened = 0 /\ failed = 0 /\ dropped = 0 /\ heartbeats = 0
  /\ reconnects = 0 /\ concurrent = 0 /\ errors = 0
  /\ socket = <<>> /\ heard = 0
  /\ writer = "gone" /\ queued = 0 /\ tx = "tick" /\ rx = "reading"
  /\ full = FALSE
  /\ hb = "waiting" /\ hbDue = 0 /\ hbFrom = 0 /\ lastRecv = 0
  /\ held = "no" /\ lateOpened = 0

Over == now >= TestEnd \/ stop

-----------------------------------------------------------------------------
(* 'CONNECT: the loop from one connection to the next *)

LoopTop ==
  /\ pc = "loop"
  /\ pc' = IF Over THEN "teardown" ELSE "prepare"
  /\ UNCHANGED <<now, stop, wake, attempts, deadline, greeted, exit, figures, peerVars, ioVars, full,
                 hbVars, lastRecv, held, lateOpened>>

(* Think time, a row of the pool, the endpoint's setup: nothing looks at   *)
(* the time or at the stop flag again. A setup that fails is tried again   *)
(* after a second, and no attempt is counted.                              *)
SetupFails ==
  /\ pc = "prepare"
  /\ pc' = "backoff" /\ exit' = "setup"
  /\ wake' = now + Second
  /\ UNCHANGED <<now, stop, attempts, deadline, greeted, figures, peerVars, ioVars, full,
                 hbVars, lastRecv, held, lateOpened>>

(* Variant: the attempts start anew with each connection that was opened. *)
ReconnectAnew(reason) ==
  /\ exit' = reason
  /\ IF attempts < MaxAttempts \/ reason \notin {"request", "handshake"}
     THEN /\ pc' = "backoff" /\ wake' = now + Backoff
          /\ attempts' = IF reason \in {"request", "handshake"} THEN attempts + 1 ELSE 1
     ELSE pc' = "teardown" /\ UNCHANGED <<attempts, wake>>

(* should_reconnect: the attempts are those of the worker's whole life. *)
Reconnect(reason) ==
  /\ exit' = reason
  /\ IF attempts < MaxAttempts
     THEN pc' = "backoff" /\ attempts' = attempts + 1 /\ wake' = now + Backoff
     ELSE pc' = "teardown" /\ UNCHANGED <<attempts, wake>>

RequestFails ==
  /\ pc = "prepare"
  /\ failed' = failed + 1
  /\ Reconnect("request")
  /\ UNCHANGED <<now, stop, deadline, greeted, opened, dropped, heartbeats, reconnects, concurrent, errors,
                 peerVars, ioVars, full, hbVars, lastRecv, held, lateOpened>>

Prepared ==
  /\ pc = "prepare"
  /\ pc' = "connecting"
  /\ UNCHANGED <<now, stop, wake, attempts, deadline, greeted, exit, figures, peerVars, ioVars, full,
                 hbVars, lastRecv, held, lateOpened>>

(* A refused handshake, or one that took longer than the connect timeout. *)
ConnectFails ==
  /\ pc = "connecting"
  /\ failed' = failed + 1 /\ errors' = errors + 1
  /\ Reconnect("handshake")
  /\ UNCHANGED <<now, stop, deadline, greeted, opened, dropped, heartbeats, reconnects, concurrent,
                 peerVars, ioVars, full, hbVars, lastRecv, held, lateOpened>>

Earlier(a, b) == IF a < b THEN a ELSE b

Connect(ttl) ==
  /\ pc = "connecting"
  /\ opened' = opened + 1 /\ concurrent' = concurrent + 1
  /\ lateOpened' = IF Over THEN lateOpened + 1 ELSE lateOpened
  /\ pc' = "greeting" /\ greeted' = 0 /\ exit' = "none"
  /\ deadline' = IF ttl > 0 THEN Earlier(now + ttl, TestEnd) ELSE TestEnd
  /\ lastRecv' = now /\ heard' = now
  /\ socket' = <<>> /\ writer' = "running" /\ queued' = 0 /\ tx' = "tick" /\ rx' = "reading"
  /\ held' = "no"
  /\ UNCHANGED <<now, stop, wake, attempts, failed, dropped, heartbeats, reconnects, errors, full, hbVars>>

(* The end of a sleep (or of the clock's bound). A reconnection is counted *)
(* here, before anything says that there will be one, and not after a      *)
(* request that could not be built.                                        *)
WakeUp ==
  /\ pc = "backoff" /\ (now >= wake \/ now = MaxNow)
  /\ pc' = "loop"
  /\ reconnects' = IF exit \in {"setup", "request"} THEN reconnects ELSE reconnects + 1
  /\ UNCHANGED <<now, stop, wake, attempts, deadline, greeted, exit,
                 opened, failed, dropped, heartbeats, concurrent, errors,
                 peerVars, ioVars, full, hbVars, lastRecv, held, lateOpened>>

Teardown ==
  /\ pc = "teardown"
  /\ pc' = "done"
  /\ UNCHANGED <<now, stop, wake, attempts, deadline, greeted, exit, figures, peerVars, ioVars, full,
                 hbVars, lastRecv, held, lateOpened>>

-----------------------------------------------------------------------------
(* run_connection_lifecycle *)

CanQueue == writer = "running" /\ queued < WriteCap
CanReceive == pc = "alive" /\ rx = "reading" /\ socket # <<>>
Exit(reason) == pc' = "closing" /\ exit' = reason

(* The on_connect messages go out before the select! starts: neither the   *)
(* deadline nor a stop is looked at while one waits for its place.         *)
Greet ==
  /\ pc = "greeting" /\ greeted < Greetings
  /\ \/ /\ CanQueue
        /\ greeted' = greeted + 1 /\ queued' = queued + 1
        /\ UNCHANGED <<pc, exit>>
     \/ /\ writer = "gone"
        /\ Exit("StreamError")
        /\ UNCHANGED <<greeted, queued>>
  /\ UNCHANGED <<now, stop, wake, attempts, deadline, figures, peerVars, writer, tx, rx, full,
                 hbVars, lastRecv, held, lateOpened>>

(* The select! starts; the first tick of the heartbeat is at once and is   *)
(* not looked at.                                                          *)
StartSelect ==
  /\ pc = "greeting" /\ greeted = Greetings
  /\ pc' = "alive"
  /\ hb' = "waiting" /\ hbDue' = now + HbInterval /\ hbFrom' = now
  /\ UNCHANGED <<now, stop, wake, attempts, deadline, greeted, exit, figures, peerVars, ioVars, full,
                 lastRecv, held, lateOpened>>

(* Variant: the deadline is looked at when a message is there. *)
DeadlineInReceiver ==
  /\ CanReceive /\ now >= deadline
  /\ Exit("Normal")
  /\ UNCHANGED <<now, stop, wake, attempts, deadline, greeted, figures, peerVars, ioVars, full,
                 hbVars, lastRecv, held, lateOpened>>

DeadlinePassed ==
  /\ pc = "alive" /\ now >= deadline
  /\ Exit("Normal")
  /\ UNCHANGED <<now, stop, wake, attempts, deadline, greeted, figures, peerVars, ioVars, full,
                 hbVars, lastRecv, held, lateOpened>>

(* The stop task looks once a second, the sender at each of its ticks. *)
StopSeen ==
  /\ pc = "alive" /\ stop
  /\ Exit("Normal")
  /\ UNCHANGED <<now, stop, wake, attempts, deadline, greeted, figures, peerVars, ioVars, full,
                 hbVars, lastRecv, held, lateOpened>>

(* sender_loop *)
SendTick ==
  /\ pc = "alive" /\ tx = "tick" /\ now < deadline /\ ~stop
  /\ tx' = "writing"
  /\ UNCHANGED <<now, stop, loopVars, figures, peerVars, writer, queued, rx, full,
                 hbVars, lastRecv, held, lateOpened>>

Send ==
  /\ pc = "alive" /\ tx = "writing"
  /\ \/ CanQueue /\ queued' = queued + 1 /\ tx' = "tick" /\ UNCHANGED <<pc, exit>>
     \/ writer = "gone" /\ Exit("StreamError") /\ UNCHANGED <<queued, tx>>
  /\ UNCHANGED <<now, stop, wake, attempts, deadline, greeted, figures, peerVars, writer, rx, full,
                 hbVars, lastRecv, held, lateOpened>>

(* receiver_loop *)

(* Variant: a pong does not count as a sign of life. *)
ReceiveTextOnly ==
  /\ CanReceive /\ Head(socket) \in {"text", "pong"}
  /\ socket' = Tail(socket)
  /\ lastRecv' = IF Head(socket) = "text" THEN now ELSE lastRecv
  /\ rx' = IF Head(socket) = "text" /\ full THEN "asserting" ELSE "reading"
  /\ held' = IF held = "late" THEN "late" ELSE "no"
  /\ UNCHANGED <<now, stop, loopVars, figures, heard, writer, queued, tx, full, hbVars, lateOpened>>

(* Anything received is a sign of life. A text with assertions is handed   *)
(* to the assertion workers, and the receiver waits for a place there.     *)
Receive ==
  /\ CanReceive /\ Head(socket) \in {"text", "pong"}
  /\ socket' = Tail(socket)
  /\ lastRecv' = now
  /\ rx' = IF Head(socket) = "text" /\ full THEN "asserting" ELSE "reading"
  /\ held' = IF held = "late" THEN "late" ELSE "no"
  /\ UNCHANGED <<now, stop, loopVars, figures, heard, writer, queued, tx, full, hbVars, lateOpened>>

HandOver ==
  /\ pc = "alive" /\ rx = "asserting" /\ ~full
  /\ rx' = "reading"
  /\ UNCHANGED <<now, stop, loopVars, figures, peerVars, writer, queued, tx, full,
                 hbVars, lastRecv, held, lateOpened>>

ReceiveEnd ==
  /\ CanReceive /\ Head(socket) \in {"close", "error"}
  /\ socket' = Tail(socket)
  /\ Exit(IF Head(socket) = "close" THEN "ServerClose" ELSE "StreamError")
  /\ UNCHANGED <<now, stop, wake, attempts, deadline, greeted, figures, heard, ioVars, full,
                 hbVars, lastRecv, held, lateOpened>>

(* heartbeat_loop *)
SchedulingLag == IF now - hbFrom > HbInterval THEN now - hbFrom - HbInterval ELSE 0

(* Variant: a tick that is on time counts as late. *)
StarvedAlways == 2 * SchedulingLag >= 0

RuntimeStarved == 2 * SchedulingLag > HbInterval

HbTick == pc = "alive" /\ hb = "waiting" /\ now >= hbDue

HeartbeatKill ==
  /\ HbTick /\ ~RuntimeStarved /\ now - lastRecv > HbTimeout
  /\ Exit("HeartbeatTimeout")
  /\ UNCHANGED <<now, stop, wake, attempts, deadline, greeted, figures, peerVars, ioVars, full,
                 hbVars, lastRecv, held, lateOpened>>

HeartbeatPass ==
  /\ HbTick /\ (RuntimeStarved \/ now - lastRecv <= HbTimeout)
  /\ hb' = "sending" /\ hbDue' = now + HbInterval
  /\ UNCHANGED <<now, stop, loopVars, figures, peerVars, ioVars, full, hbFrom, lastRecv, held, lateOpened>>

(* The heartbeat shares the writer's channel: while that is full, nobody   *)
(* looks at the age of the last message.                                   *)
Heartbeat ==
  /\ pc = "alive" /\ hb = "sending"
  /\ \/ CanQueue /\ queued' = queued + 1 /\ hb' = "waiting" /\ hbFrom' = now /\ UNCHANGED <<pc, exit>>
     \/ writer = "gone" /\ Exit("StreamError") /\ UNCHANGED <<queued, hb, hbFrom>>
  /\ UNCHANGED <<now, stop, wake, attempts, deadline, greeted, figures, peerVars, writer, tx, rx, full,
                 hbDue, lastRecv, held, lateOpened>>

(* What belonged to the connection goes with it. *)
Gone ==
  /\ deadline' = 0 /\ greeted' = 0
  /\ socket' = <<>> /\ heard' = 0 /\ lastRecv' = 0 /\ held' = "no"
  /\ writer' = "gone" /\ queued' = 0 /\ tx' = "tick" /\ rx' = "reading"
  /\ hb' = "waiting" /\ hbDue' = 0 /\ hbFrom' = 0

(* Variant: a connection that ended in an error still counts as active. *)
CloseStillActive ==
  /\ pc = "closing"
  /\ IF exit = "Normal"
     THEN /\ pc' = "teardown" /\ concurrent' = concurrent - 1
          /\ UNCHANGED <<wake, attempts, exit, dropped, heartbeats>>
     ELSE /\ dropped' = dropped + 1
          /\ heartbeats' = IF exit = "HeartbeatTimeout" THEN heartbeats + 1 ELSE heartbeats
          /\ concurrent' = concurrent
          /\ Reconnect(exit)
  /\ Gone
  /\ UNCHANGED <<now, stop, opened, failed, reconnects, errors, full, lateOpened>>

(* The writer is given up to two seconds, none after a stop, and aborted;  *)
(* then the connection is counted out. One that ended by its deadline, its *)
(* own ttl included, or by a stop ends the worker.                         *)
Close ==
  /\ pc = "closing"
  /\ concurrent' = concurrent - 1
  /\ IF exit = "Normal"
     THEN pc' = "teardown" /\ UNCHANGED <<wake, attempts, exit, dropped, heartbeats>>
     ELSE /\ dropped' = dropped + 1
          /\ heartbeats' = IF exit = "HeartbeatTimeout" THEN heartbeats + 1 ELSE heartbeats
          /\ Reconnect(exit)
  /\ Gone
  /\ UNCHANGED <<now, stop, opened, failed, reconnects, errors, full, lateOpened>>

-----------------------------------------------------------------------------
(* The writer task, the peer, the assertions of all connections, the clock *)

Write ==
  /\ pc \in {"greeting", "alive"} /\ writer = "running" /\ queued > 0
  /\ queued' = queued - 1
  /\ UNCHANGED <<now, stop, loopVars, figures, peerVars, writer, tx, rx, full, hbVars, lastRecv, held, lateOpened>>

PeerEnded == \E i \in DOMAIN socket : socket[i] \in {"close", "error"}

(* The writer finds the peer gone. *)
WriteFails ==
  /\ pc \in {"greeting", "alive"} /\ writer = "running" /\ queued > 0 /\ PeerEnded
  /\ writer' = "gone"
  /\ UNCHANGED <<now, stop, loopVars, figures, peerVars, queued, tx, rx, full, hbVars, lastRecv, held, lateOpened>>

Arrive(m) ==
  /\ pc \in {"greeting", "alive"} /\ ~PeerEnded /\ Len(socket) < MaxUnread
  /\ socket' = Append(socket, m)
  /\ heard' = now
  /\ UNCHANGED <<now, stop, loopVars, figures, ioVars, full, hbVars, lastRecv, held, lateOpened>>

Assertions ==
  /\ pc = "alive"
  /\ full' = ~full
  /\ UNCHANGED <<now, stop, loopVars, figures, peerVars, ioVars, hbVars, lastRecv, held, lateOpened>>

Stop ==
  /\ ~stop
  /\ stop' = TRUE
  /\ UNCHANGED <<now, loopVars, figures, peerVars, ioVars, full, hbVars, lastRecv, held, lateOpened>>

(* The task is late if time passes while it could read, or should have     *)
(* looked at a tick, or is not in its select! yet.                         *)
Late == pc = "greeting" \/ CanReceive \/ HbTick \/ (pc = "alive" /\ rx = "asserting" /\ ~full)

Tick ==
  /\ now < MaxNow
  /\ now' = now + 1
  /\ held' = IF Late \/ held = "late" THEN "late"
             ELSE IF rx = "asserting" THEN "assertions" ELSE held
  /\ UNCHANGED <<stop, loopVars, figures, peerVars, ioVars, full, hbVars, lastRecv, lateOpened>>

Terminated == pc = "done" /\ now = MaxNow /\ stop /\ UNCHANGED vars

Loop == LoopTop \/ SetupFails \/ RequestFails \/ Prepared \/ ConnectFails
          \/ (\E ttl \in Ttls : Connect(ttl)) \/ WakeUp \/ Teardown \/ Close
Life == Greet \/ StartSelect \/ DeadlinePassed \/ StopSeen \/ SendTick \/ Send
          \/ Receive \/ HandOver \/ ReceiveEnd \/ HeartbeatKill \/ HeartbeatPass \/ Heartbeat
Outside == Write \/ WriteFails \/ (\E m \in {"text", "pong", "close", "error"} : Arrive(m))
             \/ Assertions \/ Stop

Next == Loop \/ Life \/ Outside \/ Tick \/ Terminated

Spec == Init /\ [][Next]_vars

(* Time passes, and the worker's task is scheduled: what is ready in its   *)
(* loop and, in the select!, the timer of the deadline, gets its turn. The *)
(* peer owes nothing: it need not read, answer or close.                   *)
Fairness ==
  /\ WF_vars(Tick)
  /\ WF_vars(LoopTop) /\ WF_vars(SetupFails \/ RequestFails \/ Prepared)
  /\ WF_vars(ConnectFails \/ \E ttl \in Ttls : Connect(ttl))
  /\ WF_vars(WakeUp) /\ WF_vars(Teardown) /\ WF_vars(Close)
  /\ WF_vars(Greet) /\ WF_vars(StartSelect) /\ WF_vars(DeadlinePassed)

FairSpec == Spec /\ Fairness

-----------------------------------------------------------------------------
(* Properties *)

Reasons == {"Normal", "HeartbeatTimeout", "StreamError", "ServerClose"}

TypeOK ==
  /\ now \in 0 .. MaxNow /\ stop \in BOOLEAN
  /\ pc \in {"loop", "prepare", "connecting", "greeting", "alive", "closing", "backoff", "teardown", "done"}
  /\ wake \in Nat /\ attempts \in 0 .. MaxAttempts /\ deadline \in 0 .. TestEnd
  /\ greeted \in 0 .. Greetings
  /\ exit \in Reasons \cup {"none", "setup", "request", "handshake"}
  /\ opened \in Nat /\ failed \in Nat /\ dropped \in Nat /\ heartbeats \in Nat
  /\ reconnects \in Nat /\ concurrent \in 0 .. 1 /\ errors \in Nat
  /\ socket \in Seq({"text", "pong", "close", "error"}) /\ Len(socket) <= MaxUnread
  /\ writer \in {"running", "gone"} /\ queued \in 0 .. WriteCap
  /\ tx \in {"tick", "writing"} /\ rx \in {"reading", "asserting"} /\ full \in BOOLEAN
  /\ hb \in {"waiting", "sending"} /\ hbDue \in Nat /\ hbFrom \in 0 .. MaxNow
  /\ lastRecv \in 0 .. MaxNow /\ heard \in 0 .. MaxNow
  /\ held \in {"no", "assertions", "late"} /\ lateOpened \in Nat

Live == pc \in {"greeting", "alive", "closing"}
EndedNormally == exit = "Normal" /\ pc \in {"teardown", "done"}

(* Every connection that was opened is active, was dropped, or is the one  *)
(* that ended the worker; the number of active connections says so at any  *)
(* time; and only a heartbeat's drop counts as one.                        *)
ConnectionsAddUp ==
  /\ concurrent = IF Live THEN 1 ELSE 0
  /\ opened = dropped + concurrent + (IF EndedNormally THEN 1 ELSE 0)
  /\ heartbeats <= dropped
  /\ errors <= failed

(* A worker tries to connect at most max_attempts + 1 times in its whole   *)
(* life, however long its connections held, and does not count more        *)
(* reconnections than it was allowed.                                      *)
TriesBounded ==
  /\ opened + failed <= attempts + 1
  /\ opened + failed <= MaxAttempts + 1
  /\ reconnects <= attempts

(* The end of the test and a stop are looked at before a connection is     *)
(* prepared and not again until it is open: a worker opens at most one     *)
(* connection after them.                                                  *)
OneLateConnection == lateOpened <= 1

(* What a worker can do to the server, for good or bad luck. *)
ConnectsBounded == TriesBounded /\ OneLateConnection

(* A connection whose task was never late is not left alone by the         *)
(* heartbeat for longer than its timeout and one interval, unless the      *)
(* heartbeat itself waits for the writer.                                  *)
SilenceNoticed ==
  (pc = "alive" /\ held # "late" /\ hb = "waiting" /\ now < hbDue) =>
    now - lastRecv < HbTimeout + HbInterval

Silent == now - heard > HbTimeout
Killed == exit' = "HeartbeatTimeout" /\ pc = "alive" /\ pc' = "closing"

(* If its task was never late, and its receiver did not have to wait for a *)
(* place among the assertions since it last read, a connection is ended by *)
(* the heartbeat only when the peer was silent for the timeout (or spoke   *)
(* this very moment).                                                      *)
SilentUnlessBlocked ==
  [][(Killed /\ held = "no") => (Silent \/ heard = now)]_vars

(* The worker comes to its end whatever the peer does, unless it waits for *)
(* ever to hand over an on_connect message that the peer does not read.    *)
WorkerEnds == <>(pc = "done") \/ <>[](pc = "greeting")
================================================================================
