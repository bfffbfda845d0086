-------------------------- MODULE WsConnection_proof --------------------------
(***************************************************************************)
(* Proofs about one connection worker of the WebSocket test, for any       *)
(* number of attempts, any times and any behaviour of the peer.            *)
(***************************************************************************)
EXTENDS WsConnection, TLAPS

(* The worker is active in the figures exactly while it has a connection. *)
Active == concurrent = IF Live THEN 1 ELSE 0

(* What the worker knows of its last connection when it is over. *)
ExitKnown ==
  /\ pc = "closing" => exit \in Reasons
  /\ exit = "Normal" => pc \in {"closing", "teardown", "done"}

LEMMA LoopTypeOK == ASSUME TypeOK, Active, ExitKnown, Loop PROVE TypeOK'
<1> USE ConnectionAssumption DEF TypeOK, Reasons, loopVars, hbVars, peerVars,
          ioVars, figures, Active, Live, ExitKnown,
          Reconnect
<1>1. CASE LoopTop
  BY <1>1 DEF LoopTop
<1>2. CASE SetupFails
  BY <1>2 DEF SetupFails
<1>3. CASE RequestFails
  BY <1>3 DEF RequestFails
<1>4. CASE Prepared
  BY <1>4 DEF Prepared
<1>5. CASE ConnectFails
  BY <1>5 DEF ConnectFails
<1>6. ASSUME NEW ttl \in Ttls, Connect(ttl) PROVE TypeOK'
  BY <1>6 DEF Connect, Earlier
<1>7. CASE WakeUp
  BY <1>7 DEF WakeUp
<1>8. CASE Teardown
  BY <1>8 DEF Teardown
<1>9. CASE Close
  BY <1>9 DEF Close, Gone
<1> QED
  BY <1>1, <1>2, <1>3, <1>4, <1>5, <1>6, <1>7, <1>8, <1>9 DEF Loop

LEMMA LifeTypeOK == ASSUME TypeOK, Life PROVE TypeOK'
<1> USE ConnectionAssumption DEF TypeOK, Reasons, loopVars, hbVars, peerVars,
          ioVars, figures, Exit, CanQueue, CanReceive, HbTick
<1>1. CASE Greet
  BY <1>1 DEF Greet
<1>2. CASE StartSelect
  BY <1>2 DEF StartSelect
<1>3. CASE DeadlinePassed
  BY <1>3 DEF DeadlinePassed
<1>4. CASE StopSeen
  BY <1>4 DEF StopSeen
<1>5. CASE SendTick
  BY <1>5 DEF SendTick
<1>6. CASE Send
  BY <1>6 DEF Send
<1>7. CASE Receive
  BY <1>7 DEF Receive
<1>8. CASE HandOver
  BY <1>8 DEF HandOver
<1>9. CASE ReceiveEnd
  BY <1>9 DEF ReceiveEnd
<1>10. CASE HeartbeatKill
  BY <1>10 DEF HeartbeatKill
<1>11. CASE HeartbeatPass
  BY <1>11 DEF HeartbeatPass
<1>12. CASE Heartbeat
  BY <1>12 DEF Heartbeat
<1> QED
  BY <1>1, <1>2, <1>3, <1>4, <1>5, <1>6, <1>7, <1>8, <1>9, <1>10, <1>11,
     <1>12 DEF Life

LEMMA OutsideTypeOK == ASSUME TypeOK, Outside \/ Tick PROVE TypeOK'
<1> USE ConnectionAssumption DEF TypeOK, Reasons, loopVars, hbVars, peerVars,
          ioVars, figures
<1>1. CASE Write
  BY <1>1 DEF Write
<1>2. CASE WriteFails
  BY <1>2 DEF WriteFails
<1>3. ASSUME NEW m \in {"text", "pong", "close", "error"}, Arrive(m)
      PROVE  TypeOK'
  BY <1>3 DEF Arrive
<1>4. CASE Assertions
  BY <1>4 DEF Assertions
<1>5. CASE Stop
  BY <1>5 DEF Stop
<1>6. CASE Tick
  <2>1. held' \in {"late", "assertions", held}
    BY <1>6 DEF Tick
  <2>2. now' \in 0 .. MaxNow
    BY <1>6 DEF Tick
  <2> QED
    BY <1>6, <2>1, <2>2 DEF Tick
<1> QED
  BY <1>6, <1>1, <1>2, <1>3, <1>4, <1>5 DEF Outside

-----------------------------------------------------------------------------
(* The figures *)

Counted == ExitKnown /\ ConnectionsAddUp

(* An attempt is paid for before the next connection is tried, and a       *)
(* reconnection is counted after its attempt.                              *)
Paid ==
  /\ opened + failed <=
       attempts + (IF Live \/ pc \in {"teardown", "done"} THEN 1 ELSE 0)
  /\ reconnects + (IF pc = "backoff" /\ exit \notin {"setup", "request"} THEN 1 ELSE 0)
       <= attempts

(* After a late connection the loop is left when it comes to its top. *)
LateOnce ==
  \/ lateOpened = 0
  \/ lateOpened = 1 /\ Over /\ pc \notin {"prepare", "connecting"}

(* What a connection does while it lives moves none of these. *)
LEMMA LifeKeeps ==
  ASSUME Life
  PROVE  /\ UNCHANGED <<now, stop, wake, attempts, figures, lateOpened, deadline>>
         /\ pc \in {"greeting", "alive"} /\ pc' \in {"greeting", "alive", "closing"}
         /\ \/ pc' # "closing" /\ exit' = exit
            \/ pc' = "closing" /\ exit' \in Reasons
<1> USE DEF figures, peerVars, ioVars, loopVars, hbVars, Exit, CanReceive,
          HbTick, Reasons
<1>1. CASE Greet
  BY <1>1 DEF Greet
<1>2. CASE StartSelect
  BY <1>2 DEF StartSelect
<1>3. CASE DeadlinePassed
  BY <1>3 DEF DeadlinePassed
<1>4. CASE StopSeen
  BY <1>4 DEF StopSeen
<1>5. CASE SendTick
  BY <1>5 DEF SendTick
<1>6. CASE Send
  BY <1>6 DEF Send
<1>7. CASE Receive
  BY <1>7 DEF Receive
<1>8. CASE HandOver
  BY <1>8 DEF HandOver
<1>9. CASE ReceiveEnd
  BY <1>9 DEF ReceiveEnd
<1>10. CASE HeartbeatKill
  BY <1>10 DEF HeartbeatKill
<1>11. CASE HeartbeatPass
  BY <1>11 DEF HeartbeatPass
<1>12. CASE Heartbeat
  BY <1>12 DEF Heartbeat
<1> QED
  BY <1>1, <1>2, <1>3, <1>4, <1>5, <1>6, <1>7, <1>8, <1>9, <1>10, <1>11,
     <1>12 DEF Life

LEMMA OutsideKeeps ==
  ASSUME Outside \/ Tick, TypeOK
  PROVE  UNCHANGED <<loopVars, figures, lateOpened>> /\ (Over => Over')
<1>1. ASSUME Outside PROVE UNCHANGED <<loopVars, figures, lateOpened>> /\ (Over => Over')
  BY <1>1 DEF Outside, Write, WriteFails, Arrive, Assertions, Stop, Over
<1>2. ASSUME Tick PROVE UNCHANGED <<loopVars, figures, lateOpened>> /\ (Over => Over')
  BY <1>2, ConnectionAssumption DEF Tick, Over, TypeOK
<1> QED
  BY <1>1, <1>2

LEMMA NextCounted ==
  TypeOK /\ Counted /\ [Next]_vars => Counted'
<1> SUFFICES ASSUME TypeOK, Counted, [Next]_vars PROVE Counted'
  OBVIOUS
<1> USE ConnectionAssumption DEF TypeOK, Counted, ExitKnown, ConnectionsAddUp,
          Reasons, Live,
        EndedNormally, loopVars, figures
<1>1. CASE LoopTop
  BY <1>1 DEF LoopTop
<1>2. CASE SetupFails
  BY <1>2 DEF SetupFails
<1>3. CASE RequestFails
  BY <1>3 DEF RequestFails, Reconnect
<1>4. CASE Prepared
  BY <1>4 DEF Prepared
<1>5. CASE ConnectFails
  BY <1>5 DEF ConnectFails, Reconnect
<1>6. ASSUME NEW ttl \in Ttls, Connect(ttl) PROVE Counted'
  BY <1>6 DEF Connect
<1>7. CASE WakeUp
  BY <1>7 DEF WakeUp
<1>8. CASE Teardown
  BY <1>8 DEF Teardown
<1>9. CASE Close
  BY <1>9 DEF Close, Reconnect
<1>10. CASE Life
  BY <1>10, LifeKeeps DEF Live
<1>11. CASE Outside \/ Tick
  BY <1>11, OutsideKeeps
<1>12. CASE UNCHANGED vars
  BY <1>12 DEF vars
<1> QED
  BY <1>1, <1>2, <1>3, <1>4, <1>5, <1>6, <1>7, <1>8, <1>9, <1>10, <1>11,
     <1>12 DEF Next, Loop, Terminated

LEMMA NextPaid ==
  TypeOK /\ ExitKnown /\ Paid /\ [Next]_vars => Paid'
<1> SUFFICES ASSUME TypeOK, ExitKnown, Paid, [Next]_vars PROVE Paid'
  OBVIOUS
<1> USE ConnectionAssumption DEF TypeOK, ExitKnown, Paid, Reasons, Live,
          loopVars, figures
<1>1. CASE LoopTop
  BY <1>1 DEF LoopTop
<1>2. CASE SetupFails
  BY <1>2 DEF SetupFails
<1>3. CASE RequestFails
  BY <1>3 DEF RequestFails, Reconnect
<1>4. CASE Prepared
  BY <1>4 DEF Prepared
<1>5. CASE ConnectFails
  BY <1>5 DEF ConnectFails, Reconnect
<1>6. ASSUME NEW ttl \in Ttls, Connect(ttl) PROVE Paid'
  BY <1>6 DEF Connect
<1>7. CASE WakeUp
  BY <1>7 DEF WakeUp
<1>8. CASE Teardown
  BY <1>8 DEF Teardown
<1>9. CASE Close
  BY <1>9 DEF Close, Reconnect
<1>10. CASE Life
  BY <1>10, LifeKeeps DEF Live
<1>11. CASE Outside \/ Tick
  BY <1>11, OutsideKeeps
<1>12. CASE UNCHANGED vars
  BY <1>12 DEF vars
<1> QED
  BY <1>1, <1>2, <1>3, <1>4, <1>5, <1>6, <1>7, <1>8, <1>9, <1>10, <1>11,
     <1>12 DEF Next, Loop, Terminated

LEMMA NextLateOnce ==
  TypeOK /\ LateOnce /\ [Next]_vars => LateOnce'
<1> SUFFICES ASSUME TypeOK, LateOnce, [Next]_vars PROVE LateOnce'
  OBVIOUS
<1> USE ConnectionAssumption DEF TypeOK, LateOnce, Over, loopVars, figures
<1>1. CASE LoopTop
  BY <1>1 DEF LoopTop
<1>2. CASE SetupFails
  BY <1>2 DEF SetupFails
<1>3. CASE RequestFails
  BY <1>3 DEF RequestFails, Reconnect
<1>4. CASE Prepared
  BY <1>4 DEF Prepared
<1>5. CASE ConnectFails
  BY <1>5 DEF ConnectFails, Reconnect
<1>6. ASSUME NEW ttl \in Ttls, Connect(ttl) PROVE LateOnce'
  BY <1>6 DEF Connect
<1>7. CASE WakeUp
  BY <1>7 DEF WakeUp
<1>8. CASE Teardown
  BY <1>8 DEF Teardown
<1>9. CASE Close
  BY <1>9 DEF Close, Reconnect
<1>10. CASE Life
  BY <1>10, LifeKeeps DEF Live
<1>11. CASE Outside \/ Tick
  BY <1>11, OutsideKeeps
<1>12. CASE UNCHANGED vars
  BY <1>12 DEF vars
<1> QED
  BY <1>1, <1>2, <1>3, <1>4, <1>5, <1>6, <1>7, <1>8, <1>9, <1>10, <1>11,
     <1>12 DEF Next, Loop, Terminated

-----------------------------------------------------------------------------
(* The heartbeat *)

(* As long as nothing was late, the last look at the last message found it *)
(* young, and the next look is due within an interval.                     *)
Watched ==
  held # "late" =>
    /\ pc = "greeting" => now = lastRecv
    /\ pc = "alive" =>
         /\ hbDue <= lastRecv + HbTimeout + HbInterval
         /\ hb = "sending" => hbDue <= now + HbInterval
         /\ hb = "waiting" => /\ now <= hbDue \/ now = hbFrom
                              /\ hbDue <= hbFrom + HbInterval

(* What the peer said last was read, unless it is of this very moment or   *)
(* the receiver waits.                                                     *)
Heard ==
  pc \in {"greeting", "alive"} =>
    /\ heard <= now /\ lastRecv <= now
    /\ socket = << >> => heard <= lastRecv
    /\ held = "no" => heard = now \/ heard <= lastRecv

LEMMA NextWatched == TypeOK /\ Watched /\ Heard /\ [Next]_vars => Watched'
<1> SUFFICES ASSUME TypeOK, Watched, Heard, [Next]_vars PROVE Watched'
  OBVIOUS
<1> USE ConnectionAssumption DEF TypeOK, Watched, loopVars, hbVars, peerVars,
          ioVars, figures
<1>1. ASSUME Loop, ~ \E ttl \in Ttls : Connect(ttl) PROVE pc' \notin {"greeting", "alive"}
  BY <1>1 DEF Loop, LoopTop, SetupFails, RequestFails, Prepared, ConnectFails, WakeUp,
              Teardown, Close, Reconnect
<1>2. ASSUME NEW ttl \in Ttls, Connect(ttl) PROVE Watched'
  BY <1>2 DEF Connect
<1>3. CASE Greet
  BY <1>3 DEF Greet, Exit
<1>4. CASE StartSelect
  BY <1>4 DEF StartSelect
<1>5. CASE DeadlinePassed
  BY <1>5 DEF DeadlinePassed, Exit
<1>6. CASE StopSeen
  BY <1>6 DEF StopSeen, Exit
<1>7. CASE SendTick
  BY <1>7 DEF SendTick
<1>8. CASE Send
  BY <1>8 DEF Send, Exit
<1>9. CASE Receive
  BY <1>9 DEF Receive, CanReceive, Heard
<1>10. CASE HandOver
  BY <1>10 DEF HandOver
<1>11. CASE ReceiveEnd
  BY <1>11 DEF ReceiveEnd, CanReceive, Exit
<1>12. CASE HeartbeatKill
  BY <1>12 DEF HeartbeatKill, Exit
<1>13. CASE HeartbeatPass
  BY <1>13 DEF HeartbeatPass, HbTick, RuntimeStarved, SchedulingLag
<1>14. CASE Heartbeat
  BY <1>14 DEF Heartbeat, Exit
<1>15. CASE Write
  BY <1>15 DEF Write
<1>16. CASE WriteFails
  BY <1>16 DEF WriteFails
<1>17. ASSUME NEW m \in {"text", "pong", "close", "error"}, Arrive(m)
      PROVE  Watched'
  BY <1>17 DEF Arrive
<1>18. CASE Assertions
  BY <1>18 DEF Assertions
<1>19. CASE Stop
  BY <1>19 DEF Stop
<1>20. CASE Tick
  BY <1>20 DEF Tick, Late, HbTick, CanReceive
<1>21. CASE UNCHANGED vars
  BY <1>21 DEF vars
<1> QED
  BY <1>1, <1>2, <1>3, <1>4, <1>5, <1>6, <1>7, <1>8, <1>9, <1>10, <1>11,
     <1>12, <1>13, <1>14, <1>15, <1>16, <1>17, <1>18, <1>19, <1>20, <1>21
     DEF Next, Life, Outside, Loop, Terminated

LEMMA NextHeard == TypeOK /\ Heard /\ [Next]_vars => Heard'
<1> SUFFICES ASSUME TypeOK, Heard, [Next]_vars PROVE Heard'
  OBVIOUS
<1> USE ConnectionAssumption DEF TypeOK, Heard, loopVars, hbVars, peerVars,
          ioVars, figures
<1>1. ASSUME Loop, ~ \E ttl \in Ttls : Connect(ttl) PROVE pc' \notin {"greeting", "alive"}
  BY <1>1 DEF Loop, LoopTop, SetupFails, RequestFails, Prepared, ConnectFails, WakeUp,
              Teardown, Close, Reconnect
<1>2. ASSUME NEW ttl \in Ttls, Connect(ttl) PROVE Heard'
  BY <1>2 DEF Connect
<1>3. CASE Greet
  BY <1>3 DEF Greet, Exit
<1>4. CASE StartSelect
  BY <1>4 DEF StartSelect
<1>5. CASE DeadlinePassed
  BY <1>5 DEF DeadlinePassed, Exit
<1>6. CASE StopSeen
  BY <1>6 DEF StopSeen, Exit
<1>7. CASE SendTick
  BY <1>7 DEF SendTick
<1>8. CASE Send
  BY <1>8 DEF Send, Exit
<1>9. CASE Receive
  BY <1>9 DEF Receive, CanReceive
<1>10. CASE HandOver
  BY <1>10 DEF HandOver
<1>11. CASE ReceiveEnd
  BY <1>11 DEF ReceiveEnd, CanReceive, Exit
<1>12. CASE HeartbeatKill
  BY <1>12 DEF HeartbeatKill, Exit
<1>13. CASE HeartbeatPass
  BY <1>13 DEF HeartbeatPass, HbTick, RuntimeStarved, SchedulingLag
<1>14. CASE Heartbeat
  BY <1>14 DEF Heartbeat, Exit
<1>15. CASE Write
  BY <1>15 DEF Write
<1>16. CASE WriteFails
  BY <1>16 DEF WriteFails
<1>17. ASSUME NEW m \in {"text", "pong", "close", "error"}, Arrive(m)
      PROVE  Heard'
  BY <1>17 DEF Arrive
<1>18. CASE Assertions
  BY <1>18 DEF Assertions
<1>19. CASE Stop
  BY <1>19 DEF Stop
<1>20. CASE Tick
  BY <1>20 DEF Tick, Late, HbTick, CanReceive
<1>21. CASE UNCHANGED vars
  BY <1>21 DEF vars
<1> QED
  BY <1>1, <1>2, <1>3, <1>4, <1>5, <1>6, <1>7, <1>8, <1>9, <1>10, <1>11,
     <1>12, <1>13, <1>14, <1>15, <1>16, <1>17, <1>18, <1>19, <1>20, <1>21
     DEF Next, Life, Outside, Loop, Terminated

-----------------------------------------------------------------------------
(* The invariant, and what follows from it *)

IInv == TypeOK /\ Counted /\ Paid /\ LateOnce /\ Watched /\ Heard

LEMMA InitIInv == Init => IInv
<1> SUFFICES ASSUME Init PROVE IInv
  OBVIOUS
<1> USE ConnectionAssumption DEF Init
<1>1. TypeOK
  <2>1. /\ 0 \in 0 .. MaxNow /\ 0 \in 0 .. MaxAttempts /\ 0 \in 0 .. TestEnd
        /\ 0 \in 0 .. Greetings /\ 0 \in 0 .. WriteCap /\ 0 \in 0 .. 1
    OBVIOUS
  <2>2. << >> \in Seq({"text", "pong", "close", "error"}) /\ Len(<< >>) <= MaxUnread
    OBVIOUS
  <2> QED
    BY <2>1, <2>2 DEF TypeOK, Reasons
<1>2. Counted /\ Paid /\ LateOnce
  BY DEF Counted, ExitKnown, ConnectionsAddUp, Paid, LateOnce, Live, EndedNormally, Reasons
<1>3. Watched /\ Heard
  BY DEF Watched, Heard
<1> QED
  BY <1>1, <1>2, <1>3 DEF IInv

LEMMA NextTypeOK == TypeOK /\ Counted /\ [Next]_vars => TypeOK'
<1> SUFFICES ASSUME TypeOK, Counted, [Next]_vars PROVE TypeOK'
  OBVIOUS
<1>1. Active /\ ExitKnown
  BY DEF Counted, ConnectionsAddUp, Active
<1>2. CASE UNCHANGED vars
  BY <1>2 DEF vars, TypeOK, loopVars, hbVars, peerVars, ioVars, figures
<1> QED
  BY <1>1, <1>2, LoopTypeOK, LifeTypeOK, OutsideTypeOK DEF Next, Terminated

LEMMA InvariantIInv == Spec => []IInv
<1>1. IInv /\ [Next]_vars => IInv'
  BY NextTypeOK, NextCounted, NextPaid, NextLateOnce, NextWatched, NextHeard DEF IInv, Counted
<1> QED
  BY InitIInv, <1>1, PTL DEF Spec

(* The worker's state keeps its types; the channel to the writer is never  *)
(* over its capacity and the attempts never over their limit.              *)
THEOREM TypeCorrect == Spec => []TypeOK
<1>1. IInv => TypeOK
  BY DEF IInv
<1> QED
  BY <1>1, InvariantIInv, PTL

(* Every connection is counted in and out once, whatever ended it          *)
(* (start_ws_concurrency, the figures of WsEndpointStats).                 *)
THEOREM ConnectionsCounted == Spec => []ConnectionsAddUp
<1>1. IInv => ConnectionsAddUp
  BY DEF IInv, Counted
<1> QED
  BY <1>1, InvariantIInv, PTL

(* Attempts are limited over the worker's whole life, and after the end of *)
(* the test one connection at most is opened (should_reconnect, 'CONNECT). *)
THEOREM ConnectionsLimited == Spec => []ConnectsBounded
<1>1. IInv => TriesBounded
  BY ConnectionAssumption DEF IInv, Paid, TypeOK, TriesBounded
<1>2. IInv => OneLateConnection
  BY DEF IInv, LateOnce, OneLateConnection
<1> QED
  BY <1>1, <1>2, InvariantIInv, PTL DEF ConnectsBounded

(* A peer that falls silent is noticed within a timeout and an interval    *)
(* (heartbeat_loop).                                                       *)
THEOREM SilenceIsNoticed == Spec => []SilenceNoticed
<1>1. IInv => SilenceNoticed
  BY ConnectionAssumption DEF IInv, Watched, TypeOK, SilenceNoticed
<1> QED
  BY <1>1, InvariantIInv, PTL

(* A connection that the heartbeat ends had a silent peer, or a task that  *)
(* was late or blocked (heartbeat_loop, is_runtime_starved).               *)
THEOREM KilledForSilence == Spec => SilentUnlessBlocked
<1>1. ASSUME IInv, [Next]_vars, Killed, held = "no" PROVE Silent \/ heard = now
  <2>1. HeartbeatKill
    <3>1. ~Loop
      BY <1>1 DEF Killed, Loop, LoopTop, SetupFails, RequestFails, Prepared, ConnectFails,
                  Connect, WakeUp, Teardown, Close
    <3>2. ~(Outside \/ Tick) /\ ~UNCHANGED vars
      BY <1>1, OutsideKeeps DEF Killed, IInv, loopVars, vars
    <3>3. Life => HeartbeatKill
      BY <1>1 DEF Killed, Life, Greet, StartSelect, DeadlinePassed, StopSeen, SendTick, Send,
                  Receive, HandOver, ReceiveEnd, HeartbeatPass, Heartbeat, Exit, loopVars
    <3> QED
      BY <1>1, <3>1, <3>2, <3>3 DEF Next, Terminated
  <2> QED
    BY <1>1, <2>1, ConnectionAssumption DEF IInv, Heard, TypeOK, HeartbeatKill, Killed, Silent
<1>2. IInv /\ [Next]_vars => (Killed /\ held = "no" => Silent \/ heard = now)
  BY <1>1
<1> QED
  BY <1>2, InvariantIInv, PTL DEF Spec, SilentUnlessBlocked
==============================================================================
