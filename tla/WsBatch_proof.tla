----------------------------- MODULE WsBatch_proof ------------------------------
(***************************************************************************)
(* Proofs about the WebSocket load test, for any number of endpoints,      *)
(* workers, assert workers, messages and reports and all capacities.       *)
(***************************************************************************)
EXTENDS WsBatch, TLAPS, FiniteSetTheorems

-----------------------------------------------------------------------------
(* Counting *)

(* The workers of some endpoints at some places. *)
Group(S, E) == {w \in Worker : worker[w] \in S /\ EndpointOf[w] \in E}

JudgesAt(S) == {a \in AssertWorker : judge[a] \in S}

LEMMA GroupNat ==
  ASSUME NEW S, NEW E
  PROVE  IsFiniteSet(Group(S, E)) /\ Cardinality(Group(S, E)) \in Nat
<1>1. IsFiniteSet(Group(S, E))
  BY WsBatchAssumption, FS_Subset DEF Group
<1> QED
  BY <1>1, FS_CardinalityType

LEMMA GroupNatNext ==
  ASSUME NEW S, NEW E
  PROVE  Cardinality(Group(S, E)') \in Nat
<1>1. IsFiniteSet(Group(S, E)')
  BY WsBatchAssumption, FS_Subset DEF Group
<1> QED
  BY <1>1, FS_CardinalityType

LEMMA JudgesNat ==
  ASSUME NEW S
  PROVE  IsFiniteSet(JudgesAt(S)) /\ Cardinality(JudgesAt(S)) \in Nat
<1>1. IsFiniteSet(JudgesAt(S))
  BY WsBatchAssumption, FS_Subset DEF JudgesAt
<1> QED
  BY <1>1, FS_CardinalityType

LEMMA JudgesNatNext ==
  ASSUME NEW S
  PROVE  Cardinality(JudgesAt(S)') \in Nat
<1>1. IsFiniteSet(JudgesAt(S)')
  BY WsBatchAssumption, FS_Subset DEF JudgesAt
<1> QED
  BY <1>1, FS_CardinalityType

(* How the number of workers at some places changes when one moves. *)
LEMMA GoCount ==
  ASSUME TypeOK, NEW w \in Worker, NEW from, NEW to, Go(w, from, to), NEW S, NEW E
  PROVE  /\ (from \in S <=> to \in S) \/ EndpointOf[w] \notin E
              => Cardinality(Group(S, E)') = Cardinality(Group(S, E))
         /\ from \in S /\ to \notin S /\ EndpointOf[w] \in E
              => Cardinality(Group(S, E)') = Cardinality(Group(S, E)) - 1
         /\ from \notin S /\ to \in S /\ EndpointOf[w] \in E
              => Cardinality(Group(S, E)') = Cardinality(Group(S, E)) + 1
<1>1. /\ worker[w] = from /\ worker' = [worker EXCEPT ![w] = to]
      /\ worker'[w] = to /\ \A v \in Worker \ {w} : worker'[v] = worker[v]
  BY DEF Go, TypeOK
<1>2. ASSUME (from \in S <=> to \in S) \/ EndpointOf[w] \notin E
      PROVE  Cardinality(Group(S, E)') = Cardinality(Group(S, E))
  <2>1. Group(S, E)' = Group(S, E)
    BY <1>1, <1>2 DEF Group
  <2> QED
    BY <2>1
<1>3. ASSUME from \in S, to \notin S, EndpointOf[w] \in E
      PROVE  Cardinality(Group(S, E)') = Cardinality(Group(S, E)) - 1
  <2>1. Group(S, E)' = Group(S, E) \ {w} /\ w \in Group(S, E)
    BY <1>1, <1>3 DEF Group
  <2> QED
    BY <2>1, GroupNat, FS_RemoveElement
<1>4. ASSUME from \notin S, to \in S, EndpointOf[w] \in E
      PROVE  Cardinality(Group(S, E)') = Cardinality(Group(S, E)) + 1
  <2>1. Group(S, E)' = Group(S, E) \cup {w} /\ w \notin Group(S, E)
    BY <1>1, <1>4 DEF Group
  <2> QED
    BY <2>1, GroupNat, FS_AddElement
<1> QED
  BY <1>2, <1>3, <1>4

(* And the number of assert workers that judge. *)
LEMMA MoveCount ==
  ASSUME TypeOK, NEW a \in AssertWorker, NEW from, NEW to, Move(a, from, to), NEW S
  PROVE  /\ (from \in S <=> to \in S) => Cardinality(JudgesAt(S)') = Cardinality(JudgesAt(S))
         /\ from \in S /\ to \notin S => Cardinality(JudgesAt(S)') = Cardinality(JudgesAt(S)) - 1
         /\ from \notin S /\ to \in S => Cardinality(JudgesAt(S)') = Cardinality(JudgesAt(S)) + 1
<1>1. /\ judge[a] = from /\ judge' = [judge EXCEPT ![a] = to]
      /\ judge'[a] = to /\ \A b \in AssertWorker \ {a} : judge'[b] = judge[b]
  BY DEF Move, TypeOK
<1>2. ASSUME from \in S <=> to \in S
      PROVE  Cardinality(JudgesAt(S)') = Cardinality(JudgesAt(S))
  <2>1. JudgesAt(S)' = JudgesAt(S)
    BY <1>1, <1>2 DEF JudgesAt
  <2> QED
    BY <2>1
<1>3. ASSUME from \in S, to \notin S
      PROVE  Cardinality(JudgesAt(S)') = Cardinality(JudgesAt(S)) - 1
  <2>1. JudgesAt(S)' = JudgesAt(S) \ {a} /\ a \in JudgesAt(S)
    BY <1>1, <1>3 DEF JudgesAt
  <2> QED
    BY <2>1, JudgesNat, FS_RemoveElement
<1>4. ASSUME from \notin S, to \in S
      PROVE  Cardinality(JudgesAt(S)') = Cardinality(JudgesAt(S)) + 1
  <2>1. JudgesAt(S)' = JudgesAt(S) \cup {a} /\ a \notin JudgesAt(S)
    BY <1>1, <1>4 DEF JudgesAt
  <2> QED
    BY <2>1, JudgesNat, FS_AddElement
<1> QED
  BY <1>2, <1>3, <1>4

-----------------------------------------------------------------------------
(* The inductive invariant *)

Connected   == Group({"open", "asserting"}, Endpoint)
Asserting   == Group({"asserting"}, Endpoint)
Shaking(e)  == Group({"handshake"}, {e})

(* The counters count what their workers do. *)
Counts ==
  /\ active = Cardinality(Connected)
  /\ \A e \in Endpoint : inFlight[e] = Cardinality(Shaking(e))
  /\ owed = queued + Cardinality(Asserting) + Cardinality(JudgesAt({"judge"}))

ReportType ==
  [kind : {"tick", "final", "failed", "end"}, opened : Nat, active : Nat,
   received : Nat, failures : Nat, rest : SUBSET Nat]

(* The types of what TypeOK leaves open. *)
Reports ==
  /\ summary \in ReportType /\ draft \in ReportType
  /\ channel \in Seq(ReportType)
  /\ failures \in Nat /\ raised \in Nat /\ engine \in SUBSET Nat

(* What is spawned, and what has to be over, at each place of ws_batch(). *)
NotSpawned == \A w \in Worker : EndpointOf[w] > spawned => worker[w] = "unborn"

Stages ==
  /\ main = "setup" => spawned = 0 /\ \A a \in AssertWorker : judge[a] = "closed"
  /\ main \in {"drain", "teardown", "figures", "errors", "stop", "summary"}
       => \A w \in Worker : worker[w] = "ended"
  /\ main \in {"teardown", "figures", "errors", "stop", "summary"}
       => \A a \in AssertWorker : judge[a] = "closed"
  /\ main \in {"failed", "mark", "done"} => Quieted \/ broken # {}
  /\ summary.kind = "final" => Quieted /\ main \in {"errors", "stop", "summary", "mark", "done"}

IInv ==
  TypeOK /\ Counts /\ Reports /\ NotSpawned /\ Stages /\ SummaryFinal

-----------------------------------------------------------------------------
(* Counters *)

(* The steps of the workers, one at a time. *)
LEMMA WorkerCounts ==
  ASSUME TypeOK, Counts, NEW w \in Worker, WorkerStep(w)
  PROVE  Counts'
<1> DEFINE c == Cardinality(Connected) s == [e \in Endpoint |-> Cardinality(Shaking(e))]
           d == Cardinality(Asserting) j == Cardinality(JudgesAt({"judge"}))
<1>0. /\ EndpointOf[w] \in Endpoint
      /\ c \in Nat /\ d \in Nat /\ j \in Nat /\ \A e \in Endpoint : Cardinality(Shaking(e)) \in Nat
      /\ opened \in Nat /\ queued \in Nat /\ received \in Nat
      /\ inFlight \in [Endpoint -> 0 .. ConnectLimit] /\ ConnectLimit \in Nat
  BY WsBatchAssumption, GroupNat, JudgesNat DEF TypeOK, Connected, Asserting, Shaking
<1>1. ASSUME UNCHANGED judge PROVE Cardinality(JudgesAt({"judge"})') = j
  BY <1>1 DEF JudgesAt
<1>2. ASSUME NEW from, NEW to, Go(w, from, to)
      PROVE  /\ (from \in {"open", "asserting"} <=> to \in {"open", "asserting"})
                  => Cardinality(Connected') = c
             /\ from \in {"open", "asserting"} /\ to \notin {"open", "asserting"}
                  => Cardinality(Connected') = c - 1
             /\ from \notin {"open", "asserting"} /\ to \in {"open", "asserting"}
                  => Cardinality(Connected') = c + 1
             /\ (from = "asserting" <=> to = "asserting") => Cardinality(Asserting') = d
             /\ from = "asserting" /\ to # "asserting" => Cardinality(Asserting') = d - 1
             /\ from # "asserting" /\ to = "asserting" => Cardinality(Asserting') = d + 1
  BY <1>0, <1>2, GoCount DEF Connected, Asserting
<1>3. ASSUME NEW from, NEW to, Go(w, from, to), NEW e \in Endpoint
      PROVE  /\ (from = "handshake" <=> to = "handshake") \/ e # EndpointOf[w]
                  => Cardinality(Shaking(e)') = Cardinality(Shaking(e))
             /\ from = "handshake" /\ to # "handshake" /\ e = EndpointOf[w]
                  => Cardinality(Shaking(e)') = Cardinality(Shaking(e)) - 1
             /\ from # "handshake" /\ to = "handshake" /\ e = EndpointOf[w]
                  => Cardinality(Shaking(e)') = Cardinality(Shaking(e)) + 1
  BY <1>0, <1>3, GoCount DEF Shaking
<1> USE DEF Counts
<1>4. CASE LoopTop(w)
  <2>1. Go(w, "loop", "teardown") \/ Go(w, "loop", "limiter")
    BY <1>4 DEF LoopTop
  <2>2. UNCHANGED <<active, inFlight, owed, queued, judge>>
    BY <1>4 DEF LoopTop, Quiet, judgeVars
  <2> QED
    BY <1>0, <1>1, <1>2, <1>3, <2>1, <2>2
<1>5. CASE SetupFails(w)
  <2>1. Go(w, "limiter", "loop") /\ UNCHANGED <<active, inFlight, owed, queued, judge>>
    BY <1>5 DEF SetupFails, Quiet, judgeVars
  <2> QED
    BY <1>0, <1>1, <1>2, <1>3, <2>1
<1>6. CASE StartConnect(w)
  <2>1. /\ Go(w, "limiter", "handshake") /\ UNCHANGED <<active, owed, queued, judge>>
        /\ inFlight' = [inFlight EXCEPT ![EndpointOf[w]] = @ + 1]
    BY <1>6 DEF StartConnect, Quiet, judgeVars
  <2> QED
    BY <1>0, <1>1, <1>2, <1>3, <2>1
<1>7. CASE Connect(w)
  <2>1. /\ Go(w, "handshake", "open") /\ UNCHANGED <<owed, queued, judge>>
        /\ inFlight' = [inFlight EXCEPT ![EndpointOf[w]] = @ - 1]
        /\ active' = active + 1
    BY <1>7 DEF Connect, Release, Quiet, judgeVars
  <2> QED
    BY <1>0, <1>1, <1>2, <1>3, <2>1
<1>8. CASE ConnectFails(w)
  <2>1. /\ Go(w, "handshake", "loop") \/ Go(w, "handshake", "teardown")
        /\ inFlight' = [inFlight EXCEPT ![EndpointOf[w]] = @ - 1]
        /\ UNCHANGED <<active, owed, queued, judge>>
    BY <1>8 DEF ConnectFails, Release, Quiet, judgeVars
  <2> QED
    BY <1>0, <1>1, <1>2, <1>3, <2>1
<1>9. CASE Message(w)
  <2>1. /\ \/ Go(w, "open", "asserting") /\ owed' = owed + 1
           \/ Go(w, "open", "open") /\ owed' = owed
        /\ UNCHANGED <<active, inFlight, queued, judge>>
    BY <1>9 DEF Message, Quiet, judgeVars
  <2> QED
    BY <1>0, <1>1, <1>2, <1>3, <2>1
<1>10. CASE HandOver(w)
  <2>1. /\ Go(w, "asserting", "open") /\ queued' = queued + 1
        /\ UNCHANGED <<active, inFlight, owed, judge>>
    BY <1>10 DEF HandOver
  <2> QED
    BY <1>0, <1>1, <1>2, <1>3, <2>1
<1>11. CASE Disconnect(w)
  <2>1. /\ \E from \in {"open", "asserting"}, to \in {"loop", "teardown"} :
              Go(w, from, to) /\ owed' = IF from = "asserting" THEN owed - 1 ELSE owed
        /\ active' = active - 1 /\ UNCHANGED <<inFlight, queued, judge>>
    BY <1>11 DEF Disconnect, Quiet, judgeVars
  <2> QED
    BY <1>0, <1>1, <1>2, <1>3, <2>1
<1>12. CASE Teardown(w)
  <2>1. Go(w, "teardown", "ended") /\ UNCHANGED <<active, inFlight, owed, queued, judge>>
    BY <1>12 DEF Teardown, Panics, Quiet, judgeVars
  <2> QED
    BY <1>0, <1>1, <1>2, <1>3, <2>1
<1>13. CASE Panics(w)
  <2>1. /\ Go(w, "limiter", "panicked") \/ Go(w, "teardown", "panicked")
        /\ UNCHANGED <<active, inFlight, owed, queued, judge>>
    BY <1>13 DEF Panics, Quiet, judgeVars
  <2> QED
    BY <1>0, <1>1, <1>2, <1>3, <2>1
<1> QED
  BY <1>4, <1>5, <1>6, <1>7, <1>8, <1>9, <1>10, <1>11, <1>12, <1>13 DEF WorkerStep

LEMMA CountsKept ==
  ASSUME Counts, UNCHANGED <<active, inFlight, owed, queued, worker, judge>>
  PROVE  Counts'
BY DEF Counts, Connected, Asserting, Shaking, Group, JudgesAt

(* The steps of the assert workers. *)
LEMMA JudgeCounts ==
  ASSUME TypeOK, Counts, NEW a \in AssertWorker, JudgeStep(a)
  PROVE  Counts'
<1> DEFINE d == Cardinality(Asserting) j == Cardinality(JudgesAt({"judge"}))
<1>0. d \in Nat /\ j \in Nat /\ queued \in Nat /\ received \in Nat /\ owed \in Nat
  BY WsBatchAssumption, GroupNat, JudgesNat DEF TypeOK, Asserting
<1>1. UNCHANGED <<worker, active, inFlight>>
  BY DEF JudgeStep, LockReceiver, TakeMessage, ChannelClosed, Judge, Still, connVars
<1>2. Connected' = Connected /\ Asserting' = Asserting /\ \A e \in Endpoint : Shaking(e)' = Shaking(e)
  BY <1>1 DEF Connected, Asserting, Shaking, Group
<1>3. owed' = queued' + d + Cardinality(JudgesAt({"judge"})')
  <2>1. CASE LockReceiver(a)
    <3>1. Move(a, "lock", "recv") /\ UNCHANGED <<owed, queued>>
      BY <2>1 DEF LockReceiver
    <3> QED
      BY <1>0, <3>1, MoveCount DEF Counts
  <2>2. CASE TakeMessage(a)
    <3>1. Move(a, "recv", "judge") /\ queued' = queued - 1 /\ UNCHANGED owed
      BY <2>2 DEF TakeMessage
    <3>2. Cardinality(JudgesAt({"judge"})') = j + 1
      BY <3>1, MoveCount
    <3> QED
      BY <1>0, <3>1, <3>2 DEF Counts
  <2>3. CASE ChannelClosed(a)
    <3>1. Move(a, "recv", "closed") /\ UNCHANGED <<owed, queued>>
      BY <2>3 DEF ChannelClosed
    <3> QED
      BY <1>0, <3>1, MoveCount DEF Counts
  <2>4. CASE Judge(a)
    <3>1. Move(a, "judge", "lock") /\ owed' = owed - 1 /\ UNCHANGED queued
      BY <2>4 DEF Judge
    <3>2. Cardinality(JudgesAt({"judge"})') = j - 1
      BY <3>1, MoveCount
    <3> QED
      BY <1>0, <3>1, <3>2 DEF Counts
  <2> QED
    BY <2>1, <2>2, <2>3, <2>4 DEF JudgeStep
<1> QED
  BY <1>1, <1>2, <1>3 DEF Counts

(* The steps of ws_batch(). *)
LEMMA MainCounts ==
  ASSUME TypeOK, Counts, NotSpawned, Stages, MainStep
  PROVE  Counts'
<1>1. CASE GlobalSetup
  <2>1. UNCHANGED <<active, inFlight, owed, queued, worker>> /\ main = "setup"
    BY <1>1 DEF GlobalSetup, Step, connVars
  <2>2. JudgesAt({"judge"}) = {}
    BY <2>1 DEF JudgesAt, Stages
  <2>3. JudgesAt({"judge"})' = {}
    BY <1>1, <2>2 DEF JudgesAt, GlobalSetup
  <2> QED
    BY <2>1, <2>2, <2>3 DEF Counts, Connected, Asserting, Shaking, Group
<1>2. CASE SpawnEndpoint
  <2>1. UNCHANGED <<active, inFlight, owed, queued, judge>>
    BY <1>2 DEF SpawnEndpoint, judgeVars
  <2>2. ASSUME NEW w \in Worker
        PROVE  worker'[w] = worker[w] \/ (worker[w] = "unborn" /\ worker'[w] = "loop")
    <3>1. spawned \in Nat /\ EndpointOf[w] \in Nat
      BY WsBatchAssumption DEF TypeOK, Endpoint
    <3>2. \/ worker' = worker
          \/ worker' = [v \in Worker |-> IF EndpointOf[v] = spawned + 1 THEN "loop" ELSE worker[v]]
      BY <1>2 DEF SpawnEndpoint
    <3>3. EndpointOf[w] = spawned + 1 => worker[w] = "unborn"
      BY <3>1 DEF NotSpawned
    <3> QED
      BY <3>2, <3>3
  <2>3. Connected' = Connected /\ Asserting' = Asserting /\ \A e \in Endpoint : Shaking(e)' = Shaking(e)
    BY <2>2 DEF Connected, Asserting, Shaking, Group
  <2>4. JudgesAt({"judge"})' = JudgesAt({"judge"})
    BY <2>1 DEF JudgesAt
  <2> QED
    BY <2>1, <2>3, <2>4 DEF Counts
<1>3. CASE JoinPanicked
  <2>1. PICK w \in Worker : Go(w, "panicked", "ended")
    BY <1>3 DEF JoinPanicked
  <2>2. UNCHANGED <<active, inFlight, owed, queued, judge>>
    BY <1>3 DEF JoinPanicked, judgeVars
  <2>3. /\ Cardinality(Connected') = Cardinality(Connected)
        /\ Cardinality(Asserting') = Cardinality(Asserting)
        /\ \A e \in Endpoint : Cardinality(Shaking(e)') = Cardinality(Shaking(e))
    BY <2>1, GoCount DEF Connected, Asserting, Shaking
  <2>4. JudgesAt({"judge"})' = JudgesAt({"judge"})
    BY <2>2 DEF JudgesAt
  <2> QED
    BY <2>2, <2>3, <2>4 DEF Counts
<1>4. ASSUME ~GlobalSetup, ~SpawnEndpoint, ~JoinPanicked
      PROVE  UNCHANGED <<active, inFlight, owed, queued, worker, judge>>
  BY <1>4 DEF MainStep, StartCollector, JoinWorkers, DrainAsserts, GlobalTeardown, TakeFigures, TakeErrors,
              StopCollector, SendSummary, SendEndMark, connVars, judgeVars
<1> QED
  BY <1>1, <1>2, <1>3, <1>4, CountsKept

(* What neither a worker nor ws_batch() does leaves the workers alone. *)
OthersStep == TimeUp \/ CollectorStep \/ ReceiveResult \/ DropStream \/ Terminated \/ UNCHANGED vars

LEMMA OthersKeep ==
  ASSUME OthersStep
  PROVE  UNCHANGED <<main, broken, spawned, sender, stopped, summary, connVars, judgeVars, received, owed>>
BY DEF OthersStep, TimeUp, CollectorStep, Tick, DrainErrors, SendTick, HearStop, ReceiveResult, DropStream,
       Terminated, vars, mainVars

LEMMA StepCases ==
  ASSUME [Next]_vars
  PROVE  \/ MainStep \/ OthersStep
         \/ \E w \in Worker : WorkerStep(w)
         \/ \E a \in AssertWorker : JudgeStep(a)
<1>1. CASE Next
  BY <1>1 DEF Next, OthersStep
<1>2. CASE UNCHANGED vars
  BY <1>2 DEF OthersStep
<1> QED
  BY <1>1, <1>2

LEMMA NextCounts ==
  ASSUME TypeOK, Counts, NotSpawned, Stages, [Next]_vars
  PROVE  Counts'
<1>1. CASE OthersStep
  BY <1>1, OthersKeep, CountsKept DEF connVars, judgeVars
<1> QED
  BY <1>1, StepCases, MainCounts, WorkerCounts, JudgeCounts

-----------------------------------------------------------------------------
(* Places *)

Places == {"unborn", "loop", "limiter", "handshake", "open", "asserting", "teardown", "ended", "panicked"}

(* A worker that is gone, or not there yet, does nothing of itself, and    *)
(* neither does an assert worker that has closed.                          *)
LEMMA WorkerMoves ==
  ASSUME TypeOK, NEW w \in Worker, WorkerStep(w)
  PROVE  /\ worker[w] \notin Gone /\ worker'[w] \in Places \ {"unborn"}
         /\ \A v \in Worker \ {w} : worker'[v] = worker[v]
         /\ worker' \in [Worker -> Places]
<1>1. \E from \in Places \ Gone, to \in Places \ {"unborn"} : Go(w, from, to)
  <2> USE DEF Places, Gone
  <2>1. CASE LoopTop(w)
    BY <2>1 DEF LoopTop
  <2>2. CASE SetupFails(w)
    BY <2>2 DEF SetupFails
  <2>3. CASE StartConnect(w)
    BY <2>3 DEF StartConnect
  <2>4. CASE Connect(w)
    BY <2>4 DEF Connect
  <2>5. CASE ConnectFails(w)
    BY <2>5 DEF ConnectFails
  <2>6. CASE Message(w)
    BY <2>6 DEF Message
  <2>7. CASE HandOver(w)
    BY <2>7 DEF HandOver
  <2>8. CASE Disconnect(w)
    BY <2>8 DEF Disconnect
  <2>9. CASE Teardown(w)
    BY <2>9 DEF Teardown
  <2>10. CASE Panics(w)
    BY <2>10 DEF Panics
  <2> QED
    BY <2>1, <2>2, <2>3, <2>4, <2>5, <2>6, <2>7, <2>8, <2>9, <2>10 DEF WorkerStep
<1>2. worker \in [Worker -> Places]
  BY DEF TypeOK, Places
<1> QED
  BY <1>1, <1>2 DEF Go

LEMMA JudgeMoves ==
  ASSUME TypeOK, NEW a \in AssertWorker, JudgeStep(a)
  PROVE  /\ judge[a] # "closed"
         /\ \A b \in AssertWorker \ {a} : judge'[b] = judge[b]
         /\ judge' \in [AssertWorker -> {"lock", "recv", "judge", "closed"}]
BY DEF TypeOK, JudgeStep, LockReceiver, TakeMessage, ChannelClosed, Judge, Move

(* What the steps of the workers leave alone. *)
LEMMA WorkerKeeps ==
  ASSUME NEW w \in Worker, WorkerStep(w)
  PROVE  UNCHANGED <<mainVars, receiver, judge, failures, collectVars, flowVars>>
BY DEF WorkerStep, LoopTop, SetupFails, StartConnect, Connect, ConnectFails, Message, HandOver, Disconnect,
       Teardown, Panics, Quiet, judgeVars

LEMMA JudgeKeeps ==
  ASSUME NEW a \in AssertWorker, JudgeStep(a)
  PROVE  UNCHANGED <<mainVars, connVars, received, engineVars, collectVars, flowVars>>
BY DEF JudgeStep, LockReceiver, TakeMessage, ChannelClosed, Judge, Still

-----------------------------------------------------------------------------
(* Types *)

MainType ==
  /\ main \in {"setup", "spawn", "join", "drain", "teardown", "figures", "errors", "stop",
               "summary", "failed", "mark", "done"}
  /\ broken \in SUBSET Breakable /\ spawned \in 0 .. Endpoints
  /\ over \in BOOLEAN /\ sender \in BOOLEAN /\ stopped \in BOOLEAN

ConnType ==
  /\ worker \in [Worker -> Places]
  /\ inFlight \in [Endpoint -> 0 .. ConnectLimit]
  /\ opened \in 0 .. MaxOpened /\ active \in 0 .. opened

JudgeType ==
  /\ queued \in 0 .. QueueCap /\ receiver \in AssertWorker \cup {None}
  /\ judge \in [AssertWorker -> {"lock", "recv", "judge", "closed"}]
  /\ received \in 0 .. MaxReceived /\ owed \in 0 .. received

FlowType ==
  /\ collector \in {"unborn", "tick", "drain", "send", "gone"} /\ ticks \in 0 .. MaxTicks
  /\ Len(channel) <= ChannelCap
  /\ consumer \in {"reading", "ended", "dropped"}

LEMMA TypeParts == TypeOK <=> MainType /\ ConnType /\ JudgeType /\ FlowType
BY DEF TypeOK, MainType, ConnType, JudgeType, FlowType, Places

LEMMA NextMainType ==
  ASSUME TypeOK, [Next]_vars
  PROVE  MainType'
<1>1. MainType
  BY TypeParts
<1>2. CASE MainStep
  <2> USE <1>1 DEF MainType, Step
  <2>1. CASE GlobalSetup
    BY <2>1 DEF GlobalSetup, HasAssert
  <2>2. CASE SpawnEndpoint
    <3>1. Endpoints \in Nat /\ spawned < Endpoints /\ spawned' \in {spawned, spawned + 1}
      BY <2>2, WsBatchAssumption DEF SpawnEndpoint
    <3>2. spawned' \in 0 .. Endpoints
      BY <3>1
    <3>3. main' \in {"spawn", "failed"} /\ sender' \in BOOLEAN /\ UNCHANGED <<broken, over, stopped>>
      BY <2>2 DEF SpawnEndpoint
    <3> QED
      BY <3>2, <3>3
  <2>3. CASE StartCollector \/ JoinPanicked \/ JoinWorkers \/ DrainAsserts \/ GlobalTeardown
    BY <2>3 DEF StartCollector, JoinPanicked, JoinWorkers, DrainAsserts, GlobalTeardown, mainVars
  <2>4. CASE TakeFigures \/ TakeErrors \/ StopCollector
    BY <2>4 DEF TakeFigures, TakeErrors, StopCollector
  <2>5. CASE SendSummary \/ SendEndMark
    BY <2>5 DEF SendSummary, SendEndMark
  <2> QED
    BY <1>2, <2>1, <2>2, <2>3, <2>4, <2>5 DEF MainStep
<1>3. CASE \E w \in Worker : WorkerStep(w)
  BY <1>1, <1>3, WorkerKeeps DEF MainType, mainVars
<1>4. CASE \E a \in AssertWorker : JudgeStep(a)
  BY <1>1, <1>4, JudgeKeeps DEF MainType, mainVars
<1>5. CASE OthersStep
  <2>1. over' \in BOOLEAN
    BY <1>1, <1>5 DEF OthersStep, TimeUp, CollectorStep, Tick, DrainErrors, SendTick, HearStop, ReceiveResult,
       DropStream, Terminated, vars, mainVars, MainType
  <2> QED
    BY <1>1, <1>5, <2>1, OthersKeep DEF MainType
<1> QED
  BY <1>2, <1>3, <1>4, <1>5, StepCases

LEMMA NextConnType ==
  ASSUME TypeOK, Counts, Counts', [Next]_vars
  PROVE  ConnType'
<1>1. ConnType
  BY TypeParts
<1>2. active' \in Nat /\ active \in Nat /\ opened \in Nat
  BY <1>1, GroupNat, GroupNatNext, WsBatchAssumption DEF Counts, Connected, ConnType
<1>3. CASE MainStep
  <2>1. CASE SpawnEndpoint
    BY <1>1, <2>1 DEF ConnType, SpawnEndpoint, Places
  <2>2. CASE JoinPanicked
    BY <1>1, <2>2 DEF ConnType, JoinPanicked, Go, Places
  <2>3. CASE ~SpawnEndpoint /\ ~JoinPanicked
    <3>1. UNCHANGED connVars
      BY <1>3, <2>3 DEF MainStep, GlobalSetup, StartCollector, JoinWorkers, DrainAsserts, GlobalTeardown,
         TakeFigures, TakeErrors, StopCollector, SendSummary, SendEndMark
    <3> QED
      BY <1>1, <3>1 DEF ConnType, connVars
  <2> QED
    BY <2>1, <2>2, <2>3
<1>4. ASSUME NEW w \in Worker, WorkerStep(w)
      PROVE  ConnType'
  <2>1. worker' \in [Worker -> Places]
    BY <1>4, WorkerMoves
  <2>2. opened' \in 0 .. MaxOpened /\ active' \in 0 .. opened'
    <3>1. CASE Connect(w)
      BY <1>1, <1>2, <3>1, WsBatchAssumption DEF ConnType, Connect
    <3>2. CASE Disconnect(w)
      BY <1>1, <1>2, <3>2, WsBatchAssumption DEF ConnType, Disconnect
    <3>3. ASSUME ~Connect(w), ~Disconnect(w)
          PROVE  UNCHANGED <<opened, active>>
      BY <1>4, <3>3 DEF WorkerStep, LoopTop, SetupFails, StartConnect, ConnectFails, Message, HandOver, Teardown,
         Panics
    <3> QED
      BY <1>1, <3>1, <3>2, <3>3 DEF ConnType
  <2>3. inFlight' \in [Endpoint -> 0 .. ConnectLimit]
    <3>0. /\ EndpointOf[w] \in Endpoint /\ ConnectLimit \in Nat /\ inFlight \in [Endpoint -> 0 .. ConnectLimit]
      BY <1>1, WsBatchAssumption DEF ConnType
    <3>1. ASSUME NEW e \in Endpoint PROVE inFlight'[e] \in Nat
      <4>1. Cardinality(Group({"handshake"}, {e})') \in Nat
        BY GroupNatNext
      <4> QED
        BY <4>1 DEF Counts, Shaking
    <3>2. CASE StartConnect(w)
      BY <3>0, <3>2 DEF StartConnect
    <3>3. CASE Connect(w) \/ ConnectFails(w)
      BY <3>0, <3>1, <3>3 DEF Connect, ConnectFails, Release
    <3>4. ASSUME ~StartConnect(w), ~Connect(w), ~ConnectFails(w)
          PROVE  UNCHANGED inFlight
      BY <1>4, <3>4 DEF WorkerStep, LoopTop, SetupFails, Message, HandOver, Disconnect, Teardown,
         Panics
    <3> QED
      BY <3>0, <3>2, <3>3, <3>4
  <2> QED
    BY <2>1, <2>2, <2>3 DEF ConnType
<1>5. CASE \E a \in AssertWorker : JudgeStep(a)
  BY <1>1, <1>5, JudgeKeeps DEF ConnType, connVars
<1>6. CASE OthersStep
  BY <1>1, <1>6, OthersKeep DEF ConnType, connVars
<1> QED
  BY <1>3, <1>4, <1>5, <1>6, StepCases

LEMMA NextJudgeType ==
  ASSUME TypeOK, Counts', [Next]_vars
  PROVE  JudgeType'
<1>1. JudgeType
  BY TypeParts
<1>2. CASE MainStep
  <2>1. UNCHANGED <<queued, receiver, received, owed>>
    BY <1>2 DEF MainStep, GlobalSetup, SpawnEndpoint, StartCollector, JoinPanicked, JoinWorkers, DrainAsserts, GlobalTeardown,
       TakeFigures, TakeErrors, StopCollector, SendSummary, SendEndMark, judgeVars
  <2>2. CASE GlobalSetup
    BY <1>1, <2>1, <2>2 DEF JudgeType, GlobalSetup
  <2>3. CASE ~GlobalSetup
    <3>1. UNCHANGED judge
      BY <1>2, <2>3 DEF MainStep, SpawnEndpoint, StartCollector, JoinPanicked, JoinWorkers, DrainAsserts, GlobalTeardown,
         TakeFigures, TakeErrors, StopCollector, SendSummary, SendEndMark, judgeVars
    <3> QED
      BY <1>1, <2>1, <3>1 DEF JudgeType
  <2> QED
    BY <2>2, <2>3
<1>3. ASSUME NEW w \in Worker, WorkerStep(w)
      PROVE  JudgeType'
  <2>0. queued \in Nat /\ QueueCap \in Nat /\ received \in Nat /\ owed \in Nat /\ MaxReceived \in Nat
        /\ queued <= QueueCap /\ received <= MaxReceived /\ owed <= received
    BY <1>1, WsBatchAssumption DEF JudgeType
  <2>1. UNCHANGED <<receiver, judge>>
    BY <1>3, WorkerKeeps
  <2>2. queued' \in 0 .. QueueCap
    <3>1. CASE HandOver(w)
      BY <2>0, <3>1 DEF HandOver
    <3>2. CASE ~HandOver(w)
      <4>1. UNCHANGED queued
        BY <1>3, <3>2 DEF WorkerStep, LoopTop, SetupFails, StartConnect, Connect, ConnectFails, Message,
           Disconnect, Teardown, Panics, Quiet, judgeVars
      <4> QED
        BY <2>0, <4>1
    <3> QED
      BY <3>1, <3>2
  <2>3. owed' \in Nat
    <3>1. /\ Cardinality(Group({"asserting"}, Endpoint)') \in Nat
          /\ Cardinality(JudgesAt({"judge"})') \in Nat
      BY GroupNatNext, JudgesNatNext
    <3>2. queued' \in Nat
      BY <2>0, <2>2
    <3> QED
      BY <3>1, <3>2 DEF Counts, Asserting
  <2>4. received' \in 0 .. MaxReceived /\ owed' <= received'
    <3>1. CASE Message(w)
      BY <2>0, <3>1 DEF Message
    <3>2. CASE Disconnect(w)
      BY <2>0, <3>2 DEF Disconnect
    <3>3. ASSUME ~Message(w), ~Disconnect(w)
          PROVE  UNCHANGED <<received, owed>>
      BY <1>3, <3>3 DEF WorkerStep, LoopTop, SetupFails, StartConnect, Connect, ConnectFails, HandOver, Teardown,
         Panics
    <3> QED
      BY <2>0, <3>1, <3>2, <3>3
  <2>5. owed' \in 0 .. received'
    BY <2>0, <2>3, <2>4
  <2> QED
    BY <1>1, <2>1, <2>2, <2>4, <2>5 DEF JudgeType
<1>4. ASSUME NEW a \in AssertWorker, JudgeStep(a)
      PROVE  JudgeType'
  <2>0. queued \in Nat /\ QueueCap \in Nat /\ received \in Nat /\ owed \in Nat
        /\ queued <= QueueCap /\ owed <= received
    BY <1>1, WsBatchAssumption DEF JudgeType
  <2>1. received' = received
    BY <1>4, JudgeKeeps
  <2>2. judge' \in [AssertWorker -> {"lock", "recv", "judge", "closed"}]
    BY <1>4, JudgeMoves
  <2>3. queued' \in 0 .. QueueCap /\ receiver' \in AssertWorker \cup {None}
    BY <1>1, <1>4, <2>0 DEF JudgeStep, LockReceiver, TakeMessage, ChannelClosed, Judge, JudgeType
  <2>4. owed' <= received
    BY <1>4, <2>0 DEF JudgeStep, LockReceiver, TakeMessage, ChannelClosed, Judge, JudgeType
  <2>5. owed' \in Nat
    <3>1. /\ Cardinality(Group({"asserting"}, Endpoint)') \in Nat
          /\ Cardinality(JudgesAt({"judge"})') \in Nat
      BY GroupNatNext, JudgesNatNext
    <3>2. queued' \in Nat
      BY <2>0, <2>3
    <3> QED
      BY <3>1, <3>2 DEF Counts, Asserting
  <2>6. received' \in 0 .. MaxReceived /\ owed' \in 0 .. received'
    BY <1>1, <2>0, <2>1, <2>4, <2>5 DEF JudgeType
  <2> QED
    BY <2>2, <2>3, <2>6 DEF JudgeType
<1>5. CASE OthersStep
  BY <1>1, <1>5, OthersKeep DEF JudgeType, judgeVars
<1> QED
  BY <1>2, <1>3, <1>4, <1>5, StepCases

(* Sending and receiving. *)
LEMMA SendFits ==
  ASSUME channel \in Seq(ReportType), Len(channel) <= ChannelCap, CanSend, NEW m \in ReportType, Send(m)
  PROVE  channel' \in Seq(ReportType) /\ Len(channel') <= ChannelCap
<1>1. Len(channel) \in Nat /\ ChannelCap \in Nat
  BY WsBatchAssumption
<1>2. CASE consumer = "dropped"
  BY <1>2 DEF Send
<1>3. CASE consumer # "dropped"
  <2>1. Len(channel) < ChannelCap /\ channel' = Append(channel, m)
    BY <1>3 DEF CanSend, Send
  <2> QED
    BY <1>1, <2>1
<1> QED
  BY <1>2, <1>3

LEMMA ReceiveFits ==
  ASSUME channel \in Seq(ReportType), Len(channel) <= ChannelCap, ReceiveResult \/ DropStream
  PROVE  channel' \in Seq(ReportType) /\ Len(channel') <= ChannelCap
<1>1. ChannelCap \in Nat
  BY WsBatchAssumption
<1>2. CASE ReceiveResult
  <2>1. channel # <<>> /\ channel' = Tail(channel)
    BY <1>2 DEF ReceiveResult
  <2>2. channel' \in Seq(ReportType) /\ Len(channel') = Len(channel) - 1 /\ Len(channel) \in Nat
    BY <2>1
  <2> QED
    BY <1>1, <2>2
<1>3. CASE DropStream
  <2>1. channel' = <<>>
    BY <1>3 DEF DropStream
  <2> QED
    BY <1>1, <2>1
<1> QED
  BY <1>2, <1>3

LEMMA ReportsTyped ==
  /\ Empty \in ReportType /\ EndMark \in ReportType /\ ErrorResult \in ReportType
BY DEF Empty, EndMark, ErrorResult, ReportType

LEMMA RaiseTyped ==
  ASSUME raised \in Nat, engine \in SUBSET Nat, Raise \/ UNCHANGED engineVars
  PROVE  raised' \in Nat /\ engine' \in SUBSET Nat
<1>1. CASE Raise
  <2>1. raised' = raised + 1 /\ engine' = engine \cup {raised'}
    BY <1>1 DEF Raise
  <2>2. raised' \in Nat
    BY <2>1
  <2> QED
    BY <2>1, <2>2
<1>2. CASE UNCHANGED engineVars
  BY <1>2 DEF engineVars
<1> QED
  BY <1>1, <1>2

(* What ws_batch() does to the stream, the summary and the engine errors. *)
LEMMA MainReports ==
  ASSUME TypeOK, Reports, MainStep
  PROVE  /\ summary' \in ReportType /\ draft' = draft
         /\ channel' \in Seq(ReportType) /\ Len(channel') <= ChannelCap
         /\ failures' = failures /\ raised' \in Nat /\ engine' \in SUBSET Nat
         /\ UNCHANGED <<ticks, consumer>>
         /\ collector' \in {collector, "tick"}
<1> DEFINE Keep == UNCHANGED <<draft, failures, ticks, consumer>>
<1>0. /\ summary \in ReportType /\ engine \in SUBSET Nat /\ raised \in Nat
      /\ channel \in Seq(ReportType) /\ Len(channel) <= ChannelCap
  BY DEF Reports, TypeOK
<1>1. CASE SendSummary \/ SendEndMark
  <2>1. CanSend /\ \E m \in ReportType : Send(m)
    BY <1>0, <1>1, ReportsTyped DEF SendSummary, SendEndMark
  <2>2. Keep /\ UNCHANGED <<summary, collector, engineVars>>
    BY <1>1 DEF SendSummary, SendEndMark, judgeVars, collectVars
  <2> QED
    BY <1>0, <2>1, <2>2, SendFits DEF engineVars
<1>2. CASE ~SendSummary /\ ~SendEndMark
  <2>1. Keep /\ UNCHANGED channel
    BY <1>2 DEF MainStep, GlobalSetup, SpawnEndpoint, StartCollector, JoinPanicked, JoinWorkers, DrainAsserts,
       GlobalTeardown, TakeFigures, TakeErrors, StopCollector, judgeVars, collectVars, flowVars
  <2>2. raised' \in Nat /\ engine' \in SUBSET Nat
    <3>1. CASE GlobalTeardown \/ JoinPanicked
      BY <1>0, <3>1, RaiseTyped DEF GlobalTeardown, JoinPanicked
    <3>2. CASE ~GlobalTeardown /\ ~JoinPanicked
      <4>1. UNCHANGED engineVars
        BY <1>2, <3>2 DEF MainStep, GlobalSetup, SpawnEndpoint, StartCollector, JoinWorkers, DrainAsserts,
           TakeFigures, TakeErrors, StopCollector
      <4> QED
        BY <1>0, <4>1 DEF engineVars
    <3> QED
      BY <3>1, <3>2
  <2>3. summary' \in ReportType
    <3>1. CASE TakeFigures
      <4>1. opened \in Nat /\ active \in Nat /\ received \in Nat /\ failures \in Nat
        BY WsBatchAssumption DEF TypeOK, Reports
      <4> QED
        BY <3>1, <4>1 DEF TakeFigures, ReportType
    <3>2. CASE TakeErrors
      BY <1>0, <3>2 DEF TakeErrors, ReportType
    <3>3. CASE ~TakeFigures /\ ~TakeErrors
      <4>1. UNCHANGED summary
        BY <1>2, <3>3 DEF MainStep, GlobalSetup, SpawnEndpoint, StartCollector, JoinPanicked, JoinWorkers, DrainAsserts,
           GlobalTeardown, StopCollector, mainVars
      <4> QED
        BY <1>0, <4>1
    <3> QED
      BY <3>1, <3>2, <3>3
  <2>4. collector' \in {collector, "tick"}
    BY <1>2 DEF MainStep, GlobalSetup, SpawnEndpoint, StartCollector, JoinPanicked, JoinWorkers, DrainAsserts,
       GlobalTeardown, TakeFigures, TakeErrors, StopCollector, collectVars
  <2> QED
    BY <1>0, <2>1, <2>2, <2>3, <2>4
<1> QED
  BY <1>1, <1>2

LEMMA NextReports ==
  ASSUME TypeOK, Reports, [Next]_vars
  PROVE  Reports' /\ FlowType'
<1>0. /\ summary \in ReportType /\ draft \in ReportType
      /\ channel \in Seq(ReportType) /\ Len(channel) <= ChannelCap
      /\ failures \in Nat /\ raised \in Nat /\ engine \in SUBSET Nat
      /\ collector \in {"unborn", "tick", "drain", "send", "gone"} /\ ticks \in 0 .. MaxTicks
      /\ consumer \in {"reading", "ended", "dropped"} /\ MaxTicks \in Nat
  BY WsBatchAssumption DEF Reports, TypeOK
<1> DEFINE Rest == UNCHANGED <<summary, failures, raised>>
<1>1. CASE MainStep
  <2>1. /\ summary' \in ReportType /\ draft' = draft
        /\ channel' \in Seq(ReportType) /\ Len(channel') <= ChannelCap
        /\ failures' = failures /\ raised' \in Nat /\ engine' \in SUBSET Nat
        /\ UNCHANGED <<ticks, consumer>> /\ collector' \in {collector, "tick"}
    BY <1>1, MainReports
  <2> QED
    BY <1>0, <2>1 DEF Reports, FlowType
<1>2. ASSUME NEW w \in Worker, WorkerStep(w)
      PROVE  Reports' /\ FlowType'
  <2>1. UNCHANGED <<summary, failures, draft, collector, ticks, channel, consumer>>
    BY <1>2, WorkerKeeps DEF mainVars, collectVars, flowVars
  <2>2. Raise \/ UNCHANGED engineVars
    BY <1>2 DEF WorkerStep, LoopTop, SetupFails, StartConnect, Connect, ConnectFails, Message, HandOver,
       Disconnect, Teardown, Panics
  <2>3. raised' \in Nat /\ engine' \in SUBSET Nat
    BY <1>0, <2>2, RaiseTyped
  <2> QED
    BY <1>0, <2>1, <2>3 DEF Reports, FlowType
<1>3. ASSUME NEW a \in AssertWorker, JudgeStep(a)
      PROVE  Reports' /\ FlowType'
  <2>1. UNCHANGED <<summary, draft, collector, ticks, channel, consumer, raised, engine>>
    BY <1>3, JudgeKeeps DEF mainVars, collectVars, flowVars, engineVars
  <2>2. failures' \in Nat
    BY <1>0, <1>3 DEF JudgeStep, LockReceiver, TakeMessage, ChannelClosed, Judge
  <2> QED
    BY <1>0, <2>1, <2>2 DEF Reports, FlowType
<1>4. CASE Tick
  <2>1. /\ UNCHANGED <<summary, failures, raised, engine, draft, channel, consumer>>
        /\ collector' = "drain" /\ ticks' = ticks + 1 /\ ticks < MaxTicks
    BY <1>4 DEF Tick, Collect, mainVars, judgeVars, engineVars, flowVars
  <2> QED
    BY <1>0, <2>1 DEF Reports, FlowType
<1>5. CASE DrainErrors
  <2>1. /\ UNCHANGED <<summary, failures, raised, channel, consumer, ticks>>
        /\ collector' = "send" /\ draft' = [draft EXCEPT !.rest = engine] /\ engine' = {}
    BY <1>5 DEF DrainErrors, Collect, mainVars, judgeVars, flowVars
  <2>2. draft' \in ReportType
    BY <1>0, <2>1 DEF ReportType
  <2> QED
    BY <1>0, <2>1, <2>2 DEF Reports, FlowType
<1>6. CASE SendTick
  <2>1. /\ UNCHANGED <<summary, failures, raised, engine, consumer, ticks>>
        /\ collector' = "tick" /\ draft' = Empty
        /\ CanSend /\ Send(draft)
    BY <1>6 DEF SendTick, Collect, mainVars, judgeVars, engineVars
  <2>2. channel' \in Seq(ReportType) /\ Len(channel') <= ChannelCap
    BY <1>0, <2>1, SendFits
  <2> QED
    BY <1>0, <2>1, <2>2, ReportsTyped DEF Reports, FlowType
<1>7. CASE HearStop
  <2>1. /\ UNCHANGED <<summary, failures, raised, engine, channel, consumer, ticks>>
        /\ collector' = "gone" /\ draft' \in {draft, Empty}
    BY <1>7 DEF HearStop, Collect, mainVars, judgeVars, flowVars
  <2> QED
    BY <1>0, <2>1, ReportsTyped DEF Reports, FlowType
<1>8. CASE ReceiveResult \/ DropStream
  <2>1. /\ UNCHANGED <<summary, failures, raised, engine, draft, ticks, collector>>
        /\ consumer' \in {"reading", "ended", "dropped"}
    BY <1>8 DEF ReceiveResult, DropStream, mainVars, judgeVars, engineVars, collectVars
  <2>2. channel' \in Seq(ReportType) /\ Len(channel') <= ChannelCap
    BY <1>0, <1>8, ReceiveFits
  <2> QED
    BY <1>0, <2>1, <2>2 DEF Reports, FlowType
<1>9. CASE TimeUp \/ Terminated \/ UNCHANGED vars
  <2>1. UNCHANGED <<summary, failures, raised, engine, draft, channel, ticks, collector, consumer>>
    BY <1>9 DEF TimeUp, Terminated, vars, mainVars, judgeVars, engineVars, collectVars, flowVars
  <2> QED
    BY <1>0, <2>1 DEF Reports, FlowType
<1> QED
  BY <1>1, <1>2, <1>3, <1>4, <1>5, <1>6, <1>7, <1>8, <1>9, StepCases DEF OthersStep, CollectorStep

LEMMA NextTypeOK ==
  ASSUME TypeOK, Counts, NotSpawned, Stages, Reports, [Next]_vars
  PROVE  TypeOK'
<1>1. Counts'
  BY NextCounts
<1>2. MainType' /\ ConnType' /\ JudgeType' /\ FlowType'
  BY <1>1, NextMainType, NextConnType, NextJudgeType, NextReports
<1>3. (MainType /\ ConnType /\ JudgeType /\ FlowType)' => TypeOK'
  BY DEF TypeOK, MainType, ConnType, JudgeType, FlowType, Places
<1> QED
  BY <1>2, <1>3

-----------------------------------------------------------------------------
(* What is spawned and what is over *)

LEMMA NextNotSpawned ==
  ASSUME TypeOK, NotSpawned, [Next]_vars
  PROVE  NotSpawned'
<1>0. spawned \in Nat /\ \A v \in Worker : EndpointOf[v] \in Nat
  BY WsBatchAssumption DEF TypeOK, Endpoint
<1>1. CASE SpawnEndpoint
  <2>1. \/ UNCHANGED <<spawned, worker>>
        \/ /\ spawned' = spawned + 1
           /\ worker' = [v \in Worker |-> IF EndpointOf[v] = spawned + 1 THEN "loop" ELSE worker[v]]
    BY <1>1 DEF SpawnEndpoint
  <2> QED
    BY <1>0, <2>1 DEF NotSpawned
<1>2. CASE MainStep /\ ~SpawnEndpoint
  <2>0. CASE JoinPanicked
    <3>1. PICK w \in Worker : Go(w, "panicked", "ended")
      BY <2>0 DEF JoinPanicked
    <3>2. spawned' = spawned /\ worker[w] # "unborn" /\ \A v \in Worker \ {w} : worker'[v] = worker[v]
      BY <2>0, <3>1 DEF JoinPanicked, mainVars, Go, TypeOK
    <3> QED
      BY <3>2 DEF NotSpawned
  <2>1. CASE UNCHANGED <<spawned, worker>>
    BY <2>1 DEF NotSpawned
  <2> QED
    BY <1>2, <2>0, <2>1 DEF MainStep, GlobalSetup, StartCollector, JoinWorkers, DrainAsserts, GlobalTeardown, TakeFigures,
       TakeErrors, StopCollector, SendSummary, SendEndMark, connVars
<1>3. ASSUME NEW w \in Worker, WorkerStep(w)
      PROVE  NotSpawned'
  <2>1. spawned' = spawned
    BY <1>3, WorkerKeeps DEF mainVars
  <2>2. worker[w] # "unborn" /\ \A v \in Worker \ {w} : worker'[v] = worker[v]
    BY <1>3, WorkerMoves DEF Gone
  <2> QED
    BY <2>1, <2>2 DEF NotSpawned
<1>4. CASE \E a \in AssertWorker : JudgeStep(a)
  BY <1>4, JudgeKeeps DEF NotSpawned, mainVars, connVars
<1>5. CASE OthersStep
  BY <1>5, OthersKeep DEF NotSpawned, connVars
<1> QED
  BY <1>1, <1>2, <1>3, <1>4, <1>5, StepCases

AllEnded    == \A w \in Worker : worker[w] = "ended"
AllClosed   == \A a \in AssertWorker : judge[a] = "closed"

LEMMA EndedIsGone == AllEnded /\ AllClosed => Quieted
BY DEF AllEnded, AllClosed, Quieted, Gone

(* A test that has come to rest stays at rest. *)
LEMMA RestStays ==
  ASSUME TypeOK, [Next]_vars
  PROVE  /\ AllEnded /\ main # "spawn" => AllEnded'
         /\ AllClosed /\ main # "setup" => AllClosed'
         /\ Quieted /\ main \notin {"setup", "spawn"} => Quieted'
<1>1. ASSUME main # "spawn", NEW v \in Worker, worker[v] \in Gone
      PROVE  worker'[v] = worker[v] \/ worker'[v] = "ended"
  <2>0. CASE JoinPanicked
    BY <2>0 DEF JoinPanicked, Go, TypeOK
  <2>1. CASE MainStep /\ ~JoinPanicked
    BY <1>1, <2>1 DEF MainStep, GlobalSetup, SpawnEndpoint, StartCollector, JoinWorkers, DrainAsserts,
       GlobalTeardown, TakeFigures, TakeErrors, StopCollector, SendSummary, SendEndMark, Step, connVars
  <2>2. CASE \E w \in Worker : WorkerStep(w)
    BY <1>1, <2>2, WorkerMoves
  <2>3. CASE \E a \in AssertWorker : JudgeStep(a)
    BY <2>3, JudgeKeeps DEF connVars
  <2>4. CASE OthersStep
    BY <2>4, OthersKeep DEF connVars
  <2> QED
    BY <2>0, <2>1, <2>2, <2>3, <2>4, StepCases
<1>2. ASSUME main # "setup", NEW b \in AssertWorker, judge[b] = "closed"
      PROVE  judge'[b] = "closed"
  <2>1. CASE MainStep
    BY <1>2, <2>1 DEF MainStep, GlobalSetup, SpawnEndpoint, StartCollector, JoinPanicked, JoinWorkers, DrainAsserts,
       GlobalTeardown, TakeFigures, TakeErrors, StopCollector, SendSummary, SendEndMark, Step, judgeVars
  <2>2. CASE \E w \in Worker : WorkerStep(w)
    BY <1>2, <2>2, WorkerKeeps
  <2>3. CASE \E a \in AssertWorker : JudgeStep(a)
    BY <1>2, <2>3, JudgeMoves
  <2>4. CASE OthersStep
    BY <1>2, <2>4, OthersKeep DEF judgeVars
  <2> QED
    BY <2>1, <2>2, <2>3, <2>4, StepCases
<1>3. AllEnded /\ main # "spawn" => AllEnded'
  BY <1>1 DEF AllEnded, Gone
<1>4. AllClosed /\ main # "setup" => AllClosed'
  BY <1>2 DEF AllClosed
<1>5. Quieted /\ main \notin {"setup", "spawn"} => Quieted'
  BY <1>1, <1>2 DEF Quieted, Gone
<1> QED
  BY <1>3, <1>4, <1>5

(* What a step does to the place of ws_batch(). *)
LEMMA MainMoves ==
  ASSUME TypeOK, [Next]_vars
  PROVE  \/ main' = main
         \/ main = "setup" /\ main' \in {"spawn", "failed"}
         \/ main = "spawn" /\ (main' = "join" \/ (main' = "failed" /\ broken # {}))
         \/ main = "join" /\ main' = "drain" /\ AllEnded
         \/ main = "drain" /\ main' = "teardown" /\ AllClosed
         \/ main \in {"teardown", "figures", "errors", "stop", "summary", "failed", "mark"}
            /\ main' \in {"figures", "errors", "stop", "summary", "mark", "done"}
            /\ (main \in {"failed", "mark"} => main' \in {"mark", "done"})
            /\ (main = "figures" <=> main' = "errors") /\ (main' = "figures" => main = "teardown")
<1>1. CASE MainStep
  <2> USE DEF Step
  <2>1. CASE GlobalSetup \/ SpawnEndpoint \/ StartCollector
    BY <2>1 DEF GlobalSetup, SpawnEndpoint, StartCollector
  <2>2. CASE JoinPanicked
    BY <2>2 DEF JoinPanicked, mainVars
  <2>3. CASE JoinWorkers \/ DrainAsserts
    BY <2>3 DEF JoinWorkers, DrainAsserts, AllEnded, AllClosed
  <2>4. CASE GlobalTeardown \/ TakeFigures \/ TakeErrors \/ StopCollector
    BY <2>4 DEF GlobalTeardown, TakeFigures, TakeErrors, StopCollector
  <2>5. CASE SendSummary \/ SendEndMark
    BY <2>5 DEF SendSummary, SendEndMark
  <2> QED
    BY <1>1, <2>1, <2>2, <2>3, <2>4, <2>5 DEF MainStep
<1>2. CASE ~MainStep
  BY <1>2, WorkerKeeps, JudgeKeeps, OthersKeep, StepCases DEF mainVars
<1> QED
  BY <1>1, <1>2

(* The summary is made by TakeFigures and completed by TakeErrors. *)
LEMMA SummaryMoves ==
  ASSUME TypeOK, [Next]_vars
  PROVE  /\ broken' = broken
         /\ \/ summary' = summary
            \/ TakeFigures
            \/ TakeErrors /\ summary' = [summary EXCEPT !.rest = engine]
<1>1. CASE MainStep
  BY <1>1 DEF MainStep, GlobalSetup, SpawnEndpoint, StartCollector, JoinPanicked, JoinWorkers, DrainAsserts,
     GlobalTeardown, TakeFigures, TakeErrors, StopCollector, SendSummary, SendEndMark, mainVars
<1>2. CASE ~MainStep
  BY <1>2, WorkerKeeps, JudgeKeeps, OthersKeep, StepCases DEF mainVars
<1> QED
  BY <1>1, <1>2

LEMMA NextStages ==
  ASSUME TypeOK, Counts, NotSpawned, Stages, Reports, [Next]_vars
  PROVE  Stages'
<1>0. /\ main = "setup" => spawned = 0 /\ AllClosed
      /\ main \in {"drain", "teardown", "figures", "errors", "stop", "summary"} => AllEnded
      /\ main \in {"teardown", "figures", "errors", "stop", "summary"} => AllClosed
      /\ main \in {"failed", "mark", "done"} => Quieted \/ broken # {}
      /\ summary.kind = "final" => Quieted /\ main \in {"errors", "stop", "summary", "mark", "done"}
  BY DEF Stages, AllClosed, AllEnded
<1>1. main' = "setup" => spawned' = 0 /\ AllClosed'
  <2> SUFFICES ASSUME main' = "setup" PROVE spawned' = 0 /\ AllClosed'
    OBVIOUS
  <2>1. main = "setup" /\ spawned = 0 /\ AllClosed
    BY <1>0, MainMoves
  <2>2. CASE MainStep
    BY <2>1, <2>2 DEF MainStep, GlobalSetup, SpawnEndpoint, StartCollector, JoinPanicked, JoinWorkers, DrainAsserts,
       GlobalTeardown, TakeFigures, TakeErrors, StopCollector, SendSummary, SendEndMark, Step
  <2>3. CASE \E w \in Worker : WorkerStep(w)
    BY <2>1, <2>3, WorkerKeeps DEF mainVars, AllClosed
  <2>4. CASE \E a \in AssertWorker : JudgeStep(a)
    BY <2>1, <2>4, JudgeMoves DEF AllClosed
  <2>5. CASE OthersStep
    BY <2>1, <2>5, OthersKeep DEF judgeVars, AllClosed
  <2> QED
    BY <2>2, <2>3, <2>4, <2>5, StepCases
<1>2. main' \in {"drain", "teardown", "figures", "errors", "stop", "summary"} => AllEnded'
  BY <1>0, MainMoves, RestStays
<1>3. main' \in {"teardown", "figures", "errors", "stop", "summary"} => AllClosed'
  BY <1>0, MainMoves, RestStays
<1>4. main' \in {"failed", "mark", "done"} => Quieted' \/ broken' # {}
  <2>1. broken' = broken
    BY SummaryMoves
  <2>2. CASE main = "setup" /\ main' = "failed"
    <3>1. worker' = worker /\ judge' = judge
      <4>1. MainStep
        BY <2>2, WorkerKeeps, JudgeKeeps, OthersKeep, StepCases DEF mainVars
      <4> QED
        BY <2>2, <4>1 DEF MainStep, GlobalSetup, SpawnEndpoint, StartCollector, JoinPanicked, JoinWorkers, DrainAsserts,
           GlobalTeardown, TakeFigures, TakeErrors, StopCollector, SendSummary, SendEndMark, Step, connVars
    <3>2. \A w \in Worker : worker[w] = "unborn"
      BY <1>0, <2>2, WsBatchAssumption DEF NotSpawned, Endpoint
    <3> QED
      BY <1>0, <2>2, <3>1, <3>2 DEF Quieted, Gone, AllClosed
  <2>3. CASE main = "summary"
    BY <1>0, <2>3, RestStays, EndedIsGone
  <2>4. CASE main \in {"failed", "mark", "done"}
    BY <1>0, <2>1, <2>4, RestStays
  <2>5. CASE main = "spawn" /\ main' = "failed"
    BY <2>1, <2>5, MainMoves
  <2>6. CASE main \in {"teardown", "figures", "errors", "stop"}
    BY <1>0, <2>6, RestStays, EndedIsGone
  <2> QED
    BY <2>2, <2>3, <2>4, <2>5, <2>6, MainMoves
<1>5. summary'.kind = "final" => Quieted' /\ main' \in {"errors", "stop", "summary", "mark", "done"}
  <2>1. CASE TakeFigures
    <3>1. main = "figures" /\ main' = "errors"
      BY <2>1 DEF TakeFigures, Step
    <3> QED
      BY <1>0, <3>1, RestStays, EndedIsGone
  <2>2. ASSUME summary'.kind = "final", summary.kind = "final"
        PROVE  Quieted' /\ main' \in {"errors", "stop", "summary", "mark", "done"}
    BY <1>0, <2>2, RestStays, MainMoves
  <2>3. ASSUME summary' = [summary EXCEPT !.rest = engine]
        PROVE  summary'.kind = summary.kind
    <3>1. summary \in ReportType
      BY DEF Reports
    <3> QED
      BY <2>3, <3>1 DEF ReportType
  <2> QED
    BY <2>1, <2>2, <2>3, SummaryMoves
<1> QED
  BY <1>1, <1>2, <1>3, <1>4, <1>5 DEF Stages, AllClosed, AllEnded

LEMMA NextSummaryFinal ==
  ASSUME TypeOK, Counts, Stages, Reports, SummaryFinal, [Next]_vars
  PROVE  SummaryFinal'
<1> SUFFICES ASSUME summary'.kind = "final"
             PROVE  /\ Quieted'
                    /\ summary'.active = 0 /\ active' = 0
                    /\ summary'.opened = opened' /\ summary'.received = received'
                    /\ summary'.failures = failures'
  BY DEF SummaryFinal
<1>1. CASE TakeFigures
  <2>1. /\ main = "figures" /\ UNCHANGED <<opened, active, received, failures>>
        /\ summary' = [kind |-> "final", opened |-> opened, active |-> active,
                       received |-> received, failures |-> failures, rest |-> {}]
    BY <1>1 DEF TakeFigures, Step, connVars, judgeVars
  <2>2. AllEnded /\ AllClosed
    BY <2>1 DEF Stages, AllEnded, AllClosed
  <2>3. Connected = {}
    BY <2>2 DEF AllEnded, Connected, Group
  <2>4. active = 0
    BY <2>3, FS_EmptySet DEF Counts
  <2>5. Quieted'
    BY <2>1, <2>2, RestStays, EndedIsGone
  <2> QED
    BY <2>1, <2>4, <2>5
<1>2. CASE ~TakeFigures
  <2>0. summary \in ReportType
    BY DEF Reports
  <2>1. /\ summary'.kind = summary.kind /\ summary'.active = summary.active /\ summary'.opened = summary.opened
        /\ summary'.received = summary.received /\ summary'.failures = summary.failures
    <3>1. summary' = summary \/ summary' = [summary EXCEPT !.rest = engine]
      BY <1>2, SummaryMoves
    <3> QED
      BY <2>0, <3>1 DEF ReportType
  <2>2. Quieted /\ main \notin {"setup", "spawn"}
    BY <2>1 DEF Stages
  <2>3. UNCHANGED <<opened, active, received, failures>>
    <3>1. CASE MainStep
      BY <2>2, <3>1 DEF MainStep, GlobalSetup, SpawnEndpoint, StartCollector, JoinPanicked, JoinWorkers, DrainAsserts,
         GlobalTeardown, TakeFigures, TakeErrors, StopCollector, SendSummary, SendEndMark, Step, connVars, judgeVars
    <3>2. ~\E w \in Worker : WorkerStep(w)
      BY <2>2, WorkerMoves DEF Quieted
    <3>3. ~\E a \in AssertWorker : JudgeStep(a)
      BY <2>2, JudgeMoves DEF Quieted
    <3>4. CASE OthersStep
      BY <3>4, OthersKeep DEF connVars, judgeVars
    <3> QED
      BY <3>1, <3>2, <3>3, <3>4, StepCases
  <2>4. Quieted'
    BY <2>2, RestStays
  <2> QED
    BY <2>1, <2>3, <2>4 DEF SummaryFinal
<1> QED
  BY <1>1, <1>2

-----------------------------------------------------------------------------
(* The theorems *)

LEMMA InitIInv == Init => IInv
<1> SUFFICES ASSUME Init PROVE IInv
  OBVIOUS
<1>1. TypeOK
  <2>1. Len(channel) = 0
    BY DEF Init
  <2>2. inFlight \in [Endpoint -> 0 .. ConnectLimit]
    BY WsBatchAssumption DEF Init
  <2>3. MainType
    <3>1. Endpoints \in Nat /\ 0 \in 0 .. Endpoints
      BY WsBatchAssumption
    <3> QED
      BY <3>1 DEF Init, MainType
  <2>4. ConnType
    BY <2>2, WsBatchAssumption DEF Init, ConnType, Places
  <2>5. JudgeType
    <3>1. 0 \in 0 .. QueueCap /\ 0 \in 0 .. MaxReceived /\ 0 \in 0 .. 0
      BY WsBatchAssumption
    <3> QED
      BY <3>1 DEF Init, JudgeType
  <2>6. FlowType
    BY <2>1, WsBatchAssumption DEF Init, FlowType
  <2> QED
    BY <2>3, <2>4, <2>5, <2>6, TypeParts
<1>2. Counts
  <2>1. \A w \in Worker : worker[w] = "unborn"
    BY DEF Init
  <2>2. Connected = {} /\ Asserting = {} /\ \A e \in Endpoint : Shaking(e) = {}
    BY <2>1 DEF Connected, Asserting, Shaking, Group
  <2>3. JudgesAt({"judge"}) = {}
    BY DEF Init, JudgesAt
  <2>4. /\ Cardinality(Connected) = 0 /\ Cardinality(Asserting) = 0 /\ Cardinality(JudgesAt({"judge"})) = 0
        /\ \A e \in Endpoint : Cardinality(Shaking(e)) = 0
    BY <2>2, <2>3, FS_EmptySet
  <2>5. /\ active = 0 /\ owed = 0 /\ queued = 0 /\ \A e \in Endpoint : inFlight[e] = 0
    BY DEF Init
  <2> QED
    BY <2>4, <2>5 DEF Counts
<1>3. Reports
  BY ReportsTyped DEF Init, Reports
<1>4. NotSpawned
  BY DEF Init, NotSpawned
<1>5. Stages /\ SummaryFinal
  BY DEF Init, Stages, SummaryFinal, Empty
<1> QED
  BY <1>1, <1>2, <1>3, <1>4, <1>5 DEF IInv

LEMMA NextIInv == IInv /\ [Next]_vars => IInv'
<1> SUFFICES ASSUME IInv, [Next]_vars PROVE IInv'
  OBVIOUS
<1>1. TypeOK /\ Counts /\ Reports /\ NotSpawned /\ Stages /\ SummaryFinal
  BY DEF IInv
<1> QED
  BY <1>1, NextTypeOK, NextCounts, NextReports, NextNotSpawned, NextStages, NextSummaryFinal DEF IInv

LEMMA Invariance == Spec => []IInv
<1> QED
  BY InitIInv, NextIInv, PTL DEF Spec

(* No channel, limiter or counter goes beyond its bounds, and no permit of *)
(* a connect_limiter is lost: it holds the handshakes that are on their    *)
(* way, however those end.                                                 *)
THEOREM NoPermitLost == Spec => []LimitsKept
<1>1. IInv => LimitsKept
  <2> SUFFICES ASSUME IInv PROVE LimitsKept
    OBVIOUS
  <2>0. TypeOK /\ Counts
    BY DEF IInv
  <2>1. ASSUME NEW e \in Endpoint
        PROVE  /\ Cardinality({w \in At({"handshake"}) : EndpointOf[w] = e}) <= ConnectLimit
               /\ main = "done" /\ Quieted => inFlight[e] = 0
    <3>1. {w \in At({"handshake"}) : EndpointOf[w] = e} = Shaking(e)
      BY DEF At, Shaking, Group
    <3>2. inFlight[e] = Cardinality(Shaking(e)) /\ inFlight[e] <= ConnectLimit
      BY <2>0, WsBatchAssumption DEF Counts, TypeOK
    <3>3. Quieted => Shaking(e) = {}
      BY DEF Quieted, Gone, Shaking, Group
    <3> QED
      BY <3>1, <3>2, <3>3, FS_EmptySet
  <2> QED
    BY <2>0, <2>1 DEF LimitsKept, HandshakesLimited
<1> QED
  BY <1>1, Invariance, PTL

(* Every message with assertions is judged once, is on its way to be       *)
(* judged, or went down with its connection: the queue, the connections    *)
(* that wait for it and the assert workers hold exactly what is owed.      *)
THEOREM NoMessageLost == Spec => []EveryMessageJudged
<1>1. IInv => EveryMessageJudged
  <2> SUFFICES ASSUME IInv PROVE EveryMessageJudged
    OBVIOUS
  <2>1. At({"asserting"}) = Asserting
    BY WsBatchAssumption DEF At, Asserting, Group
  <2>2. {a \in AssertWorker : judge[a] = "judge"} = JudgesAt({"judge"})
    BY DEF JudgesAt
  <2> QED
    BY <2>1, <2>2 DEF IInv, Counts, EveryMessageJudged
<1> QED
  BY <1>1, Invariance, PTL

(* The figures of a summary are the last ones, and a stream that is closed *)
(* leaves no worker behind, unless a later endpoint was misconfigured.     *)
THEOREM SummaryIsLast == Spec => []NothingRunsOn
<1>1. IInv => NothingRunsOn
  BY DEF IInv, Stages, NothingRunsOn, QuietAfterEnd
<1> QED
  BY <1>1, Invariance, PTL
-----------------------------------------------------------------------------
(* What the consumer is told *)

(* Where the results are that are not live reports. *)
Outcomes(s) == {i \in DOMAIN s : s[i].kind \in {"final", "failed"}}
TheOne(s, t) == (\E i \in DOMAIN s : Outcomes(s) = {i}) /\ Outcomes(t) = {}

(* Which reports there are, and what the summary says before it is made. *)
Kinds ==
  /\ results \in Seq(ReportType)
  /\ draft.kind = "tick"
  /\ main \in {"errors", "stop", "summary"} => summary.kind = "final"
  /\ main \in {"setup", "spawn", "join", "drain", "teardown", "figures", "failed"} =>
       summary.kind = "tick" /\ summary.rest = {}
  /\ main = "errors" => summary.rest = {}
  /\ main \in {"setup", "spawn"} => collector = "unborn"
  /\ collector # "send" => draft.rest = {}

(* Every engine error raised is somewhere, and once the summary has copied *)
(* them none is left that it does not know.                                *)
Known ==
  Reads => 1 .. raised \subseteq engine \cup draft.rest \cup summary.rest \cup Reported
                                  \cup OnTheWay \cup lost
Copied == summary.kind = "final" /\ main # "errors" => engine \subseteq summary.rest

(* One outcome comes down the stream, and after the end mark nothing but   *)
(* what the collector still sends.                                         *)
Pending ==
  consumer = "reading" =>
    /\ main \notin {"mark", "done"} => Outcomes(results) = {} /\ Outcomes(channel) = {}
    /\ main \in {"mark", "done"} => TheOne(results, channel) \/ TheOne(channel, results)
    /\ \A i \in DOMAIN channel : channel[i].kind = "end" =>
         main = "done" /\ \A j \in Outcomes(channel) : j < i
Marked ==
  consumer = "ended" =>
    results # << >> /\ Last(results).kind = "end" /\ \E i \in DOMAIN results : Outcomes(results) = {i}

Delivery == Kinds /\ Known /\ Copied /\ Pending /\ Marked
(* An outcome appended, and the first result taken. *)
IsOutcome(m) == m.kind \in {"final", "failed"}
LEMMA OutcomesAppended ==
  ASSUME NEW s \in Seq(ReportType), NEW m \in ReportType
  PROVE  /\ Outcomes(s) \subseteq 1 .. Len(s) /\ Len(s) \in Nat
         /\ Append(s, m) \in Seq(ReportType)
         /\ DOMAIN Append(s, m) = 1 .. Len(s) + 1 /\ DOMAIN s = 1 .. Len(s)
         /\ \A i \in 1 .. Len(s) : Append(s, m)[i] = s[i]
         /\ Append(s, m)[Len(s) + 1] = m
         /\ ~IsOutcome(m) => Outcomes(Append(s, m)) = Outcomes(s)
         /\ IsOutcome(m) => Outcomes(Append(s, m)) = Outcomes(s) \cup {Len(s) + 1}
<1>1. /\ Len(s) \in Nat /\ DOMAIN Append(s, m) = 1 .. Len(s) + 1 /\ DOMAIN s = 1 .. Len(s)
      /\ \A i \in 1 .. Len(s) : Append(s, m)[i] = s[i]
      /\ Append(s, m)[Len(s) + 1] = m /\ Append(s, m) \in Seq(ReportType)
  OBVIOUS
<1>2. \A i \in 1 .. Len(s) + 1 : i \in 1 .. Len(s) \/ i = Len(s) + 1
  BY <1>1
<1>3. 1 .. Len(s) \subseteq 1 .. Len(s) + 1 /\ Len(s) + 1 \in 1 .. Len(s) + 1
  BY <1>1
<1>4. Outcomes(s) \subseteq 1 .. Len(s)
  BY <1>1 DEF Outcomes
<1>5. ~IsOutcome(m) => Outcomes(Append(s, m)) = Outcomes(s)
  BY <1>1, <1>2, <1>3 DEF Outcomes, IsOutcome
<1>6. IsOutcome(m) => Outcomes(Append(s, m)) = Outcomes(s) \cup {Len(s) + 1}
  BY <1>1, <1>2, <1>3 DEF Outcomes, IsOutcome
<1> QED
  BY <1>1, <1>4, <1>5, <1>6

LEMMA OutcomesTaken ==
  ASSUME NEW s \in Seq(ReportType), s # << >>
  PROVE  /\ Tail(s) \in Seq(ReportType) /\ Head(s) = s[1] /\ s[1] \in ReportType
         /\ DOMAIN s = 1 .. Len(s) /\ DOMAIN Tail(s) = 1 .. Len(s) - 1 /\ Len(s) \in Nat \ {0}
         /\ \A i \in 1 .. Len(s) - 1 : Tail(s)[i] = s[i + 1]
         /\ \A i \in 1 .. Len(s) - 1 : i \in Outcomes(Tail(s)) <=> i + 1 \in Outcomes(s)
         /\ 1 \in Outcomes(s) <=> IsOutcome(Head(s))
<1>1. /\ Tail(s) \in Seq(ReportType) /\ Head(s) = s[1] /\ s[1] \in ReportType
      /\ DOMAIN s = 1 .. Len(s) /\ DOMAIN Tail(s) = 1 .. Len(s) - 1 /\ Len(s) \in Nat \ {0}
      /\ \A i \in 1 .. Len(s) - 1 : Tail(s)[i] = s[i + 1]
  OBVIOUS
<1>2. \A i \in 1 .. Len(s) - 1 : i + 1 \in 1 .. Len(s)
  BY <1>1
<1>3. \A i \in 1 .. Len(s) - 1 : i \in Outcomes(Tail(s)) <=> i + 1 \in Outcomes(s)
  BY <1>1, <1>2 DEF Outcomes
<1>4. 1 \in 1 .. Len(s)
  BY <1>1
<1>5. 1 \in Outcomes(s) <=> IsOutcome(Head(s))
  BY <1>1, <1>4 DEF Outcomes, IsOutcome
<1> QED
  BY <1>1, <1>3, <1>5

(* The engine errors of a sequence of results. *)
Rests(s) == UNION {s[i].rest : i \in DOMAIN s}
LEMMA RestsAppended ==
  ASSUME NEW s \in Seq(ReportType), NEW m \in ReportType
  PROVE  Rests(Append(s, m)) = Rests(s) \cup m.rest
<1>1. /\ Len(s) \in Nat /\ DOMAIN Append(s, m) = 1 .. Len(s) + 1 /\ DOMAIN s = 1 .. Len(s)
      /\ \A i \in 1 .. Len(s) : Append(s, m)[i] = s[i]
      /\ Append(s, m)[Len(s) + 1] = m
  OBVIOUS
<1>2. \A i \in 1 .. Len(s) + 1 : i \in 1 .. Len(s) \/ i = Len(s) + 1
  BY <1>1
<1>3. 1 .. Len(s) \subseteq 1 .. Len(s) + 1 /\ Len(s) + 1 \in 1 .. Len(s) + 1
  BY <1>1
<1>4. Rests(Append(s, m)) \subseteq Rests(s) \cup m.rest
  BY <1>1, <1>2 DEF Rests
<1>5. Rests(s) \cup m.rest \subseteq Rests(Append(s, m))
  BY <1>1, <1>3 DEF Rests
<1> QED
  BY <1>4, <1>5

LEMMA RestsTaken ==
  ASSUME NEW s \in Seq(ReportType), s # << >>
  PROVE  Rests(s) \subseteq Head(s).rest \cup Rests(Tail(s))
<1> SUFFICES ASSUME NEW i \in DOMAIN s, NEW x \in s[i].rest
             PROVE  x \in Head(s).rest \cup Rests(Tail(s))
  BY DEF Rests
<1>1. /\ Head(s) = s[1] /\ Len(s) \in Nat /\ i \in 1 .. Len(s)
      /\ DOMAIN Tail(s) = 1 .. Len(s) - 1
      /\ \A j \in 1 .. Len(s) - 1 : Tail(s)[j] = s[j + 1]
  OBVIOUS
<1>2. CASE i = 1
  BY <1>1, <1>2
<1>3. CASE i # 1
  <2>1. i - 1 \in 1 .. Len(s) - 1 /\ (i - 1) + 1 = i
    BY <1>1, <1>3
  <2>2. Tail(s)[i - 1] = s[i]
    BY <1>1, <2>1
  <2> QED
    BY <1>1, <2>1, <2>2 DEF Rests
<1> QED
  BY <1>2, <1>3

-----------------------------------------------------------------------------
(* What the steps do to the stream and to the engine errors *)

Unsent == UNCHANGED <<channel, consumer, results>>
Sends(m) ==
  /\ CanSend /\ Send(m) /\ UNCHANGED <<consumer, results>>

LEMMA StreamMoves ==
  ASSUME [Next]_vars
  PROVE  \/ Unsent /\ (main' \in {"mark", "done"} <=> main \in {"mark", "done"})
                   /\ (main = "done" => main' = "done")
         \/ Sends(summary) /\ main = "summary" /\ main' = "mark"
         \/ Sends(ErrorResult) /\ main = "failed" /\ main' = "mark"
         \/ Sends(EndMark) /\ main = "mark" /\ main' = "done"
         \/ Sends(draft) /\ main' = main
         \/ ReceiveResult /\ main' = main
         \/ DropStream /\ main' = main
<1> USE DEF Unsent, Sends, Step, mainVars, flowVars
<1>1. CASE MainStep
  <2>1. CASE SendSummary \/ SendEndMark
    BY <2>1 DEF SendSummary, SendEndMark
  <2>2. CASE ~ (SendSummary \/ SendEndMark)
    BY <1>1, <2>2 DEF MainStep, GlobalSetup, SpawnEndpoint, StartCollector, JoinPanicked, JoinWorkers, DrainAsserts,
       GlobalTeardown, TakeFigures, TakeErrors, StopCollector
  <2> QED
    BY <2>1, <2>2
<1>2. ASSUME NEW w \in Worker, WorkerStep(w) PROVE Unsent /\ main' = main
  BY <1>2 DEF WorkerStep, LoopTop, SetupFails, StartConnect, Connect, ConnectFails, Message, HandOver,
     Disconnect, Teardown, Panics, Quiet
<1>3. ASSUME NEW a \in AssertWorker, JudgeStep(a) PROVE Unsent /\ main' = main
  BY <1>3 DEF JudgeStep, LockReceiver, TakeMessage, ChannelClosed, Judge, Still
<1>4. CASE OthersStep
  <2>1. CASE SendTick
    BY <2>1 DEF SendTick
  <2>2. CASE ReceiveResult \/ DropStream
    BY <2>2 DEF ReceiveResult, DropStream
  <2>3. CASE ~ (SendTick \/ ReceiveResult \/ DropStream)
    BY <1>4, <2>3 DEF OthersStep, TimeUp, CollectorStep, Tick, DrainErrors, HearStop, Terminated, vars
  <2> QED
    BY <2>1, <2>2, <2>3
<1> QED
  BY <1>1, <1>2, <1>3, <1>4, StepCases

LEMMA ErrorMoves ==
  ASSUME IInv, Kinds, [Next]_vars
  PROVE  \/ /\ UNCHANGED <<draft, lost>>
            /\ \/ raised' = raised /\ engine' = engine
               \/ /\ raised' = raised + 1 /\ engine' = engine \cup {raised'}
                  /\ summary.kind # "final" /\ summary' = summary
         \/ DrainErrors \/ SendTick \/ HearStop
<1> DEFINE Same == UNCHANGED <<draft, lost, raised, engine>>
           More == /\ UNCHANGED <<draft, lost, summary>> /\ summary.kind # "final"
                   /\ raised' = raised + 1 /\ engine' = engine \cup {raised'}
<1>0. summary.kind = "final" => Quieted
  BY DEF IInv, Stages
<1>1. CASE MainStep
  <2>1. CASE GlobalTeardown \/ JoinPanicked
    BY <2>1 DEF GlobalTeardown, JoinPanicked, mainVars, Raise, engineVars, collectVars, Step, Kinds
  <2>2. CASE ~ GlobalTeardown /\ ~ JoinPanicked
    BY <1>1, <2>2 DEF MainStep, GlobalSetup, SpawnEndpoint, StartCollector, JoinWorkers, DrainAsserts,
       TakeFigures, TakeErrors, StopCollector, SendSummary, SendEndMark, engineVars, collectVars
  <2> QED
    BY <2>1, <2>2
<1>2. ASSUME NEW w \in Worker, WorkerStep(w) PROVE Same \/ More
  <2>1. CASE SetupFails(w) \/ Teardown(w)
    <3>1. worker[w] \notin Gone
      BY <2>1 DEF SetupFails, Teardown, Go, Gone
    <3>2. summary.kind # "final"
      BY <1>0, <3>1 DEF Quieted
    <3>3. UNCHANGED <<draft, summary>> /\ (Raise \/ UNCHANGED engineVars)
      BY <2>1 DEF SetupFails, Teardown, Panics, Quiet, collectVars, mainVars
    <3> QED
      BY <3>2, <3>3 DEF Raise, engineVars
  <2>2. CASE ~ (SetupFails(w) \/ Teardown(w))
    BY <1>2, <2>2 DEF WorkerStep, LoopTop, StartConnect, Connect, ConnectFails, Message, HandOver,
       Disconnect, Panics, Quiet, engineVars, collectVars
  <2> QED
    BY <2>1, <2>2
<1>3. ASSUME NEW a \in AssertWorker, JudgeStep(a) PROVE Same
  BY <1>3 DEF JudgeStep, LockReceiver, TakeMessage, ChannelClosed, Judge, Still, engineVars, collectVars
<1>4. CASE OthersStep
  BY <1>4 DEF OthersStep, TimeUp, CollectorStep, Tick, ReceiveResult, DropStream, Terminated, vars,
     engineVars, collectVars
<1> QED
  BY <1>1, <1>2, <1>3, <1>4, StepCases

LEMMA Fields ==
  /\ Empty.kind = "tick" /\ Empty.rest = {} /\ EndMark.kind = "end" /\ EndMark.rest = {}
  /\ ErrorResult.kind = "failed" /\ ErrorResult.rest = {}
BY DEF Empty, EndMark, ErrorResult

LEMMA DeliveryTypes ==
  ASSUME IInv, Kinds
  PROVE  /\ channel \in Seq(ReportType) /\ results \in Seq(ReportType)
         /\ summary \in ReportType /\ draft \in ReportType /\ raised \in Nat
         /\ Empty \in ReportType /\ EndMark \in ReportType /\ ErrorResult \in ReportType
BY ReportsTyped DEF IInv, Reports, Kinds

LEMMA NextKinds ==
  ASSUME IInv, Kinds, [Next]_vars
  PROVE  Kinds'
<1>0. TypeOK
  BY DEF IInv
<1>1. results' \in Seq(ReportType)
  <2>1. CASE ReceiveResult
    <3>1. Head(channel) \in ReportType /\ results' = Append(results, Head(channel))
      BY <2>1, DeliveryTypes, OutcomesTaken DEF ReceiveResult
    <3> QED
      BY <3>1, DeliveryTypes, OutcomesAppended
  <2>2. CASE results' = results
    BY <2>2, DeliveryTypes
  <2> QED
    BY <2>1, <2>2, StreamMoves DEF Unsent, Sends, DropStream
<1>2. draft'.kind = "tick" /\ (collector' # "send" => draft'.rest = {})
  <2>1. CASE DrainErrors
    BY <2>1, DeliveryTypes DEF DrainErrors, Collect, Kinds, ReportType
  <2>2. CASE SendTick
    BY <2>2, Fields DEF SendTick
  <2>3. CASE HearStop
    BY <2>3, Fields DEF HearStop, Collect, Kinds
  <2>4. CASE draft' = draft /\ ~ (DrainErrors \/ SendTick \/ HearStop)
    <3>1. collector' = collector \/ collector \in {"tick", "unborn"}
      <4>1. CASE MainStep
        BY <4>1 DEF MainStep, GlobalSetup, SpawnEndpoint, StartCollector, JoinPanicked, JoinWorkers, DrainAsserts,
           GlobalTeardown, TakeFigures, TakeErrors, StopCollector, SendSummary, SendEndMark,
           collectVars, Step, Kinds
      <4>2. CASE ~MainStep
        BY <2>4, <4>2, WorkerKeeps, JudgeKeeps, StepCases
           DEF OthersStep, TimeUp, CollectorStep, Tick, ReceiveResult, DropStream, Terminated, vars,
               collectVars, Collect
      <4> QED
        BY <4>1, <4>2
    <3> QED
      BY <2>4, <3>1 DEF Kinds
  <2> QED
    BY <2>1, <2>2, <2>3, <2>4, ErrorMoves
<1>3. /\ main' \in {"errors", "stop", "summary"} => summary'.kind = "final"
      /\ main' \in {"setup", "spawn", "join", "drain", "teardown", "figures", "failed"} =>
           summary'.kind = "tick" /\ summary'.rest = {}
      /\ main' = "errors" => summary'.rest = {}
  <2>1. CASE MainStep
    <3>1. CASE TakeFigures
      BY <3>1 DEF TakeFigures, Step
    <3>2. CASE TakeErrors
      BY <3>2, DeliveryTypes DEF TakeErrors, Step, Kinds, ReportType
    <3>3. CASE ~ (TakeFigures \/ TakeErrors)
      BY <2>1, <3>3 DEF MainStep, GlobalSetup, SpawnEndpoint, StartCollector, JoinPanicked, JoinWorkers, DrainAsserts,
         GlobalTeardown, StopCollector, SendSummary, SendEndMark, Step, Kinds, mainVars
    <3> QED
      BY <3>1, <3>2, <3>3
  <2>2. CASE ~MainStep
    <3>1. UNCHANGED <<main, summary>>
      BY <2>2, WorkerKeeps, JudgeKeeps, OthersKeep, StepCases DEF mainVars
    <3> QED
      BY <3>1 DEF Kinds
  <2> QED
    BY <2>1, <2>2
<1>4. main' \in {"setup", "spawn"} => collector' = "unborn"
  <2>1. CASE MainStep
    BY <2>1 DEF MainStep, GlobalSetup, SpawnEndpoint, StartCollector, JoinPanicked, JoinWorkers, DrainAsserts,
       GlobalTeardown, TakeFigures, TakeErrors, StopCollector, SendSummary, SendEndMark,
       collectVars, mainVars, Step, Kinds
  <2>2. CASE ~MainStep
    <3>1. main' = main
      BY <2>2, WorkerKeeps, JudgeKeeps, OthersKeep, StepCases DEF mainVars
    <3>2. collector = "unborn" => collector' = "unborn"
      BY <2>2, WorkerKeeps, JudgeKeeps, StepCases
         DEF OthersStep, TimeUp, CollectorStep, Tick, DrainErrors, SendTick, HearStop, ReceiveResult,
             DropStream, Terminated, vars, collectVars, Collect
    <3> QED
      BY <3>1, <3>2 DEF Kinds
  <2> QED
    BY <2>1, <2>2
<1> QED
  BY <1>1, <1>2, <1>3, <1>4 DEF Kinds

(* The summary has copied what there was, and nothing is raised after it. *)
LEMMA NextCopied ==
  ASSUME IInv, Kinds, Copied, [Next]_vars
  PROVE  Copied'
<1> SUFFICES ASSUME summary'.kind = "final", main' # "errors" PROVE engine' \subseteq summary'.rest
  BY DEF Copied
<1>0. TypeOK
  BY DEF IInv
<1>1. CASE TakeErrors
  BY <1>1, DeliveryTypes DEF TakeErrors, engineVars, ReportType
<1>2. CASE ~TakeErrors
  <2>1. summary' = summary
    BY <1>0, <1>2, SummaryMoves DEF TakeFigures, Step
  <2>2. main # "errors"
    <3>1. MainStep \/ main' = main
      BY WorkerKeeps, JudgeKeeps, OthersKeep, StepCases DEF mainVars
    <3> QED
      BY <1>2, <3>1 DEF MainStep, GlobalSetup, SpawnEndpoint, StartCollector, JoinPanicked, JoinWorkers, DrainAsserts,
         GlobalTeardown, TakeFigures, StopCollector, SendSummary, SendEndMark, Step
  <2>3. engine' \subseteq engine
    BY <2>1, ErrorMoves DEF DrainErrors, SendTick, HearStop, engineVars
  <2> QED
    BY <2>1, <2>2, <2>3 DEF Copied
<1> QED
  BY <1>1, <1>2

(* An engine error is handed on from the list to a report, and with it.    *)
LEMMA NextKnown ==
  ASSUME IInv, Kinds, Known, [Next]_vars
  PROVE  Known'
<1> SUFFICES ASSUME Reads'
             PROVE  1 .. raised' \subseteq engine' \cup draft'.rest \cup summary'.rest
                                           \cup Reported' \cup OnTheWay' \cup lost'
  BY DEF Known
<1> DEFINE Stream == Reported \cup OnTheWay
<1>0. TypeOK /\ raised \in Nat
  BY DEF IInv, Reports
<1>1. Reads
  BY StreamMoves DEF Reads, Unsent, Sends, ReceiveResult, DropStream
<1>2. /\ Reported = Rests(results) /\ OnTheWay = Rests(channel)
      /\ Reported' = Rests(results') /\ OnTheWay' = Rests(channel')
  BY DEF Reported, OnTheWay, Rests
<1>3. /\ Stream \subseteq Stream'
      /\ SendTick => draft.rest \subseteq Stream'
  <2>1. ASSUME NEW m \in ReportType, Sends(m) PROVE Stream' = Stream \cup m.rest
    <3>1. results' = results /\ channel' = Append(channel, m)
      BY <1>1, <2>1 DEF Sends, Send, Reads
    <3> QED
      BY <1>2, <3>1, DeliveryTypes, RestsAppended
  <2>2. ASSUME ReceiveResult PROVE Stream \subseteq Stream'
    <3>1. /\ channel # << >> /\ channel' = Tail(channel)
          /\ results' = Append(results, Head(channel))
      BY <2>2 DEF ReceiveResult
    <3>2. Head(channel) \in ReportType
      BY <3>1, DeliveryTypes, OutcomesTaken
    <3>3. Rests(results') = Rests(results) \cup Head(channel).rest
      BY <3>1, <3>2, DeliveryTypes, RestsAppended
    <3>4. Rests(channel) \subseteq Head(channel).rest \cup Rests(channel')
      BY <3>1, DeliveryTypes, RestsTaken
    <3> QED
      BY <1>2, <3>3, <3>4
  <2>3. Unsent => Stream' = Stream
    BY <1>2 DEF Unsent
  <2>4. ~DropStream
    BY DEF Reads, DropStream
  <2>5. SendTick => Sends(draft)
    BY DEF SendTick, Sends
  <2> QED
    BY <2>1, <2>2, <2>3, <2>4, <2>5, DeliveryTypes, StreamMoves
<1>4. summary.rest \subseteq summary'.rest
  <2>1. CASE TakeFigures
    BY <2>1 DEF TakeFigures, Step, Kinds
  <2>2. CASE TakeErrors
    BY <2>2 DEF TakeErrors, Step, Kinds
  <2> QED
    BY <1>0, <2>1, <2>2, SummaryMoves
<1>5. 1 .. raised \subseteq engine \cup draft.rest \cup summary.rest \cup Stream \cup lost
  BY <1>1 DEF Known
<1> HIDE DEF Stream
<1>6. 1 .. raised' \subseteq engine' \cup draft'.rest \cup summary'.rest \cup Stream' \cup lost'
  <2>1. CASE UNCHANGED <<draft, lost>> /\ raised' = raised /\ engine' = engine
    BY <1>3, <1>4, <1>5, <2>1
  <2>2. CASE UNCHANGED <<draft, lost>> /\ raised' = raised + 1 /\ engine' = engine \cup {raised'}
    <3>1. 1 .. raised' \subseteq 1 .. raised \cup {raised'}
      BY <1>0, <2>2
    <3>2. UNCHANGED <<draft, lost>> /\ engine \subseteq engine' /\ raised' \in engine'
      BY <2>2
    <3> QED
      BY <1>3, <1>4, <1>5, <3>1, <3>2
  <2>3. CASE DrainErrors
    <3>1. draft.rest = {} /\ draft'.rest = engine /\ UNCHANGED <<raised, lost>>
      BY <2>3, DeliveryTypes DEF DrainErrors, Collect, Kinds, ReportType
    <3> QED
      BY <1>3, <1>4, <1>5, <3>1
  <2>4. CASE SendTick
    <3>1. UNCHANGED <<raised, engine, lost>>
      BY <2>4 DEF SendTick, engineVars
    <3> QED
      BY <1>3, <1>4, <1>5, <2>4, <3>1
  <2>5. CASE HearStop
    <3>1. /\ UNCHANGED <<raised, engine>> /\ lost \subseteq lost'
          /\ draft'.rest = draft.rest \/ draft.rest \subseteq lost'
      BY <2>5 DEF HearStop
    <3> QED
      BY <1>3, <1>4, <1>5, <3>1
  <2> QED
    BY <2>1, <2>2, <2>3, <2>4, <2>5, ErrorMoves
<1> QED
  BY <1>6 DEF Stream

(* One outcome, and the end mark after it. *)
LEMMA NextPending ==
  ASSUME IInv, Kinds, Pending, [Next]_vars
  PROVE  Pending'
<1> SUFFICES ASSUME consumer' = "reading"
             PROVE  /\ main' \notin {"mark", "done"} => Outcomes(results') = {} /\ Outcomes(channel') = {}
                    /\ main' \in {"mark", "done"} => TheOne(results', channel') \/ TheOne(channel', results')
                    /\ \A i \in DOMAIN channel' : channel'[i].kind = "end" =>
                         main' = "done" /\ \A j \in Outcomes(channel') : j < i
  BY DEF Pending, Outcomes, TheOne
<1>0. consumer = "reading"
  BY StreamMoves DEF Unsent, Sends, ReceiveResult, DropStream
<1>1. CASE Unsent /\ (main' \in {"mark", "done"} <=> main \in {"mark", "done"})
                  /\ (main = "done" => main' = "done")
  BY <1>0, <1>1 DEF Unsent, Pending
<1>2. ASSUME NEW m \in ReportType, Sends(m)
      PROVE  /\ results' = results /\ channel' = Append(channel, m)
             /\ DOMAIN channel' = 1 .. Len(channel) + 1 /\ DOMAIN channel = 1 .. Len(channel)
             /\ Len(channel) \in Nat /\ Outcomes(channel) \subseteq 1 .. Len(channel)
             /\ \A i \in 1 .. Len(channel) : channel'[i] = channel[i]
             /\ channel'[Len(channel) + 1] = m
             /\ ~IsOutcome(m) => Outcomes(channel') = Outcomes(channel)
             /\ IsOutcome(m) => Outcomes(channel') = Outcomes(channel) \cup {Len(channel) + 1}
             /\ \A i \in DOMAIN channel' : i \in DOMAIN channel \/ i = Len(channel) + 1
  <2>1. results' = results /\ channel' = Append(channel, m)
    BY <1>0, <1>2 DEF Sends, Send
  <2>2. Len(channel) \in Nat /\ \A i \in 1 .. Len(channel) + 1 : i \in 1 .. Len(channel) \/ i = Len(channel) + 1
    BY DeliveryTypes
  <2> QED
    BY <2>1, <2>2, DeliveryTypes, OutcomesAppended
<1>3. ASSUME NEW m \in ReportType, Sends(m), IsOutcome(m), main \notin {"mark", "done"}, main' = "mark"
      PROVE  /\ TheOne(channel', results')
             /\ \A i \in DOMAIN channel' : channel'[i].kind # "end"
  <2>1. Outcomes(results) = {} /\ Outcomes(channel) = {}
    BY <1>0, <1>3 DEF Pending
  <2>2. Len(channel) + 1 \in DOMAIN channel' /\ Outcomes(channel') = {Len(channel) + 1}
    BY <1>2, <1>3, <2>1
  <2>3. \A i \in DOMAIN channel : channel[i].kind # "end"
    BY <1>0, <1>3 DEF Pending
  <2>4. m.kind # "end"
    BY <1>3 DEF IsOutcome
  <2> QED
    BY <1>2, <1>3, <2>1, <2>2, <2>3, <2>4 DEF TheOne
<1>4. CASE Sends(summary) /\ main = "summary" /\ main' = "mark"
  BY <1>3, <1>4, DeliveryTypes DEF Kinds, IsOutcome
<1>5. CASE Sends(ErrorResult) /\ main = "failed" /\ main' = "mark"
  BY <1>3, <1>5, DeliveryTypes, Fields DEF IsOutcome
<1>6. ASSUME NEW m \in ReportType, Sends(m), ~IsOutcome(m), main = "done" => main' = "done",
             main' \in {"mark", "done"} <=> main \in {"mark", "done"},
             m.kind = "end" => main' = "done"
      PROVE  /\ main' \notin {"mark", "done"} => Outcomes(results') = {} /\ Outcomes(channel') = {}
             /\ main' \in {"mark", "done"} => TheOne(results', channel') \/ TheOne(channel', results')
             /\ \A i \in DOMAIN channel' : channel'[i].kind = "end" =>
                  main' = "done" /\ \A j \in Outcomes(channel') : j < i
  <2>1. Outcomes(channel') = Outcomes(channel) /\ results' = results
    BY <1>2, <1>6
  <2>2. DOMAIN channel \subseteq DOMAIN channel'
    BY <1>2, <1>6
  <2>3. main' \notin {"mark", "done"} => Outcomes(results') = {} /\ Outcomes(channel') = {}
    BY <1>0, <1>6, <2>1 DEF Pending
  <2>4. main' \in {"mark", "done"} => TheOne(results', channel') \/ TheOne(channel', results')
    BY <1>0, <1>6, <2>1, <2>2 DEF Pending, TheOne
  <2>5. ASSUME NEW i \in DOMAIN channel', channel'[i].kind = "end"
        PROVE  main' = "done" /\ \A j \in Outcomes(channel') : j < i
    <3>1. CASE i \in DOMAIN channel
      BY <1>0, <1>2, <1>6, <2>1, <2>5, <3>1 DEF Pending
    <3>2. CASE i = Len(channel) + 1
      BY <1>2, <1>6, <2>1, <2>5, <3>2
    <3> QED
      BY <1>2, <1>6, <3>1, <3>2
  <2> QED
    BY <2>3, <2>4, <2>5
<1>7. CASE Sends(EndMark) /\ main = "mark" /\ main' = "done"
  BY <1>6, <1>7, DeliveryTypes, Fields DEF IsOutcome
<1>8. CASE Sends(draft) /\ main' = main
  BY <1>6, <1>8, DeliveryTypes DEF IsOutcome, Kinds
<1>9. CASE ReceiveResult /\ main' = main
  <2> DEFINE m == Head(channel)
  <2>1. /\ channel # << >> /\ channel' = Tail(channel) /\ results' = Append(results, m)
        /\ m.kind # "end"
    BY <1>9 DEF ReceiveResult
  <2>2. /\ m = channel[1] /\ m \in ReportType
        /\ DOMAIN channel = 1 .. Len(channel) /\ Len(channel) \in Nat \ {0}
        /\ DOMAIN channel' = 1 .. Len(channel) - 1
        /\ \A i \in 1 .. Len(channel) - 1 : channel'[i] = channel[i + 1]
        /\ \A i \in 1 .. Len(channel) - 1 : i \in Outcomes(channel') <=> i + 1 \in Outcomes(channel)
        /\ 1 \in Outcomes(channel) <=> IsOutcome(m)
    BY <2>1, DeliveryTypes, OutcomesTaken
  <2>3. /\ DOMAIN results' = 1 .. Len(results) + 1 /\ DOMAIN results = 1 .. Len(results)
        /\ Len(results) \in Nat
        /\ ~IsOutcome(m) => Outcomes(results') = Outcomes(results)
        /\ IsOutcome(m) => Outcomes(results') = Outcomes(results) \cup {Len(results) + 1}
    BY <2>1, <2>2, DeliveryTypes, OutcomesAppended
  <2> HIDE DEF m
  <2>4. Outcomes(channel) \subseteq 1 .. Len(channel) /\ Outcomes(channel') \subseteq 1 .. Len(channel) - 1
    BY <2>2 DEF Outcomes
  <2>5. \A i \in 1 .. Len(channel) - 1 : i + 1 \in 1 .. Len(channel) /\ (i + 1) - 1 = i
    BY <2>2
  <2>6. ASSUME NEW i \in DOMAIN channel', channel'[i].kind = "end"
        PROVE  main' = "done" /\ \A j \in Outcomes(channel') : j < i
    <3>1. channel[i + 1].kind = "end" /\ i + 1 \in DOMAIN channel
      BY <2>2, <2>5, <2>6
    <3>2. main = "done" /\ \A j \in Outcomes(channel) : j < i + 1
      BY <1>0, <3>1 DEF Pending
    <3>3. ASSUME NEW j \in Outcomes(channel') PROVE j < i
      <4>1. j \in 1 .. Len(channel) - 1 /\ i \in 1 .. Len(channel) - 1
        BY <2>2, <2>4, <2>6, <3>3
      <4>2. j + 1 < i + 1
        BY <2>2, <3>2, <3>3, <4>1
      <4> QED
        BY <4>1, <4>2
    <3> QED
      BY <1>9, <3>2, <3>3
  <2>7. CASE IsOutcome(m)
    <3>1. TheOne(channel, results)
      BY <1>0, <2>2, <2>7 DEF Pending, TheOne
    <3>2. Outcomes(channel) = {1} /\ Outcomes(results) = {}
      BY <2>2, <2>7, <3>1 DEF TheOne
    <3>3. Outcomes(channel') = {}
      <4>1. \A i \in 1 .. Len(channel) - 1 : i + 1 # 1
        BY <2>2
      <4> QED
        BY <2>2, <2>4, <3>2, <4>1
    <3>4. Len(results) + 1 \in DOMAIN results' /\ Outcomes(results') = {Len(results) + 1}
      BY <2>3, <2>7, <3>2
    <3>5. main' \in {"mark", "done"}
      BY <1>0, <1>9, <3>2 DEF Pending
    <3> QED
      BY <2>6, <3>3, <3>4, <3>5 DEF TheOne
  <2>8. CASE ~IsOutcome(m)
    <3>1. Outcomes(results') = Outcomes(results) /\ DOMAIN results \subseteq DOMAIN results'
      BY <2>3, <2>8
    <3>2. Outcomes(channel) = {} => Outcomes(channel') = {}
      BY <2>2, <2>4
    <3>3. ASSUME TheOne(channel, results) PROVE TheOne(channel', results')
      <4>1. PICK i \in 1 .. Len(channel) : Outcomes(channel) = {i}
        BY <2>2, <3>3 DEF TheOne
      <4>2. i # 1
        BY <2>2, <2>8, <4>1
      <4>3. i - 1 \in 1 .. Len(channel) - 1 /\ (i - 1) + 1 = i
        BY <2>2, <4>1, <4>2
      <4>4. i - 1 \in Outcomes(channel')
        BY <2>2, <4>1, <4>3
      <4>5. \A k \in Outcomes(channel') : k = i - 1
        <5>1. \A k \in Outcomes(channel') : k \in 1 .. Len(channel) - 1 /\ k + 1 = i
          BY <2>2, <2>4, <4>1
        <5>2. \A k \in 1 .. Len(channel) - 1 : k + 1 = i => k = i - 1
          BY <2>2, <4>1
        <5> QED
          BY <5>1, <5>2
      <4>6. Outcomes(results') = {}
        BY <3>1, <3>3 DEF TheOne
      <4>7. Outcomes(channel') = {i - 1}
        BY <4>4, <4>5
      <4>8. i - 1 \in DOMAIN channel'
        BY <2>2, <4>3
      <4> QED
        BY <4>6, <4>7, <4>8 DEF TheOne
    <3>4. TheOne(results, channel) => TheOne(results', channel')
      BY <3>1, <3>2 DEF TheOne
    <3> QED
      BY <1>0, <1>9, <2>6, <3>1, <3>2, <3>3, <3>4 DEF Pending
  <2> QED
    BY <2>7, <2>8
<1>10. ~DropStream
  BY DEF DropStream
<1> QED
  BY <1>1, <1>4, <1>5, <1>7, <1>8, <1>9, <1>10, StreamMoves

(* The mark comes last, and the outcome before it. *)
LEMMA NextMarked ==
  ASSUME IInv, Kinds, Pending, Marked, [Next]_vars
  PROVE  Marked'
<1> SUFFICES ASSUME consumer' = "ended"
             PROVE  /\ results' # << >> /\ Last(results').kind = "end"
                    /\ \E i \in DOMAIN results' : Outcomes(results') = {i}
  BY DEF Marked, Outcomes
<1>1. CASE ReceiveResult
  <2> DEFINE m == Head(channel)
  <2>1. /\ consumer = "reading" /\ channel # << >> /\ results' = Append(results, m)
        /\ m.kind = "end"
    BY <1>1 DEF ReceiveResult
  <2>2. /\ m = channel[1] /\ m \in ReportType /\ 1 \in DOMAIN channel
        /\ Outcomes(channel) \subseteq DOMAIN channel /\ DOMAIN channel = 1 .. Len(channel)
    BY <2>1, DeliveryTypes, OutcomesTaken DEF Outcomes
  <2>3. main = "done" /\ \A j \in Outcomes(channel) : j < 1
    BY <2>1, <2>2 DEF Pending
  <2>4. Outcomes(channel) = {}
    BY <2>2, <2>3
  <2>5. \E i \in DOMAIN results : Outcomes(results) = {i}
    BY <2>1, <2>3, <2>4 DEF Pending, TheOne
  <2>6. ~IsOutcome(m)
    BY <2>1 DEF IsOutcome
  <2>7. /\ Outcomes(results') = Outcomes(results) /\ DOMAIN results \subseteq DOMAIN results'
        /\ results' # << >> /\ Last(results') = m
    <3>1. /\ Outcomes(results') = Outcomes(results)
          /\ DOMAIN results' = 1 .. Len(results) + 1 /\ DOMAIN results = 1 .. Len(results)
          /\ Len(results) \in Nat /\ results'[Len(results) + 1] = m
      BY <2>1, <2>2, <2>6, DeliveryTypes, OutcomesAppended
    <3>2. Len(results') = Len(results) + 1 /\ results' # << >>
      BY <2>1, <2>2, DeliveryTypes
    <3> QED
      BY <3>1, <3>2 DEF Last
  <2> QED
    BY <2>1, <2>5, <2>7
<1>2. CASE consumer' = consumer /\ results' = results
  BY <1>2 DEF Marked
<1> QED
  BY <1>1, <1>2, StreamMoves DEF Unsent, Sends, DropStream

LEMMA InitDelivery == Init => Delivery
<1> SUFFICES ASSUME Init PROVE Delivery
  OBVIOUS
<1>1. Kinds
  BY Fields DEF Init, Kinds
<1>2. Outcomes(results) = {} /\ Outcomes(channel) = {} /\ DOMAIN channel = {}
  BY DEF Init, Outcomes
<1>3. 1 .. raised = {}
  BY DEF Init
<1>4. Pending /\ Marked
  BY <1>2 DEF Init, Pending, Marked
<1>5. Known /\ Copied
  BY <1>3, Fields DEF Init, Known, Copied
<1> QED
  BY <1>1, <1>4, <1>5 DEF Delivery

(* The stream tells the consumer all there is to tell: every engine error  *)
(* that a test which comes to its summary has raised, in some report, and  *)
(* one outcome with the end mark after it, whatever the collector sends in *)
(* between and however small the channel is.                               *)
THEOREM StreamTellsAll == Spec => []ResultsDelivered
<1>1. Init => IInv /\ Delivery
  BY InitIInv, InitDelivery
<1>2. (IInv /\ Delivery) /\ [Next]_vars => (IInv /\ Delivery)'
  BY NextIInv, NextKinds, NextKnown, NextCopied, NextPending, NextMarked DEF Delivery
<1>3. IInv /\ Delivery => ResultsDelivered
  <2> SUFFICES ASSUME IInv, Delivery PROVE ResultsDelivered
    OBVIOUS
  <2>1. EveryErrorReported
    <3>1. engine \subseteq Waiting \cup summary.rest
      BY DEF Waiting, Delivery, Copied
    <3> QED
      BY <3>1 DEF EveryErrorReported, Delivery, Known
  <2>2. EndMarked
    <3> SUFFICES ASSUME consumer = "ended" PROVE EndMarked
      BY DEF EndMarked
    <3>1. PICK i \in DOMAIN results : Outcomes(results) = {i}
      BY DEF Delivery, Marked
    <3>2. Cardinality(Outcomes(results)) = 1
      BY <3>1, FS_Singleton
    <3> QED
      BY <3>2 DEF EndMarked, Delivery, Marked, Outcomes
  <2> QED
    BY <2>1, <2>2 DEF ResultsDelivered
<1> QED
  BY <1>1, <1>2, <1>3, PTL DEF Spec
=====
