----------------------------- MODULE Batch_proof -----------------------------
(***************************************************************************)
(* Proofs about the load test, for every set of workers, endpoints and     *)
(* assert workers, every capacity of the assertion channel and any number  *)
(* of requests. The last part shows that it implements what LoadTest       *)
(* promises: every step of batch(), of a request worker and of an assert   *)
(* worker is a step of the abstract test or leaves it alone.               *)
(***************************************************************************)
EXTENDS Batch, TLAPS, FiniteSetTheorems

(* How the number of workers at some places changes when one moves. *)
LEMMA GoCount ==
  ASSUME TypeOK, NEW w \in Worker, NEW from, NEW to, Go(w, from, to), NEW S
  PROVE  /\ Cardinality(At(S)) \in Nat
         /\ (from \in S <=> to \in S) => Cardinality(At(S)') = Cardinality(At(S))
         /\ from \in S /\ to \notin S => Cardinality(At(S)') = Cardinality(At(S)) - 1
         /\ from \notin S /\ to \in S => Cardinality(At(S)') = Cardinality(At(S)) + 1
<1>1. IsFiniteSet(At(S)) /\ Cardinality(At(S)) \in Nat
  BY BatchAssumption, FS_Subset, FS_CardinalityType DEF At
<1>2. worker[w] = from /\ worker' = [worker EXCEPT ![w] = to] /\ worker \in [Worker -> Places]
  BY DEF Go, TypeOK
<1>3. ASSUME from \in S <=> to \in S
      PROVE  Cardinality(At(S)') = Cardinality(At(S))
  <2>1. At(S)' = At(S)
    BY <1>2, <1>3 DEF At
  <2> QED
    BY <2>1
<1>4. ASSUME from \in S, to \notin S
      PROVE  Cardinality(At(S)') = Cardinality(At(S)) - 1
  <2>1. At(S)' = At(S) \ {w} /\ w \in At(S)
    BY <1>2, <1>4 DEF At
  <2> QED
    BY <1>1, <2>1, FS_RemoveElement
<1>5. ASSUME from \notin S, to \in S
      PROVE  Cardinality(At(S)') = Cardinality(At(S)) + 1
  <2>1. At(S)' = At(S) \cup {w} /\ w \notin At(S)
    BY <1>2, <1>5 DEF At
  <2> QED
    BY <1>1, <2>1, FS_AddElement
<1> QED
  BY <1>1, <1>3, <1>4, <1>5

LEMMA GoNat == ASSUME NEW S PROVE Cardinality(At(S)) \in Nat
<1>1. IsFiniteSet(At(S))
  BY BatchAssumption, FS_Subset DEF At
<1> QED
  BY <1>1, FS_CardinalityType

(* And the number of assert workers. *)
LEMMA MoveCountJudges ==
  ASSUME TypeOK, NEW a \in AssertWorker, NEW from, NEW to, Move(a, from, to), NEW S
  PROVE  /\ Cardinality(JudgesAt(S)) \in Nat
         /\ (from \in S <=> to \in S) => Cardinality(JudgesAt(S)') = Cardinality(JudgesAt(S))
         /\ from \in S /\ to \notin S => Cardinality(JudgesAt(S)') = Cardinality(JudgesAt(S)) - 1
         /\ from \notin S /\ to \in S => Cardinality(JudgesAt(S)') = Cardinality(JudgesAt(S)) + 1
<1>1. IsFiniteSet(JudgesAt(S)) /\ Cardinality(JudgesAt(S)) \in Nat
  BY BatchAssumption, FS_Subset, FS_CardinalityType DEF JudgesAt
<1>2. judge[a] = from /\ judge' = [judge EXCEPT ![a] = to] /\ judge \in [AssertWorker -> Stations]
  BY DEF Move, TypeOK
<1>3. ASSUME from \in S <=> to \in S
      PROVE  Cardinality(JudgesAt(S)') = Cardinality(JudgesAt(S))
  <2>1. JudgesAt(S)' = JudgesAt(S)
    BY <1>2, <1>3 DEF JudgesAt
  <2> QED
    BY <2>1
<1>4. ASSUME from \in S, to \notin S
      PROVE  Cardinality(JudgesAt(S)') = Cardinality(JudgesAt(S)) - 1
  <2>1. JudgesAt(S)' = JudgesAt(S) \ {a} /\ a \in JudgesAt(S)
    BY <1>2, <1>4 DEF JudgesAt
  <2> QED
    BY <1>1, <2>1, FS_RemoveElement
<1>5. ASSUME from \notin S, to \in S
      PROVE  Cardinality(JudgesAt(S)') = Cardinality(JudgesAt(S)) + 1
  <2>1. JudgesAt(S)' = JudgesAt(S) \cup {a} /\ a \notin JudgesAt(S)
    BY <1>2, <1>5 DEF JudgesAt
  <2> QED
    BY <1>1, <2>1, FS_AddElement
<1> QED
  BY <1>1, <1>3, <1>4, <1>5

LEMMA JudgesNat == ASSUME NEW S PROVE Cardinality(JudgesAt(S)) \in Nat
<1>1. IsFiniteSet(JudgesAt(S))
  BY BatchAssumption, FS_Subset DEF JudgesAt
<1> QED
  BY <1>1, FS_CardinalityType

-----------------------------------------------------------------------------
(* Types *)

LEMMA ReportTyped ==
  /\ None \in ReportType /\ Failure \in ReportType
  /\ \A t, s, e \in Nat : ReportOf(t, s, e) \in ReportType
  BY DEF ReportType, ReportOf

LEMMA InitTypeOK == Init => TypeOK
<1> SUFFICES ASSUME Init PROVE TypeOK
  OBVIOUS
<1>1. report \in ReportType
  BY ReportTyped DEF Init
<1>2. judge \in [AssertWorker -> Stations]
  BY DEF Init, Stations
<1>3. queued \in 0 .. QueueCap
  BY BatchAssumption DEF Init
<1> QED
  BY <1>1, <1>2, <1>3 DEF Init, TypeOK, Places, MainPlaces

LEMMA WorkerTypeOK ==
  ASSUME TypeOK, NEW w \in Worker, WorkerStep(w)
  PROVE  TypeOK'
<1> USE BatchAssumption DEF TypeOK, Go, Quiet, Leave, TakesEntry, control, judging,
           counters, Places, Ended
<1>1. CASE AcquirePermit(w)
  BY <1>1 DEF AcquirePermit
<1>2. CASE LeaveLoop(w)
  BY <1>2 DEF LeaveLoop
<1>3. CASE Prepare(w)
  BY <1>3 DEF Prepare
<1>4. CASE Retry(w)
  BY <1>4 DEF Retry
<1>5. CASE AnsweredWell(w)
  BY <1>5 DEF AnsweredWell
<1>6. CASE AnsweredBadly(w)
  BY <1>6 DEF AnsweredBadly
<1>7. CASE Unanswered(w)
  BY <1>7 DEF Unanswered
<1>8. CASE ReadBody(w)
  BY <1>8 DEF ReadBody
<1>9. CASE PrintPanics(w)
  BY <1>9 DEF PrintPanics
<1>10. CASE Enqueue(w)
  BY <1>10 DEF Enqueue
<1>11. CASE RecordUnanswered(w)
  BY <1>11 DEF RecordUnanswered
<1>12. CASE RecordBroken(w)
  BY <1>12 DEF RecordBroken
<1>13. CASE ReadErrorBody(w)
  BY <1>13 DEF ReadErrorBody
<1>14. CASE RecordStatus(w)
  BY <1>14 DEF RecordStatus
<1>15. CASE Wrapup(w)
  BY <1>15 DEF Wrapup
<1> QED
  BY <1>1, <1>2, <1>3, <1>4, <1>5, <1>6, <1>7, <1>8, <1>9, <1>10, <1>11, <1>12, <1>13, <1>14, <1>15 DEF WorkerStep

LEMMA JudgeTypeOK ==
  ASSUME TypeOK, NEW a \in AssertWorker, JudgeStep(a)
  PROVE  TypeOK'
<1> USE BatchAssumption DEF TypeOK, Move, control, counters, Stations
<1>1. CASE LockReceiver(a)
  BY <1>1 DEF LockReceiver
<1>2. CASE Receive(a)
  BY <1>2 DEF Receive
<1>3. CASE ChannelClosed(a)
  BY <1>3 DEF ChannelClosed
<1>4. CASE Judge(a)
  BY <1>4 DEF Judge
<1> QED
  BY <1>1, <1>2, <1>3, <1>4 DEF JudgeStep

LEMMA MainTypeOK == TypeOK /\ MainStep => TypeOK'
<1> SUFFICES ASSUME TypeOK, MainStep PROVE TypeOK'
  OBVIOUS
<1> USE BatchAssumption, ReportTyped DEF TypeOK, Main, judging, counters, MainPlaces, Places
<1>1. CASE GlobalSetup
  BY <1>1 DEF GlobalSetup
<1>2. CASE Spawn
  BY <1>2 DEF Spawn
<1>3. CASE DropSender
  BY <1>3 DEF DropSender
<1>4. CASE JoinWorkers
  BY <1>4 DEF JoinWorkers
<1>5. CASE DrainAsserts
  BY <1>5 DEF DrainAsserts
<1>6. CASE GlobalTeardown
  BY <1>6 DEF GlobalTeardown
<1>7. CASE Finalise
  BY <1>7 DEF Finalise
<1> QED
  BY <1>1, <1>2, <1>3, <1>4, <1>5, <1>6, <1>7 DEF MainStep

LEMMA NextTypeOK == TypeOK /\ [Next]_vars => TypeOK'
<1> SUFFICES ASSUME TypeOK, [Next]_vars PROVE TypeOK'
  OBVIOUS
<1>1. CASE MainStep
  BY <1>1, MainTypeOK
<1>2. CASE TimeUp
  BY <1>2 DEF TimeUp, TypeOK, judging, counters
<1>3. ASSUME NEW e \in Endpoint, ReleasePermit(e) PROVE TypeOK'
  BY <1>3 DEF ReleasePermit, TypeOK, judging, counters
<1>4. ASSUME NEW w \in Worker, WorkerStep(w) PROVE TypeOK'
  BY <1>4, WorkerTypeOK
<1>5. ASSUME NEW a \in AssertWorker, JudgeStep(a) PROVE TypeOK'
  BY <1>5, JudgeTypeOK
<1>6. CASE UNCHANGED vars
  BY <1>6 DEF vars, control, judging, counters, TypeOK
<1> QED
  BY <1>1, <1>2, <1>3, <1>4, <1>5, <1>6 DEF Next, Terminated

(* The state of the test keeps its types; in particular the channel never  *)
(* holds more than its capacity and no semaphore goes below zero.          *)
THEOREM TypeCorrect == Spec => []TypeOK
  BY InitTypeOK, NextTypeOK, PTL DEF Spec

-----------------------------------------------------------------------------
(* Accounting *)

(* What a move of worker w does to the two sets of workers that the        *)
(* accounting speaks of.                                                   *)
LEMMA WorkerCounts ==
  ASSUME TypeOK, NEW w \in Worker, NEW from, NEW to, Go(w, from, to)
  PROVE  LET IsOpen(p)  == p \in {"body", "assert"}
             IsOwing(p) == p \in {"record", "broken", "errorBody", "errorText", "unrecorded"}
         IN  /\ Cardinality(AtWorkers) \in Nat /\ Cardinality(AtRecords) \in Nat
             /\ (IsOpen(from) <=> IsOpen(to)) => Cardinality(AtWorkers') = Cardinality(AtWorkers)
             /\ IsOpen(from) /\ ~IsOpen(to) => Cardinality(AtWorkers') = Cardinality(AtWorkers) - 1
             /\ ~IsOpen(from) /\ IsOpen(to) => Cardinality(AtWorkers') = Cardinality(AtWorkers) + 1
             /\ (IsOwing(from) <=> IsOwing(to)) => Cardinality(AtRecords') = Cardinality(AtRecords)
             /\ IsOwing(from) /\ ~IsOwing(to) => Cardinality(AtRecords') = Cardinality(AtRecords) - 1
             /\ ~IsOwing(from) /\ IsOwing(to) => Cardinality(AtRecords') = Cardinality(AtRecords) + 1
  BY GoCount DEF AtWorkers, AtRecords

LEMMA WorkerAccounting ==
  ASSUME TypeOK, Accounting, NEW w \in Worker, WorkerStep(w)
  PROVE  Accounting'
<1> DEFINE open   == Cardinality(AtWorkers)
           owing  == Cardinality(AtRecords)
           judges == Cardinality(AtJudges)
<1>0. /\ total + repeated = success + errors + unjudged + (open + queued + judges)
      /\ errors = httpErrors + assertErrors + owing
  BY DEF Accounting, RequestAccounting, ErrorsExplained, OpenCount
<1>t. /\ total \in Nat /\ success \in Nat /\ errors \in Nat /\ httpErrors \in Nat
      /\ assertErrors \in Nat /\ unjudged \in Nat /\ repeated \in Nat /\ queued \in Nat
      /\ judges \in Nat /\ open \in Nat /\ owing \in Nat
  BY BatchAssumption, JudgesNat, GoNat DEF TypeOK, AtJudges, AtWorkers, AtRecords
<1>g. SUFFICES /\ total' + repeated' = success' + errors' + unjudged' + (open' + queued' + judges')
               /\ errors' = httpErrors' + assertErrors' + owing'
  BY DEF Accounting, RequestAccounting, ErrorsExplained, OpenCount
<1>j. judge' = judge
  BY DEF WorkerStep, Quiet, Leave, judging, AcquirePermit, LeaveLoop, Prepare, Retry,
         AnsweredWell, AnsweredBadly, Unanswered, ReadBody, PrintPanics, Enqueue,
         RecordUnanswered, RecordBroken, ReadErrorBody, RecordStatus, Wrapup
<1>k. judges' = judges
  BY <1>j DEF AtJudges, JudgesAt
<1>w. \A from, to : Go(w, from, to) =>
         LET IsOpen(p)  == p \in {"body", "assert"}
             IsOwing(p) == p \in {"record", "broken", "errorBody", "errorText", "unrecorded"}
         IN  /\ (IsOpen(from) <=> IsOpen(to)) => open' = open
             /\ IsOpen(from) /\ ~IsOpen(to) => open' = open - 1
             /\ ~IsOpen(from) /\ IsOpen(to) => open' = open + 1
             /\ (IsOwing(from) <=> IsOwing(to)) => owing' = owing
             /\ IsOwing(from) /\ ~IsOwing(to) => owing' = owing - 1
             /\ ~IsOwing(from) /\ IsOwing(to) => owing' = owing + 1
  BY WorkerCounts
<1> HIDE DEF open, owing, judges
<1> USE <1>0, <1>t, <1>k DEF Quiet, Leave, TakesEntry, judging, counters
<1>1. CASE AcquirePermit(w)
  <2>1. open' = open /\ owing' = owing
    BY <1>1, <1>w DEF AcquirePermit
  <2> QED
    BY <1>1, <2>1 DEF AcquirePermit
<1>2. CASE LeaveLoop(w)
  BY <1>2, <1>w DEF LeaveLoop
<1>3. CASE Prepare(w)
  BY <1>3, <1>w DEF Prepare
<1>4. CASE Retry(w)
  BY <1>4, <1>w DEF Retry
<1>5. CASE AnsweredWell(w)
  BY <1>5, <1>w DEF AnsweredWell
<1>6. CASE AnsweredBadly(w)
  BY <1>6, <1>w DEF AnsweredBadly
<1>7. CASE Unanswered(w)
  BY <1>7, <1>w DEF Unanswered
<1>8. CASE ReadBody(w)
  BY <1>8, <1>w DEF ReadBody
<1>9. CASE PrintPanics(w)
  BY <1>9, <1>w DEF PrintPanics
<1>10. CASE Enqueue(w)
  <2>1. open' = open - 1 /\ owing' = owing
    BY <1>10, <1>w DEF Enqueue
  <2>2. /\ queued' = queued + 1
        /\ UNCHANGED counters
    BY <1>10 DEF Enqueue
  <2> QED
    BY <2>1, <2>2
<1>11. CASE RecordUnanswered(w)
  BY <1>11, <1>w DEF RecordUnanswered
<1>12. CASE RecordBroken(w)
  BY <1>12, <1>w DEF RecordBroken
<1>13. CASE ReadErrorBody(w)
  <2>1. open' = open /\ owing' = owing
    BY <1>13, <1>w DEF ReadErrorBody
  <2>2. /\ UNCHANGED <<total, success, queued, assertErrors, unjudged>>
        /\ \/ UNCHANGED <<errors, httpErrors, repeated>>
           \/ /\ errors' = errors + 1
              /\ httpErrors' = httpErrors + 1
              /\ repeated' = repeated + 1
    BY <1>13 DEF ReadErrorBody
  <2> QED
    BY <2>1, <2>2
<1>14. CASE RecordStatus(w)
  BY <1>14, <1>w DEF RecordStatus
<1>15. CASE Wrapup(w)
  BY <1>15, <1>w DEF Wrapup
<1> QED
  BY <1>1, <1>2, <1>3, <1>4, <1>5, <1>6, <1>7, <1>8, <1>9, <1>10, <1>11, <1>12, <1>13, <1>14, <1>15 DEF WorkerStep

LEMMA JudgeAccounting ==
  ASSUME TypeOK, Accounting, NEW a \in AssertWorker, JudgeStep(a)
  PROVE  Accounting'
<1> DEFINE open   == Cardinality(AtWorkers)
           owing  == Cardinality(AtRecords)
           judges == Cardinality(AtJudges)
<1>0. /\ total + repeated = success + errors + unjudged + (open + queued + judges)
      /\ errors = httpErrors + assertErrors + owing
  BY DEF Accounting, RequestAccounting, ErrorsExplained, OpenCount
<1>t. /\ total \in Nat /\ success \in Nat /\ errors \in Nat /\ httpErrors \in Nat
      /\ assertErrors \in Nat /\ unjudged \in Nat /\ repeated \in Nat /\ queued \in Nat
      /\ judges \in Nat /\ open \in Nat /\ owing \in Nat
  BY BatchAssumption, JudgesNat, GoNat DEF TypeOK, AtJudges, AtWorkers, AtRecords
<1>g. SUFFICES /\ total' + repeated' = success' + errors' + unjudged' + (open' + queued' + judges')
               /\ errors' = httpErrors' + assertErrors' + owing'
  BY DEF Accounting, RequestAccounting, ErrorsExplained, OpenCount
<1>j. worker' = worker
  BY DEF JudgeStep, LockReceiver, Receive, ChannelClosed, Judge
<1>k. open' = open /\ owing' = owing
  BY <1>j DEF AtWorkers, AtRecords, At
<1>w. \A from, to : Move(a, from, to) =>
         /\ from # "judge" /\ to # "judge" => judges' = judges
         /\ from = "judge" /\ to # "judge" => judges' = judges - 1
         /\ from # "judge" /\ to = "judge" => judges' = judges + 1
  BY MoveCountJudges DEF AtJudges
<1> HIDE DEF open, owing, judges
<1> USE <1>0, <1>t, <1>k DEF counters
<1>1. CASE LockReceiver(a)
  BY <1>1, <1>w DEF LockReceiver
<1>2. CASE Receive(a)
  <2>1. judges' = judges + 1 /\ queued' = queued - 1 /\ UNCHANGED counters
    BY <1>2, <1>w DEF Receive
  <2> QED
    BY <2>1
<1>3. CASE ChannelClosed(a)
  BY <1>3, <1>w DEF ChannelClosed
<1>4. CASE Judge(a)
  <2>1. judges' = judges - 1
    BY <1>4, <1>w DEF Judge
  <2> QED
    BY <1>4, <2>1 DEF Judge
<1> QED
  BY <1>1, <1>2, <1>3, <1>4 DEF JudgeStep

-----------------------------------------------------------------------------
(* The life of a test: what is known of its tasks while batch() is where   *)
(* it is.  Accounting needs it because Spawn moves all workers at once,    *)
(* the report because nothing may count behind batch()'s back.             *)

AllUnborn == \A w \in Worker : worker[w] = "unborn"
AllEnded  == \A w \in Worker : worker[w] \in Ended
AllClosed == \A a \in AssertWorker : judge[a] = "closed"
Untouched == queued = 0 /\ \A a \in AssertWorker : judge[a] # "judge"

Lifecycle ==
  /\ main \in {"setup", "spawn", "drop"} => sender
  /\ main \in {"setup", "spawn"} => AllUnborn /\ Untouched
  /\ main \in {"drain", "teardown", "final"} => AllEnded
  /\ main \in {"teardown", "final"} => AllClosed
  /\ main = "returned" => \/ AllUnborn /\ Untouched /\ report = Failure
                          \/ AllEnded /\ AllClosed
  /\ main # "returned" => report = None

(* Only asserted endpoints use the channel, and an assert worker stops     *)
(* only when the channel is empty for ever.                                *)
Channel ==
  /\ \A w \in Worker : worker[w] = "assert" => EndpointOf[w] \in Asserted
  /\ ~HasAssert => AllClosed
  /\ (\E a \in AssertWorker : judge[a] = "closed") =>
        queued = 0 /\ (HasAssert => ~Senders)

IInv == TypeOK /\ Accounting /\ Lifecycle /\ Channel /\ ReportFinal

(* What all steps of a request worker have in common. *)
LEMMA WorkerMoves ==
  ASSUME TypeOK, NEW w \in Worker, WorkerStep(w)
  PROVE  /\ UNCHANGED <<main, sender, report, receiver, judge>>
         /\ queued' = queued \/ (worker[w] = "assert" /\ queued' = queued + 1)
         /\ worker[w] \notin Ended \cup {"unborn"}
         /\ worker' = [worker EXCEPT ![w] = worker'[w]]
         /\ worker'[w] \in Places \ {"unborn"}
         /\ worker'[w] = "assert" => EndpointOf[w] \in Asserted
<1>t. worker \in [Worker -> Places]
  BY DEF TypeOK
<1> USE <1>t DEF Go, Quiet, Leave, TakesEntry, control, judging, counters, Places, Ended
<1>1. CASE AcquirePermit(w)
  BY <1>1 DEF AcquirePermit
<1>2. CASE LeaveLoop(w)
  BY <1>2 DEF LeaveLoop
<1>3. CASE Prepare(w)
  BY <1>3 DEF Prepare
<1>4. CASE Retry(w)
  BY <1>4 DEF Retry
<1>5. CASE AnsweredWell(w)
  BY <1>5 DEF AnsweredWell
<1>6. CASE AnsweredBadly(w)
  BY <1>6 DEF AnsweredBadly
<1>7. CASE Unanswered(w)
  BY <1>7 DEF Unanswered
<1>8. CASE ReadBody(w)
  BY <1>8 DEF ReadBody
<1>9. CASE PrintPanics(w)
  BY <1>9 DEF PrintPanics
<1>10. CASE Enqueue(w)
  BY <1>10 DEF Enqueue
<1>11. CASE RecordUnanswered(w)
  BY <1>11 DEF RecordUnanswered
<1>12. CASE RecordBroken(w)
  BY <1>12 DEF RecordBroken
<1>13. CASE ReadErrorBody(w)
  BY <1>13 DEF ReadErrorBody
<1>14. CASE RecordStatus(w)
  BY <1>14 DEF RecordStatus
<1>15. CASE Wrapup(w)
  BY <1>15 DEF Wrapup
<1> QED
  BY <1>1, <1>2, <1>3, <1>4, <1>5, <1>6, <1>7, <1>8, <1>9, <1>10, <1>11, <1>12, <1>13, <1>14, <1>15 DEF WorkerStep

LEMMA WorkerKeeps ==
  ASSUME IInv, NEW w \in Worker, WorkerStep(w)
  PROVE  Lifecycle' /\ Channel'
<1>t. TypeOK /\ Lifecycle /\ Channel /\ worker \in [Worker -> Places]
  BY DEF IInv, TypeOK
<1>m. /\ UNCHANGED <<main, sender, report, receiver, judge>>
      /\ queued' = queued \/ (worker[w] = "assert" /\ queued' = queued + 1)
      /\ worker[w] \notin Ended \cup {"unborn"}
  BY <1>t, WorkerMoves
<1>p. /\ worker' = [worker EXCEPT ![w] = worker'[w]]
      /\ worker'[w] = "assert" => EndpointOf[w] \in Asserted
  BY <1>t, WorkerMoves
<1>1. main \in {"drop", "join"}
  <2>1. ~AllUnborn /\ ~AllEnded
    BY <1>m DEF AllUnborn, AllEnded
  <2>2. main \in MainPlaces
    BY <1>t DEF TypeOK
  <2> QED
    BY <1>t, <2>1, <2>2 DEF Lifecycle, MainPlaces
<1>2. Lifecycle'
  BY <1>1, <1>m, <1>t DEF Lifecycle
<1>3. Senders
  BY <1>m DEF Senders
<1>4. Channel'
  <2>1. \A v \in Worker : worker'[v] = "assert" => EndpointOf[v] \in Asserted
    BY <1>t, <1>p DEF Channel
  <2>2. ~HasAssert => AllClosed'
    BY <1>t, <1>m DEF Channel, AllClosed
  <2>3. ASSUME NEW a \in AssertWorker, judge'[a] = "closed"
        PROVE  queued' = 0 /\ (HasAssert => ~Senders')
    <3>1. queued = 0 /\ ~HasAssert
      BY <2>3, <1>m, <1>t, <1>3 DEF Channel
    <3>2. worker[w] # "assert"
      BY <3>1, <1>t DEF Channel, HasAssert
    <3> QED
      BY <3>1, <3>2, <1>m
  <2> QED
    BY <2>1, <2>2, <2>3 DEF Channel, HasAssert
<1> QED
  BY <1>2, <1>4

LEMMA JudgeKeeps ==
  ASSUME IInv, NEW a \in AssertWorker, JudgeStep(a)
  PROVE  Lifecycle' /\ Channel'
<1>t. /\ TypeOK /\ Lifecycle /\ Channel
      /\ judge \in [AssertWorker -> Stations] /\ queued \in Nat
  BY BatchAssumption DEF IInv, TypeOK
<1>c. UNCHANGED <<main, over, sender, issued, available, report, worker>>
  BY DEF JudgeStep, LockReceiver, Receive, ChannelClosed, Judge, control
<1>a. ~AllClosed
  BY DEF JudgeStep, LockReceiver, Receive, ChannelClosed, Judge, Move, AllClosed
<1>1. ASSUME Untouched PROVE Untouched'
  BY <1>1, <1>t DEF Untouched, JudgeStep, LockReceiver, Receive, ChannelClosed, Judge, Move
<1>2. UNCHANGED <<AllUnborn, AllEnded>>
  BY <1>c DEF AllUnborn, AllEnded
<1>3. Lifecycle'
  BY <1>t, <1>c, <1>a, <1>1, <1>2 DEF Lifecycle
<1>4. Channel'
  <2>1. HasAssert
    BY <1>a, <1>t DEF Channel
  <2>2. Senders' = Senders
    BY <1>c DEF Senders
  <2>3. \A v \in Worker : worker'[v] = "assert" => EndpointOf[v] \in Asserted
    BY <1>t, <1>c DEF Channel
  <2>4. ASSUME NEW b \in AssertWorker, judge'[b] = "closed" PROVE queued' = 0 /\ ~Senders
    <3>1. CASE judge[b] = "closed"
      <4>1. queued = 0 /\ ~Senders
        BY <3>1, <1>t, <2>1 DEF Channel
      <4> QED
        BY <4>1 DEF JudgeStep, LockReceiver, Receive, ChannelClosed, Judge
    <3>2. CASE judge[b] # "closed"
      BY <3>2, <2>4, <1>t
      DEF JudgeStep, LockReceiver, Receive, ChannelClosed, Judge, Move
    <3> QED
      BY <3>1, <3>2
  <2> QED
    BY <2>1, <2>2, <2>3, <2>4 DEF Channel, HasAssert
<1> QED
  BY <1>3, <1>4

LEMMA SameAccounting ==
  Accounting /\ UNCHANGED <<worker, queued, judge, counters>> => Accounting'
<1> SUFFICES ASSUME Accounting, UNCHANGED <<worker, queued, judge, counters>>
             PROVE  Accounting'
  OBVIOUS
<1>1. /\ AtWorkers' = AtWorkers /\ AtRecords' = AtRecords /\ AtJudges' = AtJudges
      /\ queued' = queued
  BY DEF AtWorkers, AtRecords, AtJudges, At, JudgesAt
<1>2. OpenCount' = OpenCount
  BY <1>1 DEF OpenCount
<1> QED
  BY <1>1, <1>2 DEF Accounting, RequestAccounting, ErrorsExplained, counters

LEMMA MainKeeps ==
  ASSUME IInv, MainStep
  PROVE  Accounting' /\ Lifecycle' /\ Channel' /\ ReportFinal'
<1>t. TypeOK /\ Accounting /\ Lifecycle /\ Channel /\ ReportFinal
  BY DEF IInv
<1>j. UNCHANGED <<judging, counters>>
  BY DEF MainStep, GlobalSetup, Spawn, DropSender, JoinWorkers, DrainAsserts,
         GlobalTeardown, Finalise
<1>c. UNCHANGED <<AllClosed, Untouched>>
  BY <1>j DEF AllClosed, Untouched, judging
<1>1. CASE Spawn
  <2>0. /\ main = "spawn" /\ main' = "drop" /\ AllUnborn /\ report = None
        /\ sender /\ UNCHANGED <<sender, report>>
        /\ worker' = [w \in Worker |-> "permit"]
    BY <1>1, <1>t DEF Spawn, Main, Lifecycle
  <2>1. AtWorkers' = AtWorkers /\ AtRecords' = AtRecords /\ AtJudges' = AtJudges
    BY <1>j, <2>0 DEF AtWorkers, AtRecords, AtJudges, At, JudgesAt, judging, AllUnborn
  <2>2. Accounting'
    <3>1. OpenCount' = OpenCount
      BY <2>1, <1>j DEF OpenCount, judging
    <3> QED
      BY <2>1, <3>1, <1>j, <1>t DEF Accounting, RequestAccounting, ErrorsExplained, counters
  <2>3. Lifecycle'
    BY <2>0 DEF Lifecycle
  <2>4. Channel'
    <3>1. Senders
      BY <2>0 DEF Senders
    <3> QED
      BY <3>1, <2>0, <1>j, <1>t, <1>c DEF Channel, judging, HasAssert, AllClosed
  <2>5. ReportFinal'
    BY <2>0, <1>j, <1>t DEF ReportFinal, counters, ReportOf
  <2> QED
    BY <2>2, <2>3, <2>4, <2>5
<1>2. CASE ~Spawn
  <2>w. worker' = worker
    BY <1>2 DEF MainStep, GlobalSetup, DropSender, JoinWorkers, DrainAsserts,
                GlobalTeardown, Finalise
  <2>u. UNCHANGED <<AllUnborn, AllEnded>>
    BY <2>w DEF AllUnborn, AllEnded
  <2>1. Accounting'
    BY <2>w, <1>j, <1>t, SameAccounting DEF judging
  <2>2. Channel'
    <3>1. Senders' => Senders
      BY <1>2, <2>w DEF Senders, MainStep, GlobalSetup, DropSender, JoinWorkers,
                        DrainAsserts, GlobalTeardown, Finalise
    <3> QED
      BY <3>1, <2>w, <1>j, <1>t, <1>c DEF Channel, judging, HasAssert
  <2>3. Lifecycle' /\ ReportFinal'
    <3> USE <1>t, <1>j, <1>c, <2>u DEF Lifecycle, Main, counters, ReportFinal, Failure, ReportOf
    <3>1. CASE GlobalSetup
      BY <3>1 DEF GlobalSetup
    <3>2. CASE DropSender
      BY <3>2 DEF DropSender
    <3>3. CASE JoinWorkers
      BY <3>3 DEF JoinWorkers, AllEnded
    <3>4. CASE DrainAsserts
      BY <3>4 DEF DrainAsserts, AllClosed
    <3>5. CASE GlobalTeardown
      BY <3>5 DEF GlobalTeardown
    <3>6. CASE Finalise
      BY <3>6 DEF Finalise
    <3> QED
      BY <1>2, <3>1, <3>2, <3>3, <3>4, <3>5, <3>6 DEF MainStep
  <2> QED
    BY <2>1, <2>2, <2>3
<1> QED
  BY <1>1, <1>2

(* A report is made when everybody has left, so nobody counts after it.    *)
LEMMA ReportKept ==
  ASSUME IInv, (\E w \in Worker : WorkerStep(w)) \/ (\E a \in AssertWorker : JudgeStep(a))
  PROVE  ReportFinal'
<1>t. TypeOK /\ Lifecycle /\ ReportFinal
  BY DEF IInv
<1>1. report' = report
  BY DEF WorkerStep, AcquirePermit, LeaveLoop, Prepare, Retry, AnsweredWell, AnsweredBadly,
         Unanswered, ReadBody, PrintPanics, Enqueue, RecordUnanswered, RecordBroken,
         ReadErrorBody, RecordStatus, Wrapup, Quiet, Leave, JudgeStep, LockReceiver,
         Receive, ChannelClosed, Judge, control
<1>2. ASSUME NEW w \in Worker, WorkerStep(w) PROVE ~AllEnded
  BY <1>t, <1>2, WorkerMoves DEF AllEnded
<1>3. ASSUME NEW a \in AssertWorker, JudgeStep(a) PROVE ~AllClosed
  BY <1>3 DEF JudgeStep, LockReceiver, Receive, ChannelClosed, Judge, Move, AllClosed
<1>4. report = None \/ report = Failure
  BY <1>t, <1>2, <1>3 DEF Lifecycle
<1> QED
  BY <1>1, <1>4 DEF ReportFinal, Failure

LEMMA InitIInv == Init => IInv
<1> SUFFICES ASSUME Init PROVE IInv
  OBVIOUS
<1>1. AtWorkers = {} /\ AtRecords = {} /\ AtJudges = {}
  BY DEF Init, AtWorkers, AtRecords, AtJudges, At, JudgesAt
<1>2. OpenCount = 0
  BY <1>1, FS_EmptySet DEF OpenCount, Init
<1>3. Accounting
  BY <1>1, <1>2, FS_EmptySet DEF Init, Accounting, RequestAccounting, ErrorsExplained
<1>4. Lifecycle
  BY DEF Init, Lifecycle, AllUnborn, Untouched
<1>5. Channel
  BY DEF Init, Channel, AllClosed
<1> QED
  BY <1>3, <1>4, <1>5, InitTypeOK DEF IInv, ReportFinal, Init

LEMMA NextIInv == IInv /\ [Next]_vars => IInv'
<1> SUFFICES ASSUME IInv, [Next]_vars PROVE IInv'
  OBVIOUS
<1>t. /\ TypeOK /\ Accounting /\ Lifecycle /\ Channel /\ ReportFinal
      /\ TypeOK'
  BY NextTypeOK DEF IInv
<1>1. CASE MainStep
  BY <1>1, <1>t, MainKeeps DEF IInv
<1>2. ASSUME NEW w \in Worker, WorkerStep(w) PROVE IInv'
  BY <1>2, <1>t, WorkerAccounting, WorkerKeeps, ReportKept DEF IInv
<1>3. ASSUME NEW a \in AssertWorker, JudgeStep(a) PROVE IInv'
  BY <1>3, <1>t, JudgeAccounting, JudgeKeeps, ReportKept DEF IInv
<1>4. CASE UNCHANGED <<main, sender, worker, judging, counters, report>>
  <2>1. Accounting'
    BY <1>4, <1>t, SameAccounting DEF judging
  <2>2. Lifecycle'
    BY <1>4, <1>t DEF Lifecycle, AllUnborn, AllEnded, AllClosed, Untouched, judging
  <2>3. Channel'
    BY <1>4, <1>t DEF Channel, HasAssert, AllClosed, Senders, judging
  <2>4. ReportFinal'
    BY <1>4, <1>t DEF ReportFinal, ReportOf, counters
  <2> QED
    BY <1>t, <2>1, <2>2, <2>3, <2>4 DEF IInv
<1> QED
  BY <1>1, <1>2, <1>3, <1>4 DEF Next, TimeUp, ReleasePermit, Terminated, vars, control

LEMMA Invariance == Spec => []IInv
  BY InitIInv, NextIInv, PTL DEF Spec

(* Every request that was sent is judged once or still open, and every     *)
(* error is explained by a table entry, for any number of workers and      *)
(* assert workers and any queue capacity.                                  *)
THEOREM AccountingHolds == Spec => []Accounting
<1>1. IInv => Accounting
  BY DEF IInv
<1> QED
  BY <1>1, Invariance, PTL

LEMMA NothingOpen ==
  ASSUME IInv, AllEnded \/ AllUnborn, AllClosed \/ Untouched
  PROVE  OpenCount = 0
<1>t. TypeOK /\ Channel /\ queued \in Nat
  BY BatchAssumption DEF IInv, TypeOK
<1>1. AtWorkers = {}
  BY DEF AtWorkers, At, AllEnded, AllUnborn, Ended
<1>2. AtJudges = {}
  BY DEF AtJudges, JudgesAt, AllClosed, Untouched
<1>3. queued = 0
  <2>1. CASE Untouched
    BY <2>1 DEF Untouched
  <2>2. CASE AllClosed
    <3>1. PICK a \in AssertWorker : TRUE
      BY BatchAssumption
    <3> QED
      BY <2>2, <3>1, <1>t DEF Channel, AllClosed
  <2> QED
    BY <2>1, <2>2
<1> QED
  BY <1>1, <1>2, <1>3, FS_EmptySet DEF OpenCount

(* The figures of the report are complete: batch() reaches the global      *)
(* teardown only when all workers and assert workers have left and nothing *)
(* is open; and a report once made agrees with the counters for ever.      *)
THEOREM ReportSound == Spec => []ReportTrue
<1>1. IInv => ReportTrue
  <2> SUFFICES ASSUME IInv PROVE ReportComplete /\ ReportFinal
    BY DEF ReportTrue
  <2>1. ReportFinal /\ Lifecycle
    BY DEF IInv
  <2>2. ASSUME main \in {"teardown", "final"} PROVE AllEnded /\ AllClosed
    BY <2>1, <2>2 DEF Lifecycle
  <2>3. ASSUME main \in {"teardown", "final"} PROVE OpenCount = 0
    BY <2>2, <2>3, NothingOpen
  <2> QED
    BY <2>1, <2>2, <2>3 DEF ReportComplete, AllEnded, AllClosed
<1> QED
  BY <1>1, Invariance, PTL

(* From the global teardown on no counter moves: neither a worker nor an   *)
(* assert worker is left that could move one.                              *)
THEOREM TeardownIsQuiet == Spec => QuietTeardown
<1>1. IInv /\ [Next]_vars =>
        [(main \in {"teardown", "final", "returned"}) => UNCHANGED counters]_vars
  <2> SUFFICES ASSUME IInv, Next, main \in {"teardown", "final", "returned"}
               PROVE  UNCHANGED counters
    OBVIOUS
  <2>0. TypeOK /\ Lifecycle
    BY DEF IInv
  <2>1. (AllEnded \/ AllUnborn) /\ (AllClosed \/ Untouched)
    BY <2>0 DEF Lifecycle
  <2>2. ASSUME NEW w \in Worker, WorkerStep(w) PROVE FALSE
    BY <2>0, <2>1, <2>2, WorkerMoves DEF AllEnded, AllUnborn
  <2>3. ASSUME NEW a \in AssertWorker, JudgeStep(a) PROVE UNCHANGED counters
    <3>1. (queued = 0 /\ judge[a] # "judge") \/ judge[a] = "closed"
      BY <2>1 DEF AllClosed, Untouched
    <3> QED
      BY <2>3, <3>1 DEF JudgeStep, LockReceiver, Receive, ChannelClosed, Judge, Move
  <2>4. CASE MainStep
    BY <2>4 DEF MainStep, GlobalSetup, Spawn, DropSender, JoinWorkers, DrainAsserts,
                GlobalTeardown, Finalise
  <2> QED
    BY <2>2, <2>3, <2>4 DEF Next, TimeUp, ReleasePermit, Terminated, vars
<1> QED
  BY <1>1, Invariance, PTL DEF Spec, QuietTeardown

-----------------------------------------------------------------------------
(* The refinement of LoadTest *)

(* Two more facts the promise depends on: a test that fails in its global  *)
(* setup has sent nothing, and while the histogram is empty nothing has    *)
(* been answered well, so the error of an empty histogram hides no success.*)
Unsampled ==
  /\ main \in {"setup", "spawn"} => total = 0
  /\ ~sampled =>
       /\ success = 0
       /\ \A w \in Worker : worker[w] \notin {"body", "assert"}
       /\ queued = 0
       /\ \A a \in AssertWorker : judge[a] # "judge"

LEMMA WorkerUnsampled ==
  ASSUME IInv, Unsampled, NEW w \in Worker, WorkerStep(w)
  PROVE  Unsampled'
<1>t. TypeOK /\ Lifecycle /\ worker \in [Worker -> Places]
  BY DEF IInv, TypeOK
<1>1. main' = main /\ main \notin {"setup", "spawn"}
  BY <1>t, WorkerMoves DEF Lifecycle, AllUnborn
<1> USE <1>t, <1>1 DEF Unsampled, Go, Quiet, Leave, TakesEntry, control, judging, counters
<1>2. CASE AcquirePermit(w)
  BY <1>2 DEF AcquirePermit
<1>3. CASE LeaveLoop(w)
  BY <1>3 DEF LeaveLoop
<1>4. CASE Prepare(w)
  BY <1>4 DEF Prepare
<1>5. CASE Retry(w)
  BY <1>5 DEF Retry
<1>6. CASE AnsweredWell(w)
  BY <1>6 DEF AnsweredWell
<1>7. CASE AnsweredBadly(w)
  BY <1>7 DEF AnsweredBadly
<1>8. CASE Unanswered(w)
  BY <1>8 DEF Unanswered
<1>9. CASE ReadBody(w) \/ PrintPanics(w) \/ Enqueue(w)
  BY <1>9 DEF ReadBody, PrintPanics, Enqueue
<1>10. CASE RecordUnanswered(w)
  BY <1>10 DEF RecordUnanswered
<1>11. CASE RecordBroken(w)
  BY <1>11 DEF RecordBroken
<1>12. CASE ReadErrorBody(w)
  BY <1>12 DEF ReadErrorBody
<1>13. CASE RecordStatus(w)
  BY <1>13 DEF RecordStatus
<1>14. CASE Wrapup(w)
  BY <1>14 DEF Wrapup
<1> QED
  BY <1>2, <1>3, <1>4, <1>5, <1>6, <1>7, <1>8, <1>9, <1>10, <1>11, <1>12, <1>13, <1>14 DEF WorkerStep

LEMMA UnsampledInvariance == Spec => []Unsampled
<1>1. Init => Unsampled
  BY DEF Init, Unsampled
<1>2. IInv /\ Unsampled /\ [Next]_vars => Unsampled'
  <2> SUFFICES ASSUME IInv, Unsampled, [Next]_vars PROVE Unsampled'
    OBVIOUS
  <2>1. CASE MainStep
    BY <2>1 DEF Unsampled, MainStep, GlobalSetup, Spawn, DropSender, JoinWorkers,
                DrainAsserts, GlobalTeardown, Finalise, Main, judging, counters
  <2>2. ASSUME NEW w \in Worker, WorkerStep(w) PROVE Unsampled'
    BY <2>2, WorkerUnsampled
  <2>3. ASSUME NEW a \in AssertWorker, JudgeStep(a) PROVE Unsampled'
    BY <2>3 DEF Unsampled, IInv, TypeOK, JudgeStep, LockReceiver, Receive, ChannelClosed,
                Judge, Move, control, counters
  <2>4. CASE UNCHANGED <<main, worker, judging, counters>>
    BY <2>4 DEF Unsampled, judging, counters
  <2> QED
    BY <2>1, <2>2, <2>3, <2>4 DEF Next, TimeUp, ReleasePermit, Terminated, vars, control
<1> QED
  BY <1>1, <1>2, Invariance, PTL DEF Spec

-----------------------------------------------------------------------------
(* The steps *)

LEMMA InitSimulates == Init => Promise!Init
<1> SUFFICES ASSUME Init PROVE Promise!Init
  OBVIOUS
<1>1. AtWorkers = {} /\ AtRefusals = {} /\ AtJudges = {}
  BY DEF Init, AtWorkers, AtRefusals, AtJudges, At, JudgesAt
<1>2. OpenCount = 0 /\ Cardinality(AtRefusals) = 0
  BY <1>1, FS_EmptySet DEF OpenCount, Init
<1> QED
  BY <1>2 DEF Init, Promise!Init, Settled

(* What a step of a worker does to the sets the promise speaks of.         *)
LEMMA OpenMoves ==
  ASSUME TypeOK, NEW w \in Worker, NEW from, NEW to, Go(w, from, to)
  PROVE  LET IsOpen(p) == p \in {"body", "assert"}
             workers   == Cardinality(AtWorkers)
             reading   == Cardinality(AtRefusals)
         IN  /\ IsOpen(from) => workers > 0
             /\ from = "errorBody" => reading > 0
             /\ (IsOpen(from) <=> IsOpen(to)) => workers' = workers
             /\ IsOpen(from) /\ ~IsOpen(to) => workers' = workers - 1
             /\ ~IsOpen(from) /\ IsOpen(to) => workers' = workers + 1
             /\ (from = "errorBody" <=> to = "errorBody") => reading' = reading
             /\ from = "errorBody" /\ to # "errorBody" => reading' = reading - 1
             /\ from # "errorBody" /\ to = "errorBody" => reading' = reading + 1
<1>1. IsFiniteSet(AtWorkers) /\ IsFiniteSet(AtRefusals)
  BY BatchAssumption, FS_Subset DEF AtWorkers, AtRefusals, At
<1>2. /\ from \in {"body", "assert"} => AtWorkers # {}
      /\ from = "errorBody" => AtRefusals # {}
  BY DEF AtWorkers, AtRefusals, At, Go
<1>3. /\ from \in {"body", "assert"} => Cardinality(AtWorkers) > 0
      /\ from = "errorBody" => Cardinality(AtRefusals) > 0
  BY <1>1, <1>2, FS_EmptySet, FS_CardinalityType
<1> QED
  BY <1>3, GoCount DEF AtWorkers, AtRefusals

LEMMA WorkerSimulates ==
  ASSUME IInv, NEW w \in Worker, WorkerStep(w)
  PROVE  [Promise!Next]_(Promise!vars)
<1> DEFINE workers == Cardinality(AtWorkers)
           reading == Cardinality(AtRefusals)
           judges  == Cardinality(AtJudges)
           phase   == IF main = "returned" THEN "reported"
                      ELSE IF Settled THEN "settled" ELSE "running"
<1>t. /\ total \in Nat /\ success \in Nat /\ errors \in Nat /\ queued \in Nat
      /\ workers \in Nat /\ reading \in Nat /\ judges \in Nat
      /\ TypeOK /\ Lifecycle
  BY BatchAssumption, JudgesNat, GoNat
  DEF IInv, TypeOK, AtJudges, AtWorkers, AtRefusals
<1>m. UNCHANGED <<main, report, judge>> /\ worker[w] \notin Ended \cup {"unborn"}
  BY <1>t, WorkerMoves
<1>p. phase = "running" /\ UNCHANGED <<phase, report>>
  <2>1. main # "returned" /\ ~Settled
    BY <1>t, <1>m DEF Lifecycle, AllUnborn, AllEnded, Settled
  <2> QED
    BY <2>1, <1>m DEF Settled
<1>k. judges' = judges
  BY <1>m DEF AtJudges, JudgesAt
<1>o. /\ OpenCount = workers + queued + judges
      /\ OpenCount' = workers' + queued' + judges'
  BY DEF OpenCount
<1>w. \A from, to : Go(w, from, to) =>
         LET IsOpen(p) == p \in {"body", "assert"}
         IN  /\ IsOpen(from) => workers > 0
             /\ from = "errorBody" => reading > 0
             /\ (IsOpen(from) <=> IsOpen(to)) => workers' = workers
             /\ IsOpen(from) /\ ~IsOpen(to) => workers' = workers - 1
             /\ ~IsOpen(from) /\ IsOpen(to) => workers' = workers + 1
             /\ (from = "errorBody" <=> to = "errorBody") => reading' = reading
             /\ from = "errorBody" /\ to # "errorBody" => reading' = reading - 1
             /\ from # "errorBody" /\ to = "errorBody" => reading' = reading + 1
  BY <1>t, OpenMoves
<1>s. ASSUME UNCHANGED <<total, success, errors, OpenCount, reading>>
      PROVE  UNCHANGED Promise!vars
  BY <1>s, <1>p DEF Promise!vars
<1>a. ASSUME total' = total + 1, OpenCount' = OpenCount + 1,
             UNCHANGED <<success, errors, reading>>
      PROVE  Promise!Next
  BY <1>a, <1>p DEF Promise!Next, Promise!Answered, Promise!Unreported
<1>r. ASSUME total' = total + 1, errors' = errors + 1, reading' = reading + 1,
             UNCHANGED <<success, OpenCount>>
      PROVE  Promise!Next
  BY <1>r, <1>p DEF Promise!Next, Promise!Refused, Promise!Unreported
<1>u. ASSUME total' = total + 1, errors' = errors + 1,
             UNCHANGED <<success, OpenCount, reading>>
      PROVE  Promise!Next
  BY <1>u, <1>p DEF Promise!Next, Promise!Unanswered, Promise!Unreported
<1>j. ASSUME OpenCount > 0, OpenCount' = OpenCount - 1,
             \/ success' = success + 1 /\ errors' = errors
             \/ errors' = errors + 1 /\ success' = success
             \/ UNCHANGED <<success, errors>>,
             UNCHANGED <<total, reading>>
      PROVE  Promise!Next
  BY <1>j, <1>p DEF Promise!Next, Promise!Judged, Promise!Unreported
<1>e. ASSUME reading > 0, reading' = reading - 1, errors' \in {errors, errors + 1},
             UNCHANGED <<OpenCount, total, success>>
      PROVE  Promise!Next
  BY <1>e, <1>p DEF Promise!Next, Promise!RefusalRead, Promise!Unreported
<1> HIDE DEF workers, reading, judges, phase
<1> USE <1>t, <1>k, <1>o DEF Quiet, Leave, TakesEntry, judging, counters
<1>1. CASE AcquirePermit(w)
  <2>1. workers' = workers /\ reading' = reading
    BY <1>1, <1>w DEF AcquirePermit
  <2> QED
    BY <1>1, <2>1, <1>s DEF AcquirePermit
<1>2. CASE LeaveLoop(w)
  <2>1. workers' = workers /\ reading' = reading
    BY <1>2, <1>w DEF LeaveLoop
  <2> QED
    BY <1>2, <2>1, <1>s DEF LeaveLoop
<1>3. CASE Prepare(w)
  <2>1. workers' = workers /\ reading' = reading
    BY <1>3, <1>w DEF Prepare
  <2> QED
    BY <1>3, <2>1, <1>s DEF Prepare
<1>4. CASE Retry(w)
  <2>1. workers' = workers /\ reading' = reading
    BY <1>4, <1>w DEF Retry
  <2> QED
    BY <1>4, <2>1, <1>s DEF Retry
<1>5. CASE AnsweredWell(w)
  <2>1. workers' = workers + 1 /\ reading' = reading
    BY <1>5, <1>w DEF AnsweredWell
  <2>2. OpenCount' = OpenCount + 1
    BY <1>5, <2>1 DEF AnsweredWell
  <2> QED
    BY <1>5, <2>1, <2>2, <1>a DEF AnsweredWell
<1>6. CASE AnsweredBadly(w)
  <2>1. workers' = workers /\ reading' = reading + 1
    BY <1>6, <1>w DEF AnsweredBadly
  <2>2. OpenCount' = OpenCount
    BY <1>6, <2>1 DEF AnsweredBadly
  <2> QED
    BY <1>6, <2>1, <2>2, <1>r DEF AnsweredBadly
<1>7. CASE Unanswered(w)
  <2>1. workers' = workers /\ reading' = reading
    BY <1>7, <1>w DEF Unanswered
  <2>2. OpenCount' = OpenCount
    BY <1>7, <2>1 DEF Unanswered
  <2> QED
    BY <1>7, <2>1, <2>2, <1>u DEF Unanswered
<1>8. CASE ReadBody(w)
  <2>1. UNCHANGED <<total, reading, queued>> /\ workers > 0
    BY <1>8, <1>w DEF ReadBody
  <2>2. \/ workers' = workers /\ UNCHANGED <<success, errors>>
        \/ /\ workers' = workers - 1
           /\ \/ success' = success + 1 /\ errors' = errors
              \/ errors' = errors + 1 /\ success' = success
              \/ UNCHANGED <<success, errors>>
    BY <1>8, <1>w DEF ReadBody
  <2>3. CASE workers' = workers /\ UNCHANGED <<success, errors>>
    BY <2>1, <2>3, <1>s
  <2>4. CASE /\ workers' = workers - 1
             /\ \/ success' = success + 1 /\ errors' = errors
                \/ errors' = errors + 1 /\ success' = success
                \/ UNCHANGED <<success, errors>>
    <3>1. OpenCount' = OpenCount - 1 /\ OpenCount > 0
      BY <2>1, <2>4
    <3> QED
      BY <2>1, <2>4, <3>1, <1>j
  <2> QED
    BY <2>2, <2>3, <2>4
<1>9. CASE PrintPanics(w)
  <2>1. workers' = workers - 1 /\ workers > 0 /\ reading' = reading
    BY <1>9, <1>w DEF PrintPanics
  <2>2. OpenCount' = OpenCount - 1 /\ OpenCount > 0
    BY <1>9, <2>1 DEF PrintPanics
  <2> QED
    BY <1>9, <2>1, <2>2, <1>j DEF PrintPanics
<1>10. CASE Enqueue(w)
  <2>1. workers' = workers - 1 /\ reading' = reading
    BY <1>10, <1>w DEF Enqueue
  <2>2. queued' = queued + 1 /\ UNCHANGED counters
    BY <1>10 DEF Enqueue
  <2> QED
    BY <2>1, <2>2, <1>s
<1>11. CASE RecordUnanswered(w)
  <2>1. workers' = workers /\ reading' = reading
    BY <1>11, <1>w DEF RecordUnanswered
  <2> QED
    BY <1>11, <2>1, <1>s DEF RecordUnanswered
<1>12. CASE RecordBroken(w)
  <2>1. workers' = workers /\ reading' = reading
    BY <1>12, <1>w DEF RecordBroken
  <2> QED
    BY <1>12, <2>1, <1>s DEF RecordBroken
<1>13. CASE ReadErrorBody(w)
  <2>1. workers' = workers /\ reading' = reading - 1 /\ reading > 0
    BY <1>13, <1>w DEF ReadErrorBody
  <2>2. OpenCount' = OpenCount
    BY <1>13, <2>1 DEF ReadErrorBody
  <2> QED
    BY <1>13, <2>1, <2>2, <1>e DEF ReadErrorBody
<1>14. CASE RecordStatus(w)
  <2>1. workers' = workers /\ reading' = reading
    BY <1>14, <1>w DEF RecordStatus
  <2> QED
    BY <1>14, <2>1, <1>s DEF RecordStatus
<1>15. CASE Wrapup(w)
  <2>1. workers' = workers /\ reading' = reading
    BY <1>15, <1>w DEF Wrapup
  <2> QED
    BY <1>15, <2>1, <1>s DEF Wrapup
<1> QED
  BY <1>1, <1>2, <1>3, <1>4, <1>5, <1>6, <1>7, <1>8, <1>9, <1>10, <1>11, <1>12, <1>13, <1>14, <1>15 DEF WorkerStep

LEMMA JudgeSimulates ==
  ASSUME IInv, NEW a \in AssertWorker, JudgeStep(a)
  PROVE  [Promise!Next]_(Promise!vars)
<1> DEFINE workers == Cardinality(AtWorkers)
           reading == Cardinality(AtRefusals)
           judges  == Cardinality(AtJudges)
           phase   == IF main = "returned" THEN "reported"
                      ELSE IF Settled THEN "settled" ELSE "running"
<1>t. /\ total \in Nat /\ success \in Nat /\ errors \in Nat /\ queued \in Nat
      /\ workers \in Nat /\ reading \in Nat /\ judges \in Nat
      /\ TypeOK /\ Lifecycle
  BY BatchAssumption, JudgesNat, GoNat
  DEF IInv, TypeOK, AtJudges, AtWorkers, AtRefusals
<1>c. UNCHANGED <<main, report, worker, total>>
  BY DEF JudgeStep, LockReceiver, Receive, ChannelClosed, Judge, control, counters
<1>p. UNCHANGED <<phase, report, reading, workers, total>>
  BY <1>c DEF Settled, AtRefusals, AtWorkers, At
<1>o. /\ OpenCount = workers + queued + judges
      /\ OpenCount' = workers' + queued' + judges'
  BY DEF OpenCount
<1>w. \A from, to : Move(a, from, to) =>
         /\ from # "judge" /\ to # "judge" => judges' = judges
         /\ from = "judge" /\ to # "judge" => judges' = judges - 1
         /\ from # "judge" /\ to = "judge" => judges' = judges + 1
  BY <1>t, MoveCountJudges DEF AtJudges
<1>s. ASSUME UNCHANGED <<success, errors, OpenCount>>
      PROVE  UNCHANGED Promise!vars
  BY <1>s, <1>p DEF Promise!vars
<1>j. ASSUME phase = "running", OpenCount > 0, OpenCount' = OpenCount - 1,
             \/ success' = success + 1 /\ errors' = errors
             \/ errors' = errors + 1 /\ success' = success
             \/ UNCHANGED <<success, errors>>
      PROVE  Promise!Next
  BY <1>j, <1>p DEF Promise!Next, Promise!Judged, Promise!Unreported
<1>r. judge[a] = "judge" => phase = "running"
  BY <1>t DEF Lifecycle, AllClosed, Untouched, Settled
<1>n. judge[a] = "judge" => judges > 0
  <2>1. IsFiniteSet(AtJudges)
    BY BatchAssumption, FS_Subset DEF AtJudges, JudgesAt
  <2>2. judge[a] = "judge" => AtJudges # {}
    BY DEF AtJudges, JudgesAt
  <2> QED
    BY <2>1, <2>2, <1>t, FS_EmptySet
<1> HIDE DEF workers, reading, judges, phase
<1> USE <1>t, <1>p, <1>o DEF counters
<1>1. CASE LockReceiver(a)
  <2>1. judges' = judges
    BY <1>1, <1>w DEF LockReceiver
  <2> QED
    BY <1>1, <2>1, <1>s DEF LockReceiver
<1>2. CASE Receive(a)
  <2>1. judges' = judges + 1
    BY <1>2, <1>w DEF Receive
  <2>2. queued' = queued - 1 /\ UNCHANGED counters
    BY <1>2 DEF Receive
  <2> QED
    BY <2>1, <2>2, <1>s
<1>3. CASE ChannelClosed(a)
  <2>1. judges' = judges
    BY <1>3, <1>w DEF ChannelClosed
  <2> QED
    BY <1>3, <2>1, <1>s DEF ChannelClosed
<1>4. CASE Judge(a)
  <2>1. judges' = judges - 1 /\ judge[a] = "judge"
    <3>1. Move(a, "judge", "lock")
      BY <1>4 DEF Judge
    <3>2. judges' = judges - 1
      BY <3>1, <1>w
    <3> QED
      BY <3>1, <3>2 DEF Move
  <2>2. OpenCount > 0 /\ OpenCount' = OpenCount - 1
    BY <1>4, <2>1, <1>n DEF Judge
  <2> QED
    BY <1>4, <2>1, <2>2, <1>r, <1>j DEF Judge
<1> QED
  BY <1>1, <1>2, <1>3, <1>4 DEF JudgeStep

LEMMA MainSimulates ==
  ASSUME IInv, Unsampled, MainStep
  PROVE  [Promise!Next]_(Promise!vars)
<1>t. TypeOK /\ Lifecycle
  BY DEF IInv
<1>j. UNCHANGED <<judging, counters>>
  BY DEF MainStep, GlobalSetup, Spawn, DropSender, JoinWorkers, DrainAsserts,
         GlobalTeardown, Finalise
<1>c. UNCHANGED <<OpenCount, Cardinality(AtRefusals)>>
  <2>1. CASE Spawn
    <3>1. AllUnborn /\ worker' = [w \in Worker |-> "permit"]
      BY <2>1, <1>t DEF Spawn, Main, Lifecycle
    <3>2. AtWorkers' = AtWorkers /\ AtRefusals' = AtRefusals /\ AtJudges' = AtJudges
      BY <3>1, <1>j DEF AtWorkers, AtRefusals, AtJudges, At, JudgesAt, judging, AllUnborn
    <3> QED
      BY <3>2, <1>j DEF OpenCount, judging
  <2>2. CASE ~Spawn
    <3>1. worker' = worker
      BY <2>2 DEF MainStep, GlobalSetup, DropSender, JoinWorkers, DrainAsserts,
                  GlobalTeardown, Finalise
    <3>2. AtWorkers' = AtWorkers /\ AtRefusals' = AtRefusals /\ AtJudges' = AtJudges
      BY <3>1, <1>j DEF AtWorkers, AtRefusals, AtJudges, At, JudgesAt, judging
    <3> QED
      BY <3>2, <1>j DEF OpenCount, judging
  <2> QED
    BY <2>1, <2>2
<1>s. ASSUME UNCHANGED report, UNCHANGED (main = "returned"), UNCHANGED Settled
      PROVE  UNCHANGED Promise!vars
  BY <1>s, <1>c, <1>j DEF Promise!vars, counters
<1>1. CASE GlobalSetup
  <2>1. CASE main' = "spawn"
    BY <1>1, <2>1, <1>s DEF GlobalSetup, Main, Settled
  <2>2. CASE main' = "returned"
    <3>1. total = 0 /\ main = "setup" /\ report' = Failure
      BY <1>1, <2>2 DEF GlobalSetup, Main, Unsampled
    <3>2. Promise!Abort
      BY <3>1, <2>2, <1>c, <1>j
      DEF Promise!Abort, Promise!Failure, Failure, Settled, counters
    <3> QED
      BY <3>2 DEF Promise!Next
  <2> QED
    BY <1>1, <2>1, <2>2 DEF GlobalSetup, Main
<1>2. CASE Spawn \/ DropSender \/ JoinWorkers \/ GlobalTeardown
  BY <1>2, <1>s DEF Spawn, DropSender, JoinWorkers, GlobalTeardown, Main, Settled
<1>3. CASE DrainAsserts
  <2>1. main = "drain" /\ main' = "teardown" /\ UNCHANGED report /\ AllClosed
    BY <1>3 DEF DrainAsserts, Main, AllClosed
  <2>2. AllEnded
    BY <2>1, <1>t DEF Lifecycle
  <2>3. OpenCount = 0
    BY <2>1, <2>2, NothingOpen
  <2>4. Cardinality(AtRefusals) = 0
    <3>1. AtRefusals = {}
      BY <2>2 DEF AtRefusals, At, AllEnded, Ended
    <3> QED
      BY <3>1, FS_EmptySet
  <2>5. Promise!Settle
    BY <2>1, <2>3, <2>4, <1>c, <1>j DEF Promise!Settle, Settled, counters
  <2> QED
    BY <2>5 DEF Promise!Next
<1>4. CASE Finalise
  <2>1. /\ main = "final" /\ main' = "returned"
        /\ \/ report' = ReportOf(total, success, errors)
           \/ success = 0 /\ report' = Failure
    BY <1>4 DEF Finalise, Main, Unsampled
  <2>2. Promise!MakeReport
    BY <2>1, <1>c, <1>j
    DEF Promise!MakeReport, Promise!Report, ReportOf, Promise!Failure, Failure,
        Settled, counters
  <2> QED
    BY <2>2 DEF Promise!Next
<1> QED
  BY <1>1, <1>2, <1>3, <1>4 DEF MainStep

-----------------------------------------------------------------------------

(* The detailed test implements the abstract one, for any number of        *)
(* workers, endpoints and assert workers and any capacity of the channel:  *)
(* the caller gets the figures of a test in which every request was judged *)
(* at most once and the report came last.                                  *)
THEOREM Refinement == Spec => ImplementsLoadTest
<1>1. IInv /\ Unsampled /\ [Next]_vars => [Promise!Next]_(Promise!vars)
  <2> SUFFICES ASSUME IInv, Unsampled, [Next]_vars
               PROVE  [Promise!Next]_(Promise!vars)
    OBVIOUS
  <2>1. CASE MainStep
    BY <2>1, MainSimulates
  <2>2. ASSUME NEW w \in Worker, WorkerStep(w) PROVE [Promise!Next]_(Promise!vars)
    BY <2>2, WorkerSimulates
  <2>3. ASSUME NEW a \in AssertWorker, JudgeStep(a) PROVE [Promise!Next]_(Promise!vars)
    BY <2>3, JudgeSimulates
  <2>4. CASE UNCHANGED <<main, report, worker, judging, counters>>
    <3>1. AtWorkers' = AtWorkers /\ AtRefusals' = AtRefusals /\ AtJudges' = AtJudges
      BY <2>4 DEF AtWorkers, AtRefusals, AtJudges, At, JudgesAt, judging
    <3>2. OpenCount' = OpenCount
      BY <3>1, <2>4 DEF OpenCount, judging
    <3> QED
      BY <2>4, <3>1, <3>2 DEF Promise!vars, Settled, counters
  <2> QED
    BY <2>1, <2>2, <2>3, <2>4 DEF Next, TimeUp, ReleasePermit, Terminated, vars, control
<1>2. Init => Promise!Init
  BY InitSimulates
<1> QED
  BY <1>1, <1>2, Invariance, UnsampledInvariance, PTL
  DEF Spec, ImplementsLoadTest, Promise!Spec

=============================================================================
