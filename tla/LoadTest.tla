------------------------------ MODULE LoadTest ------------------------------
(***************************************************************************)
(* What a load test promises about its numbers, without workers, permits   *)
(* or queues.                                                              *)
(*                                                                         *)
(* A request is counted when it has been sent.  A request that failed is   *)
(* counted as an error; one that was answered stays open until it is       *)
(* judged: successful, wrong, or neither (an empty body with assertions).  *)
(* Reading the body of an answer with an error status may fail as well,    *)
(* and that counts as a further error of the same request.  The report is  *)
(* made when nothing is open any more, and is final.                       *)
(***************************************************************************)
EXTENDS Integers

CONSTANT None  \* no report yet

VARIABLES
  open,     \* requests that are counted and still to be judged
  reading,  \* requests counted as errors whose body is still being read
  total,    \* requests sent
  success,  \* successful requests
  errors,   \* errors
  phase,    \* "running", "settled" or "reported"
  report    \* what the caller is given

vars == <<open, reading, total, success, errors, phase, report>>

Failure == [ok |-> FALSE]
Report(t, s, e) == [ok |-> TRUE, total |-> t, success |-> s, errors |-> e]

Init ==
  /\ open = 0
  /\ reading = 0
  /\ total = 0
  /\ success = 0
  /\ errors = 0
  /\ phase = "running"
  /\ report = None

Unreported == UNCHANGED <<phase, report>>

(* A request is answered with a good status. *)
Answered ==
  /\ phase = "running"
  /\ total' = total + 1
  /\ open' = open + 1
  /\ Unreported /\ UNCHANGED <<reading, success, errors>>

(* A request is answered with an error status. *)
Refused ==
  /\ phase = "running"
  /\ total' = total + 1
  /\ errors' = errors + 1
  /\ reading' = reading + 1
  /\ Unreported /\ UNCHANGED <<open, success>>

(* A request could not be sent or was not answered. *)
Unanswered ==
  /\ phase = "running"
  /\ total' = total + 1
  /\ errors' = errors + 1
  /\ Unreported /\ UNCHANGED <<open, reading, success>>

(* An answered request is judged, for good. *)
Judged ==
  /\ phase = "running"
  /\ open > 0
  /\ open' = open - 1
  /\ \/ success' = success + 1 /\ errors' = errors
     \/ errors' = errors + 1 /\ success' = success
     \/ UNCHANGED <<success, errors>>
  /\ Unreported /\ UNCHANGED <<reading, total>>

(* The body of a refused request has been read, or has broken off. *)
RefusalRead ==
  /\ phase = "running"
  /\ reading > 0
  /\ reading' = reading - 1
  /\ errors' \in {errors, errors + 1}
  /\ Unreported /\ UNCHANGED <<open, total, success>>

(* Nothing is open, and no request will be sent any more. *)
Settle ==
  /\ phase = "running"
  /\ open = 0
  /\ reading = 0
  /\ phase' = "settled"
  /\ UNCHANGED <<open, reading, total, success, errors, report>>

(* The test could not be started. *)
Abort ==
  /\ phase = "running"
  /\ total = 0
  /\ phase' = "reported"
  /\ report' = Failure
  /\ UNCHANGED <<open, reading, total, success, errors>>

(* The report repeats the final counts.  Only a test in which nothing       *)
(* succeeded may be reported as a failure instead.                         *)
MakeReport ==
  /\ phase = "settled"
  /\ phase' = "reported"
  /\ \/ report' = Report(total, success, errors)
     \/ success = 0 /\ report' = Failure
  /\ UNCHANGED <<open, reading, total, success, errors>>

Next ==
  \/ Answered \/ Refused \/ Unanswered \/ Judged \/ RefusalRead
  \/ Settle \/ Abort \/ MakeReport

Spec == Init /\ [][Next]_vars
=============================================================================
