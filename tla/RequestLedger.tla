----------------------------- MODULE RequestLedger -----------------------------
(***************************************************************************)
(* What the figures of a WebSocket connection promise of its requests:     *)
(* each is entered once, and gets one outcome and keeps it. It is answered *)
(* (successful_requests), it is overdue (match_timeouts), or the           *)
(* connection ends first and it is in neither figure.                      *)
(***************************************************************************)
CONSTANT Requests

VARIABLE ledger

Outcomes == {"new", "open", "answered", "overdue", "abandoned"}

Init == ledger = [r \in Requests |-> "new"]

Move(r, from, to) == ledger[r] = from /\ ledger' = [ledger EXCEPT ![r] = to]

Open(r)   == Move(r, "new", "open")
Refuse(r) == Move(r, "new", "overdue")
Answer(r) == Move(r, "open", "answered")

(* Requests are given up together: the overdue ones of one sweep, or all   *)
(* those a connection leaves behind.                                       *)
GiveUp(R, to) ==
  /\ \A r \in R : ledger[r] = "open"
  /\ ledger' = [r \in Requests |-> IF r \in R THEN to ELSE ledger[r]]

Next ==
  \/ \E r \in Requests : Open(r) \/ Refuse(r) \/ Answer(r)
  \/ \E R \in SUBSET Requests : GiveUp(R, "overdue") \/ GiveUp(R, "abandoned")

Spec == Init /\ [][Next]_ledger
================================================================================
