----------------------- MODULE ConcurrencyController -----------------------
(***************************************************************************)
(* The permits of one endpoint                                             *)
(* (src/atomic-bomb-engine/src/core/concurrency_controller.rs).            *)
(*                                                                         *)
(* batch() spawns as many workers for an endpoint as the endpoint has      *)
(* permits, and one task that runs distribute_permits().  A worker waits   *)
(* for a permit before its first request, holds it until it exits (it is a *)
(* local of start_concurrency, so an error and a panic give it back too)   *)
(* and never asks again.                                                   *)
(*                                                                         *)
(* A ramp asks for step / den permits per round.  The f64 accumulator is   *)
(* kept in units of 1 / (den * Fine) of a permit.  What is added to it in  *)
(* a round is increase_step up to an error of plan.slack units: the        *)
(* rounding of the share, of the product and of the sum.  slack is zero    *)
(* where the share is a binary fraction: f64 is exact then, and so are     *)
(* floor() and the subtraction of a whole number everywhere.               *)
(***************************************************************************)
EXTENDS Integers, FiniteSets

CONSTANTS
  Plans,     \* the endpoint plans a test may be started with
  Fine       \* how finely the accumulator is resolved

(* ramped says whether the test has a step_option. *)
PlanType == [ramped : BOOLEAN, total : Nat \ {0}, step : Nat,
             den : Nat \ {0}, slack : Nat]

(* In a ramp step is zero only for an endpoint of weight zero, which has   *)
(* one worker and an exact share: a zero increase_step divides by zero in  *)
(* batch() before anything starts.  A ramp has at most total * den + 1     *)
(* rounds, and their errors do not add up to 1 / den of a permit: an f64   *)
(* has 53 bits.                                                            *)
ASSUME PlanAssumption ==
  /\ Plans \subseteq PlanType
  /\ Fine \in Nat \ {0}
  /\ \A p \in Plans : p.ramped =>
       /\ p.step = 0 => p.total = 1 /\ p.slack = 0
       /\ (p.total * p.den + 1) * p.slack < Fine

VARIABLES
  plan,       \* the endpoint's plan
  pc,         \* where distribute_permits is: "start", "sleep" or "done"
  acc,        \* fractional_accumulator
  rounds,     \* how often increase_step was added to acc
  issued,     \* permits_added: all permits ever added to the semaphore
  available,  \* permits in the semaphore
  worker      \* the state of each worker: "waiting", "running" or "exited"

vars == <<plan, pc, acc, rounds, issued, available, worker>>

Worker  == 1 .. plan.total
Holders == {w \in Worker : worker[w] = "running"}

Smaller(a, b) == IF a <= b THEN a ELSE b

Init ==
  /\ plan \in Plans
  /\ pc = "start"
  /\ acc = 0
  /\ rounds = 0
  /\ issued = 0
  /\ available = 0
  /\ worker = [w \in 1 .. plan.total |-> "waiting"]

AddPermits(n) ==
  /\ issued' = issued + n
  /\ available' = available + n

(* The single permit of a one-worker endpoint is added besides the ramp.   *)
Bonus == IF plan.total = 1 THEN 1 ELSE 0

(* The loop goes on while permits are missing. *)
PlaceAfter(n) == IF n < plan.total THEN "sleep" ELSE "done"

(* The accumulator's 1.0. *)
One == plan.den * Fine

(* What *fractional_accumulator += increase_step may leave in it. *)
Sums ==
  LET exact == acc + plan.step * Fine
  IN  {sum \in exact - plan.slack .. exact + plan.slack : sum >= 0}

(* Before the first sleep: what has accumulated is added without a cap.    *)
FirstRound ==
  /\ plan.ramped
  /\ pc = "start"
  /\ \E sum \in Sums :
       /\ AddPermits(Bonus + (sum \div One))
       /\ acc' = sum % One
  /\ rounds' = 1
  /\ pc' = PlaceAfter(issued')
  /\ UNCHANGED <<plan, worker>>

(* Variant: fractions are rounded up. *)
PermitsDueRoundedUp(sum) ==
  Smaller((sum + One - 1) \div One, plan.total - issued)

(* What a later round adds: the whole part of the accumulator, up to the   *)
(* permits that are still missing.                                         *)
PermitsDue(sum) == Smaller(sum \div One, plan.total - issued)

(* Variant: the remainder is dropped with what has been released. *)
RemainderDropped(sum) == IF PermitsDue(sum) > 0 THEN 0 ELSE sum

(* What stays in the accumulator. *)
Remainder(sum) == sum - PermitsDue(sum) * One

(* One turn of the loop, after sleeping for increase_interval. *)
LaterRound ==
  /\ pc = "sleep"
  /\ \E sum \in Sums :
       /\ AddPermits(PermitsDue(sum))
       /\ acc' = Remainder(sum)
  /\ rounds' = rounds + 1
  /\ pc' = PlaceAfter(issued')
  /\ UNCHANGED <<plan, worker>>

(* Without a step_option everything is available at once. *)
AllAtOnce ==
  /\ ~plan.ramped
  /\ pc = "start"
  /\ AddPermits(plan.total)
  /\ pc' = "done"
  /\ UNCHANGED <<plan, acc, rounds, worker>>

Distribute == FirstRound \/ LaterRound \/ AllAtOnce

(* Variant: the last permit is left in the semaphore. *)
AcquireLeavingOne(w) ==
  /\ worker[w] = "waiting"
  /\ available > 1
  /\ available' = available - 1
  /\ worker' = [worker EXCEPT ![w] = "running"]
  /\ UNCHANGED <<plan, pc, acc, rounds, issued>>

(* semaphore.acquire().await at the head of start_concurrency. *)
Acquire(w) ==
  /\ worker[w] = "waiting"
  /\ available > 0
  /\ available' = available - 1
  /\ worker' = [worker EXCEPT ![w] = "running"]
  /\ UNCHANGED <<plan, pc, acc, rounds, issued>>

(* The worker's task ends, by any of its exits, and drops its permit. *)
Exit(w) ==
  /\ worker[w] = "running"
  /\ available' = available + 1
  /\ worker' = [worker EXCEPT ![w] = "exited"]
  /\ UNCHANGED <<plan, pc, acc, rounds, issued>>

Finished == pc = "done" /\ \A w \in Worker : worker[w] = "exited"

(* batch() returns from join_all; nothing of the controller is left. *)
Terminated == Finished /\ UNCHANGED vars

Next ==
  \/ Distribute
  \/ \E w \in Worker : Acquire(w) \/ Exit(w)
  \/ Terminated

(* The distributor only sleeps for finite times, and a worker that runs    *)
(* reaches the end of the test.                                            *)
Fairness ==
  /\ WF_vars(Distribute)
  /\ WF_vars(\E w \in Worker : Acquire(w))
  /\ WF_vars(\E w \in Worker : Exit(w))

Spec == Init /\ [][Next]_vars

FairSpec == Spec /\ Fairness

-----------------------------------------------------------------------------

(* Types of the controller's state. *)
TypeOK ==
  /\ plan \in Plans
  /\ pc \in {"start", "sleep", "done"}
  /\ acc \in Nat
  /\ rounds \in Nat
  /\ issued \in Nat
  /\ available \in Nat
  /\ worker \in [Worker -> {"waiting", "running", "exited"}]

(* Every permit ever added is in the semaphore or held by a running        *)
(* worker: workers that leave early, by an error or a panic, lose none.    *)
PermitConservation == available + Cardinality(Holders) = issued

(* What exact arithmetic would have made of the rounds so far, in units of *)
(* 1 / den of a permit, with the permit that is added besides.             *)
Ramp == rounds * plan.step + Bonus * plan.den

(* The load never runs ahead of the ramp, even when workers exit early and *)
(* their permits go to others (README: 每N秒增加M个并发).                     *)
NeverAheadOfRamp ==
  plan.ramped => Cardinality(Holders) * plan.den <= Ramp

(* The permits follow the ramp step_option asks for, fractions of a step   *)
(* included, up to its end (distribute_permits, fractional_accumulator):   *)
(* never more permits than the ramp allows, and as long as some are        *)
(* missing never more than one behind it.  Where the share is a binary     *)
(* fraction not even one; elsewhere ten rounds of a tenth may add up to    *)
(* less than 1.0, but the permit comes a round later and the delay does    *)
(* not grow, however long the ramp.                                        *)
RampFaithful ==
  plan.ramped /\ pc # "start" =>
    /\ issued * plan.den <= Ramp
    /\ pc = "sleep" =>
         /\ Ramp <= (issued + 1) * plan.den
         /\ plan.slack = 0 => Ramp < (issued + 1) * plan.den
    /\ pc = "done" => issued >= plan.total

(* No worker waits for its permit for ever, so join_all returns. *)
EveryWorkerExits == <>[]Finished
=============================================================================
