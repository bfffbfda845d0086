------------------------------ MODULE Ramp_proof ------------------------------
(***************************************************************************)
(* Proofs about the load a test makes, for every set of endpoint plans and *)
(* whatever f64 makes of their steps.                                      *)
(***************************************************************************)
EXTENDS ConcurrencyController, TLAPS, FiniteSetTheorems

(* Division with remainder, as floor() and the subtraction use it. *)
LEMMA DivMod ==
  ASSUME NEW a \in Nat, NEW b \in Nat \ {0}
  PROVE  /\ a \div b \in Nat
         /\ a % b \in Nat
         /\ a % b < b
         /\ a = (a \div b) * b + (a % b)
  BY SMT

(* Whole numbers of 1 / den of a permit are told apart by an accumulator   *)
(* whose error is smaller than that.                                       *)
LEMMA Resolved ==
  ASSUME NEW a \in Int, NEW b \in Int, NEW f \in Nat \ {0}, NEW e \in Nat,
         e < f, a * f <= b * f + e
  PROVE  a <= b
<1>1. SUFFICES ASSUME a >= b + 1 PROVE FALSE
  OBVIOUS
<1>2. a * f >= (b + 1) * f
  BY <1>1
<1>3. (b + 1) * f = b * f + f
  OBVIOUS
<1> QED
  BY <1>2, <1>3

LEMMA OneMoreTime ==
  ASSUME NEW a \in Nat, NEW b \in Nat
  PROVE  (a + 1) * b = a * b + b
OBVIOUS

(* The part of a distribution round that is capped by the missing permits. *)
LEMMA CappedPart ==
  ASSUME NEW a \in Nat, NEW b \in Nat \ {0}, NEW m \in Nat,
         NEW n, n = Smaller(a \div b, m)
  PROVE  /\ n \in Nat
         /\ n <= m
         /\ a - n * b \in Nat
         /\ n < m => a - n * b < b
<1>1. /\ a \div b \in Nat /\ a % b \in Nat /\ a % b < b
      /\ a = (a \div b) * b + (a % b)
  BY DivMod
<1>2. CASE a \div b <= m
  BY <1>1, <1>2, SMT DEF Smaller
<1>3. CASE ~(a \div b <= m)
  <2>1. n = m
    BY <1>3 DEF Smaller
  <2>2. m * b <= (a \div b) * b
    BY <1>1, <1>3, SMT
  <2> QED
    BY <1>1, <2>1, <2>2, SMT
<1> QED
  BY <1>2, <1>3

-----------------------------------------------------------------------------

(* The plan never changes and is one of the assumed plans. *)
LEMMA PlanFacts ==
  ASSUME TypeOK
  PROVE  /\ plan \in PlanType
         /\ plan.ramped \in BOOLEAN
         /\ plan.total \in Nat \ {0}
         /\ plan.step \in Nat
         /\ plan.den \in Nat \ {0}
         /\ plan.slack \in Nat
         /\ Fine \in Nat \ {0}
         /\ One \in Nat \ {0}
         /\ Bonus \in Nat
<1>1. plan \in PlanType /\ Fine \in Nat \ {0}
  BY PlanAssumption DEF TypeOK
<1>2. /\ plan.total \in Nat \ {0} /\ plan.step \in Nat /\ plan.den \in Nat \ {0}
      /\ plan.slack \in Nat /\ plan.ramped \in BOOLEAN
  BY <1>1 DEF PlanType
<1>3. One \in Nat \ {0}
  BY <1>1, <1>2 DEF One
<1> QED
  BY <1>1, <1>2, <1>3 DEF Bonus

(* What the accumulator may hold after the addition. *)
LEMMA SumFacts ==
  ASSUME TypeOK, NEW sum \in Sums
  PROVE  /\ sum \in Nat
         /\ sum <= acc + plan.step * Fine + plan.slack
         /\ acc + plan.step * Fine <= sum + plan.slack
<1>1. /\ plan.step \in Nat /\ plan.slack \in Nat /\ Fine \in Nat /\ acc \in Nat
  BY PlanFacts DEF TypeOK
<1>2. plan.step * Fine \in Nat
  BY <1>1
<1> QED
  BY <1>1, <1>2 DEF Sums

(* What is due in a later round, and what is left in the accumulator.      *)
LEMMA DueFacts ==
  ASSUME TypeOK, issued < plan.total, NEW sum \in Sums
  PROVE  /\ PermitsDue(sum) \in Nat
         /\ PermitsDue(sum) <= plan.total - issued
         /\ Remainder(sum) \in Nat
         /\ PermitsDue(sum) < plan.total - issued => Remainder(sum) < One
<1>1. One \in Nat \ {0} /\ plan.total \in Nat /\ sum \in Nat
  BY PlanFacts, SumFacts
<1>2. plan.total - issued \in Nat
  BY <1>1 DEF TypeOK
<1> DEFINE m == plan.total - issued
           n == PermitsDue(sum)
<1>3. n = Smaller(sum \div One, m)
  BY DEF PermitsDue
<1>4. m \in Nat
  BY <1>2
<1>5. Remainder(sum) = sum - n * One
  BY DEF Remainder
<1> HIDE DEF m, n
<1>6. /\ n \in Nat
      /\ n <= m
      /\ sum - n * One \in Nat
      /\ n < m => sum - n * One < One
  BY <1>1, <1>3, <1>4, CappedPart
<1> QED
  BY <1>5, <1>6, Zenon DEF m, n

(* A round of the distributor only starts while permits are missing, and   *)
(* nothing has happened before the first.                                  *)
Progress ==
  /\ pc = "start" => /\ issued = 0
                     /\ available = 0
                     /\ acc = 0
                     /\ rounds = 0
                     /\ \A w \in Worker : worker[w] = "waiting"
  /\ pc = "sleep" => plan.ramped /\ issued < plan.total

LEMMA InitTypeOK == Init => TypeOK /\ Progress
  BY DEF Init, TypeOK, Progress, Worker

(* Types are preserved by every step. *)
LEMMA NextTypeOK ==
  TypeOK /\ Progress /\ [Next]_vars => TypeOK' /\ Progress'
<1> SUFFICES ASSUME TypeOK, Progress, [Next]_vars
             PROVE  TypeOK' /\ Progress'
  OBVIOUS
<1>0. plan.total \in Nat \ {0} /\ One \in Nat \ {0} /\ Bonus \in Nat
  BY PlanFacts
<1>1. CASE FirstRound
  <2>1. PICK sum \in Sums : /\ AddPermits(Bonus + (sum \div One))
                            /\ acc' = sum % One
    BY <1>1 DEF FirstRound
  <2>2. sum \div One \in Nat /\ sum % One \in Nat
    BY <1>0, <2>1, SumFacts, DivMod
  <2>3. issued' \in Nat /\ available' \in Nat
    BY <1>0, <2>1, <2>2 DEF AddPermits, TypeOK
  <2>4. TypeOK'
    BY <1>1, <2>1, <2>2, <2>3 DEF FirstRound, TypeOK, Worker, PlaceAfter
  <2>5. Progress'
    BY <1>1 DEF FirstRound, Progress, PlaceAfter
  <2> QED
    BY <2>4, <2>5
<1>2. CASE LaterRound
  <2>1. PICK sum \in Sums : /\ AddPermits(PermitsDue(sum))
                            /\ acc' = Remainder(sum)
    BY <1>2 DEF LaterRound
  <2>2. PermitsDue(sum) \in Nat /\ Remainder(sum) \in Nat
    BY <1>2, <2>1, DueFacts DEF LaterRound, Progress
  <2>3. issued' \in Nat /\ available' \in Nat /\ rounds' \in Nat
    BY <1>2, <2>1, <2>2 DEF LaterRound, AddPermits, TypeOK
  <2>4. TypeOK'
    BY <1>2, <2>1, <2>2, <2>3 DEF LaterRound, TypeOK, Worker, PlaceAfter
  <2>5. Progress'
    BY <1>2 DEF LaterRound, Progress, PlaceAfter
  <2> QED
    BY <2>4, <2>5
<1>3. CASE AllAtOnce
  BY <1>0, <1>3 DEF AllAtOnce, AddPermits, TypeOK, Progress, Worker
<1>4. ASSUME NEW w \in Worker, Acquire(w)
      PROVE  TypeOK' /\ Progress'
  BY <1>4 DEF Acquire, TypeOK, Progress, Worker
<1>5. ASSUME NEW w \in Worker, Exit(w)
      PROVE  TypeOK' /\ Progress'
  BY <1>5 DEF Exit, TypeOK, Progress, Worker
<1>6. CASE UNCHANGED vars
  BY <1>6 DEF vars, TypeOK, Progress, Worker
<1> QED
  BY <1>1, <1>2, <1>3, <1>4, <1>5, <1>6 DEF Next, Distribute, Terminated

(* The controller's state keeps its types, for every set of plans. *)
THEOREM TypeCorrect == Spec => []TypeOK
<1>1. TypeOK /\ Progress /\ [Next]_vars => (TypeOK /\ Progress)'
  BY NextTypeOK
<1> QED
  BY InitTypeOK, <1>1, PTL DEF Spec

-----------------------------------------------------------------------------

(* A worker that starts or stops running changes the number of permit      *)
(* holders by one.                                                         *)
LEMMA HoldersFinite ==
  ASSUME TypeOK
  PROVE  IsFiniteSet(Holders) /\ Cardinality(Holders) \in Nat
<1>1. IsFiniteSet(1 .. plan.total)
  <2>1. plan.total \in Int /\ 1 \in Int
    BY PlanFacts
  <2> QED
    BY <2>1, FS_Interval
<1>2. Holders \subseteq 1 .. plan.total
  BY DEF Holders, Worker
<1> QED
  BY <1>1, <1>2, FS_Subset, FS_CardinalityType

LEMMA AcquireHolders ==
  ASSUME TypeOK, NEW w \in Worker, Acquire(w)
  PROVE  Cardinality(Holders') = Cardinality(Holders) + 1
<1>1. w \notin Holders
  BY DEF Acquire, Holders
<1>2. Holders' = Holders \cup {w}
  BY DEF Acquire, Holders, Worker, TypeOK
<1> QED
  BY <1>1, <1>2, HoldersFinite, FS_AddElement

LEMMA ExitHolders ==
  ASSUME TypeOK, NEW w \in Worker, Exit(w)
  PROVE  Cardinality(Holders') = Cardinality(Holders) - 1
<1>1. w \in Holders
  BY DEF Exit, Holders
<1>2. Holders' = Holders \ {w}
  BY DEF Exit, Holders, Worker, TypeOK
<1> QED
  BY <1>1, <1>2, HoldersFinite, FS_RemoveElement

LEMMA SameHolders ==
  ASSUME UNCHANGED <<plan, worker>>
  PROVE  Holders' = Holders
  BY DEF Holders, Worker

-----------------------------------------------------------------------------

(* The permits and the fraction kept back amount to the ramp, up to the    *)
(* errors of the rounds, which are told from nothing only if they add up   *)
(* to 1 / den of a permit.                                                 *)
RampAccounting ==
  plan.ramped /\ pc # "start" =>
    /\ issued * One + acc <= Ramp * Fine + rounds * plan.slack
    /\ Ramp * Fine <= issued * One + acc + rounds * plan.slack
    /\ rounds * plan.slack < Fine

(* While the ramp is unfinished no whole permit is kept back. *)
NothingKeptBack == pc = "sleep" => acc < One

(* Once the distributor is done there is a permit for every worker. *)
RampComplete == pc = "done" => issued >= plan.total

(* The inductive invariant: conservation of permits, the accounting of the *)
(* ramp, and what each place of the distributor guarantees.                *)
IInv ==
  /\ TypeOK
  /\ Progress
  /\ PermitConservation
  /\ RampAccounting
  /\ NothingKeptBack
  /\ RampComplete

LEMMA InitIInv == Init => IInv
<1> SUFFICES ASSUME Init PROVE IInv
  OBVIOUS
<1>1. TypeOK /\ Progress
  BY InitTypeOK
<1>2. Holders = {}
  BY DEF Init, Holders, Worker
<1>3. PermitConservation
  BY <1>2, FS_EmptySet DEF Init, PermitConservation
<1> QED
  BY <1>1, <1>3 DEF Init, IInv, RampAccounting, NothingKeptBack, RampComplete

(* The types of all the products the accounting is made of. *)
LEMMA RampTypes ==
  ASSUME TypeOK
  PROVE  /\ Ramp \in Nat /\ Ramp * Fine \in Nat
         /\ issued * plan.den \in Nat /\ issued * One \in Nat
         /\ issued * One = (issued * plan.den) * Fine
         /\ rounds * plan.step \in Nat /\ rounds * plan.slack \in Nat
         /\ rounds * plan.step <= Ramp
<1>1. /\ plan.step \in Nat /\ plan.den \in Nat /\ plan.slack \in Nat /\ Fine \in Nat
      /\ Bonus \in Nat /\ One \in Nat /\ issued \in Nat /\ rounds \in Nat
  BY PlanFacts DEF TypeOK
<1>2. /\ rounds * plan.step \in Nat /\ Bonus * plan.den \in Nat /\ rounds * plan.slack \in Nat
      /\ issued * plan.den \in Nat /\ issued * One \in Nat
  BY <1>1
<1>3. Ramp \in Nat /\ rounds * plan.step <= Ramp
  BY <1>2 DEF Ramp
<1>4. issued * One = (issued * plan.den) * Fine
  BY <1>1 DEF One
<1> QED
  BY <1>1, <1>2, <1>3, <1>4

(* While the distributor sleeps, exact arithmetic would not have released  *)
(* more than one permit beyond those that are out.                         *)
LEMMA AtMostOneBehind ==
  ASSUME IInv, pc = "sleep"
  PROVE  /\ Ramp <= (issued + 1) * plan.den
         /\ plan.slack = 0 => Ramp < (issued + 1) * plan.den
<1> USE DEF IInv
<1>1. /\ plan.den \in Nat \ {0} /\ plan.slack \in Nat /\ Fine \in Nat \ {0}
      /\ One \in Nat /\ issued \in Nat /\ acc \in Nat /\ rounds \in Nat
  BY PlanFacts DEF TypeOK
<1> DEFINE next == (issued + 1) * plan.den
           error == rounds * plan.slack
<1>2. next \in Nat /\ error \in Nat /\ Ramp \in Nat
  BY <1>1, RampTypes
<1>3. next * Fine = issued * One + One
  <2>1. (issued + 1) * plan.den = issued * plan.den + plan.den /\ issued * plan.den \in Nat
    BY <1>1
  <2>2. (issued * plan.den + plan.den) * Fine = (issued * plan.den) * Fine + plan.den * Fine
    BY <1>1, <2>1
  <2>3. issued * One = (issued * plan.den) * Fine
    BY RampTypes
  <2> QED
    BY <2>1, <2>2, <2>3 DEF One
<1>4. Ramp * Fine < next * Fine + error
  <2>1. Ramp * Fine <= issued * One + acc + error /\ acc < One
    BY DEF Progress, RampAccounting, NothingKeptBack
  <2>2. Ramp * Fine \in Nat /\ issued * One \in Nat
    BY RampTypes
  <2> HIDE DEF next, error
  <2> QED
    BY <1>1, <1>2, <1>3, <2>1, <2>2
<1>5. error < Fine
  BY DEF Progress, RampAccounting
<1>6. plan.slack = 0 => error = 0
  BY <1>1
<1> HIDE DEF next, error
<1>7. Ramp * Fine <= next * Fine + error
  <2>1. Ramp * Fine \in Nat /\ next * Fine \in Nat
    BY <1>1, <1>2
  <2> QED
    BY <1>2, <1>4, <2>1
<1>8. Ramp <= next
  BY <1>1, <1>2, <1>5, <1>7, Resolved
<1>9. plan.slack = 0 => Ramp < next
  <2> SUFFICES ASSUME plan.slack = 0 PROVE Ramp # next
    BY <1>2, <1>8
  <2>1. SUFFICES ASSUME Ramp = next PROVE FALSE
    OBVIOUS
  <2>2. next * Fine < next * Fine + 0
    BY <1>4, <1>6, <2>1
  <2> QED
    BY <1>1, <1>2, <2>2
<1> QED
  BY <1>8, <1>9, Zenon DEF next

(* So the ramp has so few rounds that one more cannot spoil it. *)
LEMMA ErrorStaysSmall ==
  ASSUME IInv, pc = "sleep"
  PROVE  (rounds + 1) * plan.slack < Fine
<1> USE DEF IInv
<1>1. /\ plan.total \in Nat /\ plan.step \in Nat /\ plan.den \in Nat /\ plan.slack \in Nat
      /\ Fine \in Nat \ {0} /\ issued \in Nat /\ rounds \in Nat /\ plan \in Plans
      /\ plan.ramped /\ issued + 1 <= plan.total
  BY PlanFacts DEF TypeOK, Progress
<1>2. CASE plan.slack = 0
  BY <1>1, <1>2
<1>3. CASE plan.slack # 0
  <2>1. plan.step >= 1 /\ (plan.total * plan.den + 1) * plan.slack < Fine
    BY <1>1, <1>3, PlanAssumption
  <2>2. (issued + 1) * plan.den <= plan.total * plan.den
    BY <1>1
  <2>3. rounds <= rounds * plan.step
    BY <1>1, <2>1
  <2>4. rounds <= plan.total * plan.den
    <3>1. /\ rounds * plan.step \in Nat /\ rounds * plan.step <= Ramp /\ Ramp \in Nat
          /\ Ramp <= (issued + 1) * plan.den
      BY RampTypes, AtMostOneBehind
    <3>2. (issued + 1) * plan.den \in Nat /\ plan.total * plan.den \in Nat
      BY <1>1
    <3> QED
      BY <1>1, <2>2, <2>3, <3>1, <3>2
  <2>5. (rounds + 1) * plan.slack <= (plan.total * plan.den + 1) * plan.slack
    BY <1>1, <2>4
  <2> QED
    BY <1>1, <2>1, <2>5
<1> QED
  BY <1>2, <1>3

(* The first round: the whole part of one step, and the bonus permit. *)
LEMMA FirstRoundIInv == IInv /\ FirstRound => IInv'
<1> SUFFICES ASSUME IInv, FirstRound PROVE IInv'
  OBVIOUS
<1> USE DEF IInv
<1>1. TypeOK' /\ Progress'
  BY NextTypeOK DEF Next, Distribute
<1>2. /\ plan.total \in Nat \ {0} /\ plan.step \in Nat /\ plan.den \in Nat \ {0}
      /\ plan.slack \in Nat /\ Fine \in Nat \ {0} /\ One \in Nat \ {0}
      /\ Bonus \in Nat /\ Bonus' = Bonus /\ One' = One
      /\ plan' = plan /\ plan.ramped /\ plan \in Plans
  BY PlanFacts DEF FirstRound, Bonus, One, TypeOK
<1>3. PICK sum \in Sums : /\ AddPermits(Bonus + (sum \div One))
                          /\ acc' = sum % One
  BY DEF FirstRound
<1>4. issued = 0 /\ available = 0 /\ acc = 0 /\ rounds = 0
  BY DEF FirstRound, Progress
<1>5. /\ sum \in Nat
      /\ sum <= plan.step * Fine + plan.slack /\ plan.step * Fine <= sum + plan.slack
  <2>1. plan.step * Fine \in Nat
    BY <1>2
  <2> QED
    BY <1>2, <1>4, <2>1, SumFacts
<1> DEFINE q == sum \div One
           r == sum % One
<1>6. q \in Nat /\ r \in Nat /\ r < One /\ sum = q * One + r
  BY <1>2, <1>5, DivMod
<1>7. issued' = Bonus + q /\ acc' = r /\ rounds' = 1 /\ available' = issued'
  BY <1>2, <1>3, <1>4, <1>6 DEF FirstRound, AddPermits
<1> HIDE DEF q, r
<1>8. PermitConservation'
  <2>1. Cardinality(Holders') = Cardinality(Holders)
    BY SameHolders DEF FirstRound
  <2>2. Cardinality(Holders) = 0
    BY <1>4, HoldersFinite DEF PermitConservation
  <2> QED
    BY <1>2, <1>6, <1>7, <2>1, <2>2 DEF PermitConservation
<1>9. RampAccounting'
  <2>1. Ramp' = plan.step + Bonus * plan.den
    BY <1>2, <1>7 DEF Ramp
  <2>2. Ramp' * Fine = plan.step * Fine + Bonus * One
    BY <1>2, <2>1 DEF One
  <2>3. issued' * One + acc' = sum + Bonus * One
    BY <1>2, <1>6, <1>7
  <2>4. rounds' * plan.slack = plan.slack
    BY <1>2, <1>7
  <2>5. plan.slack < Fine
    <3>1. (plan.total * plan.den + 1) * plan.slack < Fine
      BY <1>2, PlanAssumption
    <3>2. plan.total * plan.den \in Nat
      BY <1>2
    <3>3. plan.slack <= (plan.total * plan.den + 1) * plan.slack
      BY <1>2, <3>2
    <3> QED
      BY <1>2, <3>1, <3>2, <3>3
  <2>6. plan.step * Fine \in Nat /\ Bonus * One \in Nat
    BY <1>2
  <2>7. /\ issued' * One + acc' <= Ramp' * Fine + rounds' * plan.slack
        /\ Ramp' * Fine <= issued' * One + acc' + rounds' * plan.slack
    BY <1>2, <1>5, <2>2, <2>3, <2>4, <2>6
  <2> QED
    BY <1>2, <2>4, <2>5, <2>7 DEF RampAccounting
<1>10. NothingKeptBack'
  BY <1>2, <1>6, <1>7 DEF NothingKeptBack
<1>11. RampComplete'
  BY <1>2, <1>6, <1>7 DEF FirstRound, RampComplete, PlaceAfter
<1> QED
  BY <1>1, <1>8, <1>9, <1>10, <1>11

(* A later round: what it adds to the semaphore leaves the accumulator. *)
LEMMA LaterRoundIInv == IInv /\ LaterRound => IInv'
<1> SUFFICES ASSUME IInv, LaterRound PROVE IInv'
  OBVIOUS
<1> USE DEF IInv
<1>1. TypeOK' /\ Progress'
  BY NextTypeOK DEF Next, Distribute
<1>2. /\ plan.total \in Nat \ {0} /\ plan.step \in Nat /\ plan.den \in Nat \ {0}
      /\ plan.slack \in Nat /\ Fine \in Nat \ {0} /\ One \in Nat \ {0}
      /\ Bonus \in Nat /\ Bonus' = Bonus /\ One' = One
      /\ plan' = plan /\ plan.ramped /\ pc = "sleep"
      /\ acc \in Nat /\ rounds \in Nat /\ issued \in Nat /\ available \in Nat
  BY PlanFacts DEF LaterRound, Bonus, One, Progress, TypeOK
<1>3. PICK sum \in Sums : /\ AddPermits(PermitsDue(sum))
                          /\ acc' = Remainder(sum)
  BY DEF LaterRound
<1> DEFINE n == PermitsDue(sum)
<1>4. /\ n \in Nat
      /\ n <= plan.total - issued
      /\ Remainder(sum) \in Nat
      /\ n < plan.total - issued => Remainder(sum) < One
  BY DueFacts DEF LaterRound, Progress
<1>5. /\ issued' = issued + n
      /\ available' = available + n
      /\ acc' = sum - n * One
      /\ rounds' = rounds + 1
  BY <1>3 DEF LaterRound, AddPermits, Remainder
<1>6. /\ sum \in Nat
      /\ sum <= acc + plan.step * Fine + plan.slack
      /\ acc + plan.step * Fine <= sum + plan.slack
  BY SumFacts
<1>7. acc' = Remainder(sum)
  BY <1>3
<1> HIDE DEF n
<1>8. PermitConservation'
  <2>1. Cardinality(Holders') = Cardinality(Holders)
    BY SameHolders DEF LaterRound
  <2>2. available + Cardinality(Holders) = issued /\ Cardinality(Holders) \in Nat
    BY HoldersFinite DEF PermitConservation
  <2>3. issued' = issued + n /\ available' = available + n
    BY <1>5
  <2> QED
    BY <1>2, <1>4, <2>1, <2>2, <2>3 DEF PermitConservation
<1>9. RampAccounting'
  <2>1. /\ issued * One + acc <= Ramp * Fine + rounds * plan.slack
        /\ Ramp * Fine <= issued * One + acc + rounds * plan.slack
    BY <1>2 DEF RampAccounting
  <2>2. issued' * One + acc' = issued * One + sum
    BY <1>2, <1>4, <1>5, <1>6
  <2>3. Ramp' = Ramp + plan.step
    <3>1. (rounds + 1) * plan.step = rounds * plan.step + plan.step
      <4>1. rounds \in Nat /\ plan.step \in Nat
        BY <1>2
      <4> QED
        BY <4>1, OneMoreTime
    <3>2. rounds * plan.step \in Nat /\ Bonus * plan.den \in Nat
      BY <1>2
    <3>3. Ramp' = (rounds + 1) * plan.step + Bonus * plan.den
      BY <1>2, <1>5 DEF Ramp
    <3> QED
      BY <1>2, <3>1, <3>2, <3>3 DEF Ramp
  <2>4. Ramp' * Fine = Ramp * Fine + plan.step * Fine
    BY <1>2, <2>3, RampTypes
  <2>5. rounds' * plan.slack = rounds * plan.slack + plan.slack
    BY <1>2, <1>5
  <2>6. /\ issued * One \in Nat /\ Ramp * Fine \in Nat /\ rounds * plan.slack \in Nat
        /\ plan.step * Fine \in Nat
    BY <1>2, RampTypes
  <2>7. /\ issued' * One + acc' <= Ramp' * Fine + rounds' * plan.slack
        /\ Ramp' * Fine <= issued' * One + acc' + rounds' * plan.slack
    BY <1>2, <1>6, <2>1, <2>2, <2>4, <2>5, <2>6
  <2>8. rounds' * plan.slack < Fine
    BY <1>2, <1>5, ErrorStaysSmall
  <2> QED
    BY <1>2, <2>7, <2>8 DEF RampAccounting
<1>10. NothingKeptBack'
  BY <1>2, <1>4, <1>5, <1>7 DEF LaterRound, NothingKeptBack, PlaceAfter
<1>11. RampComplete'
  BY <1>2, <1>4, <1>5 DEF LaterRound, RampComplete, PlaceAfter
<1> QED
  BY <1>1, <1>8, <1>9, <1>10, <1>11

(* A worker that takes or drops a permit leaves the ramp alone. *)
LEMMA WorkerKeepsRamp ==
  ASSUME IInv, UNCHANGED <<plan, pc, acc, rounds, issued>>
  PROVE  RampAccounting' /\ NothingKeptBack' /\ RampComplete'
BY DEF IInv, RampAccounting, NothingKeptBack, RampComplete, Ramp, Bonus, One

LEMMA NextIInv == IInv /\ [Next]_vars => IInv'
<1> SUFFICES ASSUME IInv, [Next]_vars PROVE IInv'
  OBVIOUS
<1>1. TypeOK' /\ Progress'
  BY NextTypeOK DEF IInv
<1>2. CASE FirstRound
  BY <1>2, FirstRoundIInv
<1>3. CASE LaterRound
  BY <1>3, LaterRoundIInv
<1>4. CASE AllAtOnce
  <2>1. Cardinality(Holders') = Cardinality(Holders)
    BY <1>4, SameHolders DEF AllAtOnce
  <2>2. PermitConservation'
    BY <1>4, <2>1, HoldersFinite, PlanFacts
       DEF IInv, AllAtOnce, AddPermits, PermitConservation, TypeOK
  <2>3. RampAccounting' /\ NothingKeptBack' /\ RampComplete'
    BY <1>4, PlanFacts DEF IInv, AllAtOnce, AddPermits, TypeOK, Progress,
                           RampAccounting, NothingKeptBack, RampComplete
  <2> QED
    BY <1>1, <2>2, <2>3 DEF IInv
<1>5. ASSUME NEW w \in Worker, Acquire(w)
      PROVE  IInv'
  <2>1. PermitConservation'
    <3>1. /\ Cardinality(Holders) \in Nat
          /\ Cardinality(Holders') = Cardinality(Holders) + 1
      BY <1>5, AcquireHolders, HoldersFinite DEF IInv
    <3>2. available + Cardinality(Holders) = issued /\ available \in Nat
      BY DEF IInv, PermitConservation, TypeOK
    <3> QED
      BY <1>5, <3>1, <3>2 DEF Acquire, PermitConservation
  <2>2. RampAccounting' /\ NothingKeptBack' /\ RampComplete'
    BY <1>5, WorkerKeepsRamp DEF Acquire
  <2> QED
    BY <1>1, <2>1, <2>2 DEF IInv
<1>6. ASSUME NEW w \in Worker, Exit(w)
      PROVE  IInv'
  <2>1. PermitConservation'
    <3>1. /\ Cardinality(Holders) \in Nat
          /\ Cardinality(Holders') = Cardinality(Holders) - 1
      BY <1>6, ExitHolders, HoldersFinite DEF IInv
    <3>2. available + Cardinality(Holders) = issued /\ available \in Nat
      BY DEF IInv, PermitConservation, TypeOK
    <3> QED
      BY <1>6, <3>1, <3>2 DEF Exit, PermitConservation
  <2>2. RampAccounting' /\ NothingKeptBack' /\ RampComplete'
    BY <1>6, WorkerKeepsRamp DEF Exit
  <2> QED
    BY <1>1, <2>1, <2>2 DEF IInv
<1>7. CASE UNCHANGED vars
  <2>1. Holders' = Holders
    BY <1>7, SameHolders DEF vars
  <2>2. RampAccounting' /\ NothingKeptBack' /\ RampComplete'
    BY <1>7, WorkerKeepsRamp DEF vars
  <2> QED
    BY <1>1, <1>7, <2>1, <2>2 DEF IInv, vars, PermitConservation
<1> QED
  BY <1>2, <1>3, <1>4, <1>5, <1>6, <1>7 DEF Next, Distribute, Terminated

(* The permits are within what exact arithmetic would have released. *)
LEMMA IssuedWithinRamp ==
  ASSUME IInv, plan.ramped
  PROVE  issued * plan.den <= Ramp
<1> USE DEF IInv
<1>1. CASE pc = "start"
  <2>1. issued = 0 /\ plan.den \in Nat
    BY <1>1, PlanFacts DEF Progress
  <2> QED
    BY <2>1, RampTypes
<1>2. CASE pc # "start"
  <2>1. /\ issued * One + acc <= Ramp * Fine + rounds * plan.slack
        /\ rounds * plan.slack < Fine
    BY <1>2 DEF RampAccounting
  <2>2. /\ acc \in Nat /\ Fine \in Nat \ {0} /\ Ramp \in Nat /\ Ramp * Fine \in Nat
        /\ issued * One \in Nat /\ rounds * plan.slack \in Nat /\ issued * plan.den \in Nat
        /\ issued * One = (issued * plan.den) * Fine
    BY RampTypes, PlanFacts DEF TypeOK
  <2>3. (issued * plan.den) * Fine <= Ramp * Fine + rounds * plan.slack
    <3>1. issued * One <= Ramp * Fine + rounds * plan.slack
      BY <2>1, <2>2
    <3> QED
      BY <2>2, <3>1
  <2> DEFINE a == issued * plan.den
             e == rounds * plan.slack
  <2>4. a \in Int /\ e \in Nat /\ e < Fine /\ a * Fine <= Ramp * Fine + e /\ Ramp \in Int
    BY <2>1, <2>2, <2>3
  <2> HIDE DEF a, e
  <2>5. a <= Ramp
    BY <2>2, <2>4, Resolved
  <2> QED
    BY <2>5 DEF a
<1> QED
  BY <1>1, <1>2

(* What the accounting says about the load: the workers that run are paid  *)
(* for by the rounds done so far.                                          *)
LEMMA IInvNeverAhead == IInv => NeverAheadOfRamp
<1> SUFFICES ASSUME IInv, plan.ramped
             PROVE  Cardinality(Holders) * plan.den <= Ramp
  BY DEF NeverAheadOfRamp
<1>1. /\ plan.den \in Nat \ {0} /\ issued \in Nat /\ available \in Nat
      /\ available + Cardinality(Holders) = issued
  BY PlanFacts DEF IInv, TypeOK, PermitConservation
<1>2. Cardinality(Holders) \in Nat /\ Cardinality(Holders) <= issued
  BY <1>1, HoldersFinite DEF IInv
<1>3. Cardinality(Holders) * plan.den <= issued * plan.den
  BY <1>1, <1>2
<1>4. issued * plan.den <= Ramp /\ Ramp \in Nat
  BY IssuedWithinRamp, RampTypes DEF IInv
<1>5. Cardinality(Holders) * plan.den \in Nat /\ issued * plan.den \in Nat
  BY <1>1, <1>2
<1> QED
  BY <1>3, <1>4, <1>5

LEMMA IInvFaithful == IInv => RampFaithful
BY IssuedWithinRamp, AtMostOneBehind DEF RampFaithful, IInv, RampComplete

LEMMA InvariantIInv == Spec => []IInv
  BY InitIInv, NextIInv, PTL DEF Spec

(* Permits are conserved whatever workers do. *)
THEOREM PermitsConserved == Spec => []PermitConservation
<1>1. IInv => PermitConservation
  BY DEF IInv
<1> QED
  BY <1>1, InvariantIInv, PTL

(* The permits follow the ramp for every step and weight, whichever way    *)
(* f64 rounds the step and its sums.                                       *)
THEOREM RampFollowed == Spec => []RampFaithful
  BY IInvFaithful, InvariantIInv, PTL

(* The running load never exceeds the ramp. *)
THEOREM LoadWithinRamp == Spec => []NeverAheadOfRamp
  BY IInvNeverAhead, InvariantIInv, PTL
=============================================================================
