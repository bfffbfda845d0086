---------------------- MODULE MCConcurrencyController ----------------------
(* Small endpoint plans: every ramp that batch() accepts among short tests *)
(* of one endpoint or of two endpoints with all small weights.  Thirds are *)
(* the shares that f64 rounds.                                             *)
EXTENDS ConcurrencyController, EndpointPlan

MaxConcurrent == 6
MaxIncrease   == 3
MaxSteps      == 2
Weights       == {<<1, 1>>, <<0, 1>>, <<1, 2>>, <<1, 3>>, <<2, 3>>}

MCPlans ==
  { PlanOf(FALSE, 1, c, w[1], w[2]) : c \in 1 .. MaxConcurrent, w \in Weights }
  \cup
  { PlanOf(TRUE, inc, c, w[1], w[2]) :
      <<n, inc, c, w>> \in
        { x \in (1 .. MaxSteps) \X (1 .. MaxIncrease)
                  \X (1 .. MaxConcurrent) \X Weights :
            RampAccepted(x[1], 1, x[2], x[3]) } }
=============================================================================
