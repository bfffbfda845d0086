------------------------------ MODULE RateFigures ------------------------------
(***************************************************************************)
(* What becomes of the rates of ResultStream: the collector smooths each   *)
(* and keeps the last of them in a window (share_result.rs,                *)
(* fixed_size_queue.rs, exponential_moving_average.rs), the summary        *)
(* averages what it finds there (batch.rs).                                *)
(*                                                                         *)
(* Abstracted: the counters a rate is computed from, see ResultStream; a   *)
(* mean is kept as the pair of its sum and its length.                     *)
(***************************************************************************)
EXTENDS Integers, Sequences, SequencesExt

CONSTANTS
  QueueCap,  \* queue_cap, see RpsWindow in EndpointPlan
  EmaOn,     \* ema_alpha > 0 ...
  Num, Den,  \* ... and ema_alpha = Num / Den
  Rates,     \* bound of the model: the rates there may be
  MaxTicks   \* bound of the model: live reports

VARIABLES
  ema,        \* the moving average the collector holds
  window,     \* rps_queue
  apiWindow,  \* api_rps_queue_map of one endpoint, the collector's own
  apiShared,  \* the same in api_rps_queue_arc, which the summary reads
  rates,      \* history: the rates of the test ...
  reported,   \* ... and what the live reports show of them
  final       \* the summary's rps of the test and of the endpoint, if there is one

rateVars == <<ema, window, apiWindow, apiShared, rates, reported, final>>

RateInit ==
  /\ ema = [value |-> 0, initialized |-> FALSE]
  /\ window = <<>> /\ apiWindow = <<>> /\ apiShared = <<>>
  /\ rates = <<>> /\ reported = <<>>
  /\ final = <<>>

-----------------------------------------------------------------------------
(* FixedSizeQueue: an item falls out when the queue is exactly full. *)
Pushed(queue, item) ==
  Append(IF Len(queue) = QueueCap /\ queue # <<>> THEN Tail(queue) ELSE queue, item)

(* An empty queue has no average, and batch() takes 0 for it. *)
Mean(queue) == IF queue = <<>> THEN <<0, 1>> ELSE <<SumFunction(queue), Len(queue)>>

(* alpha * value + (1 - alpha) * average *)
Weighed(value, average) == (Num * value + (Den - Num) * average) \div Den

(* ExponentialMovingAverage: the first value is taken as it is. *)
Added(average, value) ==
  [ initialized |-> TRUE,
    value |-> IF average.initialized THEN Weighed(value, average.value) ELSE value ]

(* The collector adds to a clone of its average, which it then drops. *)
Smoothed(rate) == IF EmaOn THEN Added(ema, rate).value ELSE rate

-----------------------------------------------------------------------------
(* A pass of collect_results(), with the rate of the test and that of the  *)
(* endpoint.  The summary may have been made before.                       *)
Tick(rate, apiRate) ==
  /\ Len(rates) < MaxTicks
  /\ rates' = Append(rates, rate)
  /\ reported' = Append(reported, Smoothed(rate))
  /\ window' = Pushed(window, Smoothed(rate))
  /\ apiWindow' = Pushed(apiWindow, apiRate)
  /\ UNCHANGED <<ema, apiShared, final>>

(* The summary: the mean of the window; for the endpoint the mean of its   *)
(* window in the shared map, if that is positive, else overTest, the rate  *)
(* over the whole test.                                                    *)
Finish(overTest) ==
  /\ final = <<>>
  /\ final' = <<Mean(window),
                IF Mean(apiShared)[1] > 0 THEN Mean(apiShared) ELSE <<overTest, 1>>>>
  /\ UNCHANGED <<ema, window, apiWindow, apiShared, rates, reported>>

RateTerminated == final # <<>> /\ UNCHANGED rateVars

RateNext ==
  \/ \E rate \in Rates : \E apiRate \in {r \in Rates : r <= rate} : Tick(rate, apiRate)
  \/ \E overTest \in Rates : Finish(overTest)
  \/ RateTerminated

RateSpec == RateInit /\ [][RateNext]_rateVars

-----------------------------------------------------------------------------
(* With ema_alpha the curve of the live reports is smoothed: each rps is   *)
(* the moving average of the rates so far ("指数滑动平均参数 ... 值越大曲线越平滑",   *)
(* __init__.pyi:163).  The code shows the bare rates (share_result.rs:224).*)
CurveSmoothed ==
  EmaOn => \A i \in DOMAIN reported :
    reported[i] = IF i = 1 THEN rates[1] ELSE Weighed(rates[i], reported[i - 1])
=============================================================================
