-------------------------- MODULE ResultStream_proof --------------------------
(***************************************************************************)
(* Proofs about the stream of results of one load test, for any number of  *)
(* requests, engine errors and reports, any capacity of the channel, and   *)
(* whatever the consumer does.                                             *)
(***************************************************************************)
EXTENDS ResultStream, SequenceTheorems, TLAPS

-----------------------------------------------------------------------------
(* Differences of counters *)

LEMMA MinusType ==
  ASSUME NEW a \in Int, NEW b \in Int
  PROVE  Minus(a, b) \in 0 .. Word - 1
BY StreamAssumption DEF Minus

LEMMA ModuloType == ASSUME NEW a \in Int PROVE a % Word \in 0 .. Word - 1
BY StreamAssumption

(* Below Word a difference is the difference, if it is one of a larger     *)
(* number and a smaller, and a sum is the sum.                             *)
LEMMA ModuloSmall == ASSUME NEW a \in Nat, a < Word PROVE a % Word = a
BY StreamAssumption

LEMMA MinusSmall ==
  ASSUME NEW a \in Nat, NEW b \in Nat, b <= a, a < Word
  PROVE  Minus(a, b) = a - b
<1>1. a - b \in Nat /\ a - b < Word
  BY StreamAssumption
<1> QED
  BY <1>1, ModuloSmall DEF Minus

-----------------------------------------------------------------------------
(* How the stream moves *)

(* A report of any kind is sent. *)
Grown(m) ==
  /\ Stream' \in Seq(Report) /\ Len(Stream) \in Nat
  /\ Len(Stream') = Len(Stream) + 1
  /\ Stream'[Len(Stream) + 1] = m
  /\ \A i \in 1 .. Len(Stream) : Stream'[i] = Stream[i]

LEMMA SendGrows ==
  ASSUME channel \in Seq(Report), received \in Seq(Report), NEW m \in Report,
         Send(m), CanSend, UNCHANGED received, Len(channel) <= ChannelCap
  PROVE  /\ channel' \in Seq(Report) /\ Len(channel') <= ChannelCap
         /\ consumer = "dropped" => Stream' = Stream
         /\ consumer # "dropped" => Grown(m)
<1>1. CASE consumer = "dropped"
  BY <1>1 DEF Send, Stream
<1>2. CASE consumer # "dropped"
  <2>1. channel' = Append(channel, m) /\ Len(channel) < ChannelCap
    BY <1>2 DEF Send, CanSend
  <2>2. /\ channel' \in Seq(Report) /\ Len(channel') = Len(channel) + 1
        /\ Len(channel) \in Nat
        /\ channel'[Len(channel) + 1] = m
        /\ \A i \in 1 .. Len(channel) : channel'[i] = channel[i]
    BY <2>1
  <2>3. Len(channel') <= ChannelCap
    BY <2>1, <2>2, StreamAssumption
  <2>4. Stream = received \o channel /\ Stream' = received \o channel'
    BY DEF Stream
  <2>5. /\ Stream \in Seq(Report) /\ Len(received) \in Nat
        /\ Len(Stream) = Len(received) + Len(channel)
        /\ \A i \in 1 .. Len(Stream) : Stream[i] =
              IF i <= Len(received) THEN received[i] ELSE channel[i - Len(received)]
    BY <2>4, ConcatProperties
  <2>8. /\ Stream' \in Seq(Report)
        /\ Len(Stream') = Len(received) + Len(channel')
        /\ \A i \in 1 .. Len(Stream') : Stream'[i] =
              IF i <= Len(received) THEN received[i] ELSE channel'[i - Len(received)]
    <3>1. channel' \in Seq(Report)
      BY <2>2
    <3>2. /\ received \o channel' \in Seq(Report)
          /\ Len(received \o channel') = Len(received) + Len(channel')
          /\ \A i \in 1 .. Len(received) + Len(channel') : (received \o channel')[i] =
                IF i <= Len(received) THEN received[i] ELSE channel'[i - Len(received)]
      BY <3>1, ConcatProperties
    <3> QED
      BY <3>2, <2>4
  <2>6. /\ Len(Stream) \in Nat /\ Len(Stream') = Len(Stream) + 1
        /\ Stream'[Len(Stream) + 1] = m
    <3>1. Len(Stream) \in Nat /\ Len(Stream') = Len(Stream) + 1
      BY <2>2, <2>5, <2>8
    <3>2. /\ Len(Stream) + 1 \in 1 .. Len(Stream')
          /\ ~(Len(Stream) + 1 <= Len(received))
          /\ Len(Stream) + 1 - Len(received) = Len(channel) + 1
      BY <3>1, <2>2, <2>5
    <3> QED
      BY <3>1, <3>2, <2>2, <2>8
  <2>7. \A i \in 1 .. Len(Stream) : Stream'[i] = Stream[i]
    <3> SUFFICES ASSUME NEW i \in 1 .. Len(Stream) PROVE Stream'[i] = Stream[i]
      OBVIOUS
    <3>1. i \in 1 .. Len(Stream')
      BY <2>5, <2>6
    <3>2. CASE i <= Len(received)
      BY <3>1, <3>2, <2>5, <2>8
    <3>3. CASE ~(i <= Len(received))
      <4>1. i - Len(received) \in 1 .. Len(channel)
        BY <3>3, <2>2, <2>5
      <4> QED
        BY <4>1, <3>1, <3>3, <2>2, <2>5, <2>8
    <3> QED
      BY <3>2, <3>3
  <2> QED
    BY <1>2, <2>2, <2>3, <2>6, <2>7, <2>8 DEF Grown
<1> QED
  BY <1>1, <1>2

LEMMA ReceiveMoves ==
  ASSUME channel \in Seq(Report), received \in Seq(Report), channel # << >>,
         received' = Append(received, Head(channel)), channel' = Tail(channel)
  PROVE  /\ channel' \in Seq(Report) /\ received' \in Seq(Report)
         /\ Len(channel') <= Len(channel)
         /\ Stream' = Stream
<1>1. /\ channel' \in Seq(Report) /\ received' \in Seq(Report)
      /\ Len(channel') = Len(channel) - 1 /\ Len(channel) \in Nat
      /\ Len(received') = Len(received) + 1 /\ Len(received) \in Nat
  OBVIOUS
<1>2. Stream = received \o channel /\ Stream' = received' \o channel'
  BY DEF Stream
<1>3. Stream \in Seq(Report) /\ Stream' \in Seq(Report) /\ Len(Stream') = Len(Stream)
  BY <1>1, <1>2
<1>4. \A i \in 1 .. Len(Stream) : Stream'[i] = Stream[i]
  <2> SUFFICES ASSUME NEW i \in 1 .. Len(Stream) PROVE Stream'[i] = Stream[i]
    OBVIOUS
  <2>1. CASE i <= Len(received)
    BY <2>1, <1>1, <1>2
  <2>2. CASE i = Len(received) + 1
    BY <2>2, <1>1, <1>2
  <2>3. CASE i > Len(received) + 1
    BY <2>3, <1>1, <1>2
  <2> QED
    BY <2>1, <2>2, <2>3, <1>1
<1> QED
  BY <1>1, <1>3, <1>4, SeqEqual

-----------------------------------------------------------------------------
(* Types *)

LEMMA ReportFields ==
  ASSUME NEW r \in Report
  PROVE  /\ r.total \in Nat /\ r.err \in Nat /\ r.eps \in Nat /\ r.rest \subseteq Nat
         /\ r.api \in Nat /\ r.apiRps \in Nat /\ r.rps \in Nat
         /\ r.kind \in {"tick", "final", "failed", "end"}
BY StreamAssumption DEF Report

LEMMA EmptyTyped == Empty \in Report
<1>1. 0 \in 0 .. Word - 1
  BY StreamAssumption
<1> QED
  BY <1>1 DEF Empty, Report

LEMMA EmptyFields ==
  /\ Empty.kind = "tick" /\ Empty.total = 0 /\ Empty.err = 0 /\ Empty.eps = 0
  /\ Empty.api = 0
  /\ Empty.rest = {}
BY DEF Empty

(* The three results of batch() and of the task around it. *)
LEMMA SummaryFields ==
  ASSUME requestsFinal \in Nat, badFinal \in Nat, epsFinal \in 0 .. Word - 1,
         restFinal \in SUBSET Nat
  PROVE  /\ Summary \in Report
         /\ Summary.kind = "final" /\ Summary.total = requestsFinal
         /\ Summary.err = badFinal /\ Summary.eps = epsFinal /\ Summary.rest = restFinal
<1>1. \A r \in Report :
        LET m == [r EXCEPT !.kind = "final", !.total = requestsFinal, !.err = badFinal,
                           !.eps = epsFinal, !.rest = restFinal]
        IN  /\ m \in Report
            /\ m.kind = "final" /\ m.total = requestsFinal /\ m.err = badFinal
            /\ m.eps = epsFinal /\ m.rest = restFinal
  BY DEF Report
<1> QED
  BY <1>1, EmptyTyped DEF Summary

LEMMA MarkFields ==
  /\ ErrorResult \in Report /\ EndMark \in Report
  /\ ErrorResult.kind = "failed" /\ EndMark.kind = "end"
  /\ ErrorResult.eps = 0 /\ EndMark.eps = 0
<1>1. \A r \in Report : \A k \in {"failed", "end"} :
        LET m == [r EXCEPT !.kind = k]
        IN  m \in Report /\ m.kind = k /\ m.eps = r.eps
  BY DEF Report
<1> QED
  BY <1>1, EmptyTyped, EmptyFields DEF ErrorResult, EndMark

(* The live report, step by step. *)
LEMMA TickDraft ==
  ASSUME bad \in Nat, draft' = [Empty EXCEPT !.err = bad]
  PROVE  /\ draft' \in Report
         /\ draft'.kind = "tick" /\ draft'.total = 0 /\ draft'.err = bad
         /\ draft'.eps = 0 /\ draft'.rest = {}
<1>1. \A r \in Report :
        LET m == [r EXCEPT !.err = bad]
        IN  /\ m \in Report /\ m.err = bad
            /\ m.kind = r.kind /\ m.total = r.total /\ m.eps = r.eps /\ m.rest = r.rest
  BY DEF Report
<1> QED
  BY <1>1, EmptyTyped, EmptyFields

LEMMA TotalDraft ==
  ASSUME draft \in Report, requests \in Nat, draft' = [draft EXCEPT !.total = requests]
  PROVE  /\ draft' \in Report
         /\ draft'.total = requests
         /\ draft'.kind = draft.kind /\ draft'.err = draft.err /\ draft'.eps = draft.eps
         /\ draft'.rest = draft.rest /\ draft'.late = draft.late
BY DEF Report

LEMMA EndpointDraft ==
  ASSUME draft \in Report, api \in Nat, NEW a \in 0 .. Word - 1,
         draft' = [draft EXCEPT !.api = api, !.apiRps = a]
  PROVE  /\ draft' \in Report
         /\ draft'.api = api /\ draft'.apiRps = a
         /\ draft'.kind = draft.kind /\ draft'.err = draft.err /\ draft'.eps = draft.eps
         /\ draft'.rest = draft.rest /\ draft'.late = draft.late
         /\ draft'.total = draft.total
BY DEF Report

LEMMA RestDraft ==
  ASSUME draft \in Report, engine \in SUBSET Nat, draft' = [draft EXCEPT !.rest = engine]
  PROVE  /\ draft' \in Report
         /\ draft'.rest = engine
         /\ draft'.kind = draft.kind /\ draft'.err = draft.err /\ draft'.eps = draft.eps
         /\ draft'.total = draft.total /\ draft'.late = draft.late
         /\ draft'.api = draft.api /\ draft'.apiRps = draft.apiRps
         /\ draft'.rps = draft.rps /\ draft'.rpsLate = draft.rpsLate
BY DEF Report

LEMMA RatesDraft ==
  ASSUME draft \in Report, NEW e \in 0 .. Word - 1, NEW l \in BOOLEAN,
         draft' = [draft EXCEPT !.eps = e, !.late = l]
  PROVE  /\ draft' \in Report
         /\ draft'.eps = e
         /\ draft'.late = l
         /\ draft'.kind = draft.kind /\ draft'.err = draft.err /\ draft'.rest = draft.rest
         /\ draft'.total = draft.total
         /\ draft'.api = draft.api /\ draft'.apiRps = draft.apiRps
BY DEF Report

LEMMA RequestsDraft ==
  ASSUME draft \in Report, NEW e \in 0 .. Word - 1, NEW l \in BOOLEAN,
         draft' = [draft EXCEPT !.rps = e, !.rpsLate = l]
  PROVE  /\ draft' \in Report
         /\ draft'.rps = e /\ draft'.rpsLate = l
         /\ draft'.kind = draft.kind /\ draft'.err = draft.err /\ draft'.rest = draft.rest
         /\ draft'.total = draft.total /\ draft'.eps = draft.eps /\ draft'.late = draft.late
         /\ draft'.api = draft.api /\ draft'.apiRps = draft.apiRps
BY DEF Report

-----------------------------------------------------------------------------
(* Where the kinds of results stand *)

Ends     == Positions({"end"})
Outcomes == Positions(Results)
Finals   == Positions({"final"})
Ticks    == Positions({"tick"})
Shown    == Positions({"tick", "final"})
Told     == UNION {Stream[i].rest : i \in DOMAIN Stream}

Keeps ==
  /\ Stream' = Stream
  /\ Ends' = Ends /\ Outcomes' = Outcomes /\ Finals' = Finals
  /\ Ticks' = Ticks /\ Shown' = Shown
  /\ Told' = Told

With(set, n, yes) == {i \in set \cup {n} : i \in set \/ yes}

Adds(m, n) ==
  /\ n \in Nat
  /\ Ends \subseteq 1 .. n - 1 /\ Outcomes \subseteq 1 .. n - 1
  /\ Finals \subseteq 1 .. n - 1 /\ Shown \subseteq 1 .. n - 1 /\ Ticks \subseteq 1 .. n - 1
  /\ Ends' = With(Ends, n, m.kind = "end")
  /\ Outcomes' = With(Outcomes, n, m.kind \in Results)
  /\ Finals' = With(Finals, n, m.kind = "final")
  /\ Ticks' = With(Ticks, n, m.kind = "tick")
  /\ Shown' = With(Shown, n, m.kind \in {"tick", "final"})
  /\ Told' = Told \cup m.rest
  /\ Stream'[n] = m
  /\ \A i \in 1 .. n - 1 : Stream'[i] = Stream[i]
  /\ DOMAIN Stream' = 1 .. n /\ DOMAIN Stream = 1 .. n - 1

Empties ==
  /\ DOMAIN Stream' = {}
  /\ Ends' = {} /\ Outcomes' = {} /\ Finals' = {} /\ Ticks' = {} /\ Shown' = {}

LEMMA StillKeeps == ASSUME Stream' = Stream PROVE Keeps
BY DEF Keeps, Ends, Outcomes, Finals, Ticks, Shown, Told, Positions

LEMMA PositionsGrow ==
  ASSUME Stream \in Seq(Report), NEW m, Grown(m), NEW K
  PROVE  /\ Positions(K) \subseteq 1 .. Len(Stream)
         /\ Positions(K)' = With(Positions(K), Len(Stream) + 1, m.kind \in K)
<1>1. DOMAIN Stream = 1 .. Len(Stream) /\ DOMAIN Stream' = 1 .. Len(Stream) + 1
  BY DEF Grown
<1>2. Positions(K) \subseteq 1 .. Len(Stream)
  BY <1>1 DEF Positions
<1>3. ASSUME NEW i PROVE i \in Positions(K)' <=> i \in With(Positions(K), Len(Stream) + 1, m.kind \in K)
  <2>1. CASE i \in 1 .. Len(Stream)
    <3>1. i # Len(Stream) + 1
      BY <2>1 DEF Grown
    <3>2. i \in DOMAIN Stream /\ i \in DOMAIN Stream' /\ Stream'[i] = Stream[i]
      BY <2>1, <1>1 DEF Grown
    <3> QED
      BY <3>1, <3>2 DEF Positions, With
  <2>2. CASE i = Len(Stream) + 1
    <3>1. i \in DOMAIN Stream' /\ i \notin DOMAIN Stream /\ Stream'[i] = m
      BY <2>2, <1>1 DEF Grown
    <3> QED
      BY <3>1, <2>2 DEF Positions, With
  <2>3. CASE i \notin 1 .. Len(Stream) /\ i # Len(Stream) + 1
    <3>1. i \notin DOMAIN Stream' /\ i \notin DOMAIN Stream
      BY <2>3, <1>1 DEF Grown
    <3> QED
      BY <3>1, <2>3 DEF Positions, With
  <2> QED
    BY <2>1, <2>2, <2>3
<1> QED
  BY <1>2, <1>3

LEMMA GrownAdds ==
  ASSUME Stream \in Seq(Report), NEW m, Grown(m)
  PROVE  Adds(m, Len(Stream) + 1)
<1>1. DOMAIN Stream = 1 .. Len(Stream) /\ DOMAIN Stream' = 1 .. Len(Stream) + 1
      /\ Len(Stream) \in Nat
  BY DEF Grown
<1>2. /\ Ends \subseteq 1 .. Len(Stream)
      /\ Ends' = With(Ends, Len(Stream) + 1, m.kind \in {"end"})
  BY PositionsGrow DEF Ends
<1>3. /\ Outcomes \subseteq 1 .. Len(Stream)
      /\ Outcomes' = With(Outcomes, Len(Stream) + 1, m.kind \in Results)
  BY PositionsGrow DEF Outcomes
<1>4. /\ Finals \subseteq 1 .. Len(Stream)
      /\ Finals' = With(Finals, Len(Stream) + 1, m.kind \in {"final"})
  BY PositionsGrow DEF Finals
<1>5. /\ Ticks \subseteq 1 .. Len(Stream)
      /\ Ticks' = With(Ticks, Len(Stream) + 1, m.kind \in {"tick"})
  BY PositionsGrow DEF Ticks
<1>6. /\ Shown \subseteq 1 .. Len(Stream)
      /\ Shown' = With(Shown, Len(Stream) + 1, m.kind \in {"tick", "final"})
  BY PositionsGrow DEF Shown
<1>7. Told' = Told \cup m.rest
  <2>1. \A i \in DOMAIN Stream : i \in DOMAIN Stream' /\ Stream'[i] = Stream[i]
    BY <1>1 DEF Grown
  <2>2. Len(Stream) + 1 \in DOMAIN Stream' /\ Stream'[Len(Stream) + 1] = m
    BY <1>1 DEF Grown
  <2>3. \A i \in DOMAIN Stream' : i \in DOMAIN Stream \/ i = Len(Stream) + 1
    BY <1>1
  <2>4. Told' = UNION {Stream'[i].rest : i \in DOMAIN Stream'}
    BY DEF Told
  <2>5. \A x : x \in Told' <=> x \in Told \/ x \in m.rest
    BY <2>1, <2>2, <2>3, <2>4 DEF Told
  <2> QED
    BY <2>5
<1>8. Len(Stream) + 1 - 1 = Len(Stream)
  BY <1>1
<1>9. Stream'[Len(Stream) + 1] = m /\ \A i \in 1 .. Len(Stream) : Stream'[i] = Stream[i]
  BY DEF Grown
<1> QED
  BY <1>1, <1>2, <1>3, <1>4, <1>5, <1>6, <1>7, <1>8, <1>9 DEF Adds, With

-----------------------------------------------------------------------------
(* The inductive invariant *)

(* Results and marks stand in the stream as far as batch() has come. *)
Marked ==
  /\ \A i, j \in Ends : i = j
  /\ \A i, j \in Outcomes : i = j
  /\ \A i \in Ends : \E j \in Outcomes : j < i
  /\ main \notin {"end", "done"} => Outcomes = {}
  /\ main # "done" => Ends = {}
  /\ main = "end" /\ consumer # "dropped" => Outcomes # {}

(* The collector runs, and has not been told to stop, until it is. *)
Heard ==
  /\ main = "setup" => ~stopped /\ collector = "unborn"
  /\ main \in {"test", "rates", "moveLast", "mean", "rest", "stop"} =>
       ~stopped /\ collector \notin {"unborn", "gone"}

(* Where an engine error can be; those the summary has seen it carries. *)
Reported ==
  /\ collector # "send" => draft.rest = {}
  /\ consumer # "dropped" =>
       /\ 1 .. raised \subseteq lost \cup Told \cup draft.rest \cup engine
       /\ main \in {"stop", "final"} => engine \subseteq restFinal
       /\ Finals # {} => engine \subseteq Told

AfterTest == {"rates", "moveLast", "mean", "rest", "stop", "final"}

(* Nobody has counted further than the test, and each report at least as   *)
(* far as those before it.                                                 *)
Ahead ==
  collector \in {"endpoints", "rates", "moveLast", "requests", "moveRequests", "drain", "send"}
Ordered ==
  /\ main \in AfterTest => requestsFinal = requests
  /\ draft.kind = "tick" /\ draft.total <= requests
  /\ \A i \in Ticks : Stream[i].total <= requests
  /\ Ahead => \A i \in Ticks : Stream[i].total <= draft.total
  /\ \A i \in Ticks, j \in Shown : i < j => Stream[i].total <= Stream[j].total

Early == main \in {"setup", "test", "rates", "moveLast"}
Apt(r) == ~r.late => r.eps <= r.err

(* Until batch() moves number_of_last_errors for the summary it is at most *)
(* what a report has counted, and nothing wraps.                           *)
Even ==
  /\ requests <= MaxRequests /\ bad <= requests /\ draft.err <= bad
  /\ Early => lastErrors <= bad
  /\ Early /\ collector \in {"counting", "endpoints", "rates"} => lastErrors <= draft.err
  /\ Early /\ collector = "moveLast" =>
       lastErrors <= draft.err /\ draft.eps = draft.err - lastErrors
  /\ main \in {"setup", "test"} => epsFinal = 0
  /\ main = "rates" => badFinal = bad
  /\ epsFinal <= badFinal

AllApt == Apt(draft) /\ \A i \in DOMAIN Stream : Apt(Stream[i])

(* The collector has been told of no more requests of the endpoint than    *)
(* there are.                                                              *)
Known ==
  /\ known <= api /\ api <= requests
  /\ collector \in {"rates", "moveLast", "requests", "moveRequests", "drain", "send"} =>
       known = draft.api

(* The live report before the one the collector is at work on. *)
Latest(r) ==
  IF Ticks = {} THEN r = Empty
                ELSE \E i \in Ticks : r = Stream[i] /\ \A k \in Ticks : k <= i

(* From that report to the one at hand; the summary disturbs it when it    *)
(* moves number_of_last_requests.                                          *)
InTime == main \in {"setup", "test", "rates", "moveLast", "mean"}
Since(r) ==
  /\ collector \in {"unborn", "tick", "counting", "endpoints"} => known = r.api
  /\ collector \in {"rates", "moveLast", "requests", "moveRequests", "drain", "send"} =>
       draft.apiRps = draft.api - r.api
  /\ InTime /\ collector \in {"unborn", "tick", "counting", "endpoints", "rates",
                              "moveLast", "requests", "moveRequests"} =>
       lastRequests = r.total
  /\ InTime /\ collector \in {"drain", "send"} => lastRequests = draft.total
  /\ collector \in {"moveRequests", "drain", "send"} =>
       draft.rpsLate \/ draft.rps = draft.total - r.total
  /\ InTime /\ collector = "moveRequests" => draft.rps = draft.total - r.total

Rated ==
  /\ RatesAddUp
  /\ consumer # "dropped" => \E r \in Report : Latest(r) /\ Since(r)

IInv ==
  TypeOK /\ Marked /\ Heard /\ Reported /\ Ordered /\ Even /\ AllApt /\ Known /\ Rated

-----------------------------------------------------------------------------
(* What the steps do to the stream *)

LEMMA Sent ==
  ASSUME TypeOK, NEW m \in Report, Send(m), CanSend, UNCHANGED received
  PROVE  /\ channel' \in Seq(Report) /\ Len(channel') <= ChannelCap
         /\ consumer = "dropped" => Keeps
         /\ consumer # "dropped" => Adds(m, Len(Stream) + 1)
<1>1. channel \in Seq(Report) /\ received \in Seq(Report) /\ Len(channel) <= ChannelCap
  BY DEF TypeOK
<1>2. /\ channel' \in Seq(Report) /\ Len(channel') <= ChannelCap
      /\ consumer = "dropped" => Stream' = Stream
      /\ consumer # "dropped" => Grown(m)
  BY <1>1, SendGrows
<1>3. Stream \in Seq(Report)
  BY <1>1, ConcatProperties DEF Stream
<1> QED
  BY <1>2, <1>3, StillKeeps, GrownAdds

LEMMA Received ==
  ASSUME TypeOK, Receive
  PROVE  /\ channel' \in Seq(Report) /\ received' \in Seq(Report)
         /\ Len(channel') <= ChannelCap
         /\ Keeps
<1>1. channel \in Seq(Report) /\ received \in Seq(Report) /\ Len(channel) <= ChannelCap
  BY DEF TypeOK
<1>2. /\ channel' \in Seq(Report) /\ received' \in Seq(Report)
      /\ Len(channel') <= Len(channel) /\ Stream' = Stream
  BY <1>1, ReceiveMoves DEF Receive
<1>3. Len(channel') \in Nat /\ Len(channel) \in Nat
  BY <1>1, <1>2
<1> QED
  BY <1>1, <1>2, <1>3, StillKeeps, StreamAssumption

LEMMA Dropped == ASSUME DropStream PROVE Empties
<1>1. Stream' = << >>
  BY DEF DropStream, Stream
<1> QED
  BY <1>1 DEF Empties, Ends, Outcomes, Finals, Ticks, Shown, Positions

(* The steps that leave the stream alone. *)
Quiet == UNCHANGED <<channel, received>>

LEMMA QuietKeeps == ASSUME Quiet PROVE Keeps
<1>1. Stream' = Stream
  BY DEF Quiet, Stream
<1> QED
  BY <1>1, StillKeeps

LEMMA QuietSteps ==
  /\ CountRequest => Quiet
  /\ CountAtEndpoint => Quiet
  /\ CountError => Quiet
  /\ RaiseEngineError => Quiet
  /\ StartTest => Quiet
  /\ Panic => Quiet
  /\ TakeFinals => Quiet
  /\ LoadLast => Quiet
  /\ MoveLast => Quiet
  /\ MoveByMean => Quiet
  /\ TakeRest => Quiet
  /\ StopTicks => Quiet
  /\ Tick => Quiet
  /\ LoadTotal => Quiet
  /\ LoadEndpoint => Quiet
  /\ LoadRates => Quiet
  /\ MoveRates => Quiet
  /\ LoadRequests => Quiet
  /\ MoveRequests => Quiet
  /\ DrainErrors => Quiet
  /\ HearStop => Quiet
  /\ ChannelClosed => Quiet
BY DEF Quiet, CountRequest, CountAtEndpoint, CountError, RaiseEngineError, StartTest, Panic,
   TakeFinals, LoadLast, MoveLast, MoveByMean, TakeRest, StopTicks, Tick, LoadTotal,
   LoadEndpoint, LoadRates, MoveRates, LoadRequests, MoveRequests, DrainErrors, HearStop,
   ChannelClosed, flowVars

LEMMA TickAdds ==
  ASSUME NEW m, NEW n, Adds(m, n), m.kind = "tick"
  PROVE  /\ Ends' = Ends /\ Outcomes' = Outcomes /\ Finals' = Finals
         /\ Ticks' = Ticks \cup {n} /\ Shown' = Shown \cup {n}
<1>1. n \notin Ends /\ n \notin Outcomes /\ n \notin Finals
  BY DEF Adds
<1> QED
  BY <1>1 DEF Adds, With, Results

LEMMA SummaryAdds ==
  ASSUME NEW m, NEW n, Adds(m, n), m.kind = "final"
  PROVE  /\ Ends' = Ends /\ Outcomes' = Outcomes \cup {n} /\ Finals' = Finals \cup {n}
         /\ Ticks' = Ticks /\ Shown' = Shown \cup {n}
<1>1. n \notin Ends /\ n \notin Ticks
  BY DEF Adds
<1> QED
  BY <1>1 DEF Adds, With, Results

LEMMA FailureAdds ==
  ASSUME NEW m, NEW n, Adds(m, n), m.kind = "failed"
  PROVE  /\ Ends' = Ends /\ Outcomes' = Outcomes \cup {n} /\ Finals' = Finals
         /\ Ticks' = Ticks /\ Shown' = Shown
<1>1. n \notin Ends /\ n \notin Ticks /\ n \notin Finals /\ n \notin Shown
  BY DEF Adds
<1> QED
  BY <1>1 DEF Adds, With, Results

LEMMA MarkAdds ==
  ASSUME NEW m, NEW n, Adds(m, n), m.kind = "end"
  PROVE  /\ Ends' = Ends \cup {n} /\ Outcomes' = Outcomes /\ Finals' = Finals
         /\ Ticks' = Ticks /\ Shown' = Shown
<1>1. n \notin Outcomes /\ n \notin Ticks /\ n \notin Finals /\ n \notin Shown
  BY DEF Adds
<1> QED
  BY <1>1 DEF Adds, With, Results

-----------------------------------------------------------------------------
(* Types are kept *)

Numbers ==
  /\ requests \in Nat /\ api \in Nat /\ bad \in Nat
  /\ requestsFinal \in Nat /\ badFinal \in Nat
  /\ raised \in Nat /\ ticks \in Nat
  /\ epsFinal \in 0 .. Word - 1 /\ lastErrors \in 0 .. Word - 1
  /\ lastRequests \in 0 .. Word - 1 /\ known \in 0 .. Word - 1
SetsTyped == engine \subseteq Nat /\ lost \subseteq Nat /\ restFinal \subseteq Nat
Places ==
  /\ main \in {"setup", "test", "rates", "moveLast", "mean", "rest", "stop", "final",
               "failed", "end", "done", "dead"}
  /\ collector \in {"unborn", "tick", "counting", "endpoints", "rates", "moveLast",
                    "requests", "moveRequests", "drain", "send", "gone"}
  /\ consumer \in {"reading", "ended", "closed", "dropped"}
Queues ==
  /\ channel \in Seq(Report) /\ Len(channel) <= ChannelCap
  /\ received \in Seq(Report)

LEMMA TypeParts ==
  TypeOK <=> /\ Numbers /\ SetsTyped /\ Places /\ Queues
             /\ draft \in Report /\ stopped \in BOOLEAN
BY DEF TypeOK, Numbers, SetsTyped, Places, Queues

LEMMA NumbersKept ==
  ASSUME Numbers, draft \in Report, Next \/ UNCHANGED vars
  PROVE  Numbers'
<1>1. CASE CountRequest
  BY <1>1 DEF Numbers, CountRequest, mainVars, tickVars, flowVars, engineVars,
     countVars, lastVars
<1>2. CASE CountAtEndpoint
  BY <1>2 DEF Numbers, CountAtEndpoint, mainVars, tickVars, flowVars, engineVars,
     countVars, lastVars
<1>3. CASE CountError
  BY <1>3 DEF Numbers, CountError, mainVars, tickVars, flowVars, engineVars, countVars,
     lastVars
<1>4. CASE RaiseEngineError
  BY <1>4 DEF Numbers, RaiseEngineError, mainVars, tickVars, flowVars, engineVars,
     countVars, lastVars
<1>5. CASE StartTest
  BY <1>5 DEF Numbers, StartTest, mainVars, tickVars, flowVars, engineVars, countVars,
     lastVars
<1>6. CASE Panic
  BY <1>6 DEF Numbers, Panic, mainVars, tickVars, flowVars, engineVars, countVars,
     lastVars
<1>7. CASE TakeFinals
  BY <1>7 DEF Numbers, TakeFinals, mainVars, tickVars, flowVars, engineVars, countVars,
     lastVars
<1>8. CASE LoadLast
  <2>1. epsFinal' \in 0 .. Word - 1
    BY <1>8, MinusType DEF LoadLast, Numbers
  <2> QED
    BY <1>8, <2>1 DEF Numbers, LoadLast, mainVars, tickVars, flowVars, engineVars,
       countVars, lastVars
<1>9. CASE MoveLast
  <2>1. lastErrors' \in 0 .. Word - 1
    BY <1>9, ModuloType DEF MoveLast, Numbers
  <2> QED
    BY <1>9, <2>1 DEF Numbers, MoveLast, mainVars, tickVars, flowVars, engineVars,
       countVars, lastVars
<1>10. CASE MoveByMean
  <2>1. lastRequests' \in 0 .. Word - 1
    BY <1>10, ModuloType, StreamAssumption DEF MoveByMean, Numbers
  <2> QED
    BY <1>10, <2>1 DEF Numbers, MoveByMean, mainVars, tickVars, flowVars, engineVars, countVars,
       lastVars
<1>11. CASE TakeRest
  BY <1>11 DEF Numbers, TakeRest, mainVars, tickVars, flowVars, engineVars, countVars,
     lastVars
<1>12. CASE StopTicks
  BY <1>12 DEF Numbers, StopTicks, mainVars, tickVars, flowVars, engineVars, countVars,
     lastVars
<1>13. CASE SendSummary
  BY <1>13 DEF Numbers, SendSummary, mainVars, tickVars, flowVars, engineVars,
     countVars, lastVars
<1>14. CASE SendEndMark
  BY <1>14 DEF Numbers, SendEndMark, mainVars, tickVars, flowVars, engineVars,
     countVars, lastVars
<1>15. CASE Tick
  BY <1>15 DEF Numbers, Tick, mainVars, tickVars, flowVars, engineVars, countVars,
     lastVars
<1>16. CASE LoadTotal
  BY <1>16 DEF Numbers, LoadTotal, mainVars, tickVars, flowVars, engineVars, countVars,
     lastVars
<1>17. CASE LoadEndpoint
  <2>1. Minus(api, known) \in 0 .. Word - 1
    <3>1. api \in Int /\ known \in Int
      BY DEF Numbers
    <3> QED
      BY <3>1, MinusType
  <2>2. known' \in 0 .. Word - 1
    BY <1>17, <2>1, ModuloType DEF LoadEndpoint, Numbers
  <2> QED
    BY <1>17, <2>2 DEF Numbers, LoadEndpoint, mainVars, tickVars, flowVars, engineVars, countVars,
       lastVars
<1>18. CASE LoadRates
  BY <1>18 DEF Numbers, LoadRates, mainVars, tickVars, flowVars, engineVars, countVars,
     lastVars
<1>19. CASE MoveRates
  <2>1. draft.eps \in Nat
    BY ReportFields
  <2>2. lastErrors' \in 0 .. Word - 1
    BY <1>19, <2>1, ModuloType DEF MoveRates, Numbers
  <2> QED
    BY <1>19, <2>2 DEF Numbers, MoveRates, mainVars, tickVars, flowVars, engineVars,
       countVars, lastVars
<1>20. CASE LoadRequests
  BY <1>20 DEF Numbers, LoadRequests, mainVars, tickVars, flowVars, engineVars, countVars,
     lastVars
<1>21. CASE MoveRequests
  <2>1. draft.rps \in Nat
    BY ReportFields
  <2>2. lastRequests' \in 0 .. Word - 1
    BY <1>21, <2>1, ModuloType DEF MoveRequests, Numbers
  <2> QED
    BY <1>21, <2>2 DEF Numbers, MoveRequests, mainVars, tickVars, flowVars, engineVars, countVars,
       lastVars
<1>22. CASE DrainErrors
  BY <1>22 DEF Numbers, DrainErrors, mainVars, tickVars, flowVars, engineVars,
     countVars, lastVars
<1>23. CASE SendTick
  BY <1>23 DEF Numbers, SendTick, mainVars, tickVars, flowVars, engineVars, countVars,
     lastVars
<1>24. CASE HearStop
  BY <1>24 DEF Numbers, HearStop, mainVars, tickVars, flowVars, engineVars, countVars,
     lastVars
<1>25. CASE Receive
  BY <1>25 DEF Numbers, Receive, mainVars, tickVars, flowVars, engineVars, countVars,
     lastVars
<1>26. CASE ChannelClosed
  BY <1>26 DEF Numbers, ChannelClosed, mainVars, tickVars, flowVars, engineVars,
     countVars, lastVars
<1>27. CASE DropStream
  BY <1>27 DEF Numbers, DropStream, mainVars, tickVars, flowVars, engineVars, countVars,
     lastVars
<1>28. CASE UNCHANGED vars
  BY <1>28 DEF Numbers, vars, mainVars, tickVars, flowVars, engineVars, countVars,
     lastVars
<1> QED
  BY <1>1, <1>2, <1>3, <1>4, <1>5, <1>6, <1>7, <1>8, <1>9, <1>10, <1>11, <1>12, <1>13,
     <1>14, <1>15, <1>16, <1>17, <1>18, <1>19, <1>20, <1>21, <1>22, <1>23, <1>24, <1>25,
     <1>26, <1>27, <1>28 DEF Next, MainStep, CollectorStep, Terminated

LEMMA SetsKept ==
  ASSUME TypeOK, Next \/ UNCHANGED vars
  PROVE  SetsTyped'
<1>1. CASE CountRequest
  BY <1>1 DEF TypeOK, SetsTyped, CountRequest, mainVars, tickVars, flowVars, engineVars,
     countVars, lastVars
<1>2. CASE CountAtEndpoint
  BY <1>2 DEF TypeOK, SetsTyped, CountAtEndpoint, mainVars, tickVars, flowVars,
     engineVars, countVars, lastVars
<1>3. CASE CountError
  BY <1>3 DEF TypeOK, SetsTyped, CountError, mainVars, tickVars, flowVars, engineVars,
     countVars, lastVars
<1>4. CASE RaiseEngineError
  <2>1. raised' \in Nat
    BY <1>4 DEF TypeOK, RaiseEngineError
  <2> QED
    BY <1>4, <2>1 DEF TypeOK, SetsTyped, RaiseEngineError, mainVars, tickVars, flowVars,
       engineVars, countVars, lastVars
<1>5. CASE StartTest
  BY <1>5 DEF TypeOK, SetsTyped, StartTest, mainVars, tickVars, flowVars, engineVars,
     countVars, lastVars
<1>6. CASE Panic
  BY <1>6 DEF TypeOK, SetsTyped, Panic, mainVars, tickVars, flowVars, engineVars,
     countVars, lastVars
<1>7. CASE TakeFinals
  BY <1>7 DEF TypeOK, SetsTyped, TakeFinals, mainVars, tickVars, flowVars, engineVars,
     countVars, lastVars
<1>8. CASE LoadLast
  BY <1>8 DEF TypeOK, SetsTyped, LoadLast, mainVars, tickVars, flowVars, engineVars,
     countVars, lastVars
<1>9. CASE MoveLast
  BY <1>9 DEF TypeOK, SetsTyped, MoveLast, mainVars, tickVars, flowVars, engineVars,
     countVars, lastVars
<1>10. CASE MoveByMean
  BY <1>10 DEF TypeOK, SetsTyped, MoveByMean, mainVars, tickVars, flowVars, engineVars,
     countVars, lastVars
<1>11. CASE TakeRest
  BY <1>11 DEF TypeOK, SetsTyped, TakeRest, mainVars, tickVars, flowVars, engineVars,
     countVars, lastVars
<1>12. CASE StopTicks
  BY <1>12 DEF TypeOK, SetsTyped, StopTicks, mainVars, tickVars, flowVars, engineVars,
     countVars, lastVars
<1>13. CASE SendSummary
  BY <1>13 DEF TypeOK, SetsTyped, SendSummary, mainVars, tickVars, flowVars, engineVars,
     countVars, lastVars
<1>14. CASE SendEndMark
  BY <1>14 DEF TypeOK, SetsTyped, SendEndMark, mainVars, tickVars, flowVars, engineVars,
     countVars, lastVars
<1>15. CASE Tick
  BY <1>15 DEF TypeOK, SetsTyped, Tick, mainVars, tickVars, flowVars, engineVars,
     countVars, lastVars
<1>16. CASE LoadTotal
  BY <1>16 DEF TypeOK, SetsTyped, LoadTotal, mainVars, tickVars, flowVars, engineVars,
     countVars, lastVars
<1>17. CASE LoadEndpoint
  BY <1>17 DEF TypeOK, SetsTyped, LoadEndpoint, mainVars, tickVars, flowVars,
     engineVars, countVars, lastVars
<1>18. CASE LoadRates
  BY <1>18 DEF TypeOK, SetsTyped, LoadRates, mainVars, tickVars, flowVars, engineVars,
     countVars, lastVars
<1>19. CASE MoveRates
  BY <1>19 DEF TypeOK, SetsTyped, MoveRates, mainVars, tickVars, flowVars, engineVars,
     countVars, lastVars
<1>20. CASE LoadRequests
  BY <1>20 DEF TypeOK, SetsTyped, LoadRequests, mainVars, tickVars, flowVars,
     engineVars, countVars, lastVars
<1>21. CASE MoveRequests
  BY <1>21 DEF TypeOK, SetsTyped, MoveRequests, mainVars, tickVars, flowVars,
     engineVars, countVars, lastVars
<1>22. CASE DrainErrors
  BY <1>22 DEF TypeOK, SetsTyped, DrainErrors, mainVars, tickVars, flowVars, engineVars,
     countVars, lastVars
<1>23. CASE SendTick
  BY <1>23 DEF TypeOK, SetsTyped, SendTick, mainVars, tickVars, flowVars, engineVars,
     countVars, lastVars
<1>24. CASE HearStop
  <2>1. draft.rest \subseteq Nat
    BY ReportFields DEF TypeOK
  <2> QED
    BY <1>24, <2>1 DEF TypeOK, SetsTyped, HearStop, mainVars, tickVars, flowVars,
       engineVars, countVars, lastVars
<1>25. CASE Receive
  BY <1>25 DEF TypeOK, SetsTyped, Receive, mainVars, tickVars, flowVars, engineVars,
     countVars, lastVars
<1>26. CASE ChannelClosed
  BY <1>26 DEF TypeOK, SetsTyped, ChannelClosed, mainVars, tickVars, flowVars,
     engineVars, countVars, lastVars
<1>27. CASE DropStream
  BY <1>27 DEF TypeOK, SetsTyped, DropStream, mainVars, tickVars, flowVars, engineVars,
     countVars, lastVars
<1>28. CASE UNCHANGED vars
  BY <1>28 DEF TypeOK, SetsTyped, vars, mainVars, tickVars, flowVars, engineVars,
     countVars, lastVars
<1> QED
  BY <1>1, <1>2, <1>3, <1>4, <1>5, <1>6, <1>7, <1>8, <1>9, <1>10, <1>11, <1>12, <1>13,
     <1>14, <1>15, <1>16, <1>17, <1>18, <1>19, <1>20, <1>21, <1>22, <1>23, <1>24, <1>25,
     <1>26, <1>27, <1>28 DEF Next, MainStep, CollectorStep, Terminated

LEMMA PlacesKept ==
  ASSUME Places, Next \/ UNCHANGED vars
  PROVE  Places'
<1>1. CASE CountRequest
  BY <1>1 DEF Places, Step, Collect, CountRequest, mainVars, tickVars, flowVars,
     engineVars, countVars, lastVars
<1>2. CASE CountAtEndpoint
  BY <1>2 DEF Places, Step, Collect, CountAtEndpoint, mainVars, tickVars, flowVars,
     engineVars, countVars, lastVars
<1>3. CASE CountError
  BY <1>3 DEF Places, Step, Collect, CountError, mainVars, tickVars, flowVars,
     engineVars, countVars, lastVars
<1>4. CASE RaiseEngineError
  BY <1>4 DEF Places, Step, Collect, RaiseEngineError, mainVars, tickVars, flowVars,
     engineVars, countVars, lastVars
<1>5. CASE StartTest
  BY <1>5 DEF Places, Step, Collect, StartTest, mainVars, tickVars, flowVars,
     engineVars, countVars, lastVars
<1>6. CASE Panic
  BY <1>6 DEF Places, Step, Collect, Panic, mainVars, tickVars, flowVars, engineVars,
     countVars, lastVars
<1>7. CASE TakeFinals
  BY <1>7 DEF Places, Step, Collect, TakeFinals, mainVars, tickVars, flowVars,
     engineVars, countVars, lastVars
<1>8. CASE LoadLast
  BY <1>8 DEF Places, Step, Collect, LoadLast, mainVars, tickVars, flowVars, engineVars,
     countVars, lastVars
<1>9. CASE MoveLast
  BY <1>9 DEF Places, Step, Collect, MoveLast, mainVars, tickVars, flowVars, engineVars,
     countVars, lastVars
<1>10. CASE MoveByMean
  BY <1>10 DEF Places, Step, Collect, MoveByMean, mainVars, tickVars, flowVars,
     engineVars, countVars, lastVars
<1>11. CASE TakeRest
  BY <1>11 DEF Places, Step, Collect, TakeRest, mainVars, tickVars, flowVars,
     engineVars, countVars, lastVars
<1>12. CASE StopTicks
  BY <1>12 DEF Places, Step, Collect, StopTicks, mainVars, tickVars, flowVars,
     engineVars, countVars, lastVars
<1>13. CASE SendSummary
  BY <1>13 DEF Places, Step, Collect, SendSummary, mainVars, tickVars, flowVars,
     engineVars, countVars, lastVars
<1>14. CASE SendEndMark
  BY <1>14 DEF Places, Step, Collect, SendEndMark, mainVars, tickVars, flowVars,
     engineVars, countVars, lastVars
<1>15. CASE Tick
  BY <1>15 DEF Places, Step, Collect, Tick, mainVars, tickVars, flowVars, engineVars,
     countVars, lastVars
<1>16. CASE LoadTotal
  BY <1>16 DEF Places, Step, Collect, LoadTotal, mainVars, tickVars, flowVars,
     engineVars, countVars, lastVars
<1>17. CASE LoadEndpoint
  BY <1>17 DEF Places, Step, Collect, LoadEndpoint, mainVars, tickVars, flowVars,
     engineVars, countVars, lastVars
<1>18. CASE LoadRates
  BY <1>18 DEF Places, Step, Collect, LoadRates, mainVars, tickVars, flowVars,
     engineVars, countVars, lastVars
<1>19. CASE MoveRates
  BY <1>19 DEF Places, Step, Collect, MoveRates, mainVars, tickVars, flowVars,
     engineVars, countVars, lastVars
<1>20. CASE LoadRequests
  BY <1>20 DEF Places, Step, Collect, LoadRequests, mainVars, tickVars, flowVars,
     engineVars, countVars, lastVars
<1>21. CASE MoveRequests
  BY <1>21 DEF Places, Step, Collect, MoveRequests, mainVars, tickVars, flowVars,
     engineVars, countVars, lastVars
<1>22. CASE DrainErrors
  BY <1>22 DEF Places, Step, Collect, DrainErrors, mainVars, tickVars, flowVars,
     engineVars, countVars, lastVars
<1>23. CASE SendTick
  BY <1>23 DEF Places, Step, Collect, SendTick, mainVars, tickVars, flowVars,
     engineVars, countVars, lastVars
<1>24. CASE HearStop
  BY <1>24 DEF Places, Step, Collect, HearStop, mainVars, tickVars, flowVars,
     engineVars, countVars, lastVars
<1>25. CASE Receive
  BY <1>25 DEF Places, Step, Collect, Receive, mainVars, tickVars, flowVars, engineVars,
     countVars, lastVars
<1>26. CASE ChannelClosed
  BY <1>26 DEF Places, Step, Collect, ChannelClosed, mainVars, tickVars, flowVars,
     engineVars, countVars, lastVars
<1>27. CASE DropStream
  BY <1>27 DEF Places, Step, Collect, DropStream, mainVars, tickVars, flowVars,
     engineVars, countVars, lastVars
<1>28. CASE UNCHANGED vars
  BY <1>28 DEF Places, vars, mainVars, tickVars, flowVars, engineVars, countVars,
     lastVars
<1> QED
  BY <1>1, <1>2, <1>3, <1>4, <1>5, <1>6, <1>7, <1>8, <1>9, <1>10, <1>11, <1>12, <1>13,
     <1>14, <1>15, <1>16, <1>17, <1>18, <1>19, <1>20, <1>21, <1>22, <1>23, <1>24, <1>25,
     <1>26, <1>27, <1>28 DEF Next, MainStep, CollectorStep, Terminated

LEMMA StoppedTyped ==
  ASSUME stopped \in BOOLEAN, Next \/ UNCHANGED vars
  PROVE  stopped' \in BOOLEAN
<1>1. CASE CountRequest
  BY <1>1 DEF CountRequest, mainVars, tickVars, flowVars, engineVars, countVars,
     lastVars
<1>2. CASE CountAtEndpoint
  BY <1>2 DEF CountAtEndpoint, mainVars, tickVars, flowVars, engineVars, countVars,
     lastVars
<1>3. CASE CountError
  BY <1>3 DEF CountError, mainVars, tickVars, flowVars, engineVars, countVars, lastVars
<1>4. CASE RaiseEngineError
  BY <1>4 DEF RaiseEngineError, mainVars, tickVars, flowVars, engineVars, countVars,
     lastVars
<1>5. CASE StartTest
  BY <1>5 DEF StartTest, mainVars, tickVars, flowVars, engineVars, countVars, lastVars
<1>6. CASE Panic
  BY <1>6 DEF Panic, mainVars, tickVars, flowVars, engineVars, countVars, lastVars
<1>7. CASE TakeFinals
  BY <1>7 DEF TakeFinals, mainVars, tickVars, flowVars, engineVars, countVars, lastVars
<1>8. CASE LoadLast
  BY <1>8 DEF LoadLast, mainVars, tickVars, flowVars, engineVars, countVars, lastVars
<1>9. CASE MoveLast
  BY <1>9 DEF MoveLast, mainVars, tickVars, flowVars, engineVars, countVars, lastVars
<1>10. CASE MoveByMean
  BY <1>10 DEF MoveByMean, mainVars, tickVars, flowVars, engineVars, countVars, lastVars
<1>11. CASE TakeRest
  BY <1>11 DEF TakeRest, mainVars, tickVars, flowVars, engineVars, countVars, lastVars
<1>12. CASE StopTicks
  BY <1>12 DEF StopTicks, mainVars, tickVars, flowVars, engineVars, countVars, lastVars
<1>13. CASE SendSummary
  BY <1>13 DEF SendSummary, mainVars, tickVars, flowVars, engineVars, countVars,
     lastVars
<1>14. CASE SendEndMark
  BY <1>14 DEF SendEndMark, mainVars, tickVars, flowVars, engineVars, countVars,
     lastVars
<1>15. CASE Tick
  BY <1>15 DEF Tick, mainVars, tickVars, flowVars, engineVars, countVars, lastVars
<1>16. CASE LoadTotal
  BY <1>16 DEF LoadTotal, mainVars, tickVars, flowVars, engineVars, countVars, lastVars
<1>17. CASE LoadEndpoint
  BY <1>17 DEF LoadEndpoint, mainVars, tickVars, flowVars, engineVars, countVars,
     lastVars
<1>18. CASE LoadRates
  BY <1>18 DEF LoadRates, mainVars, tickVars, flowVars, engineVars, countVars, lastVars
<1>19. CASE MoveRates
  BY <1>19 DEF MoveRates, mainVars, tickVars, flowVars, engineVars, countVars, lastVars
<1>20. CASE LoadRequests
  BY <1>20 DEF LoadRequests, mainVars, tickVars, flowVars, engineVars, countVars,
     lastVars
<1>21. CASE MoveRequests
  BY <1>21 DEF MoveRequests, mainVars, tickVars, flowVars, engineVars, countVars,
     lastVars
<1>22. CASE DrainErrors
  BY <1>22 DEF DrainErrors, mainVars, tickVars, flowVars, engineVars, countVars,
     lastVars
<1>23. CASE SendTick
  BY <1>23 DEF SendTick, mainVars, tickVars, flowVars, engineVars, countVars, lastVars
<1>24. CASE HearStop
  BY <1>24 DEF HearStop, mainVars, tickVars, flowVars, engineVars, countVars, lastVars
<1>25. CASE Receive
  BY <1>25 DEF Receive, mainVars, tickVars, flowVars, engineVars, countVars, lastVars
<1>26. CASE ChannelClosed
  BY <1>26 DEF ChannelClosed, mainVars, tickVars, flowVars, engineVars, countVars,
     lastVars
<1>27. CASE DropStream
  BY <1>27 DEF DropStream, mainVars, tickVars, flowVars, engineVars, countVars, lastVars
<1>28. CASE UNCHANGED vars
  BY <1>28 DEF vars, mainVars, tickVars, flowVars, engineVars, countVars, lastVars
<1> QED
  BY <1>1, <1>2, <1>3, <1>4, <1>5, <1>6, <1>7, <1>8, <1>9, <1>10, <1>11, <1>12, <1>13,
     <1>14, <1>15, <1>16, <1>17, <1>18, <1>19, <1>20, <1>21, <1>22, <1>23, <1>24, <1>25,
     <1>26, <1>27, <1>28 DEF Next, MainStep, CollectorStep, Terminated

LEMMA QueuesKept ==
  ASSUME TypeOK, Next \/ UNCHANGED vars
  PROVE  Queues'
<1>1. CASE CountRequest
  BY <1>1, QuietSteps DEF TypeOK, Queues, Quiet
<1>2. CASE CountAtEndpoint
  BY <1>2, QuietSteps DEF TypeOK, Queues, Quiet
<1>3. CASE CountError
  BY <1>3, QuietSteps DEF TypeOK, Queues, Quiet
<1>4. CASE RaiseEngineError
  BY <1>4, QuietSteps DEF TypeOK, Queues, Quiet
<1>5. CASE StartTest
  BY <1>5, QuietSteps DEF TypeOK, Queues, Quiet
<1>6. CASE Panic
  BY <1>6, QuietSteps DEF TypeOK, Queues, Quiet
<1>7. CASE TakeFinals
  BY <1>7, QuietSteps DEF TypeOK, Queues, Quiet
<1>8. CASE LoadLast
  BY <1>8, QuietSteps DEF TypeOK, Queues, Quiet
<1>9. CASE MoveLast
  BY <1>9, QuietSteps DEF TypeOK, Queues, Quiet
<1>10. CASE MoveByMean
  BY <1>10, QuietSteps DEF TypeOK, Queues, Quiet
<1>11. CASE TakeRest
  BY <1>11, QuietSteps DEF TypeOK, Queues, Quiet
<1>12. CASE StopTicks
  BY <1>12, QuietSteps DEF TypeOK, Queues, Quiet
<1>13. CASE SendSummary
  <2>1. UNCHANGED received /\ CanSend
    BY <1>13 DEF SendSummary
  <2>2. Summary \in Report /\ ErrorResult \in Report
    BY SummaryFields, MarkFields DEF TypeOK
  <2>3. Send(Summary) \/ Send(ErrorResult)
    BY <1>13 DEF SendSummary
  <2>4. channel' \in Seq(Report) /\ Len(channel') <= ChannelCap
    BY <2>1, <2>2, <2>3, Sent
  <2> QED
    BY <2>1, <2>4 DEF TypeOK, Queues
<1>14. CASE SendEndMark
  <2>1. UNCHANGED received /\ CanSend /\ Send(EndMark)
    BY <1>14 DEF SendEndMark
  <2>2. channel' \in Seq(Report) /\ Len(channel') <= ChannelCap
    BY <2>1, MarkFields, Sent
  <2> QED
    BY <2>1, <2>2 DEF TypeOK, Queues
<1>15. CASE Tick
  BY <1>15, QuietSteps DEF TypeOK, Queues, Quiet
<1>16. CASE LoadTotal
  BY <1>16, QuietSteps DEF TypeOK, Queues, Quiet
<1>17. CASE LoadEndpoint
  BY <1>17, QuietSteps DEF TypeOK, Queues, Quiet
<1>18. CASE LoadRates
  BY <1>18, QuietSteps DEF TypeOK, Queues, Quiet
<1>19. CASE MoveRates
  BY <1>19, QuietSteps DEF TypeOK, Queues, Quiet
<1>20. CASE LoadRequests
  BY <1>20, QuietSteps DEF TypeOK, Queues, Quiet
<1>21. CASE MoveRequests
  BY <1>21, QuietSteps DEF TypeOK, Queues, Quiet
<1>22. CASE DrainErrors
  BY <1>22, QuietSteps DEF TypeOK, Queues, Quiet
<1>23. CASE SendTick
  <2>1. UNCHANGED received /\ CanSend /\ Send(draft) /\ draft \in Report
    BY <1>23 DEF SendTick, TypeOK
  <2>2. channel' \in Seq(Report) /\ Len(channel') <= ChannelCap
    BY <2>1, Sent
  <2> QED
    BY <2>1, <2>2 DEF TypeOK, Queues
<1>24. CASE HearStop
  BY <1>24, QuietSteps DEF TypeOK, Queues, Quiet
<1>25. CASE Receive
  BY <1>25, Received DEF Queues
<1>26. CASE ChannelClosed
  BY <1>26, QuietSteps DEF TypeOK, Queues, Quiet
<1>27. CASE DropStream
  <2>1. channel' = << >> /\ received' = << >>
    BY <1>27 DEF DropStream
  <2>2. channel' \in Seq(Report) /\ received' \in Seq(Report) /\ Len(channel') = 0
    BY <2>1
  <2> QED
    BY <2>2, StreamAssumption DEF Queues
<1>28. CASE UNCHANGED vars
  BY <1>28 DEF TypeOK, Queues, vars, flowVars
<1> QED
  BY <1>1, <1>2, <1>3, <1>4, <1>5, <1>6, <1>7, <1>8, <1>9, <1>10, <1>11, <1>12, <1>13,
     <1>14, <1>15, <1>16, <1>17, <1>18, <1>19, <1>20, <1>21, <1>22, <1>23, <1>24, <1>25,
     <1>26, <1>27, <1>28 DEF Next, MainStep, CollectorStep, Terminated

(* What each step does to the live report *)

LEMMA DraftSteps ==
  ASSUME TypeOK
  PROVE  /\ Tick => /\ draft' \in Report
                    /\ draft'.kind = "tick" /\ draft'.total = 0 /\ draft'.err = bad
                    /\ draft'.eps = 0 /\ draft'.rest = {}
         /\ LoadTotal => /\ draft' \in Report /\ draft'.total = requests
                         /\ draft'.kind = draft.kind /\ draft'.err = draft.err
                         /\ draft'.eps = draft.eps /\ draft'.rest = draft.rest
                         /\ draft'.late = draft.late
         /\ LoadEndpoint => /\ draft' \in Report /\ draft'.api = api
                            /\ draft'.apiRps = Minus(api, known)
                            /\ draft'.kind = draft.kind /\ draft'.err = draft.err
                            /\ draft'.eps = draft.eps /\ draft'.rest = draft.rest
                            /\ draft'.late = draft.late /\ draft'.total = draft.total
         /\ LoadRates => /\ draft' \in Report
                         /\ draft'.eps = Minus(draft.err, lastErrors)
                         /\ draft'.late = (main \notin {"test", "rates", "moveLast"})
                         /\ draft'.kind = draft.kind /\ draft'.err = draft.err
                         /\ draft'.total = draft.total /\ draft'.rest = draft.rest
                         /\ draft'.api = draft.api /\ draft'.apiRps = draft.apiRps
         /\ LoadRequests => /\ draft' \in Report
                            /\ draft'.rps = Minus(draft.total, lastRequests)
                            /\ draft'.rpsLate =
                                 (main \notin {"test", "rates", "moveLast", "mean"})
                            /\ draft'.kind = draft.kind /\ draft'.err = draft.err
                            /\ draft'.total = draft.total /\ draft'.rest = draft.rest
                            /\ draft'.eps = draft.eps /\ draft'.late = draft.late
                            /\ draft'.api = draft.api /\ draft'.apiRps = draft.apiRps
         /\ DrainErrors => /\ draft' \in Report /\ draft'.rest = engine
                           /\ draft'.kind = draft.kind /\ draft'.err = draft.err
                           /\ draft'.eps = draft.eps /\ draft'.total = draft.total
                           /\ draft'.late = draft.late
                           /\ draft'.api = draft.api /\ draft'.apiRps = draft.apiRps
                           /\ draft'.rps = draft.rps /\ draft'.rpsLate = draft.rpsLate
<1> draft \in Report /\ bad \in Nat /\ requests \in Nat /\ api \in Nat /\ engine \in SUBSET Nat
  BY DEF TypeOK
<1>1. draft.err \in Int /\ draft.total \in Int /\ lastErrors \in Int /\ lastRequests \in Int
      /\ api \in Int /\ known \in Int
  BY ReportFields DEF TypeOK
<1> DEFINE E == Minus(draft.err, lastErrors)
           R == Minus(draft.total, lastRequests)
           A == Minus(api, known)
<1>2. E \in 0 .. Word - 1 /\ R \in 0 .. Word - 1 /\ A \in 0 .. Word - 1
  BY <1>1, MinusType
<1> DEFINE L == main \notin {"test", "rates", "moveLast"}
           M == main \notin {"test", "rates", "moveLast", "mean"}
<1>3. L \in BOOLEAN /\ M \in BOOLEAN
  OBVIOUS
<1>4. /\ Tick => draft' = [Empty EXCEPT !.err = bad]
      /\ LoadTotal => draft' = [draft EXCEPT !.total = requests]
      /\ LoadEndpoint => draft' = [draft EXCEPT !.api = api, !.apiRps = A]
      /\ LoadRates => draft' = [draft EXCEPT !.eps = E, !.late = L]
      /\ LoadRequests => draft' = [draft EXCEPT !.rps = R, !.rpsLate = M]
      /\ DrainErrors => draft' = [draft EXCEPT !.rest = engine]
  BY DEF Tick, LoadTotal, LoadEndpoint, LoadRates, LoadRequests, DrainErrors
<1> HIDE DEF E, R, A, L, M
<1>5. ASSUME LoadEndpoint
      PROVE  /\ draft' \in Report /\ draft'.api = api /\ draft'.apiRps = A
             /\ draft'.kind = draft.kind /\ draft'.err = draft.err
             /\ draft'.eps = draft.eps /\ draft'.rest = draft.rest
             /\ draft'.late = draft.late /\ draft'.total = draft.total
  BY <1>2, <1>4, <1>5, EndpointDraft
<1>6. ASSUME LoadRates
      PROVE  /\ draft' \in Report /\ draft'.eps = E /\ draft'.late = L
             /\ draft'.kind = draft.kind /\ draft'.err = draft.err
             /\ draft'.total = draft.total /\ draft'.rest = draft.rest
             /\ draft'.api = draft.api /\ draft'.apiRps = draft.apiRps
  BY <1>2, <1>3, <1>4, <1>6, RatesDraft
<1>7. ASSUME LoadRequests
      PROVE  /\ draft' \in Report /\ draft'.rps = R /\ draft'.rpsLate = M
             /\ draft'.kind = draft.kind /\ draft'.err = draft.err
             /\ draft'.total = draft.total /\ draft'.rest = draft.rest
             /\ draft'.eps = draft.eps /\ draft'.late = draft.late
             /\ draft'.api = draft.api /\ draft'.apiRps = draft.apiRps
  BY <1>2, <1>3, <1>4, <1>7, RequestsDraft
<1>8. Tick => /\ draft' \in Report
              /\ draft'.kind = "tick" /\ draft'.total = 0 /\ draft'.err = bad
              /\ draft'.eps = 0 /\ draft'.rest = {}
  BY <1>4, TickDraft
<1>9. LoadTotal => /\ draft' \in Report /\ draft'.total = requests
                   /\ draft'.kind = draft.kind /\ draft'.err = draft.err
                   /\ draft'.eps = draft.eps /\ draft'.rest = draft.rest
                   /\ draft'.late = draft.late
  BY <1>4, TotalDraft
<1>10. DrainErrors => /\ draft' \in Report /\ draft'.rest = engine
                      /\ draft'.kind = draft.kind /\ draft'.err = draft.err
                      /\ draft'.eps = draft.eps /\ draft'.total = draft.total
                      /\ draft'.late = draft.late
                      /\ draft'.api = draft.api /\ draft'.apiRps = draft.apiRps
                      /\ draft'.rps = draft.rps /\ draft'.rpsLate = draft.rpsLate
  BY <1>4, RestDraft
<1> QED
  BY <1>5, <1>6, <1>7, <1>8, <1>9, <1>10 DEF E, R, A, L, M

LEMMA DraftTyped ==
  ASSUME TypeOK, Next \/ UNCHANGED vars
  PROVE  draft' \in Report
<1>1. CASE CountRequest
  BY <1>1 DEF TypeOK, CountRequest, mainVars, tickVars, flowVars, engineVars, countVars,
     lastVars
<1>2. CASE CountAtEndpoint
  BY <1>2 DEF TypeOK, CountAtEndpoint, mainVars, tickVars, flowVars, engineVars,
     countVars, lastVars
<1>3. CASE CountError
  BY <1>3 DEF TypeOK, CountError, mainVars, tickVars, flowVars, engineVars, countVars,
     lastVars
<1>4. CASE RaiseEngineError
  BY <1>4 DEF TypeOK, RaiseEngineError, mainVars, tickVars, flowVars, engineVars,
     countVars, lastVars
<1>5. CASE StartTest
  BY <1>5 DEF TypeOK, StartTest, mainVars, tickVars, flowVars, engineVars, countVars,
     lastVars
<1>6. CASE Panic
  BY <1>6 DEF TypeOK, Panic, mainVars, tickVars, flowVars, engineVars, countVars,
     lastVars
<1>7. CASE TakeFinals
  BY <1>7 DEF TypeOK, TakeFinals, mainVars, tickVars, flowVars, engineVars, countVars,
     lastVars
<1>8. CASE LoadLast
  BY <1>8 DEF TypeOK, LoadLast, mainVars, tickVars, flowVars, engineVars, countVars,
     lastVars
<1>9. CASE MoveLast
  BY <1>9 DEF TypeOK, MoveLast, mainVars, tickVars, flowVars, engineVars, countVars,
     lastVars
<1>10. CASE MoveByMean
  BY <1>10 DEF TypeOK, MoveByMean, mainVars, tickVars, flowVars, engineVars, countVars,
     lastVars
<1>11. CASE TakeRest
  BY <1>11 DEF TypeOK, TakeRest, mainVars, tickVars, flowVars, engineVars, countVars,
     lastVars
<1>12. CASE StopTicks
  BY <1>12 DEF TypeOK, StopTicks, mainVars, tickVars, flowVars, engineVars, countVars,
     lastVars
<1>13. CASE SendSummary
  BY <1>13 DEF TypeOK, SendSummary, mainVars, tickVars, flowVars, engineVars, countVars,
     lastVars
<1>14. CASE SendEndMark
  BY <1>14 DEF TypeOK, SendEndMark, mainVars, tickVars, flowVars, engineVars, countVars,
     lastVars
<1>15. CASE Tick
  BY <1>15, DraftSteps
<1>16. CASE LoadTotal
  BY <1>16, DraftSteps
<1>17. CASE LoadEndpoint
  BY <1>17, DraftSteps
<1>18. CASE LoadRates
  BY <1>18, DraftSteps
<1>19. CASE MoveRates
  BY <1>19 DEF TypeOK, MoveRates, mainVars, tickVars, flowVars, engineVars, countVars,
     lastVars
<1>20. CASE LoadRequests
  BY <1>20, DraftSteps
<1>21. CASE MoveRequests
  BY <1>21 DEF TypeOK, MoveRequests, mainVars, tickVars, flowVars, engineVars,
     countVars, lastVars
<1>22. CASE DrainErrors
  BY <1>22, DraftSteps
<1>23. CASE SendTick
  BY <1>23, EmptyTyped DEF SendTick
<1>24. CASE HearStop
  BY <1>24, EmptyTyped DEF HearStop, TypeOK
<1>25. CASE Receive
  BY <1>25 DEF TypeOK, Receive, mainVars, tickVars, flowVars, engineVars, countVars,
     lastVars
<1>26. CASE ChannelClosed
  BY <1>26 DEF TypeOK, ChannelClosed, mainVars, tickVars, flowVars, engineVars,
     countVars, lastVars
<1>27. CASE DropStream
  BY <1>27 DEF TypeOK, DropStream, mainVars, tickVars, flowVars, engineVars, countVars,
     lastVars
<1>28. CASE UNCHANGED vars
  BY <1>28 DEF TypeOK, vars, mainVars, tickVars, flowVars, engineVars, countVars,
     lastVars
<1> QED
  BY <1>1, <1>2, <1>3, <1>4, <1>5, <1>6, <1>7, <1>8, <1>9, <1>10, <1>11, <1>12, <1>13,
     <1>14, <1>15, <1>16, <1>17, <1>18, <1>19, <1>20, <1>21, <1>22, <1>23, <1>24, <1>25,
     <1>26, <1>27, <1>28 DEF Next, MainStep, CollectorStep, Terminated

LEMMA TypeKept ==
  ASSUME TypeOK, Next \/ UNCHANGED vars
  PROVE  TypeOK'
<1>1. Numbers /\ Places /\ draft \in Report /\ stopped \in BOOLEAN
  BY TypeParts
<1>2. Numbers' /\ SetsTyped' /\ Places' /\ Queues' /\ draft' \in Report /\ stopped' \in BOOLEAN
  BY <1>1, NumbersKept, SetsKept, PlacesKept, StoppedTyped, QueuesKept, DraftTyped
<1> QED
  BY <1>2 DEF TypeOK, Numbers, SetsTyped, Places, Queues

-----------------------------------------------------------------------------
(* What goes into the stream *)

(* A result of batch(), the mark and a live report go in at the end, or    *)
(* nowhere when nobody listens.                                            *)
LEMMA SummarySent ==
  ASSUME TypeOK, SendSummary
  PROVE  \/ consumer = "dropped" /\ Keeps
         \/ main = "final" /\ \E n \in Nat : Adds(Summary, n)
         \/ main = "failed" /\ \E n \in Nat : Adds(ErrorResult, n)
<1>1. UNCHANGED received /\ CanSend
  BY DEF SendSummary
<1>2. Summary \in Report /\ ErrorResult \in Report
  BY SummaryFields, MarkFields DEF TypeOK
<1>3. \A m, n : Adds(m, n) => n \in Nat
  BY DEF Adds
<1>4. CASE main = "final"
  <2>1. Send(Summary)
    BY <1>4 DEF SendSummary, Step
  <2> QED
    BY <2>1, <1>1, <1>2, <1>3, <1>4, Sent
<1>5. CASE main = "failed"
  <2>1. Send(ErrorResult)
    BY <1>5 DEF SendSummary, Step
  <2> QED
    BY <2>1, <1>1, <1>2, <1>3, <1>5, Sent
<1> QED
  BY <1>4, <1>5 DEF SendSummary, Step

LEMMA MarkSent ==
  ASSUME TypeOK, SendEndMark
  PROVE  \/ consumer = "dropped" /\ Keeps
         \/ consumer # "dropped" /\ \E n \in Nat : Adds(EndMark, n)
<1>1. UNCHANGED received /\ CanSend /\ Send(EndMark) /\ EndMark \in Report
  BY MarkFields DEF SendEndMark
<1>2. \A m, n : Adds(m, n) => n \in Nat
  BY DEF Adds
<1> QED
  BY <1>1, <1>2, Sent

LEMMA TickSent ==
  ASSUME TypeOK, SendTick
  PROVE  \/ consumer = "dropped" /\ Keeps
         \/ consumer # "dropped" /\ \E n \in Nat : Adds(draft, n)
<1>1. UNCHANGED received /\ CanSend /\ Send(draft) /\ draft \in Report
  BY DEF SendTick, TypeOK
<1>2. \A m, n : Adds(m, n) => n \in Nat
  BY DEF Adds
<1> QED
  BY <1>1, <1>2, Sent

LEMMA FinalsAreOutcomes == Finals \subseteq Outcomes
BY DEF Finals, Outcomes, Positions, Results

LEMMA StutterKeeps == ASSUME UNCHANGED vars PROVE Keeps
BY QuietKeeps DEF Quiet, vars, flowVars

-----------------------------------------------------------------------------
(* The parts of the invariant are kept *)

LEMMA HeardKept ==
  ASSUME Heard, Places, Next \/ UNCHANGED vars
  PROVE  Heard'
<1>1. CASE CountRequest
  BY <1>1 DEF Heard, CountRequest, Step, Collect, Testing, Reads, mainVars, tickVars,
     flowVars, engineVars, countVars, lastVars
<1>2. CASE CountAtEndpoint
  BY <1>2 DEF Heard, CountAtEndpoint, Step, Collect, Testing, Reads, mainVars, tickVars,
     flowVars, engineVars, countVars, lastVars
<1>3. CASE CountError
  BY <1>3 DEF Heard, CountError, Step, Collect, Testing, Reads, mainVars, tickVars,
     flowVars, engineVars, countVars, lastVars
<1>4. CASE RaiseEngineError
  BY <1>4 DEF Heard, RaiseEngineError, Step, Collect, Testing, Reads, mainVars,
     tickVars, flowVars, engineVars, countVars, lastVars
<1>5. CASE StartTest
  BY <1>5 DEF StartTest, Heard, Places, Step, Collect, Testing, Reads, mainVars,
     tickVars, flowVars, engineVars, countVars, lastVars
<1>6. CASE Panic
  BY <1>6 DEF Panic, Heard, Places, Step, Collect, Testing, Reads, mainVars, tickVars,
     flowVars, engineVars, countVars, lastVars
<1>7. CASE TakeFinals
  BY <1>7 DEF Heard, TakeFinals, Step, Collect, Testing, Reads, mainVars, tickVars,
     flowVars, engineVars, countVars, lastVars
<1>8. CASE LoadLast
  BY <1>8 DEF Heard, LoadLast, Step, Collect, Testing, Reads, mainVars, tickVars,
     flowVars, engineVars, countVars, lastVars
<1>9. CASE MoveLast
  BY <1>9 DEF Heard, MoveLast, Step, Collect, Testing, Reads, mainVars, tickVars,
     flowVars, engineVars, countVars, lastVars
<1>10. CASE MoveByMean
  BY <1>10 DEF Heard, MoveByMean, Step, Collect, Testing, Reads, mainVars, tickVars,
     flowVars, engineVars, countVars, lastVars
<1>11. CASE TakeRest
  BY <1>11 DEF Heard, TakeRest, Step, Collect, Testing, Reads, mainVars, tickVars,
     flowVars, engineVars, countVars, lastVars
<1>12. CASE StopTicks
  BY <1>12 DEF Heard, StopTicks, Step, Collect, Testing, Reads, mainVars, tickVars,
     flowVars, engineVars, countVars, lastVars
<1>13. CASE SendSummary
  BY <1>13 DEF Heard, SendSummary, Step, Collect, Testing, Reads, mainVars, tickVars,
     flowVars, engineVars, countVars, lastVars
<1>14. CASE SendEndMark
  BY <1>14 DEF Heard, SendEndMark, Step, Collect, Testing, Reads, mainVars, tickVars,
     flowVars, engineVars, countVars, lastVars
<1>15. CASE Tick
  BY <1>15 DEF Heard, Tick, Step, Collect, Testing, Reads, mainVars, tickVars, flowVars,
     engineVars, countVars, lastVars
<1>16. CASE LoadTotal
  BY <1>16 DEF Heard, LoadTotal, Step, Collect, Testing, Reads, mainVars, tickVars,
     flowVars, engineVars, countVars, lastVars
<1>17. CASE LoadEndpoint
  BY <1>17 DEF Heard, LoadEndpoint, Step, Collect, Testing, Reads, mainVars, tickVars,
     flowVars, engineVars, countVars, lastVars
<1>18. CASE LoadRates
  BY <1>18 DEF Heard, LoadRates, Step, Collect, Testing, Reads, mainVars, tickVars,
     flowVars, engineVars, countVars, lastVars
<1>19. CASE MoveRates
  BY <1>19 DEF Heard, MoveRates, Step, Collect, Testing, Reads, mainVars, tickVars,
     flowVars, engineVars, countVars, lastVars
<1>20. CASE LoadRequests
  BY <1>20 DEF Heard, LoadRequests, Step, Collect, Testing, Reads, mainVars, tickVars,
     flowVars, engineVars, countVars, lastVars
<1>21. CASE MoveRequests
  BY <1>21 DEF Heard, MoveRequests, Step, Collect, Testing, Reads, mainVars, tickVars,
     flowVars, engineVars, countVars, lastVars
<1>22. CASE DrainErrors
  BY <1>22 DEF Heard, DrainErrors, Step, Collect, Testing, Reads, mainVars, tickVars,
     flowVars, engineVars, countVars, lastVars
<1>23. CASE SendTick
  BY <1>23 DEF Heard, SendTick, Step, Collect, Testing, Reads, mainVars, tickVars,
     flowVars, engineVars, countVars, lastVars
<1>24. CASE HearStop
  BY <1>24 DEF Heard, HearStop, Step, Collect, Testing, Reads, mainVars, tickVars,
     flowVars, engineVars, countVars, lastVars
<1>25. CASE Receive
  BY <1>25 DEF Heard, Receive, Step, Collect, Testing, Reads, mainVars, tickVars,
     flowVars, engineVars, countVars, lastVars
<1>26. CASE ChannelClosed
  BY <1>26 DEF Heard, ChannelClosed, Step, Collect, Testing, Reads, mainVars, tickVars,
     flowVars, engineVars, countVars, lastVars
<1>27. CASE DropStream
  BY <1>27 DEF Heard, DropStream, Step, Collect, Testing, Reads, mainVars, tickVars,
     flowVars, engineVars, countVars, lastVars
<1>28. CASE UNCHANGED vars
  BY <1>28 DEF Heard, vars, mainVars, tickVars, flowVars, engineVars, countVars,
     lastVars
<1> QED
  BY <1>1, <1>2, <1>3, <1>4, <1>5, <1>6, <1>7, <1>8, <1>9, <1>10, <1>11, <1>12, <1>13,
     <1>14, <1>15, <1>16, <1>17, <1>18, <1>19, <1>20, <1>21, <1>22, <1>23, <1>24, <1>25,
     <1>26, <1>27, <1>28 DEF Next, MainStep, CollectorStep, Terminated

LEMMA MarkedKept ==
  ASSUME TypeOK, Marked, draft.kind = "tick", Next \/ UNCHANGED vars
  PROVE  Marked'
<1>1. CASE CountRequest
  BY <1>1, QuietSteps, QuietKeeps DEF Marked, Keeps, CountRequest, Step, Collect,
     Testing, Reads, mainVars, tickVars, flowVars, engineVars, countVars, lastVars
<1>2. CASE CountAtEndpoint
  BY <1>2, QuietSteps, QuietKeeps DEF Marked, Keeps, CountAtEndpoint, Step, Collect,
     Testing, Reads, mainVars, tickVars, flowVars, engineVars, countVars, lastVars
<1>3. CASE CountError
  BY <1>3, QuietSteps, QuietKeeps DEF Marked, Keeps, CountError, Step, Collect, Testing,
     Reads, mainVars, tickVars, flowVars, engineVars, countVars, lastVars
<1>4. CASE RaiseEngineError
  BY <1>4, QuietSteps, QuietKeeps DEF Marked, Keeps, RaiseEngineError, Step, Collect,
     Testing, Reads, mainVars, tickVars, flowVars, engineVars, countVars, lastVars
<1>5. CASE StartTest
  BY <1>5, QuietSteps, QuietKeeps DEF Marked, Keeps, StartTest, Step, Collect, Testing,
     Reads, mainVars, tickVars, flowVars, engineVars, countVars, lastVars
<1>6. CASE Panic
  BY <1>6, QuietSteps, QuietKeeps DEF Marked, Keeps, Panic, Step, Collect, Testing,
     Reads, mainVars, tickVars, flowVars, engineVars, countVars, lastVars
<1>7. CASE TakeFinals
  BY <1>7, QuietSteps, QuietKeeps DEF Marked, Keeps, TakeFinals, Step, Collect, Testing,
     Reads, mainVars, tickVars, flowVars, engineVars, countVars, lastVars
<1>8. CASE LoadLast
  BY <1>8, QuietSteps, QuietKeeps DEF Marked, Keeps, LoadLast, Step, Collect, Testing,
     Reads, mainVars, tickVars, flowVars, engineVars, countVars, lastVars
<1>9. CASE MoveLast
  BY <1>9, QuietSteps, QuietKeeps DEF Marked, Keeps, MoveLast, Step, Collect, Testing,
     Reads, mainVars, tickVars, flowVars, engineVars, countVars, lastVars
<1>10. CASE MoveByMean
  BY <1>10, QuietSteps, QuietKeeps DEF Marked, Keeps, MoveByMean, Step, Collect,
     Testing, Reads, mainVars, tickVars, flowVars, engineVars, countVars, lastVars
<1>11. CASE TakeRest
  BY <1>11, QuietSteps, QuietKeeps DEF Marked, Keeps, TakeRest, Step, Collect, Testing,
     Reads, mainVars, tickVars, flowVars, engineVars, countVars, lastVars
<1>12. CASE StopTicks
  BY <1>12, QuietSteps, QuietKeeps DEF Marked, Keeps, StopTicks, Step, Collect, Testing,
     Reads, mainVars, tickVars, flowVars, engineVars, countVars, lastVars
<1>13. CASE SendSummary
  <2>1. main' = "end" /\ consumer' = consumer /\ main \in {"final", "failed"}
    BY <1>13 DEF SendSummary, Step
  <2>2. Ends = {} /\ Outcomes = {}
    BY <2>1 DEF Marked
  <2>3. CASE consumer = "dropped" /\ Keeps
    BY <2>1, <2>2, <2>3 DEF Marked, Keeps
  <2>4. CASE \E n \in Nat : Adds(Summary, n)
    <3>1. PICK n \in Nat : Adds(Summary, n)
      BY <2>4
    <3>2. Ends' = {} /\ Outcomes' = {n}
      BY <3>1, <2>2, SummaryFields, SummaryAdds DEF TypeOK
    <3> QED
      BY <3>2, <2>1 DEF Marked
  <2>5. CASE \E n \in Nat : Adds(ErrorResult, n)
    <3>1. PICK n \in Nat : Adds(ErrorResult, n)
      BY <2>5
    <3>2. Ends' = {} /\ Outcomes' = {n}
      BY <3>1, <2>2, MarkFields, FailureAdds
    <3> QED
      BY <3>2, <2>1 DEF Marked
  <2> QED
    BY <1>13, <2>3, <2>4, <2>5, SummarySent
<1>14. CASE SendEndMark
  <2>1. main = "end" /\ main' = "done" /\ consumer' = consumer
    BY <1>14 DEF SendEndMark, Step
  <2>2. CASE consumer = "dropped" /\ Keeps
    BY <2>1, <2>2 DEF Marked, Keeps
  <2>3. CASE consumer # "dropped" /\ \E n \in Nat : Adds(EndMark, n)
    <3>1. PICK n \in Nat : Adds(EndMark, n)
      BY <2>3
    <3>2. Ends' = Ends \cup {n} /\ Outcomes' = Outcomes
      BY <3>1, MarkFields, MarkAdds
    <3>3. Ends = {} /\ Outcomes # {}
      BY <2>1, <2>3 DEF Marked
    <3>4. \A j \in Outcomes : j < n
      BY <3>1 DEF Adds
    <3> QED
      BY <2>1, <3>2, <3>3, <3>4 DEF Marked
  <2> QED
    BY <1>14, <2>2, <2>3, MarkSent
<1>15. CASE Tick
  BY <1>15, QuietSteps, QuietKeeps DEF Marked, Keeps, Tick, Step, Collect, Testing,
     Reads, mainVars, tickVars, flowVars, engineVars, countVars, lastVars
<1>16. CASE LoadTotal
  BY <1>16, QuietSteps, QuietKeeps DEF Marked, Keeps, LoadTotal, Step, Collect, Testing,
     Reads, mainVars, tickVars, flowVars, engineVars, countVars, lastVars
<1>17. CASE LoadEndpoint
  BY <1>17, QuietSteps, QuietKeeps DEF Marked, Keeps, LoadEndpoint, Step, Collect,
     Testing, Reads, mainVars, tickVars, flowVars, engineVars, countVars, lastVars
<1>18. CASE LoadRates
  BY <1>18, QuietSteps, QuietKeeps DEF Marked, Keeps, LoadRates, Step, Collect, Testing,
     Reads, mainVars, tickVars, flowVars, engineVars, countVars, lastVars
<1>19. CASE MoveRates
  BY <1>19, QuietSteps, QuietKeeps DEF Marked, Keeps, MoveRates, Step, Collect, Testing,
     Reads, mainVars, tickVars, flowVars, engineVars, countVars, lastVars
<1>20. CASE LoadRequests
  BY <1>20, QuietSteps, QuietKeeps DEF Marked, Keeps, LoadRequests, Step, Collect,
     Testing, Reads, mainVars, tickVars, flowVars, engineVars, countVars, lastVars
<1>21. CASE MoveRequests
  BY <1>21, QuietSteps, QuietKeeps DEF Marked, Keeps, MoveRequests, Step, Collect,
     Testing, Reads, mainVars, tickVars, flowVars, engineVars, countVars, lastVars
<1>22. CASE DrainErrors
  BY <1>22, QuietSteps, QuietKeeps DEF Marked, Keeps, DrainErrors, Step, Collect,
     Testing, Reads, mainVars, tickVars, flowVars, engineVars, countVars, lastVars
<1>23. CASE SendTick
  <2>1. main' = main /\ consumer' = consumer
    BY <1>23 DEF SendTick, mainVars
  <2>2. CASE Keeps
    BY <2>1, <2>2 DEF Marked, Keeps
  <2>3. CASE \E n \in Nat : Adds(draft, n)
    <3>1. PICK n \in Nat : Adds(draft, n)
      BY <2>3
    <3>2. Ends' = Ends /\ Outcomes' = Outcomes
      BY <3>1, TickAdds
    <3> QED
      BY <2>1, <3>2 DEF Marked
  <2> QED
    BY <1>23, <2>2, <2>3, TickSent
<1>24. CASE HearStop
  BY <1>24, QuietSteps, QuietKeeps DEF Marked, Keeps, HearStop, Step, Collect, Testing,
     Reads, mainVars, tickVars, flowVars, engineVars, countVars, lastVars
<1>25. CASE Receive
  <2>1. main' = main /\ Keeps /\ consumer # "dropped"
    BY <1>25, Received DEF Receive, Reads, mainVars
  <2> QED
    BY <2>1 DEF Marked, Keeps
<1>26. CASE ChannelClosed
  BY <1>26, QuietSteps, QuietKeeps DEF Marked, Keeps, ChannelClosed, Step, Collect,
     Testing, Reads, mainVars, tickVars, flowVars, engineVars, countVars, lastVars
<1>27. CASE DropStream
  BY <1>27, Dropped DEF Marked, Empties, DropStream
<1>28. CASE UNCHANGED vars
  BY <1>28, StutterKeeps DEF Marked, Keeps, vars, mainVars, tickVars, flowVars,
     engineVars, countVars, lastVars
<1> QED
  BY <1>1, <1>2, <1>3, <1>4, <1>5, <1>6, <1>7, <1>8, <1>9, <1>10, <1>11, <1>12, <1>13,
     <1>14, <1>15, <1>16, <1>17, <1>18, <1>19, <1>20, <1>21, <1>22, <1>23, <1>24, <1>25,
     <1>26, <1>27, <1>28 DEF Next, MainStep, CollectorStep, Terminated

LEMMA ReportedKept ==
  ASSUME TypeOK, Marked, Heard, Reported, draft.kind = "tick", Next \/ UNCHANGED vars
  PROVE  Reported'
<1>1. CASE CountRequest
  BY <1>1, QuietSteps, QuietKeeps DEF Reported, Keeps, CountRequest, Step, Collect,
     Testing, Reads, mainVars, tickVars, flowVars, engineVars, countVars, lastVars
<1>2. CASE CountAtEndpoint
  BY <1>2, QuietSteps, QuietKeeps DEF Reported, Keeps, CountAtEndpoint, Step, Collect,
     Testing, Reads, mainVars, tickVars, flowVars, engineVars, countVars, lastVars
<1>3. CASE CountError
  BY <1>3, QuietSteps, QuietKeeps DEF Reported, Keeps, CountError, Step, Collect,
     Testing, Reads, mainVars, tickVars, flowVars, engineVars, countVars, lastVars
<1>4. CASE RaiseEngineError
  <2>1. /\ main \in {"setup", "test"} /\ main' = main /\ lost' = lost /\ draft' = draft
        /\ collector' = collector /\ consumer' = consumer
        /\ raised' = raised + 1 /\ engine' = engine \cup {raised + 1}
    BY <1>4 DEF RaiseEngineError, Testing, mainVars, tickVars, flowVars
  <2>2. Keeps
    BY <1>4, QuietSteps, QuietKeeps
  <2>3. Finals = {} /\ Finals' = {} /\ Told' = Told
    BY <2>1, <2>2, FinalsAreOutcomes DEF Marked, Keeps
  <2>4. 1 .. raised' = (1 .. raised) \cup {raised + 1}
    BY <2>1 DEF TypeOK
  <2> QED
    BY <2>1, <2>3, <2>4 DEF Reported
<1>5. CASE StartTest
  BY <1>5, QuietSteps, QuietKeeps DEF Heard, Reported, Keeps, StartTest, Step, Collect,
     Testing, Reads, mainVars, tickVars, flowVars, engineVars, countVars, lastVars
<1>6. CASE Panic
  BY <1>6, QuietSteps, QuietKeeps DEF Heard, Reported, Keeps, Panic, Step, Collect,
     Testing, Reads, mainVars, tickVars, flowVars, engineVars, countVars, lastVars
<1>7. CASE TakeFinals
  BY <1>7, QuietSteps, QuietKeeps DEF Reported, Keeps, TakeFinals, Step, Collect,
     Testing, Reads, mainVars, tickVars, flowVars, engineVars, countVars, lastVars
<1>8. CASE LoadLast
  BY <1>8, QuietSteps, QuietKeeps DEF Reported, Keeps, LoadLast, Step, Collect, Testing,
     Reads, mainVars, tickVars, flowVars, engineVars, countVars, lastVars
<1>9. CASE MoveLast
  BY <1>9, QuietSteps, QuietKeeps DEF Reported, Keeps, MoveLast, Step, Collect, Testing,
     Reads, mainVars, tickVars, flowVars, engineVars, countVars, lastVars
<1>10. CASE MoveByMean
  BY <1>10, QuietSteps, QuietKeeps DEF Reported, Keeps, MoveByMean, Step, Collect,
     Testing, Reads, mainVars, tickVars, flowVars, engineVars, countVars, lastVars
<1>11. CASE TakeRest
  BY <1>11, QuietSteps, QuietKeeps DEF Reported, Keeps, TakeRest, Step, Collect,
     Testing, Reads, mainVars, tickVars, flowVars, engineVars, countVars, lastVars
<1>12. CASE StopTicks
  BY <1>12, QuietSteps, QuietKeeps DEF Reported, Keeps, StopTicks, Step, Collect,
     Testing, Reads, mainVars, tickVars, flowVars, engineVars, countVars, lastVars
<1>13. CASE SendSummary
  <2>1. /\ main' = "end" /\ consumer' = consumer /\ main \in {"final", "failed"}
        /\ collector' = collector /\ draft' = draft /\ raised' = raised
        /\ engine' = engine /\ lost' = lost
    BY <1>13 DEF SendSummary, Step, tickVars, engineVars, countVars, lastVars
  <2>2. Finals = {}
    BY <2>1, FinalsAreOutcomes DEF Marked
  <2>3. CASE consumer = "dropped" /\ Keeps
    BY <2>1, <2>3 DEF Reported
  <2>4. CASE main = "final" /\ \E n \in Nat : Adds(Summary, n)
    <3>1. PICK n \in Nat : Adds(Summary, n)
      BY <2>4
    <3>2. Told' = Told \cup restFinal
      BY <3>1, SummaryFields DEF Adds, TypeOK
    <3> QED
      BY <2>1, <2>4, <3>2 DEF Reported
  <2>5. CASE \E n \in Nat : Adds(ErrorResult, n)
    <3>1. PICK n \in Nat : Adds(ErrorResult, n)
      BY <2>5
    <3>2. Finals' = {} /\ Told \subseteq Told'
      BY <3>1, <2>2, MarkFields, FailureAdds DEF Adds
    <3> QED
      BY <2>1, <3>2 DEF Reported
  <2> QED
    BY <1>13, <2>3, <2>4, <2>5, SummarySent
<1>14. CASE SendEndMark
  <2>1. /\ main' = "done" /\ consumer' = consumer
        /\ collector' = collector /\ draft' = draft /\ raised' = raised
        /\ engine' = engine /\ lost' = lost
    BY <1>14 DEF SendEndMark, Step, tickVars, engineVars, countVars, lastVars
  <2>2. CASE Keeps
    BY <2>1, <2>2 DEF Reported, Keeps
  <2>3. CASE \E n \in Nat : Adds(EndMark, n)
    <3>1. PICK n \in Nat : Adds(EndMark, n)
      BY <2>3
    <3>2. Finals' = Finals /\ Told \subseteq Told'
      BY <3>1, MarkFields, MarkAdds DEF Adds
    <3> QED
      BY <2>1, <3>2 DEF Reported
  <2> QED
    BY <1>14, <2>2, <2>3, MarkSent
<1>15. CASE Tick
  BY <1>15, QuietSteps, QuietKeeps, DraftSteps DEF Reported, Keeps, Tick, Step, Collect,
     Testing, Reads, mainVars, tickVars, flowVars, engineVars, countVars, lastVars
<1>16. CASE LoadTotal
  BY <1>16, QuietSteps, QuietKeeps, DraftSteps DEF Reported, Keeps, LoadTotal, Step,
     Collect, Testing, Reads, mainVars, tickVars, flowVars, engineVars, countVars,
     lastVars
<1>17. CASE LoadEndpoint
  BY <1>17, QuietSteps, QuietKeeps, DraftSteps DEF Reported, Keeps, LoadEndpoint, Step,
     Collect, Testing, Reads, mainVars, tickVars, flowVars, engineVars, countVars,
     lastVars
<1>18. CASE LoadRates
  BY <1>18, QuietSteps, QuietKeeps, DraftSteps DEF Reported, Keeps, LoadRates, Step,
     Collect, Testing, Reads, mainVars, tickVars, flowVars, engineVars, countVars,
     lastVars
<1>19. CASE MoveRates
  BY <1>19, QuietSteps, QuietKeeps DEF Reported, Keeps, MoveRates, Step, Collect,
     Testing, Reads, mainVars, tickVars, flowVars, engineVars, countVars, lastVars
<1>20. CASE LoadRequests
  BY <1>20, QuietSteps, QuietKeeps, DraftSteps DEF Reported, Keeps, LoadRequests, Step,
     Collect, Testing, Reads, mainVars, tickVars, flowVars, engineVars, countVars,
     lastVars
<1>21. CASE MoveRequests
  BY <1>21, QuietSteps, QuietKeeps DEF Reported, Keeps, MoveRequests, Step, Collect,
     Testing, Reads, mainVars, tickVars, flowVars, engineVars, countVars, lastVars
<1>22. CASE DrainErrors
  <2>1. /\ draft'.rest = engine /\ engine' = {} /\ raised' = raised /\ lost' = lost
        /\ main' = main /\ restFinal' = restFinal /\ consumer' = consumer
        /\ collector = "drain" /\ collector' = "send"
    BY <1>22, DraftSteps DEF DrainErrors, Collect, mainVars, flowVars
  <2>2. Told' = Told
    BY <1>22, QuietSteps, QuietKeeps DEF Keeps
  <2>3. draft.rest = {}
    BY <2>1 DEF Reported
  <2> QED
    BY <2>1, <2>2, <2>3 DEF Reported
<1>23. CASE SendTick
  <2>1. /\ main' = main /\ consumer' = consumer /\ restFinal' = restFinal
        /\ collector' = "tick" /\ draft'.rest = {} /\ raised' = raised
        /\ engine' = engine /\ lost' = lost
    BY <1>23, EmptyFields DEF SendTick, Collect, mainVars, engineVars, countVars,
       lastVars
  <2>2. CASE consumer = "dropped"
    BY <2>1, <2>2 DEF Reported
  <2>3. CASE \E n \in Nat : Adds(draft, n)
    <3>1. PICK n \in Nat : Adds(draft, n)
      BY <2>3
    <3>2. Finals' = Finals /\ Told' = Told \cup draft.rest
      BY <3>1, TickAdds DEF Adds
    <3> QED
      BY <2>1, <3>2 DEF Reported
  <2> QED
    BY <1>23, <2>2, <2>3, TickSent
<1>24. CASE HearStop
  <2>1. /\ engine' = engine /\ raised' = raised
        /\ main' = main /\ restFinal' = restFinal /\ consumer' = consumer
        /\ collector' = "gone"
    BY <1>24 DEF HearStop, Collect, mainVars, flowVars
  <2>2. Told' = Told /\ Finals' = Finals
    BY <1>24, QuietSteps, QuietKeeps DEF Keeps
  <2>3. CASE collector = "tick"
    <3>1. draft' = draft /\ lost' = lost /\ draft.rest = {}
      BY <1>24, <2>3 DEF HearStop, Collect, Reported
    <3> QED
      BY <2>1, <2>2, <3>1 DEF Reported
  <2>4. CASE collector = "send"
    <3>1. lost' = lost \cup draft.rest /\ draft'.rest = {}
      BY <1>24, <2>4, EmptyFields DEF HearStop, Collect
    <3> QED
      BY <2>1, <2>2, <3>1 DEF Reported
  <2> QED
    BY <1>24, <2>3, <2>4 DEF HearStop, Collect
<1>25. CASE Receive
  <2>1. Keeps /\ consumer # "dropped"
    BY <1>25, Received DEF Receive, Reads
  <2> QED
    BY <1>25, <2>1 DEF Reported, Keeps, Receive, mainVars, tickVars, flowVars,
       engineVars, countVars, lastVars
<1>26. CASE ChannelClosed
  BY <1>26, QuietSteps, QuietKeeps DEF Reported, Keeps, ChannelClosed, Step, Collect,
     Testing, Reads, mainVars, tickVars, flowVars, engineVars, countVars, lastVars
<1>27. CASE DropStream
  BY <1>27 DEF Reported, DropStream, mainVars, tickVars, flowVars, engineVars,
     countVars, lastVars
<1>28. CASE UNCHANGED vars
  BY <1>28, StutterKeeps DEF Reported, Keeps, vars, mainVars, tickVars, flowVars,
     engineVars, countVars, lastVars
<1> QED
  BY <1>1, <1>2, <1>3, <1>4, <1>5, <1>6, <1>7, <1>8, <1>9, <1>10, <1>11, <1>12, <1>13,
     <1>14, <1>15, <1>16, <1>17, <1>18, <1>19, <1>20, <1>21, <1>22, <1>23, <1>24, <1>25,
     <1>26, <1>27, <1>28 DEF Next, MainStep, CollectorStep, Terminated

LEMMA StreamTotals ==
  ASSUME TypeOK
  PROVE  \A i \in DOMAIN Stream : Stream[i] \in Report /\ Stream[i].total \in Nat
<1>1. channel \in Seq(Report) /\ received \in Seq(Report)
  BY DEF TypeOK
<1>2. Stream \in Seq(Report)
  BY <1>1, ConcatProperties DEF Stream
<1>3. \A i \in DOMAIN Stream : Stream[i] \in Report
  BY <1>2
<1> QED
  BY <1>3, ReportFields

LEMMA PlacesOfKinds ==
  /\ Ticks \subseteq DOMAIN Stream /\ Shown \subseteq DOMAIN Stream
  /\ Ticks \subseteq Shown
BY DEF Ticks, Shown, Positions

(* The part of Ordered that is about the stream alone. *)
Rising == \A i \in Ticks, j \in Shown : i < j => Stream[i].total <= Stream[j].total
NoneAbove(b) == \A i \in Ticks : Stream[i].total <= b

LEMMA KeepsRising ==
  ASSUME Keeps, Rising, NEW b, NoneAbove(b)
  PROVE  Rising' /\ \A i \in Ticks' : Stream'[i].total <= b
BY DEF Keeps, Rising, NoneAbove

LEMMA AddsRising ==
  ASSUME TypeOK, Rising, NEW b \in Nat, NoneAbove(b),
         NEW m \in Report, NEW n \in Nat, Adds(m, n), Shown' = Shown \cup {n}, m.total = b,
         Ticks' \in {Ticks, Ticks \cup {n}}
  PROVE  Rising' /\ \A i \in Ticks' : Stream'[i].total <= b
<1>1. /\ Ticks \subseteq 1 .. n - 1 /\ Shown \subseteq 1 .. n - 1
      /\ Stream'[n] = m /\ \A i \in 1 .. n - 1 : Stream'[i] = Stream[i]
  BY DEF Adds
<1>2. \A i \in Ticks : Stream'[i] = Stream[i] /\ Stream[i].total <= b
  BY <1>1 DEF NoneAbove
<1>3. \A i \in Ticks' : Stream'[i].total <= b
  BY <1>1, <1>2
<1>4. ASSUME NEW i \in Ticks', NEW j \in Shown', i < j
      PROVE  Stream'[i].total <= Stream'[j].total
  <2>1. CASE j = n
    BY <2>1, <1>1, <1>3
  <2>2. CASE j \in Shown
    <3>1. j \in 1 .. n - 1 /\ Stream'[j] = Stream[j]
      BY <2>2, <1>1
    <3>2. i \in Ticks
      BY <3>1, <1>4
    <3> QED
      BY <3>1, <3>2, <1>2, <1>4, <2>2 DEF Rising
  <2> QED
    BY <2>1, <2>2
<1> QED
  BY <1>3, <1>4 DEF Rising

LEMMA MarkRising ==
  ASSUME Rising, NEW b \in Nat, NoneAbove(b), NEW m, NEW n \in Nat, Adds(m, n),
         Shown' = Shown, Ticks' = Ticks
  PROVE  Rising' /\ \A i \in Ticks' : Stream'[i].total <= b
<1>1. \A i \in Ticks \cup Shown : Stream'[i] = Stream[i]
  BY DEF Adds
<1> QED
  BY <1>1 DEF Rising, NoneAbove

LEMMA OrderedParts ==
  Ordered <=> /\ main \in AfterTest => requestsFinal = requests
              /\ draft.kind = "tick" /\ draft.total <= requests
              /\ NoneAbove(requests)
              /\ Ahead => NoneAbove(draft.total)
              /\ Rising
BY DEF Ordered, Ahead, NoneAbove, Rising

(* A step of the test's own makes the bound no smaller. *)
LEMMA QuietOrdered ==
  ASSUME TypeOK, Ordered, Keeps, UNCHANGED draft,
         requests' \in Nat, requests <= requests',
         Ahead' => Ahead,
         main' \in AfterTest => requestsFinal' = requests'
  PROVE  Ordered'
<1>1. /\ draft.kind = "tick" /\ draft.total <= requests /\ NoneAbove(requests)
      /\ Rising /\ (Ahead => NoneAbove(draft.total))
      /\ draft.total \in Nat /\ requests \in Nat
  BY OrderedParts, ReportFields DEF TypeOK
<1>2. Rising' /\ \A i \in Ticks' : Stream'[i].total <= requests
  BY <1>1, KeepsRising
<1>3. \A i \in Ticks' : Stream'[i].total \in Nat
  BY StreamTotals, PlacesOfKinds DEF Keeps
<1>4. \A i \in Ticks' : Stream'[i].total <= requests'
  BY <1>1, <1>2, <1>3
<1>5. Ahead' => \A i \in Ticks' : Stream'[i].total <= draft'.total
  BY <1>1, KeepsRising
<1>6. draft'.kind = "tick" /\ draft'.total <= requests'
  BY <1>1
<1> QED
  BY <1>2, <1>4, <1>5, <1>6 DEF Ordered, Ahead, Rising

LEMMA HearStopDraft ==
  ASSUME HearStop
  PROVE  /\ collector' = "gone"
         /\ draft' = draft \/ draft' = Empty
         /\ draft' = draft \/ (draft'.kind = "tick" /\ draft'.total = 0)
<1>1. CASE collector = "tick"
  BY <1>1 DEF HearStop, Collect
<1>2. CASE collector = "send"
  BY <1>2, EmptyFields DEF HearStop, Collect
<1> QED
  BY <1>1, <1>2 DEF HearStop, Collect

(* The steps that work on the live report. *)
LEMMA DraftOrdered ==
  ASSUME TypeOK, Ordered, Keeps, UNCHANGED <<main, requests, requestsFinal>>,
         \/ draft'.kind = draft.kind /\ draft'.total = requests
         \/ draft'.kind = draft.kind /\ draft'.total = draft.total /\ Ahead
         \/ (draft' = draft \/ (draft'.kind = "tick" /\ draft'.total = 0)) /\ ~Ahead'
  PROVE  Ordered'
<1>1. /\ NoneAbove(requests) /\ Rising /\ draft.kind = "tick" /\ draft.total <= requests
      /\ requests \in Nat /\ (Ahead => NoneAbove(draft.total))
      /\ (main \in AfterTest => requestsFinal = requests)
  BY OrderedParts DEF TypeOK
<1>2. draft'.kind = "tick" /\ draft'.total <= requests
  BY <1>1
<1>3. Rising' /\ NoneAbove(requests)'
  BY <1>1 DEF Keeps, Rising, NoneAbove
<1>4. Ahead' => NoneAbove(draft.total)'
  BY <1>1 DEF Keeps, NoneAbove
<1> QED
  BY <1>1, <1>2, <1>3, <1>4 DEF Ordered, Rising, NoneAbove

LEMMA OrderedKept ==
  ASSUME TypeOK, Ordered, Next \/ UNCHANGED vars
  PROVE  Ordered'
<1>1. CASE CountRequest
  <2>1. /\ UNCHANGED draft /\ requests' \in Nat /\ requests <= requests' /\ (Ahead' => Ahead)
        /\ main' \in AfterTest => requestsFinal' = requests'
    BY <1>1 DEF CountRequest, TypeOK, Ordered, Ahead, AfterTest, Step, Collect, Testing,
       mainVars, tickVars, flowVars, engineVars, countVars, lastVars
  <2> QED
    BY <1>1, <2>1, QuietSteps, QuietKeeps, QuietOrdered
<1>2. CASE CountAtEndpoint
  <2>1. /\ UNCHANGED draft /\ requests' \in Nat /\ requests <= requests' /\ (Ahead' => Ahead)
        /\ main' \in AfterTest => requestsFinal' = requests'
    BY <1>2 DEF CountAtEndpoint, TypeOK, Ordered, Ahead, AfterTest, Step, Collect,
       Testing, mainVars, tickVars, flowVars, engineVars, countVars, lastVars
  <2> QED
    BY <1>2, <2>1, QuietSteps, QuietKeeps, QuietOrdered
<1>3. CASE CountError
  <2>1. /\ UNCHANGED draft /\ requests' \in Nat /\ requests <= requests' /\ (Ahead' => Ahead)
        /\ main' \in AfterTest => requestsFinal' = requests'
    BY <1>3 DEF CountError, TypeOK, Ordered, Ahead, AfterTest, Step, Collect, Testing,
       mainVars, tickVars, flowVars, engineVars, countVars, lastVars
  <2> QED
    BY <1>3, <2>1, QuietSteps, QuietKeeps, QuietOrdered
<1>4. CASE RaiseEngineError
  <2>1. /\ UNCHANGED draft /\ requests' \in Nat /\ requests <= requests' /\ (Ahead' => Ahead)
        /\ main' \in AfterTest => requestsFinal' = requests'
    BY <1>4 DEF RaiseEngineError, TypeOK, Ordered, Ahead, AfterTest, Step, Collect,
       Testing, mainVars, tickVars, flowVars, engineVars, countVars, lastVars
  <2> QED
    BY <1>4, <2>1, QuietSteps, QuietKeeps, QuietOrdered
<1>5. CASE StartTest
  <2>1. /\ UNCHANGED draft /\ requests' \in Nat /\ requests <= requests' /\ (Ahead' => Ahead)
        /\ main' \in AfterTest => requestsFinal' = requests'
    BY <1>5 DEF StartTest, TypeOK, Ordered, Ahead, AfterTest, Step, Collect, Testing,
       mainVars, tickVars, flowVars, engineVars, countVars, lastVars
  <2> QED
    BY <1>5, <2>1, QuietSteps, QuietKeeps, QuietOrdered
<1>6. CASE Panic
  <2>1. /\ UNCHANGED draft /\ requests' \in Nat /\ requests <= requests' /\ (Ahead' => Ahead)
        /\ main' \in AfterTest => requestsFinal' = requests'
    BY <1>6 DEF Panic, TypeOK, Ordered, Ahead, AfterTest, Step, Collect, Testing,
       mainVars, tickVars, flowVars, engineVars, countVars, lastVars
  <2> QED
    BY <1>6, <2>1, QuietSteps, QuietKeeps, QuietOrdered
<1>7. CASE TakeFinals
  <2>1. /\ UNCHANGED draft /\ requests' \in Nat /\ requests <= requests' /\ (Ahead' => Ahead)
        /\ main' \in AfterTest => requestsFinal' = requests'
    BY <1>7 DEF TakeFinals, TypeOK, Ordered, Ahead, AfterTest, Step, Collect, Testing,
       mainVars, tickVars, flowVars, engineVars, countVars, lastVars
  <2> QED
    BY <1>7, <2>1, QuietSteps, QuietKeeps, QuietOrdered
<1>8. CASE LoadLast
  <2>1. /\ UNCHANGED draft /\ requests' \in Nat /\ requests <= requests' /\ (Ahead' => Ahead)
        /\ main' \in AfterTest => requestsFinal' = requests'
    BY <1>8 DEF LoadLast, TypeOK, Ordered, Ahead, AfterTest, Step, Collect, Testing,
       mainVars, tickVars, flowVars, engineVars, countVars, lastVars
  <2> QED
    BY <1>8, <2>1, QuietSteps, QuietKeeps, QuietOrdered
<1>9. CASE MoveLast
  <2>1. /\ UNCHANGED draft /\ requests' \in Nat /\ requests <= requests' /\ (Ahead' => Ahead)
        /\ main' \in AfterTest => requestsFinal' = requests'
    BY <1>9 DEF MoveLast, TypeOK, Ordered, Ahead, AfterTest, Step, Collect, Testing,
       mainVars, tickVars, flowVars, engineVars, countVars, lastVars
  <2> QED
    BY <1>9, <2>1, QuietSteps, QuietKeeps, QuietOrdered
<1>10. CASE MoveByMean
  <2>1. /\ UNCHANGED draft /\ requests' \in Nat /\ requests <= requests' /\ (Ahead' => Ahead)
        /\ main' \in AfterTest => requestsFinal' = requests'
    BY <1>10 DEF MoveByMean, TypeOK, Ordered, Ahead, AfterTest, Step, Collect, Testing,
       mainVars, tickVars, flowVars, engineVars, countVars, lastVars
  <2> QED
    BY <1>10, <2>1, QuietSteps, QuietKeeps, QuietOrdered
<1>11. CASE TakeRest
  <2>1. /\ UNCHANGED draft /\ requests' \in Nat /\ requests <= requests' /\ (Ahead' => Ahead)
        /\ main' \in AfterTest => requestsFinal' = requests'
    BY <1>11 DEF TakeRest, TypeOK, Ordered, Ahead, AfterTest, Step, Collect, Testing,
       mainVars, tickVars, flowVars, engineVars, countVars, lastVars
  <2> QED
    BY <1>11, <2>1, QuietSteps, QuietKeeps, QuietOrdered
<1>12. CASE StopTicks
  <2>1. /\ UNCHANGED draft /\ requests' \in Nat /\ requests <= requests' /\ (Ahead' => Ahead)
        /\ main' \in AfterTest => requestsFinal' = requests'
    BY <1>12 DEF StopTicks, TypeOK, Ordered, Ahead, AfterTest, Step, Collect, Testing,
       mainVars, tickVars, flowVars, engineVars, countVars, lastVars
  <2> QED
    BY <1>12, <2>1, QuietSteps, QuietKeeps, QuietOrdered
<1>13. CASE SendSummary
  <2>0. /\ NoneAbove(requests) /\ Rising /\ draft.kind = "tick" /\ draft.total <= requests
        /\ requests \in Nat /\ (Ahead => NoneAbove(draft.total)) /\ draft \in Report
        /\ draft.total \in Nat
        /\ (main \in AfterTest => requestsFinal = requests)
    BY OrderedParts, ReportFields DEF TypeOK
  <2>1. /\ main' = "end" /\ requests' = requests /\ draft' = draft /\ collector' = collector
    BY <1>13 DEF SendSummary, Step, tickVars, countVars
  <2> DEFINE Good == /\ Rising' /\ \A i \in Ticks' : Stream'[i].total <= requests
                     /\ Ahead => \A i \in Ticks' : Stream'[i].total <= draft.total
  <2>2. ASSUME Keeps PROVE Good
    BY <2>0, <2>2, KeepsRising
  <2>3. ASSUME main = "final", \E n \in Nat : Adds(Summary, n) PROVE Good
    <3>1. PICK n \in Nat : Adds(Summary, n)
      BY <2>3
    <3>2. Summary \in Report /\ Summary.kind = "final" /\ Summary.total = requests
      BY <2>0, <2>3, SummaryFields DEF TypeOK, AfterTest
    <3>3. Ticks' = Ticks /\ Shown' = Shown \cup {n}
      BY <3>1, <3>2, SummaryAdds
    <3>4. Rising' /\ \A i \in Ticks' : Stream'[i].total <= requests
      BY <2>0, <3>1, <3>2, <3>3, AddsRising
    <3>5. \A i \in Ticks : Stream'[i] = Stream[i]
      BY <3>1 DEF Adds
    <3> QED
      BY <2>0, <3>3, <3>4, <3>5 DEF NoneAbove
  <2>4. ASSUME \E n \in Nat : Adds(ErrorResult, n) PROVE Good
    <3>1. PICK n \in Nat : Adds(ErrorResult, n)
      BY <2>4
    <3>2. Ticks' = Ticks /\ Shown' = Shown
      BY <3>1, MarkFields, FailureAdds
    <3> QED
      BY <2>0, <3>1, <3>2, MarkRising
  <2>5. Good
    BY <1>13, <2>2, <2>3, <2>4, SummarySent
  <2> QED
    BY <2>0, <2>1, <2>5 DEF Ordered, Rising, Ahead, AfterTest
<1>14. CASE SendEndMark
  <2>0. /\ NoneAbove(requests) /\ Rising /\ draft.kind = "tick" /\ draft.total <= requests
        /\ requests \in Nat /\ (Ahead => NoneAbove(draft.total)) /\ draft \in Report
        /\ draft.total \in Nat
        /\ (main \in AfterTest => requestsFinal = requests)
    BY OrderedParts, ReportFields DEF TypeOK
  <2>1. /\ main' = "done" /\ requests' = requests /\ draft' = draft /\ collector' = collector
    BY <1>14 DEF SendEndMark, Step, tickVars, countVars
  <2> DEFINE Good == /\ Rising' /\ \A i \in Ticks' : Stream'[i].total <= requests
                     /\ Ahead => \A i \in Ticks' : Stream'[i].total <= draft.total
  <2>2. ASSUME Keeps PROVE Good
    BY <2>0, <2>2, KeepsRising
  <2>4. ASSUME \E n \in Nat : Adds(EndMark, n) PROVE Good
    <3>1. PICK n \in Nat : Adds(EndMark, n)
      BY <2>4
    <3>2. Ticks' = Ticks /\ Shown' = Shown
      BY <3>1, MarkFields, MarkAdds
    <3> QED
      BY <2>0, <3>1, <3>2, MarkRising
  <2>5. Good
    BY <1>14, <2>2, <2>4, MarkSent
  <2> QED
    BY <2>0, <2>1, <2>5 DEF Ordered, Rising, Ahead, AfterTest
<1>15. CASE Tick
  <2>1. UNCHANGED <<main, requests, requestsFinal>> /\ Keeps
    BY <1>15, QuietSteps, QuietKeeps DEF Tick, mainVars, countVars
  <2>2. draft'.kind = "tick" /\ draft'.total = 0 /\ ~Ahead'
    BY <1>15, DraftSteps DEF Tick, Collect, Ahead
  <2> QED
    BY <2>1, <2>2, DraftOrdered
<1>16. CASE LoadTotal
  <2>1. UNCHANGED <<main, requests, requestsFinal>> /\ Keeps
    BY <1>16, QuietSteps, QuietKeeps DEF LoadTotal, mainVars, countVars
  <2>2. draft'.kind = draft.kind /\ draft'.total = requests
    BY <1>16, DraftSteps DEF LoadTotal, Collect, Ahead
  <2> QED
    BY <2>1, <2>2, DraftOrdered
<1>17. CASE LoadEndpoint
  <2>1. UNCHANGED <<main, requests, requestsFinal>> /\ Keeps
    BY <1>17, QuietSteps, QuietKeeps DEF LoadEndpoint, mainVars, countVars
  <2>2. draft'.kind = draft.kind /\ draft'.total = draft.total /\ Ahead
    BY <1>17, DraftSteps DEF LoadEndpoint, Collect, Ahead
  <2> QED
    BY <2>1, <2>2, DraftOrdered
<1>18. CASE LoadRates
  <2>1. UNCHANGED <<main, requests, requestsFinal>> /\ Keeps
    BY <1>18, QuietSteps, QuietKeeps DEF LoadRates, mainVars, countVars
  <2>2. draft'.kind = draft.kind /\ draft'.total = draft.total /\ Ahead
    BY <1>18, DraftSteps DEF LoadRates, Collect, Ahead
  <2> QED
    BY <2>1, <2>2, DraftOrdered
<1>19. CASE MoveRates
  <2>1. /\ UNCHANGED draft /\ requests' \in Nat /\ requests <= requests' /\ (Ahead' => Ahead)
        /\ main' \in AfterTest => requestsFinal' = requests'
    BY <1>19 DEF MoveRates, TypeOK, Ordered, Ahead, AfterTest, Step, Collect, Testing,
       mainVars, tickVars, flowVars, engineVars, countVars, lastVars
  <2> QED
    BY <1>19, <2>1, QuietSteps, QuietKeeps, QuietOrdered
<1>20. CASE LoadRequests
  <2>1. UNCHANGED <<main, requests, requestsFinal>> /\ Keeps
    BY <1>20, QuietSteps, QuietKeeps DEF LoadRequests, mainVars, countVars
  <2>2. draft'.kind = draft.kind /\ draft'.total = draft.total /\ Ahead
    BY <1>20, DraftSteps DEF LoadRequests, Collect, Ahead
  <2> QED
    BY <2>1, <2>2, DraftOrdered
<1>21. CASE MoveRequests
  <2>1. /\ UNCHANGED draft /\ requests' \in Nat /\ requests <= requests' /\ (Ahead' => Ahead)
        /\ main' \in AfterTest => requestsFinal' = requests'
    BY <1>21 DEF MoveRequests, TypeOK, Ordered, Ahead, AfterTest, Step, Collect,
       Testing, mainVars, tickVars, flowVars, engineVars, countVars, lastVars
  <2> QED
    BY <1>21, <2>1, QuietSteps, QuietKeeps, QuietOrdered
<1>22. CASE DrainErrors
  <2>1. UNCHANGED <<main, requests, requestsFinal>> /\ Keeps
    BY <1>22, QuietSteps, QuietKeeps DEF DrainErrors, mainVars, countVars
  <2>2. draft'.kind = draft.kind /\ draft'.total = draft.total /\ Ahead
    BY <1>22, DraftSteps DEF DrainErrors, Collect, Ahead
  <2> QED
    BY <2>1, <2>2, DraftOrdered
<1>23. CASE SendTick
  <2>0. /\ NoneAbove(requests) /\ Rising /\ draft.kind = "tick" /\ draft.total <= requests
        /\ requests \in Nat /\ (Ahead => NoneAbove(draft.total)) /\ draft \in Report
        /\ draft.total \in Nat
        /\ (main \in AfterTest => requestsFinal = requests)
    BY OrderedParts, ReportFields DEF TypeOK
  <2>1. /\ main' = main /\ requests' = requests /\ requestsFinal' = requestsFinal
        /\ draft' = Empty /\ Ahead /\ ~Ahead'
    BY <1>23 DEF SendTick, Collect, mainVars, countVars, Ahead
  <2> DEFINE Good == Rising' /\ \A i \in Ticks' : Stream'[i].total <= requests
  <2>2. ASSUME Keeps PROVE Good
    BY <2>0, <2>2, KeepsRising
  <2>3. ASSUME \E n \in Nat : Adds(draft, n) PROVE Good
    <3>1. PICK n \in Nat : Adds(draft, n)
      BY <2>3
    <3>2. Ticks' = Ticks \cup {n} /\ Shown' = Shown \cup {n}
      BY <2>0, <3>1, TickAdds
    <3>3. Rising' /\ \A i \in Ticks' : Stream'[i].total <= draft.total
      BY <2>0, <2>1, <3>1, <3>2, AddsRising
    <3>4. \A i \in Ticks' : i = n \/ (i \in Ticks /\ Stream'[i] = Stream[i])
      BY <3>1, <3>2 DEF Adds
    <3>5. Stream'[n] = draft
      BY <3>1 DEF Adds
    <3>6. \A i \in Ticks' : Stream'[i].total <= requests
      BY <2>0, <3>4, <3>5 DEF NoneAbove
    <3> QED
      BY <3>3, <3>6
  <2>4. Good
    BY <1>23, <2>2, <2>3, TickSent
  <2> QED
    BY <2>0, <2>1, <2>4, EmptyFields DEF Ordered, Rising, Ahead, AfterTest
<1>24. CASE HearStop
  <2>1. UNCHANGED <<main, requests, requestsFinal>> /\ Keeps
    BY <1>24, QuietSteps, QuietKeeps DEF HearStop, mainVars, countVars
  <2>2. (draft' = draft \/ (draft'.kind = "tick" /\ draft'.total = 0)) /\ ~Ahead'
    BY <1>24, HearStopDraft DEF HearStop, Collect, Ahead
  <2> QED
    BY <2>1, <2>2, DraftOrdered
<1>25. CASE Receive
  <2>1. UNCHANGED <<draft, requests, main, requestsFinal, collector>> /\ Keeps
    BY <1>25, Received DEF Receive, mainVars, tickVars, countVars
  <2> QED
    BY <2>1 DEF Ordered, Ahead, Keeps
<1>26. CASE ChannelClosed
  <2>1. /\ UNCHANGED draft /\ requests' \in Nat /\ requests <= requests' /\ (Ahead' => Ahead)
        /\ main' \in AfterTest => requestsFinal' = requests'
    BY <1>26 DEF ChannelClosed, TypeOK, Ordered, Ahead, AfterTest, Step, Collect,
       Testing, mainVars, tickVars, flowVars, engineVars, countVars, lastVars
  <2> QED
    BY <1>26, <2>1, QuietSteps, QuietKeeps, QuietOrdered
<1>27. CASE DropStream
  <2>1. UNCHANGED <<draft, requests, main, requestsFinal, collector>> /\ Empties
    BY <1>27, Dropped DEF DropStream, mainVars, tickVars, countVars
  <2> QED
    BY <2>1 DEF Ordered, Ahead, Empties
<1>28. CASE UNCHANGED vars
  BY <1>28, StutterKeeps DEF Ordered, Ahead, Keeps, vars, mainVars, tickVars, flowVars,
     engineVars, countVars, lastVars
<1> QED
  BY <1>1, <1>2, <1>3, <1>4, <1>5, <1>6, <1>7, <1>8, <1>9, <1>10, <1>11, <1>12, <1>13,
     <1>14, <1>15, <1>16, <1>17, <1>18, <1>19, <1>20, <1>21, <1>22, <1>23, <1>24, <1>25,
     <1>26, <1>27, <1>28 DEF Next, MainStep, CollectorStep, Terminated

(* Facts about numbers only, for the arithmetic. *)
Figures ==
  /\ Numbers /\ draft.err \in Nat /\ draft.eps \in Nat /\ draft'.err \in Nat
  /\ draft'.eps \in Nat

LEMMA FiguresTyped == ASSUME TypeOK, Next \/ UNCHANGED vars PROVE Figures
<1>1. draft \in Report /\ draft' \in Report
  BY DraftTyped DEF TypeOK
<1>2. Numbers
  BY TypeParts
<1> QED
  BY <1>1, <1>2, ReportFields DEF Figures

LEMMA EvenKept ==
  ASSUME TypeOK, Even, Next \/ UNCHANGED vars
  PROVE  Even'
<1>1. CASE CountRequest
  <2>1. requests < MaxRequests /\ requests' = requests + 1 /\ UNCHANGED <<bad, lastErrors, draft>>
    BY <1>1 DEF CountRequest, tickVars, lastVars
  <2>2. requests \in Nat /\ bad \in Nat /\ MaxRequests \in Nat
    BY FiguresTyped, StreamAssumption DEF Figures, Numbers
  <2>3. requests' <= MaxRequests /\ bad' <= requests'
    BY <2>1, <2>2 DEF Even
  <2> QED
    BY <1>1, <2>1, <2>3 DEF Even, Early, CountRequest, mainVars, tickVars, flowVars,
       engineVars, countVars, lastVars
<1>2. CASE CountAtEndpoint
  BY <1>2, FiguresTyped DEF Figures, Numbers, Even, Early, CountAtEndpoint, Step,
     Collect, Testing, mainVars, tickVars, flowVars, engineVars, countVars, lastVars
<1>3. CASE CountError
  BY <1>3, FiguresTyped DEF Figures, Numbers, Even, Early, CountError, Step, Collect,
     Testing, mainVars, tickVars, flowVars, engineVars, countVars, lastVars
<1>4. CASE RaiseEngineError
  BY <1>4 DEF Even, Early, RaiseEngineError, Step, Collect, Testing, mainVars, tickVars,
     flowVars, engineVars, countVars, lastVars
<1>5. CASE StartTest
  BY <1>5 DEF Even, Early, StartTest, Step, Collect, Testing, mainVars, tickVars,
     flowVars, engineVars, countVars, lastVars
<1>6. CASE Panic
  BY <1>6 DEF Even, Early, Panic, Step, Collect, Testing, mainVars, tickVars, flowVars,
     engineVars, countVars, lastVars
<1>7. CASE TakeFinals
  BY <1>7, FiguresTyped DEF Figures, Numbers, Even, Early, TakeFinals, Step, Collect,
     Testing, mainVars, tickVars, flowVars, engineVars, countVars, lastVars
<1>8. CASE LoadLast
  <2>1. /\ epsFinal' = Minus(badFinal, lastErrors) /\ main = "rates" /\ main' = "moveLast"
    BY <1>8 DEF LoadLast, Step
  <2>2. /\ badFinal = bad /\ lastErrors <= bad /\ bad \in Nat /\ lastErrors \in Nat
        /\ bad < Word
    BY <2>1, FiguresTyped, StreamAssumption DEF Figures, Numbers, Even, Early
  <2>3. epsFinal' = badFinal - lastErrors
    BY <2>1, <2>2, MinusSmall
  <2>4. epsFinal' <= badFinal
    BY <2>2, <2>3
  <2> QED
    BY <1>8, <2>1, <2>4 DEF Even, Early, LoadLast, mainVars, tickVars, flowVars,
       engineVars, countVars, lastVars
<1>9. CASE MoveLast
  BY <1>9 DEF Even, Early, MoveLast, Step, Collect, Testing, mainVars, tickVars,
     flowVars, engineVars, countVars, lastVars
<1>10. CASE MoveByMean
  BY <1>10 DEF Even, Early, MoveByMean, Step, Collect, Testing, mainVars, tickVars,
     flowVars, engineVars, countVars, lastVars
<1>11. CASE TakeRest
  BY <1>11 DEF Even, Early, TakeRest, Step, Collect, Testing, mainVars, tickVars,
     flowVars, engineVars, countVars, lastVars
<1>12. CASE StopTicks
  BY <1>12 DEF Even, Early, StopTicks, Step, Collect, Testing, mainVars, tickVars,
     flowVars, engineVars, countVars, lastVars
<1>13. CASE SendSummary
  BY <1>13 DEF Even, Early, SendSummary, Step, Collect, Testing, mainVars, tickVars,
     flowVars, engineVars, countVars, lastVars
<1>14. CASE SendEndMark
  BY <1>14 DEF Even, Early, SendEndMark, Step, Collect, Testing, mainVars, tickVars,
     flowVars, engineVars, countVars, lastVars
<1>15. CASE Tick
  <2>1. /\ draft'.err = bad /\ draft'.eps = 0 /\ collector' = "counting"
    BY <1>15, DraftSteps DEF Tick, Collect
  <2>2. Figures
    BY FiguresTyped
  <2> QED
    BY <1>15, <2>1, <2>2 DEF Even, Early, Figures, Numbers, Tick, mainVars, tickVars,
       flowVars, engineVars, countVars, lastVars
<1>16. CASE LoadTotal
  <2>1. /\ draft'.err = draft.err /\ collector' = "endpoints" /\ collector = "counting"
    BY <1>16, DraftSteps DEF LoadTotal, Collect
  <2> QED
    BY <1>16, <2>1 DEF Even, Early, LoadTotal, mainVars, tickVars, flowVars, engineVars,
       countVars, lastVars
<1>17. CASE LoadEndpoint
  <2>1. /\ draft'.err = draft.err /\ collector' = "rates" /\ collector = "endpoints"
    BY <1>17, DraftSteps DEF LoadEndpoint, Collect
  <2> QED
    BY <1>17, <2>1 DEF Even, Early, LoadEndpoint, mainVars, tickVars, flowVars, engineVars,
       countVars, lastVars
<1>18. CASE LoadRates
  <2>1. /\ draft'.err = draft.err /\ collector' = "moveLast" /\ collector = "rates"
        /\ draft'.eps = Minus(draft.err, lastErrors)
    BY <1>18, DraftSteps DEF LoadRates, Collect
  <2>2. Figures
    BY FiguresTyped
  <2>3. Early => draft'.eps = draft.err - lastErrors
    <3>1. SUFFICES ASSUME Early PROVE draft'.eps = draft.err - lastErrors
      OBVIOUS
    <3>2. lastErrors <= draft.err
      BY <2>1, <3>1 DEF Even
    <3>3. draft.err \in Nat /\ lastErrors \in Nat /\ draft.err < Word
      BY <2>2, StreamAssumption DEF Figures, Numbers, Even
    <3> QED
      BY <2>1, <3>2, <3>3, MinusSmall
  <2> QED
    BY <1>18, <2>1, <2>3 DEF Even, Early, LoadRates, mainVars, tickVars, flowVars,
       engineVars, countVars, lastVars
<1>19. CASE MoveRates
  <2>1. /\ collector' = "requests" /\ collector = "moveLast" /\ draft' = draft
        /\ lastErrors' = (lastErrors + draft.eps) % Word
    BY <1>19 DEF MoveRates, Collect
  <2>2. Figures
    BY FiguresTyped
  <2>3. Early => lastErrors' = draft.err
    <3>1. SUFFICES ASSUME Early PROVE lastErrors' = draft.err
      OBVIOUS
    <3>2. draft.eps = draft.err - lastErrors
      BY <2>1, <3>1 DEF Even
    <3>3. draft.err \in Nat /\ lastErrors \in Nat /\ draft.err < Word
      BY <2>2, StreamAssumption DEF Figures, Numbers, Even
    <3>4. lastErrors + draft.eps = draft.err
      BY <3>2, <3>3
    <3> QED
      BY <2>1, <3>3, <3>4, ModuloSmall
  <2> QED
    BY <1>19, <2>1, <2>3 DEF Even, Early, MoveRates, mainVars, tickVars, flowVars,
       engineVars, countVars, lastVars
<1>20. CASE LoadRequests
  <2>1. draft'.err = draft.err /\ collector' = "moveRequests"
    BY <1>20, DraftSteps DEF LoadRequests, Collect
  <2> QED
    BY <1>20, <2>1 DEF Even, Early, LoadRequests, mainVars, tickVars, flowVars, engineVars,
       countVars, lastVars
<1>21. CASE MoveRequests
  <2>1. draft' = draft /\ collector' = "drain"
    BY <1>21 DEF MoveRequests, Collect
  <2> QED
    BY <1>21, <2>1 DEF Even, Early, MoveRequests, mainVars, tickVars, flowVars, engineVars,
       countVars, lastVars
<1>22. CASE DrainErrors
  <2>1. /\ draft'.err = draft.err /\ collector' = "send"
    BY <1>22, DraftSteps DEF DrainErrors, Collect
  <2> QED
    BY <1>22, <2>1 DEF Even, Early, DrainErrors, mainVars, tickVars, flowVars,
       engineVars, countVars, lastVars
<1>23. CASE SendTick
  <2>1. /\ draft'.err = 0 /\ collector' = "tick"
    BY <1>23, EmptyFields DEF SendTick, Collect
  <2>2. bad \in Nat
    BY FiguresTyped DEF Figures, Numbers
  <2> QED
    BY <1>23, <2>1, <2>2 DEF Even, Early, SendTick, mainVars, tickVars, flowVars,
       engineVars, countVars, lastVars
<1>24. CASE HearStop
  <2>1. /\ draft'.err \in {draft.err, 0} /\ collector' = "gone"
    BY <1>24, HearStopDraft, EmptyFields
  <2>2. bad \in Nat
    BY FiguresTyped DEF Figures, Numbers
  <2> QED
    BY <1>24, <2>1, <2>2 DEF Even, Early, HearStop, mainVars, tickVars, flowVars,
       engineVars, countVars, lastVars
<1>25. CASE Receive
  BY <1>25 DEF Even, Early, Receive, Step, Collect, Testing, mainVars, tickVars,
     flowVars, engineVars, countVars, lastVars
<1>26. CASE ChannelClosed
  BY <1>26 DEF Even, Early, ChannelClosed, Step, Collect, Testing, mainVars, tickVars,
     flowVars, engineVars, countVars, lastVars
<1>27. CASE DropStream
  BY <1>27 DEF Even, Early, DropStream, Step, Collect, Testing, mainVars, tickVars,
     flowVars, engineVars, countVars, lastVars
<1>28. CASE UNCHANGED vars
  BY <1>28 DEF Even, Early, vars, mainVars, tickVars, flowVars, engineVars, countVars,
     lastVars
<1> QED
  BY <1>1, <1>2, <1>3, <1>4, <1>5, <1>6, <1>7, <1>8, <1>9, <1>10, <1>11, <1>12, <1>13,
     <1>14, <1>15, <1>16, <1>17, <1>18, <1>19, <1>20, <1>21, <1>22, <1>23, <1>24, <1>25,
     <1>26, <1>27, <1>28 DEF Next, MainStep, CollectorStep, Terminated

LEMMA AptIs == ASSUME NEW r, r.eps <= r.err PROVE Apt(r)
BY DEF Apt

LEMMA AddsApt ==
  ASSUME NEW m, NEW n, Adds(m, n), Apt(m), \A i \in DOMAIN Stream : Apt(Stream[i])
  PROVE  \A i \in DOMAIN Stream' : Apt(Stream'[i])
<1>1. \A i \in DOMAIN Stream' :
        \/ i = n /\ Stream'[i] = m
        \/ i \in DOMAIN Stream /\ Stream'[i] = Stream[i]
  BY DEF Adds
<1> QED
  BY <1>1

LEMMA AptKept ==
  ASSUME TypeOK, Even, AllApt, Next \/ UNCHANGED vars
  PROVE  AllApt'
<1>1. CASE CountRequest
  BY <1>1, QuietSteps, QuietKeeps DEF AllApt, Keeps, CountRequest, tickVars
<1>2. CASE CountAtEndpoint
  BY <1>2, QuietSteps, QuietKeeps DEF AllApt, Keeps, CountAtEndpoint, tickVars
<1>3. CASE CountError
  BY <1>3, QuietSteps, QuietKeeps DEF AllApt, Keeps, CountError, tickVars
<1>4. CASE RaiseEngineError
  BY <1>4, QuietSteps, QuietKeeps DEF AllApt, Keeps, RaiseEngineError, tickVars
<1>5. CASE StartTest
  BY <1>5, QuietSteps, QuietKeeps DEF AllApt, Keeps, StartTest, tickVars
<1>6. CASE Panic
  BY <1>6, QuietSteps, QuietKeeps DEF AllApt, Keeps, Panic, tickVars
<1>7. CASE TakeFinals
  BY <1>7, QuietSteps, QuietKeeps DEF AllApt, Keeps, TakeFinals, tickVars
<1>8. CASE LoadLast
  BY <1>8, QuietSteps, QuietKeeps DEF AllApt, Keeps, LoadLast, tickVars
<1>9. CASE MoveLast
  BY <1>9, QuietSteps, QuietKeeps DEF AllApt, Keeps, MoveLast, tickVars
<1>10. CASE MoveByMean
  BY <1>10, QuietSteps, QuietKeeps DEF AllApt, Keeps, MoveByMean, tickVars
<1>11. CASE TakeRest
  BY <1>11, QuietSteps, QuietKeeps DEF AllApt, Keeps, TakeRest, tickVars
<1>12. CASE StopTicks
  BY <1>12, QuietSteps, QuietKeeps DEF AllApt, Keeps, StopTicks, tickVars
<1>13. CASE SendSummary
  <2>1. draft' = draft
    BY <1>13 DEF SendSummary, tickVars
  <2>2. Apt(Summary)
    <3>1. Summary.eps = epsFinal /\ Summary.err = badFinal
      BY SummaryFields DEF TypeOK
    <3> QED
      BY <3>1, AptIs DEF Even
  <2>3. Apt(ErrorResult)
    <3>1. ErrorResult.eps = 0 /\ ErrorResult.err \in Nat
      BY MarkFields, ReportFields
    <3>2. ErrorResult.eps <= ErrorResult.err
      BY <3>1
    <3> QED
      BY <3>2, AptIs
  <2>4. \A i \in DOMAIN Stream' : Apt(Stream'[i])
    BY <1>13, <2>2, <2>3, SummarySent, AddsApt DEF AllApt, Keeps
  <2> QED
    BY <2>1, <2>4 DEF AllApt
<1>14. CASE SendEndMark
  <2>1. draft' = draft
    BY <1>14 DEF SendEndMark, tickVars
  <2>3. Apt(EndMark)
    <3>1. EndMark.eps = 0 /\ EndMark.err \in Nat
      BY MarkFields, ReportFields
    <3>2. EndMark.eps <= EndMark.err
      BY <3>1
    <3> QED
      BY <3>2, AptIs
  <2>4. \A i \in DOMAIN Stream' : Apt(Stream'[i])
    BY <1>14, <2>3, MarkSent, AddsApt DEF AllApt, Keeps
  <2> QED
    BY <2>1, <2>4 DEF AllApt
<1>15. CASE Tick
  <2>1. draft'.eps = 0 /\ draft'.err = bad /\ bad \in Nat
    BY <1>15, DraftSteps DEF TypeOK
  <2>2. draft'.eps <= draft'.err
    BY <2>1
  <2>3. Apt(draft')
    BY <2>2, AptIs
  <2> QED
    BY <1>15, <2>3, QuietSteps, QuietKeeps DEF AllApt, Keeps
<1>16. CASE LoadTotal
  <2>1. draft'.eps = draft.eps /\ draft'.err = draft.err /\ draft'.late = draft.late
    BY <1>16, DraftSteps
  <2>3. Apt(draft')
    BY <2>1 DEF AllApt, Apt
  <2> QED
    BY <1>16, <2>3, QuietSteps, QuietKeeps DEF AllApt, Keeps
<1>17. CASE LoadEndpoint
  <2>1. draft'.eps = draft.eps /\ draft'.err = draft.err /\ draft'.late = draft.late
    BY <1>17, DraftSteps
  <2>3. Apt(draft')
    BY <2>1 DEF AllApt, Apt
  <2> QED
    BY <1>17, <2>3, QuietSteps, QuietKeeps DEF AllApt, Keeps
<1>18. CASE LoadRates
  <2>1. /\ draft'.eps = Minus(draft.err, lastErrors) /\ draft'.err = draft.err
        /\ draft'.late = (main \notin {"test", "rates", "moveLast"})
        /\ collector = "rates"
    BY <1>18, DraftSteps DEF LoadRates, Collect
  <2>2. ASSUME ~draft'.late PROVE draft'.eps <= draft'.err
    <3>1. Early
      BY <2>1, <2>2 DEF Early
    <3>2. lastErrors <= draft.err
      BY <2>1, <3>1 DEF Even
    <3>3. draft.err \in Nat /\ lastErrors \in Nat /\ draft.err < Word
      BY FiguresTyped, StreamAssumption DEF Figures, Numbers, Even
    <3>4. draft'.eps = draft.err - lastErrors
      BY <2>1, <3>2, <3>3, MinusSmall
    <3> QED
      BY <2>1, <3>3, <3>4
  <2>3. Apt(draft')
    BY <2>2 DEF Apt
  <2> QED
    BY <1>18, <2>3, QuietSteps, QuietKeeps DEF AllApt, Keeps
<1>19. CASE MoveRates
  BY <1>19, QuietSteps, QuietKeeps DEF AllApt, Keeps, MoveRates, tickVars
<1>20. CASE LoadRequests
  <2>1. draft'.eps = draft.eps /\ draft'.err = draft.err /\ draft'.late = draft.late
    BY <1>20, DraftSteps
  <2>3. Apt(draft')
    BY <2>1 DEF AllApt, Apt
  <2> QED
    BY <1>20, <2>3, QuietSteps, QuietKeeps DEF AllApt, Keeps
<1>21. CASE MoveRequests
  BY <1>21, QuietSteps, QuietKeeps DEF AllApt, Keeps, MoveRequests, tickVars
<1>22. CASE DrainErrors
  <2>1. draft'.eps = draft.eps /\ draft'.err = draft.err /\ draft'.late = draft.late
    BY <1>22, DraftSteps
  <2>3. Apt(draft')
    BY <2>1 DEF AllApt, Apt
  <2> QED
    BY <1>22, <2>3, QuietSteps, QuietKeeps DEF AllApt, Keeps
<1>23. CASE SendTick
  <2>1. draft' = Empty
    BY <1>23 DEF SendTick
  <2>3. Apt(Empty)
    BY EmptyFields, AptIs
  <2>4. \A i \in DOMAIN Stream' : Apt(Stream'[i])
    BY <1>23, TickSent, AddsApt DEF AllApt, Keeps
  <2> QED
    BY <2>1, <2>3, <2>4 DEF AllApt
<1>24. CASE HearStop
  <2>1. Apt(Empty)
    BY EmptyFields, AptIs
  <2>3. Apt(draft')
    BY <1>24, <2>1, HearStopDraft DEF AllApt
  <2> QED
    BY <1>24, <2>3, QuietSteps, QuietKeeps DEF AllApt, Keeps
<1>25. CASE Receive
  <2>1. draft' = draft /\ Keeps
    BY <1>25, Received DEF Receive, tickVars
  <2> QED
    BY <2>1 DEF AllApt, Keeps
<1>26. CASE ChannelClosed
  BY <1>26, QuietSteps, QuietKeeps DEF AllApt, Keeps, ChannelClosed, tickVars
<1>27. CASE DropStream
  BY <1>27, Dropped DEF AllApt, Empties, DropStream, tickVars
<1>28. CASE UNCHANGED vars
  BY <1>28, StutterKeeps DEF AllApt, Keeps, vars, tickVars
<1> QED
  BY <1>1, <1>2, <1>3, <1>4, <1>5, <1>6, <1>7, <1>8, <1>9, <1>10, <1>11, <1>12, <1>13,
     <1>14, <1>15, <1>16, <1>17, <1>18, <1>19, <1>20, <1>21, <1>22, <1>23, <1>24, <1>25,
     <1>26, <1>27, <1>28 DEF Next, MainStep, CollectorStep, Terminated

(* What is left when the counters and the live report are not concerned. *)
LEMMA RestOfSteps ==
  ASSUME \/ CountError \/ RaiseEngineError \/ MainStep
         \/ Receive \/ ChannelClosed \/ DropStream \/ Terminated \/ UNCHANGED vars
  PROVE  /\ UNCHANGED <<requests, api, known, draft>>
         /\ UNCHANGED collector \/ StartTest
BY DEF MainStep, CountError, RaiseEngineError, StartTest, Panic, TakeFinals, LoadLast,
   MoveLast, MoveByMean, TakeRest, StopTicks, SendSummary, SendEndMark, Receive,
   ChannelClosed, DropStream, Terminated, vars, tickVars, countVars, lastVars

LEMMA KnownKept ==
  ASSUME TypeOK, Known, Even, Next \/ UNCHANGED vars
  PROVE  Known'
<1> requests \in Nat /\ api \in Nat /\ known \in Nat
  BY StreamAssumption DEF TypeOK
<1>1. CASE CountRequest
  BY <1>1 DEF Known, CountRequest, tickVars, lastVars
<1>2. CASE CountAtEndpoint
  BY <1>2 DEF Known, CountAtEndpoint, tickVars, lastVars
<1>3. CASE LoadEndpoint
  <2>1. /\ collector = "endpoints" /\ collector' = "rates"
        /\ draft'.api = api /\ UNCHANGED <<requests, api>>
        /\ known' = (Minus(api, known) + known) % Word
    BY <1>3, DraftSteps DEF LoadEndpoint, Collect, countVars
  <2>2. known <= api /\ api <= requests /\ api < Word
    BY StreamAssumption DEF Known, Even
  <2>3. Minus(api, known) = api - known
    BY <2>2, MinusSmall
  <2>4. known' = api
    BY <2>1, <2>2, <2>3, ModuloSmall
  <2> QED
    BY <2>1, <2>2, <2>4 DEF Known
<1>4. CASE \/ CountError \/ RaiseEngineError \/ MainStep
           \/ Receive \/ ChannelClosed \/ DropStream \/ Terminated \/ UNCHANGED vars
  <2>1. collector' = collector \/ collector' \in {"unborn", "tick"}
    BY <1>4, RestOfSteps DEF StartTest
  <2> QED
    BY <1>4, <2>1, RestOfSteps DEF Known
<1>5. CASE Tick \/ LoadTotal \/ SendTick \/ HearStop
  <2>1. /\ UNCHANGED <<requests, api, known>>
        /\ collector' \in {"counting", "endpoints", "tick", "gone"}
    BY <1>5 DEF Tick, LoadTotal, SendTick, HearStop, Collect, countVars, lastVars
  <2> QED
    BY <2>1 DEF Known
<1>6. CASE LoadRates \/ MoveRates \/ LoadRequests \/ MoveRequests \/ DrainErrors
  <2>1. UNCHANGED <<requests, api, known>>
    BY <1>6 DEF LoadRates, MoveRates, LoadRequests, MoveRequests, DrainErrors, countVars,
       lastVars
  <2>2. /\ collector \in {"rates", "moveLast", "requests", "moveRequests", "drain"}
        /\ draft'.api = draft.api
    BY <1>6, DraftSteps DEF LoadRates, MoveRates, LoadRequests, MoveRequests, DrainErrors,
       Collect
  <2> QED
    BY <2>1, <2>2 DEF Known
<1> QED
  BY <1>1, <1>2, <1>3, <1>4, <1>5, <1>6 DEF Next, CollectorStep

-----------------------------------------------------------------------------
(* Rates add up *)

LEMMA LatestBelow ==
  ASSUME TypeOK, Ordered, Even, Ahead, NEW r, Latest(r)
  PROVE  r.total \in Nat /\ draft.total \in Nat /\ r.total <= draft.total /\ draft.total < Word
<1>1. draft.total \in Nat /\ draft.total < Word
  <2>1. draft.total \in Nat /\ requests \in Nat /\ draft.total <= requests
    BY ReportFields DEF TypeOK, Ordered
  <2>2. requests <= MaxRequests
    BY DEF Even
  <2> QED
    BY <2>1, <2>2, StreamAssumption
<1>2. CASE Ticks = {}
  BY <1>1, <1>2, EmptyFields DEF Latest
<1>3. CASE Ticks # {}
  <2>1. PICK i \in Ticks : r = Stream[i]
    BY <1>3 DEF Latest
  <2> QED
    BY <1>1, <2>1, StreamTotals, PlacesOfKinds DEF Ordered
<1> QED
  BY <1>2, <1>3

(* While neither the live report nor what it is computed from changes.     *)
LEMMA QuietSince ==
  ASSUME NEW r, Since(r), UNCHANGED <<draft, known>>, InTime' => InTime /\ UNCHANGED lastRequests,
         collector' = collector \/ (collector = "unborn" /\ collector' = "tick")
  PROVE  Since(r)'
BY DEF Since

LEMMA MainSince ==
  ASSUME NEW r, Since(r), Heard,
         \/ CountRequest \/ CountAtEndpoint \/ CountError \/ RaiseEngineError \/ MainStep
         \/ Receive \/ ChannelClosed \/ Terminated \/ UNCHANGED vars
  PROVE  Since(r)'
<1>1. UNCHANGED <<draft, known>>
  BY DEF CountRequest, CountAtEndpoint, MainStep, CountError, RaiseEngineError, StartTest,
     Panic, TakeFinals, LoadLast, MoveLast, MoveByMean, TakeRest, StopTicks, SendSummary,
     SendEndMark, Receive, ChannelClosed, Terminated, vars, tickVars, lastVars
<1>2. collector' = collector \/ (collector = "unborn" /\ collector' = "tick")
  BY DEF CountRequest, CountAtEndpoint, MainStep, CountError, RaiseEngineError, StartTest,
     Panic, TakeFinals, LoadLast, MoveLast, MoveByMean, TakeRest, StopTicks, SendSummary,
     SendEndMark, Receive, ChannelClosed, Terminated, vars, tickVars, Heard, Step
<1>3. InTime' => InTime /\ UNCHANGED lastRequests
  BY DEF InTime, Step, CountRequest, CountAtEndpoint, MainStep, CountError, RaiseEngineError,
     StartTest, Panic, TakeFinals, LoadLast, MoveLast, MoveByMean, TakeRest, StopTicks,
     SendSummary, SendEndMark, Receive, ChannelClosed, Terminated, vars, mainVars, lastVars
<1> QED
  BY <1>1, <1>2, <1>3, QuietSince

LEMMA CollectorSince ==
  ASSUME TypeOK, Ordered, Even, Known, NEW r \in Report, Latest(r), Since(r),
         CollectorStep, ~SendTick
  PROVE  Since(r)'
<1>0. main' = main /\ (InTime' <=> InTime)
  BY DEF CollectorStep, Tick, LoadTotal, LoadEndpoint, LoadRates, MoveRates, LoadRequests,
     MoveRequests, DrainErrors, HearStop, mainVars, InTime
<1>1. CASE Tick \/ LoadTotal
  <2>1. /\ collector \in {"tick", "counting"} /\ collector' \in {"counting", "endpoints"}
        /\ UNCHANGED <<known, lastRequests>>
    BY <1>1 DEF Tick, LoadTotal, Collect, lastVars
  <2> QED
    BY <1>0, <2>1 DEF Since
<1>2. CASE LoadEndpoint
  <2>1. /\ collector = "endpoints" /\ collector' = "rates" /\ UNCHANGED lastRequests
        /\ draft'.api = api /\ draft'.apiRps = Minus(api, known)
    BY <1>2, DraftSteps DEF LoadEndpoint, Collect
  <2>2. /\ known <= api /\ api <= requests /\ api < Word
        /\ api \in Nat /\ known \in Nat
    BY StreamAssumption DEF Known, Even, TypeOK
  <2>3. draft'.apiRps = draft'.api - r.api
    BY <2>1, <2>2, MinusSmall DEF Since
  <2> QED
    BY <1>0, <2>1, <2>3 DEF Since
<1>3. CASE LoadRates
  <2>1. /\ collector = "rates" /\ collector' = "moveLast" /\ UNCHANGED lastRequests
        /\ draft'.api = draft.api /\ draft'.apiRps = draft.apiRps
    BY <1>3, DraftSteps DEF LoadRates, Collect, lastVars
  <2> QED
    BY <1>0, <2>1 DEF Since
<1>4. CASE MoveRates
  <2>1. /\ collector = "moveLast" /\ collector' = "requests"
        /\ UNCHANGED <<lastRequests, draft>>
    BY <1>4 DEF MoveRates, Collect
  <2> QED
    BY <1>0, <2>1 DEF Since
<1>5. CASE LoadRequests
  <2>1. /\ collector = "requests" /\ collector' = "moveRequests" /\ UNCHANGED lastRequests
        /\ draft'.api = draft.api /\ draft'.apiRps = draft.apiRps
        /\ draft'.total = draft.total /\ draft'.rps = Minus(draft.total, lastRequests)
        /\ draft'.rpsLate = (main \notin {"test", "rates", "moveLast", "mean"})
    BY <1>5, DraftSteps DEF LoadRequests, Collect, lastVars
  <2>2. InTime => draft'.rps = draft.total - r.total
    <3>1. SUFFICES ASSUME InTime PROVE draft'.rps = draft.total - r.total
      OBVIOUS
    <3>2. lastRequests = r.total
      BY <2>1, <3>1 DEF Since
    <3>3. r.total \in Nat /\ draft.total \in Nat /\ r.total <= draft.total /\ draft.total < Word
      BY <2>1, LatestBelow DEF Ahead
    <3> QED
      BY <2>1, <3>2, <3>3, MinusSmall
  <2>3. draft'.rpsLate \/ InTime
    BY <2>1 DEF InTime
  <2> QED
    BY <1>0, <2>1, <2>2, <2>3 DEF Since
<1>6. CASE MoveRequests
  <2>1. /\ collector = "moveRequests" /\ collector' = "drain" /\ draft' = draft
        /\ lastRequests' = (lastRequests + draft.rps) % Word
    BY <1>6 DEF MoveRequests, Collect
  <2>2. InTime => lastRequests' = draft.total
    <3>1. SUFFICES ASSUME InTime PROVE lastRequests' = draft.total
      OBVIOUS
    <3>2. lastRequests = r.total /\ draft.rps = draft.total - r.total
      BY <2>1, <3>1 DEF Since
    <3>3. r.total \in Nat /\ draft.total \in Nat /\ draft.total < Word
      BY <2>1, LatestBelow DEF Ahead
    <3>4. lastRequests + draft.rps = draft.total
      BY <3>2, <3>3
    <3> QED
      BY <2>1, <3>3, <3>4, ModuloSmall
  <2> QED
    BY <1>0, <2>1, <2>2 DEF Since
<1>7. CASE DrainErrors
  <2>1. /\ collector = "drain" /\ collector' = "send" /\ UNCHANGED lastRequests
        /\ draft'.api = draft.api /\ draft'.apiRps = draft.apiRps
        /\ draft'.total = draft.total
        /\ draft'.rps = draft.rps /\ draft'.rpsLate = draft.rpsLate
    BY <1>7, DraftSteps DEF DrainErrors, Collect, lastVars
  <2> QED
    BY <1>0, <2>1 DEF Since
<1>8. CASE HearStop
  <2>1. collector' = "gone"
    BY <1>8, HearStopDraft
  <2> QED
    BY <2>1 DEF Since
<1> QED
  BY <1>1, <1>2, <1>3, <1>4, <1>5, <1>6, <1>7, <1>8 DEF CollectorStep

LEMMA KeepsRates ==
  ASSUME Ticks' = Ticks, \A i \in Ticks : Stream'[i] = Stream[i], RatesAddUp
  PROVE  RatesAddUp' /\ \A r : Latest(r) => Latest(r)'
<1>1. \A r : Latest(r) => Latest(r)'
  BY DEF Latest
<1>2. RatesAddUp'
  BY DEF RatesAddUp, Ticks, SinceReport
<1> QED
  BY <1>1, <1>2

LEMMA AddsRates ==
  ASSUME TypeOK, RatesAddUp, NEW r \in Report, Latest(r), Since(r), collector = "send",
         NEW n \in Nat, Adds(draft, n), draft.kind = "tick"
  PROVE  RatesAddUp' /\ \A q : q = draft => Latest(q)'
<1>1. /\ Ticks' = Ticks \cup {n} /\ Ticks \subseteq 1 .. n - 1 /\ Stream'[n] = draft
      /\ \A i \in Ticks : Stream'[i] = Stream[i]
  BY TickAdds DEF Adds
<1>2. SinceReport(r, draft)
  BY DEF Since, SinceReport
<1>3. \A i \in Ticks : i < n /\ i \in Nat /\ ~(n <= i)
  BY <1>1
<1>4. ASSUME NEW j \in Ticks
      PROVE  \/ (\A i \in Ticks' : j <= i) /\ SinceReport(Empty, Stream'[j])
             \/ \E i \in Ticks' :
                  /\ i < j /\ \A k \in Ticks' : k <= i \/ j <= k
                  /\ SinceReport(Stream'[i], Stream'[j])
  <2>1. j <= n /\ Stream'[j] = Stream[j] /\ j \in Nat
    BY <1>1, <1>3
  <2>2. CASE (\A i \in Ticks : j <= i) /\ SinceReport(Empty, Stream[j])
    BY <1>1, <2>1, <2>2
  <2>3. CASE \E i \in Ticks : /\ i < j /\ \A k \in Ticks : k <= i \/ j <= k
                             /\ SinceReport(Stream[i], Stream[j])
    BY <1>1, <2>1, <2>3
  <2> QED
    BY <2>2, <2>3 DEF RatesAddUp, Ticks
<1>5. \/ (\A i \in Ticks' : n <= i) /\ SinceReport(Empty, Stream'[n])
      \/ \E i \in Ticks' :
           /\ i < n /\ \A k \in Ticks' : k <= i \/ n <= k
           /\ SinceReport(Stream'[i], Stream'[n])
  <2>1. CASE Ticks = {}
    BY <1>1, <1>2, <2>1 DEF Latest
  <2>2. CASE Ticks # {}
    <3>1. PICK i \in Ticks : r = Stream[i] /\ \A k \in Ticks : k <= i
      BY <2>2 DEF Latest
    <3> QED
      BY <1>1, <1>2, <1>3, <3>1
  <2> QED
    BY <2>1, <2>2
<1>6. RatesAddUp'
  BY <1>1, <1>4, <1>5 DEF RatesAddUp, Ticks, SinceReport
<1>7. \A q : q = draft => Latest(q)'
  <2>1. n \in Ticks' /\ Ticks' # {} /\ Stream'[n] = draft
    BY <1>1
  <2>2. \A k \in Ticks' : k <= n
    <3>1. \A k \in Ticks : k <= n
      BY <1>3
    <3>2. n <= n
      OBVIOUS
    <3> QED
      BY <1>1, <3>1, <3>2
  <2> QED
    BY <2>1, <2>2, Zenon DEF Latest
<1> QED
  BY <1>6, <1>7

(* After a report has been sent the next one begins where it ended.        *)
LEMMA SentSince ==
  ASSUME SendTick, Known, NEW r, Since(r)
  PROVE  \A q : q = draft => Since(q)'
<1>1. /\ collector = "send" /\ collector' = "tick" /\ main' = main
      /\ UNCHANGED <<known, lastRequests>>
  BY DEF SendTick, Collect, mainVars, lastVars
<1> QED
  BY <1>1 DEF Since, Known, InTime

LEMMA RatedKept ==
  ASSUME TypeOK, Heard, Ordered, Even, Known, Rated, Next \/ UNCHANGED vars
  PROVE  Rated'
<1> DEFINE Same == Ticks' = Ticks /\ \A i \in Ticks : Stream'[i] = Stream[i]
<1>1. ASSUME Same, consumer = "dropped" => consumer' = "dropped",
             \A r \in Report : Latest(r) /\ Since(r) => Since(r)'
      PROVE  Rated'
  <2>1. RatesAddUp' /\ \A r : Latest(r) => Latest(r)'
    BY <1>1, KeepsRates DEF Rated
  <2> QED
    BY <1>1, <2>1 DEF Rated
<1>2. Keeps => Same
  BY DEF Keeps
<1>3. CASE \/ CountRequest \/ CountAtEndpoint \/ CountError \/ RaiseEngineError \/ MainStep
           \/ Receive \/ ChannelClosed \/ Terminated \/ UNCHANGED vars
  <2>1. \A r \in Report : Latest(r) /\ Since(r) => Since(r)'
    BY <1>3, MainSince
  <2>2. consumer = "dropped" => consumer' = "dropped"
    BY <1>3 DEF CountRequest, CountAtEndpoint, MainStep, CountError, RaiseEngineError,
       StartTest, Panic, TakeFinals, LoadLast, MoveLast, MoveByMean, TakeRest, StopTicks,
       SendSummary, SendEndMark, Receive, ChannelClosed, Terminated, Reads, vars, flowVars
  <2>3. CASE SendSummary
    <3>1. \A m, n : Adds(m, n) /\ m.kind \in {"final", "failed"} => Same
      BY SummaryAdds, FailureAdds DEF Adds
    <3>2. Summary.kind = "final" /\ ErrorResult.kind = "failed"
      BY SummaryFields, MarkFields DEF TypeOK
    <3>3. Same
      BY <2>3, <3>1, <3>2, <1>2, SummarySent
    <3> QED
      BY <1>1, <2>1, <2>2, <3>3
  <2>4. CASE SendEndMark
    <3>1. \A m, n : Adds(m, n) /\ m.kind = "end" => Same
      BY MarkAdds DEF Adds
    <3>2. Same
      BY <2>4, <3>1, <1>2, MarkFields, MarkSent
    <3> QED
      BY <1>1, <2>1, <2>2, <3>2
  <2>5. CASE ~SendSummary /\ ~SendEndMark
    <3>1. Keeps
      BY <1>3, <2>5, QuietSteps, QuietKeeps, StutterKeeps, Received DEF MainStep, Terminated
    <3> QED
      BY <1>1, <1>2, <2>1, <2>2, <3>1
  <2> QED
    BY <2>3, <2>4, <2>5
<1>4. CASE CollectorStep /\ ~SendTick
  <2>1. \A r \in Report : Latest(r) /\ Since(r) => Since(r)'
    BY <1>4, CollectorSince
  <2>2. Keeps /\ UNCHANGED consumer
    BY <1>4, QuietSteps, QuietKeeps DEF CollectorStep, Tick, LoadTotal, LoadEndpoint,
       LoadRates, MoveRates, LoadRequests, MoveRequests, DrainErrors, HearStop, flowVars
  <2> QED
    BY <1>1, <1>2, <2>1, <2>2
<1>5. CASE SendTick
  <2>1. consumer' = consumer /\ collector = "send" /\ draft \in Report
        /\ draft.kind = "tick" /\ RatesAddUp
    BY <1>5 DEF SendTick, Collect, TypeOK, Ordered, Rated
  <2>2. CASE consumer = "dropped" /\ Keeps
    BY <2>1, <2>2, <1>2, KeepsRates DEF Rated
  <2>3. CASE consumer # "dropped" /\ \E n \in Nat : Adds(draft, n)
    <3>1. PICK n \in Nat : Adds(draft, n)
      BY <2>3
    <3>2. PICK r \in Report : Latest(r) /\ Since(r)
      BY <2>3 DEF Rated
    <3>3. RatesAddUp' /\ \A q : q = draft => Latest(q)'
      BY <2>1, <3>1, <3>2, AddsRates
    <3>4. \A q : q = draft => Since(q)'
      BY <1>5, <3>2, SentSince
    <3>5. \E q \in Report : q = draft
      BY <2>1
    <3>6. \E q \in Report : Latest(q)' /\ Since(q)'
      BY <3>3, <3>4, <3>5
    <3> QED
      BY <3>3, <3>6 DEF Rated
  <2> QED
    BY <1>5, <2>2, <2>3, TickSent
<1>6. CASE DropStream
  <2>1. Ticks' = {} /\ consumer' = "dropped"
    BY <1>6, Dropped DEF Empties, DropStream
  <2>2. RatesAddUp'
    BY <2>1 DEF RatesAddUp, Ticks
  <2> QED
    BY <2>1, <2>2 DEF Rated
<1> QED
  BY <1>3, <1>4, <1>5, <1>6 DEF Next

-----------------------------------------------------------------------------
(* The theorems *)

LEMMA Starts == ASSUME Init PROVE IInv
<1>1. Stream = << >> /\ DOMAIN Stream = {}
  BY DEF Init, Stream
<1>2. /\ Ends = {} /\ Outcomes = {} /\ Finals = {} /\ Ticks = {} /\ Shown = {}
  BY <1>1 DEF Ends, Outcomes, Finals, Ticks, Shown, Positions
<1>3. draft = Empty /\ draft \in Report
  BY EmptyTyped DEF Init
<1>4. TypeOK
  <2>1. Numbers
    BY StreamAssumption DEF Init, Numbers
  <2>2. SetsTyped /\ Places /\ stopped \in BOOLEAN
    BY DEF Init, SetsTyped, Places
  <2>3. Queues
    BY StreamAssumption DEF Init, Queues
  <2> QED
    BY <1>3, <2>1, <2>2, <2>3, TypeParts
<1>5. Marked /\ Heard
  BY <1>2 DEF Init, Marked, Heard
<1>6. Reported
  <2>1. 1 .. raised = {}
    BY DEF Init
  <2> QED
    BY <1>2, <1>3, <2>1, EmptyFields DEF Init, Reported
<1>7. Ordered
  BY <1>2, <1>3, EmptyFields DEF Init, Ordered
<1>8. Even
  BY <1>3, EmptyFields, StreamAssumption DEF Init, Even, Early
<1>9. AllApt
  BY <1>1, <1>3, EmptyFields, AptIs DEF AllApt
<1>10. Known
  BY DEF Init, Known
<1>11. Rated
  <2>1. RatesAddUp
    BY <1>2 DEF RatesAddUp, Ticks
  <2>2. Latest(Empty) /\ Since(Empty) /\ Empty \in Report
    BY <1>2, EmptyFields, EmptyTyped DEF Init, Latest, Since
  <2> QED
    BY <2>1, <2>2 DEF Rated
<1> QED
  BY <1>4, <1>5, <1>6, <1>7, <1>8, <1>9, <1>10, <1>11 DEF IInv

LEMMA Inductive == ASSUME IInv, [Next]_vars PROVE IInv'
<1>1. /\ TypeOK /\ Marked /\ Heard /\ Reported /\ Ordered /\ Even /\ AllApt /\ Known /\ Rated
      /\ Places /\ draft.kind = "tick"
  BY TypeParts DEF IInv, Ordered
<1>2. Next \/ UNCHANGED vars
  OBVIOUS
<1>3. TypeOK' /\ Heard' /\ Even'
  BY <1>1, <1>2, TypeKept, HeardKept, EvenKept
<1>4. Marked' /\ Reported' /\ Ordered' /\ AllApt'
  BY <1>1, <1>2, MarkedKept, ReportedKept, OrderedKept, AptKept
<1>5. Known' /\ Rated'
  BY <1>1, <1>2, KnownKept, RatedKept
<1> QED
  BY <1>3, <1>4, <1>5 DEF IInv

LEMMA AlwaysIInv == Spec => []IInv
<1>1. Init => IInv
  BY Starts
<1>2. IInv /\ [Next]_vars => IInv'
  BY Inductive
<1> QED
  BY <1>1, <1>2, PTL DEF Spec

(* The consumer is never given two summaries, two end marks, or an end     *)
(* mark before a result; and batch() never fails to find the collector it  *)
(* tells to stop.                                                          *)
THEOREM StreamStaysSound == Spec => []StreamSound
<1>1. IInv => StreamSound
  <2> SUFFICES ASSUME IInv PROVE StreamSound
    OBVIOUS
  <2>1. EndMarked
    BY DEF IInv, Marked, EndMarked, Ends, Outcomes
  <2>2. StopIsHeard
    BY DEF IInv, Heard, StopIsHeard
  <2> QED
    BY <2>1, <2>2 DEF StreamSound, IInv
<1> QED
  BY <1>1, AlwaysIInv, PTL

(* Every engine error is in a report the consumer is given, or in one that *)
(* was cancelled.                                                          *)
THEOREM ErrorsReachTheStream == Spec => []EveryErrorReported
<1>1. IInv => EveryErrorReported
  <2> SUFFICES ASSUME IInv, collector = "gone", consumer # "dropped",
                      Positions({"final"}) # {}
               PROVE  1 .. raised \subseteq lost \cup Told
    BY DEF EveryErrorReported, Told
  <2>1. Finals # {}
    BY DEF Finals
  <2> QED
    BY <2>1 DEF IInv, Reported
<1> QED
  BY <1>1, AlwaysIInv, PTL

(* Totals only grow along the stream, and no difference of errors that was *)
(* taken in time has wrapped.                                              *)
THEOREM FiguresStaySound == Spec => []FiguresSound
<1>1. IInv => TotalsAdvance
  <2> SUFFICES ASSUME IInv, NEW i \in Positions({"tick", "final"}),
                      NEW j \in Positions({"tick", "final"}),
                      i < j, Stream[i].kind = "tick"
               PROVE  Stream[i].total <= Stream[j].total
    BY DEF TotalsAdvance
  <2>1. i \in Ticks /\ j \in Shown
    BY DEF Ticks, Shown, Positions
  <2> QED
    BY <2>1 DEF IInv, Ordered
<1>2. IInv => DeltasSound
  <2> SUFFICES ASSUME IInv, NEW i \in DOMAIN Stream, ~Stream[i].late
               PROVE  Stream[i].eps <= Stream[i].err
    BY DEF DeltasSound
  <2>1. Apt(Stream[i])
    BY DEF IInv, AllApt
  <2> QED
    BY <2>1 DEF Apt
<1>3. IInv => FiguresSound
  BY <1>1, <1>2 DEF FiguresSound
<1> QED
  BY <1>3, AlwaysIInv, PTL

(* The requests per second of each report, for the test and for the        *)
(* endpoint, are what has been counted since the report before it,         *)
(* whatever is counted while a report is made.                             *)
THEOREM NoRequestBetweenReports == Spec => []RatesAddUp
<1>1. IInv => RatesAddUp
  BY DEF IInv, Rated
<1> QED
  BY <1>1, AlwaysIInv, PTL

=============================================================================
