--------------------------- MODULE WsRequests_proof ---------------------------
(***************************************************************************)
(* Proofs about the requests of one WebSocket connection, for any number   *)
(* of messages, any keys, any size of the table and any behaviour of the   *)
(* peer.                                                                   *)
(***************************************************************************)
EXTENDS WsRequests, FiniteSetTheorems, SequenceTheorems, TLAPS

(* What has not been taken from the templates has not been entered. *)
Untaken == \A r \in Requests : r > taken => ledger[r] = "new"

(* A queue holds its requests in the order of their age: the first fresh   *)
(* one is followed by fresh ones.                                          *)
Aged ==
  ~ended =>
    \A k \in Keys : \A i \in 1 .. Len(pending[k]) :
      /\ at[pending[k][i]] <= now
      /\ \A j \in 1 .. i - 1 : at[pending[k][j]] <= at[pending[k][i]]

IInv == BooksBalance /\ Untaken /\ Aged /\ NoneOverstays

(* The types but for those of the flags. *)
Figures ==
  /\ mode \in Modes /\ keyOf \in KeyMaps
  /\ now \in 0 .. Deadline
  /\ sender \in {"tick", "writing"}
  /\ taken \in 0 .. Last /\ sent \in 0 .. taken /\ written \in 0 .. sent
  /\ sent = IF sender = "writing" THEN taken - 1 ELSE taken
  /\ pending \in [Keys -> Seq(Requests)] /\ count \in 0 .. MaxPending
  /\ at \in [Requests -> 0 .. Deadline]
  /\ received \in Nat /\ successful \in Nat /\ timeouts \in Nat /\ errors \in Nat
  /\ pushes \in 0 .. MaxPushes /\ replies \in Seq(Requests)
  /\ ledger \in [Requests -> {"new", "open", "answered", "overdue", "abandoned"}]
  /\ credited \in [Requests -> 0 .. Last]

LEMMA Types ==
  TypeOK <=> Figures /\ watched \in BOOLEAN /\ ended \in BOOLEAN
BY DEF TypeOK, Figures

-----------------------------------------------------------------------------
(* Counting outcomes *)

LEMMA OutcomesFinite ==
  \A o : IsFiniteSet(Outcome(o)) /\ Cardinality(Outcome(o)) \in Nat
<1> SUFFICES ASSUME NEW o PROVE IsFiniteSet(Outcome(o)) /\ Cardinality(Outcome(o)) \in Nat
  OBVIOUS
<1>1. IsFiniteSet(Requests)
  BY RequestsAssumption, FS_Interval DEF Requests
<1>2. Outcome(o) \in SUBSET Requests
  BY DEF Outcome
<1> QED
  BY <1>1, <1>2, FS_Subset, FS_CardinalityType

(* Requests of a set R move together from one outcome to another ... *)
Moves(R, from, to) ==
  /\ R \in SUBSET Requests /\ from # to
  /\ \A r \in R : ledger[r] = from
  /\ ledger' = [r \in Requests |-> IF r \in R THEN to ELSE ledger[r]]

(* ... and so do the numbers. *)
Counted(R, from, to) ==
  /\ Cardinality(Outcome(from)') = Cardinality(Outcome(from)) - Cardinality(R)
  /\ Cardinality(Outcome(to)') = Cardinality(Outcome(to)) + Cardinality(R)
  /\ \A o : o # from /\ o # to => Outcome(o)' = Outcome(o)

LEMMA OutcomesMove ==
  ASSUME TypeOK, NEW R, NEW from, NEW to, Moves(R, from, to)
  PROVE  Cardinality(R) \in Nat /\ Counted(R, from, to)
<1>1. R \subseteq Outcome(from) /\ R \cap Outcome(to) = {}
  BY DEF Outcome, Moves
<1>2. Outcome(from)' \cup R = Outcome(from) /\ Outcome(from)' \cap R = {}
  BY <1>1 DEF Outcome, Moves
<1>3. Outcome(to)' = Outcome(to) \cup R
  BY <1>1 DEF Outcome, Moves
<1>4. \A o : o # from /\ o # to => Outcome(o)' = Outcome(o)
  BY DEF Outcome, Moves
<1>5. R \in SUBSET Outcome(from) /\ Outcome(from)' \in SUBSET Outcome(from)
  BY <1>1, <1>2
<1>6. IsFiniteSet(R) /\ Cardinality(R) \in Nat
  BY <1>5, OutcomesFinite, FS_Subset, FS_CardinalityType
<1>7. IsFiniteSet(Outcome(from)') /\ Cardinality(Outcome(from)') \in Nat
  BY <1>5, OutcomesFinite, FS_Subset, FS_CardinalityType
<1>8. Cardinality(Outcome(from)) = Cardinality(Outcome(from)') + Cardinality(R)
  <2>1. Cardinality(Outcome(from)' \cup R) =
          Cardinality(Outcome(from)') + Cardinality(R) - Cardinality(Outcome(from)' \cap R)
    BY <1>6, <1>7, FS_Union
  <2>2. Cardinality(Outcome(from)' \cap R) = 0
    BY <1>2, FS_EmptySet
  <2> QED
    BY <2>1, <2>2, <1>2, <1>6, <1>7
<1>9. Cardinality(Outcome(to)') = Cardinality(Outcome(to)) + Cardinality(R)
  <2>1. Cardinality(Outcome(to) \cup R) =
          Cardinality(Outcome(to)) + Cardinality(R) - Cardinality(Outcome(to) \cap R)
    BY <1>6, OutcomesFinite, FS_Union
  <2>2. Cardinality(Outcome(to) \cap R) = 0
    <3>1. Outcome(to) \cap R = {}
      BY <1>1
    <3> QED
      BY <3>1, FS_EmptySet
  <2> QED
    BY <2>1, <2>2, <1>3, <1>6, OutcomesFinite
<1>10. Cardinality(Outcome(from)') = Cardinality(Outcome(from)) - Cardinality(R)
  BY <1>6, <1>7, <1>8
<1> QED
  BY <1>4, <1>6, <1>9, <1>10 DEF Counted

(* The case of one request. *)
LEMMA OutcomesMoveOne ==
  ASSUME TypeOK, NEW r \in Requests, NEW to, ledger[r] # to,
         ledger' = [ledger EXCEPT ![r] = to]
  PROVE  Counted({r}, ledger[r], to) /\ Cardinality({r}) = 1
<1>1. Moves({r}, ledger[r], to)
  BY DEF Moves, TypeOK
<1> QED
  BY <1>1, OutcomesMove, FS_Singleton

-----------------------------------------------------------------------------
(* The initial states *)

LEMMA InitIInv == Init => IInv
<1> SUFFICES ASSUME Init PROVE IInv
  OBVIOUS
<1>0. \A k \in Keys : pending[k] = << >> /\ Len(pending[k]) = 0
  BY DEF Init
<1>1. TypeOK
  <2>1. pending \in [Keys -> Seq(Requests)] /\ replies \in Seq(Requests)
    BY DEF Init
  <2>2. at \in [Requests -> 0 .. Deadline] /\ credited \in [Requests -> 0 .. Last]
    BY RequestsAssumption DEF Init
  <2>3. ledger \in [Requests -> {"new", "open", "answered", "overdue", "abandoned"}]
    BY DEF Init
  <2>4. /\ mode \in Modes /\ keyOf \in KeyMaps
        /\ now \in 0 .. Deadline /\ sender \in {"tick", "writing"} /\ count \in 0 .. MaxPending
        /\ sender = "tick" /\ taken = 0 /\ sent = 0 /\ written = 0
        /\ received \in Nat /\ successful \in Nat /\ timeouts \in Nat /\ errors \in Nat
        /\ pushes \in 0 .. MaxPushes
    BY RequestsAssumption DEF Init
  <2>5. watched \in BOOLEAN /\ ended \in BOOLEAN
    BY DEF Init
  <2> QED
    BY <2>1, <2>2, <2>3, <2>4, <2>5, RequestsAssumption DEF TypeOK
<1>2. \A o : o # "new" => Outcome(o) = {}
  BY DEF Outcome, Init
<1>3. Outcome("open") = {} /\ Outcome("answered") = {} /\ Outcome("overdue") = {}
  BY <1>2
<1>4. TableIsOpenRequests
  <2>1. Cardinality(Outcome("open")) = 0
    BY <1>3, FS_EmptySet
  <2> QED
    BY <2>1, <1>0, <1>3 DEF TableIsOpenRequests, Init
<1>5. FiguresAreLedger
  BY <1>3, FS_EmptySet DEF FiguresAreLedger, Init
<1>6. Untaken /\ Aged /\ NoneOverstays
  BY <1>0, <1>3 DEF Untaken, Aged, NoneOverstays, Init
<1> QED
  BY <1>1, <1>4, <1>5, <1>6 DEF IInv, BooksBalance
-----------------------------------------------------------------------------
(* The sender *)

LEMMA KeyKnown ==
  ASSUME TypeOK, NEW r \in Requests, keyOf[r] # NoKey
  PROVE  keyOf[r] \in Keys
BY RequestsAssumption DEF TypeOK

(* A request the table refuses. *)
LEMMA Refused ==
  ASSUME IInv, SendTick, keyOf[taken + 1] # NoKey, Register(taken + 1), count >= MaxPending
  PROVE  IInv'
<1> USE DEF IInv, BooksBalance
<1> DEFINE r == taken + 1
<1>0. Figures
  BY Types
<1>1. /\ r \in Requests /\ ledger' = [ledger EXCEPT ![r] = "overdue"]
      /\ taken' = r /\ timeouts' = timeouts + 1 /\ errors' = errors + 1
      /\ sender = "tick" /\ sender' = "writing"
      /\ UNCHANGED <<mode, keyOf, sent, written, pending, count, at, received, successful,
                     now, pushes, replies, credited>>
      /\ UNCHANGED watched /\ UNCHANGED ended
  BY <1>0, RequestsAssumption
     DEF SendTick, Register, Requests, Figures, tableVars, timeVars, peerVars
<1>2. ledger[r] = "new"
  BY <1>0, <1>1 DEF Untaken, Figures
<1>3. Counted({r}, "new", "overdue") /\ Cardinality({r}) = 1
  BY <1>1, <1>2, OutcomesMoveOne
<1>4. TypeOK'
  <2>1. watched' \in BOOLEAN /\ ended' \in BOOLEAN
    BY <1>1, Types
  <2>2. Figures'
    BY <1>0, <1>1, RequestsAssumption DEF Figures, Requests
  <2> QED
    BY <2>1, <2>2 DEF TypeOK, Figures
<1>5. TableIsOpenRequests'
  <2>1. Outcome("open")' = Outcome("open")
    BY <1>3 DEF Counted
  <2>2. \A q \in Requests : ledger[q] = "open" => ledger'[q] = "open"
    BY <1>0, <1>1, <1>2 DEF Figures
  <2>3. \A k \in Keys : \A i \in 1 .. Len(pending[k]) : pending[k][i] \in Requests
    BY <1>0 DEF Figures
  <2> QED
    BY <1>1, <2>1, <2>2, <2>3 DEF TableIsOpenRequests
<1>6. FiguresAreLedger'
  BY <1>0, <1>1, <1>3, OutcomesFinite DEF FiguresAreLedger, Counted, Figures
<1>7. Untaken' /\ Aged'
  <2>1. Untaken'
    BY <1>0, <1>1 DEF Untaken, Figures, Requests
  <2>2. Aged'
    BY <1>1 DEF Aged
  <2> QED
    BY <2>1, <2>2
<1>8. NoneOverstays'
  BY <1>1, <1>3 DEF NoneOverstays, Counted
<1> QED
  BY <1>4, <1>5, <1>6, <1>7, <1>8

(* A request the table takes. *)
LEMMA Registered ==
  ASSUME IInv, SendTick, keyOf[taken + 1] # NoKey, Register(taken + 1), ~ (count >= MaxPending)
  PROVE  IInv'
<1> USE DEF IInv, BooksBalance
<1> DEFINE r == taken + 1
           k == keyOf[r]
<1>0. Figures
  BY Types
<1>1. /\ r \in Requests /\ taken' = r /\ sender = "tick" /\ sender' = "writing" /\ ~ended
      /\ UNCHANGED <<mode, keyOf, sent, written, received, successful,
                     now, pushes, replies, credited>>
      /\ UNCHANGED watched /\ UNCHANGED ended
  BY <1>0, RequestsAssumption
     DEF SendTick, Requests, Figures, tableVars, timeVars, peerVars
<1>2. /\ ledger' = [ledger EXCEPT ![r] = "open"]
      /\ count < MaxPending /\ count' = count + 1
      /\ pending' = [pending EXCEPT ![k] = Append(pending[k], r)]
      /\ at' = [at EXCEPT ![r] = now]
      /\ UNCHANGED <<timeouts, errors>>
  <2>1. count < MaxPending
    BY <1>0, RequestsAssumption DEF Figures
  <2> QED
    BY <2>1 DEF Register
<1>3. ledger[r] = "new" /\ k \in Keys
  BY <1>0, <1>1, KeyKnown DEF Untaken, Figures
<1>4. Counted({r}, "new", "open") /\ Cardinality({r}) = 1
  BY <1>2, <1>1, <1>3, OutcomesMoveOne
<1>5. r = taken + 1 /\ k = keyOf[r] /\ taken \in Nat /\ now \in Nat /\ count \in Nat
  BY <1>0 DEF Figures
<1> HIDE DEF r, k
<1>6. /\ \A q \in Keys : q # k => pending'[q] = pending[q]
      /\ pending'[k] = Append(pending[k], r)
      /\ pending' \in [Keys -> Seq(Requests)]
      /\ at' \in [Requests -> 0 .. Deadline]
      /\ \A q \in Requests : q # r => at'[q] = at[q] /\ ledger'[q] = ledger[q]
      /\ at'[r] = now /\ ledger'[r] = "open"
      /\ ledger' \in [Requests -> {"new", "open", "answered", "overdue", "abandoned"}]
  BY <1>0, <1>1, <1>2, <1>3 DEF Figures
<1>7. \A q \in Keys : /\ pending[q] \in Seq(Requests) /\ Len(pending[q]) \in Nat
                      /\ \A i \in 1 .. Len(pending[q]) : pending[q][i] \in Requests
  BY <1>0 DEF Figures
<1>8. \A q \in Keys : \A i \in 1 .. Len(pending[q]) :
        /\ pending[q][i] \in Requests /\ ledger[pending[q][i]] = "open"
        /\ pending[q][i] < r /\ keyOf[pending[q][i]] = q
  <2>1. \A q \in Requests : ledger[q] = "open" => q < r
    BY <1>5 DEF Untaken, Requests
  <2> QED
    BY <2>1, <1>1, <1>7 DEF TableIsOpenRequests
<1>9. /\ Len(pending'[k]) = Len(pending[k]) + 1 /\ Len(pending[k]) \in Nat
      /\ pending'[k][Len(pending[k]) + 1] = r
      /\ \A i \in 1 .. Len(pending[k]) : pending'[k][i] = pending[k][i]
  BY <1>1, <1>3, <1>6, <1>7
<1>10. TypeOK'
  <2>1. watched' \in BOOLEAN /\ ended' \in BOOLEAN
    BY <1>1, Types
  <2>2. Figures'
    <3>1. taken' \in 0 .. Last /\ count' \in 0 .. MaxPending
      BY <1>1, <1>2, <1>5, RequestsAssumption DEF Requests
    <3>2. /\ sent' = IF sender' = "writing" THEN taken' - 1 ELSE taken'
          /\ sent' \in 0 .. taken' /\ written' \in 0 .. sent'
      BY <1>0, <1>1, <1>5 DEF Figures
    <3> QED
      BY <1>0, <1>1, <1>2, <1>6, <3>1, <3>2 DEF Figures
  <2> QED
    BY <2>1, <2>2 DEF TypeOK, Figures
<1>11. TableIsOpenRequests'
  <2>1. count' = Cardinality(Outcome("open"))'
    BY <1>1, <1>2, <1>4, OutcomesFinite DEF Counted, TableIsOpenRequests
  <2>2. \A q \in Keys : \A i \in 1 .. Len(pending'[q]) :
          /\ ledger'[pending'[q][i]] = "open" /\ keyOf'[pending'[q][i]] = q
          /\ \A j \in 1 .. i - 1 : pending'[q][j] < pending'[q][i]
    <3> SUFFICES ASSUME NEW q \in Keys, NEW i \in 1 .. Len(pending'[q])
                 PROVE  /\ ledger'[pending'[q][i]] = "open" /\ keyOf'[pending'[q][i]] = q
                        /\ \A j \in 1 .. i - 1 : pending'[q][j] < pending'[q][i]
      OBVIOUS
    <3>1. CASE q # k
      BY <3>1, <1>1, <1>6, <1>8 DEF TableIsOpenRequests
    <3>2. CASE q = k /\ i = Len(pending[k]) + 1
      BY <3>2, <1>1, <1>3, <1>6, <1>8, <1>9, <1>5
    <3>3. CASE q = k /\ i \in 1 .. Len(pending[k])
      <4>1. pending'[k][i] = pending[k][i]
        BY <3>3, <1>9
      <4>2. \A j \in 1 .. i - 1 : pending'[k][j] = pending[k][j]
        BY <3>3, <1>9
      <4>3. \A j \in 1 .. i - 1 : pending[k][j] < pending[k][i]
        BY <3>3, <1>1, <1>3 DEF TableIsOpenRequests
      <4>4. /\ pending[k][i] # r /\ pending[k][i] \in Requests
            /\ ledger[pending[k][i]] = "open" /\ keyOf[pending[k][i]] = k
        BY <3>3, <1>3, <1>8
      <4> QED
        BY <3>3, <4>1, <4>2, <4>3, <4>4, <1>1, <1>6
    <3> QED
      BY <3>1, <3>2, <3>3, <1>9
  <2>3. \A q \in Outcome("open")' :
          /\ keyOf'[q] \in Keys
          /\ \E i \in 1 .. Len(pending'[keyOf'[q]]) : pending'[keyOf'[q]][i] = q
    <3> SUFFICES ASSUME NEW q \in Outcome("open")'
                 PROVE  /\ keyOf[q] \in Keys
                        /\ \E i \in 1 .. Len(pending'[keyOf[q]]) : pending'[keyOf[q]][i] = q
      BY <1>1
    <3>1. CASE q = r
      BY <3>1, <1>3, <1>9, <1>5
    <3>2. CASE q # r
      <4>1. q \in Outcome("open")
        BY <3>2, <1>6 DEF Outcome
      <4>2. PICK i \in 1 .. Len(pending[keyOf[q]]) : pending[keyOf[q]][i] = q
        BY <4>1, <1>1 DEF TableIsOpenRequests
      <4>3. keyOf[q] \in Keys
        BY <4>1, <1>1 DEF TableIsOpenRequests
      <4>4. CASE keyOf[q] = k
        <5>1. i \in 1 .. Len(pending[k]) /\ pending[k][i] = q
          BY <4>2, <4>4
        <5>2. i \in 1 .. Len(pending'[k]) /\ pending'[k][i] = q
          BY <5>1, <1>9
        <5> QED
          BY <5>2, <4>3, <4>4
      <4>5. CASE keyOf[q] # k
        BY <4>2, <4>3, <4>5, <1>6
      <4> QED
        BY <4>3, <4>4, <4>5
    <3> QED
      BY <3>1, <3>2
  <2> QED
    BY <2>1, <2>2, <2>3 DEF TableIsOpenRequests
<1>12. FiguresAreLedger'
  BY <1>1, <1>2, <1>4 DEF FiguresAreLedger, Counted
<1>13. Untaken'
  BY <1>5, <1>1, <1>6 DEF Untaken, Requests
<1>14. Aged'
  <2> SUFFICES ASSUME NEW q \in Keys, NEW i \in 1 .. Len(pending'[q])
               PROVE  /\ at'[pending'[q][i]] <= now
                      /\ \A j \in 1 .. i - 1 : at'[pending'[q][j]] <= at'[pending'[q][i]]
    BY <1>1 DEF Aged
  <2>1. \A p \in Keys : \A m \in 1 .. Len(pending[p]) :
          /\ at'[pending[p][m]] <= now
          /\ \A j \in 1 .. m - 1 : at'[pending[p][j]] <= at'[pending[p][m]]
    <3>1. \A p \in Keys : \A m \in 1 .. Len(pending[p]) :
            at'[pending[p][m]] = at[pending[p][m]]
      BY <1>5, <1>1, <1>6, <1>8 DEF Requests
    <3>2. \A p \in Keys : \A m \in 1 .. Len(pending[p]) :
          /\ at[pending[p][m]] <= now
          /\ \A j \in 1 .. m - 1 : at[pending[p][j]] <= at[pending[p][m]]
      BY <1>1 DEF Aged
    <3>3. \A p \in Keys : \A m \in 1 .. Len(pending[p]) : \A j \in 1 .. m - 1 :
            j \in 1 .. Len(pending[p])
      BY <1>7
    <3> QED
      BY <3>1, <3>2, <3>3
  <2>2. CASE q # k
    BY <2>1, <2>2, <1>6
  <2>3. CASE q = k /\ i = Len(pending[k]) + 1
    BY <2>1, <2>3, <1>3, <1>6, <1>9, <1>5
  <2>4. CASE q = k /\ i \in 1 .. Len(pending[k])
    <3>1. \A j \in 1 .. i - 1 : pending'[k][j] = pending[k][j]
      BY <2>4, <1>9
    <3> QED
      BY <3>1, <2>1, <2>4, <1>3, <1>9
  <2> QED
    BY <2>2, <2>3, <2>4, <1>9
<1>15. NoneOverstays'
  <2>1. \A q \in Outcome("open")' : q = r \/ q \in Outcome("open")
    BY <1>6 DEF Outcome
  <2>2. \A q \in Outcome("open") : q # r => at'[q] = at[q]
    BY <1>6 DEF Outcome
  <2>3. Timeout \in Nat
    BY RequestsAssumption
  <2> QED
    BY <2>1, <2>2, <2>3, <1>1, <1>5, <1>6 DEF NoneOverstays
<1> QED
  BY <1>10, <1>11, <1>12, <1>13, <1>14, <1>15

(* Steps that move none of what the invariant is about. *)
LEMMA BooksKept ==
  ASSUME IInv, Figures', FiguresAreLedger',
         UNCHANGED <<mode, keyOf, now, pending, count, at, ledger>>,
         watched' \in BOOLEAN, NoneOverstays', UNCHANGED ended,
         taken' = taken \/ taken' = taken + 1
  PROVE  IInv'
<1> USE DEF IInv, BooksBalance
<1>0. Figures /\ watched \in BOOLEAN /\ ended \in BOOLEAN
  BY Types
<1>1. TypeOK'
  <2>1. watched' \in BOOLEAN /\ ended' \in BOOLEAN
    BY <1>0
  <2> QED
    BY <2>1 DEF TypeOK, Figures
<1>2. \A o : Outcome(o)' = Outcome(o)
  BY DEF Outcome
<1>3. TableIsOpenRequests'
  BY <1>2 DEF TableIsOpenRequests
<1>4. Untaken'
  BY <1>0 DEF Untaken, Figures, Requests
<1>5. Aged'
  BY DEF Aged
<1> QED
  BY <1>1, <1>3, <1>4, <1>5

LEMMA SendTickKeeps == IInv /\ SendTick => IInv'
<1> SUFFICES ASSUME IInv, SendTick PROVE IInv'
  OBVIOUS
<1>0. Figures
  BY Types DEF IInv, BooksBalance
<1>1. CASE mode = "RequestResponse" /\ keyOf[taken + 1] # NoKey
  <2>1. Register(taken + 1)
    BY <1>1 DEF SendTick
  <2> QED
    BY <1>1, <2>1, Refused, Registered
<1>2. CASE ~ (mode = "RequestResponse" /\ keyOf[taken + 1] # NoKey)
  <2>1. /\ UNCHANGED <<mode, keyOf, sent, written, received, successful, now, pushes,
                       replies, credited, pending, count, at, timeouts, errors, ledger>>
        /\ UNCHANGED watched /\ UNCHANGED ended
        /\ taken' = taken + 1 /\ taken < Last /\ sender = "tick" /\ sender' = "writing"
    BY <1>2 DEF SendTick, tableVars, timeVars, peerVars
  <2>2. Figures'
    BY <1>0, <2>1, RequestsAssumption DEF Figures
  <2>3. \A o : Outcome(o)' = Outcome(o)
    BY <2>1 DEF Outcome
  <2>4. FiguresAreLedger'
    BY <2>1, <2>3 DEF FiguresAreLedger, IInv, BooksBalance
  <2>5. NoneOverstays'
    BY <2>1, <2>3 DEF NoneOverstays, IInv
  <2>6. watched' \in BOOLEAN
    BY <2>1, Types DEF IInv, BooksBalance
  <2> QED
    BY <2>1, <2>2, <2>4, <2>5, <2>6, BooksKept
<1> QED
  BY <1>1, <1>2

LEMMA EnqueueKeeps == IInv /\ (Enqueue \/ Write) => IInv'
<1> SUFFICES ASSUME IInv, Enqueue \/ Write PROVE IInv'
  OBVIOUS
<1>0. Figures
  BY Types DEF IInv, BooksBalance
<1>1. /\ UNCHANGED <<mode, keyOf, taken, received, successful, now, pushes,
                     replies, credited, pending, count, at, timeouts, errors, ledger>>
      /\ UNCHANGED watched /\ UNCHANGED ended
  BY DEF Enqueue, Write, tableVars, timeVars, peerVars, senderVars, statsVars
<1>2. Figures'
  BY <1>0, <1>1, RequestsAssumption DEF Figures, Enqueue, Write, senderVars, peerVars
<1>3. \A o : Outcome(o)' = Outcome(o)
  BY <1>1 DEF Outcome
<1>4. FiguresAreLedger'
  BY <1>1, <1>3 DEF FiguresAreLedger, IInv, BooksBalance
<1>5. NoneOverstays'
  BY <1>1, <1>3 DEF NoneOverstays, IInv
<1>6. watched' \in BOOLEAN
  BY <1>1, Types DEF IInv, BooksBalance
<1> QED
  BY <1>1, <1>2, <1>4, <1>5, <1>6, BooksKept

-----------------------------------------------------------------------------
(* The table gives up the fronts of its queues *)

(* The requests up to cut[k] of each queue leave it, with outcome to.      *)
Cut(cut, to) ==
  /\ cut \in [Keys -> Nat]
  /\ \A k \in Keys : cut[k] <= Len(pending[k])
  /\ pending' = [k \in Keys |-> SubSeq(pending[k], cut[k] + 1, Len(pending[k]))]
  /\ count' = count - Cardinality(Dropped(cut))
  /\ ledger' = [r \in Requests |-> IF r \in Dropped(cut) THEN to ELSE ledger[r]]
  /\ to \in {"answered", "overdue"}
  /\ UNCHANGED <<keyOf, at, taken, now>>
  /\ UNCHANGED ended

LEMMA QueuesCut ==
  ASSUME IInv, ~ended, NEW cut, NEW to, Cut(cut, to)
  PROVE  /\ Moves(Dropped(cut), "open", to)
         /\ pending' \in [Keys -> Seq(Requests)] /\ count' \in 0 .. MaxPending
         /\ ledger' \in [Requests -> {"new", "open", "answered", "overdue", "abandoned"}]
         /\ TableIsOpenRequests' /\ Untaken' /\ Aged'
         /\ \A k \in Keys : \A i \in 1 .. Len(pending'[k]) :
              /\ i + cut[k] \in 1 .. Len(pending[k])
              /\ pending'[k][i] = pending[k][i + cut[k]]
<1> USE DEF IInv, BooksBalance
<1>0. Figures
  BY Types
<1>1. \A k \in Keys :
        /\ pending[k] \in Seq(Requests) /\ Len(pending[k]) \in Nat
        /\ cut[k] \in Nat /\ cut[k] <= Len(pending[k])
        /\ \A i \in 1 .. Len(pending[k]) :
             /\ pending[k][i] \in Requests /\ pending[k][i] \in Nat
             /\ ledger[pending[k][i]] = "open" /\ keyOf[pending[k][i]] = k
             /\ \A j \in 1 .. i - 1 : pending[k][j] < pending[k][i]
  <2>1. \A k \in Keys :
          /\ pending[k] \in Seq(Requests) /\ Len(pending[k]) \in Nat
          /\ \A i \in 1 .. Len(pending[k]) : pending[k][i] \in Requests
    BY <1>0 DEF Figures
  <2>2. \A k \in Keys : cut[k] \in Nat /\ cut[k] <= Len(pending[k])
    BY DEF Cut
  <2>3. \A k \in Keys : \A i \in 1 .. Len(pending[k]) :
          /\ ledger[pending[k][i]] = "open" /\ keyOf[pending[k][i]] = k
          /\ \A j \in 1 .. i - 1 : pending[k][j] < pending[k][i]
    BY DEF TableIsOpenRequests
  <2>4. \A r \in Requests : r \in Nat
    BY DEF Requests
  <2> QED
    BY <2>1, <2>2, <2>3, <2>4
<1>2. \A k \in Keys :
        /\ pending'[k] = SubSeq(pending[k], cut[k] + 1, Len(pending[k]))
        /\ pending'[k] \in Seq(Requests)
        /\ Len(pending'[k]) = Len(pending[k]) - cut[k]
        /\ \A i \in 1 .. Len(pending'[k]) :
             /\ i + cut[k] \in 1 .. Len(pending[k])
             /\ pending'[k][i] = pending[k][i + cut[k]]
  <2> SUFFICES ASSUME NEW k \in Keys
               PROVE  /\ pending'[k] = SubSeq(pending[k], cut[k] + 1, Len(pending[k]))
                      /\ pending'[k] \in Seq(Requests)
                      /\ Len(pending'[k]) = Len(pending[k]) - cut[k]
                      /\ \A i \in 1 .. Len(pending'[k]) :
                           /\ i + cut[k] \in 1 .. Len(pending[k])
                           /\ pending'[k][i] = pending[k][i + cut[k]]
    OBVIOUS
  <2>1. pending'[k] = SubSeq(pending[k], cut[k] + 1, Len(pending[k]))
    BY DEF Cut
  <2> DEFINE s == pending[k]
             m == cut[k] + 1
             n == Len(s)
  <2>2. s \in Seq(Requests) /\ m \in 1 .. n + 1 /\ n \in Nat /\ n = Len(s)
    BY <1>1
  <2> HIDE DEF s, m, n
  <2>3. /\ SubSeq(s, m, n) \in Seq(Requests)
        /\ Len(SubSeq(s, m, n)) = n - m + 1
        /\ \A i \in 1 .. n - m + 1 : SubSeq(s, m, n)[i] = s[m + i - 1]
    BY <2>2
  <2>4. /\ pending'[k] \in Seq(Requests)
        /\ Len(pending'[k]) = Len(pending[k]) - cut[k]
        /\ \A i \in 1 .. Len(pending[k]) - cut[k] :
             pending'[k][i] = pending[k][cut[k] + 1 + i - 1]
    BY <2>1, <2>2, <2>3, <1>1 DEF s, m, n
  <2>5. \A i \in 1 .. Len(pending[k]) - cut[k] :
          i + cut[k] \in 1 .. Len(pending[k]) /\ cut[k] + 1 + i - 1 = i + cut[k]
    BY <1>1
  <2> QED
    BY <2>1, <2>4, <2>5
<1>3. pending' \in [Keys -> Seq(Requests)]
  BY <1>2 DEF Cut
<1>4. Dropped(cut) \in SUBSET Outcome("open")
  <2> SUFFICES ASSUME NEW r \in Dropped(cut) PROVE r \in Outcome("open")
    OBVIOUS
  <2>1. PICK k \in Keys : \E i \in 1 .. cut[k] : pending[k][i] = r
    BY DEF Dropped
  <2>2. PICK i \in 1 .. cut[k] : pending[k][i] = r
    BY <2>1
  <2>3. i \in 1 .. Len(pending[k])
    BY <2>2, <1>1
  <2> QED
    BY <2>2, <2>3, <1>1 DEF Outcome
<1>5. Moves(Dropped(cut), "open", to)
  BY <1>4 DEF Moves, Cut, Outcome
<1>6. /\ Cardinality(Dropped(cut)) \in Nat
      /\ Cardinality(Outcome("open")') = Cardinality(Outcome("open")) - Cardinality(Dropped(cut))
      /\ Cardinality(Outcome("open")') \in Nat
  <2>1. Cardinality(Dropped(cut)) \in Nat /\ Counted(Dropped(cut), "open", to)
    BY <1>5, OutcomesMove
  <2>2. Cardinality(Dropped(cut)) <= Cardinality(Outcome("open"))
    BY <1>4, OutcomesFinite, FS_Subset
  <2> QED
    BY <2>1, <2>2, OutcomesFinite DEF Counted
<1>7. count' = Cardinality(Outcome("open")') /\ count' \in 0 .. MaxPending
  <2>1. count' = count - Cardinality(Dropped(cut))
    BY DEF Cut
  <2>2. count = Cardinality(Outcome("open"))
    BY DEF TableIsOpenRequests
  <2>3. count \in 0 .. MaxPending /\ MaxPending \in Nat
    BY <1>0, RequestsAssumption DEF Figures
  <2> QED
    BY <2>1, <2>2, <2>3, <1>6
<1>8. ledger' \in [Requests -> {"new", "open", "answered", "overdue", "abandoned"}]
  BY <1>0 DEF Cut, Figures
<1>9. \A k \in Keys : \A i \in 1 .. Len(pending[k]) :
        i > cut[k] => pending[k][i] \notin Dropped(cut)
  <2> SUFFICES ASSUME NEW k \in Keys, NEW i \in 1 .. Len(pending[k]), i > cut[k],
                      pending[k][i] \in Dropped(cut)
               PROVE  FALSE
    OBVIOUS
  <2>1. PICK q \in Keys : \E j \in 1 .. cut[q] : pending[q][j] = pending[k][i]
    BY DEF Dropped
  <2>2. PICK j \in 1 .. cut[q] : pending[q][j] = pending[k][i]
    BY <2>1
  <2>3. j \in 1 .. Len(pending[q])
    BY <2>2, <1>1
  <2>4. q = k
    BY <2>2, <2>3, <1>1
  <2>5. j \in 1 .. i - 1
    BY <2>2, <2>4, <1>1
  <2> QED
    BY <2>2, <2>4, <2>5, <1>1
<1>10. \A k \in Keys : \A i \in 1 .. Len(pending'[k]) : \A j \in 1 .. i - 1 :
         /\ pending'[k][j] = pending[k][j + cut[k]]
         /\ j + cut[k] \in 1 .. (i + cut[k]) - 1
  <2> SUFFICES ASSUME NEW k \in Keys, NEW i \in 1 .. Len(pending'[k]), NEW j \in 1 .. i - 1
               PROVE  /\ pending'[k][j] = pending[k][j + cut[k]]
                      /\ j + cut[k] \in 1 .. (i + cut[k]) - 1
    OBVIOUS
  <2>1. Len(pending'[k]) \in Int /\ cut[k] \in Nat
    BY <1>1, <1>2
  <2>2. j \in 1 .. Len(pending'[k]) /\ j + cut[k] \in 1 .. (i + cut[k]) - 1
    BY <2>1
  <2> QED
    BY <2>2, <1>2
<1>11. TableIsOpenRequests'
  <2>1. \A k \in Keys : \A i \in 1 .. Len(pending'[k]) :
          /\ ledger'[pending'[k][i]] = "open" /\ keyOf'[pending'[k][i]] = k
          /\ \A j \in 1 .. i - 1 : pending'[k][j] < pending'[k][i]
    <3> SUFFICES ASSUME NEW k \in Keys, NEW i \in 1 .. Len(pending'[k])
                 PROVE  /\ ledger'[pending'[k][i]] = "open" /\ keyOf'[pending'[k][i]] = k
                        /\ \A j \in 1 .. i - 1 : pending'[k][j] < pending'[k][i]
      OBVIOUS
    <3>1. /\ i + cut[k] \in 1 .. Len(pending[k]) /\ i + cut[k] > cut[k]
          /\ pending'[k][i] = pending[k][i + cut[k]]
      BY <1>1, <1>2
    <3>2. pending'[k][i] \notin Dropped(cut)
      BY <3>1, <1>9
    <3>3. ledger'[pending'[k][i]] = "open" /\ keyOf'[pending'[k][i]] = k
      BY <3>1, <3>2, <1>1 DEF Cut
    <3>4. \A j \in 1 .. i - 1 : /\ pending'[k][j] = pending[k][j + cut[k]]
                                /\ j + cut[k] \in 1 .. (i + cut[k]) - 1
      BY <1>10
    <3> QED
      BY <3>1, <3>3, <3>4, <1>1
  <2>2. \A r \in Outcome("open")' :
          /\ keyOf'[r] \in Keys
          /\ \E i \in 1 .. Len(pending'[keyOf'[r]]) : pending'[keyOf'[r]][i] = r
    <3> SUFFICES ASSUME NEW r \in Outcome("open")'
                 PROVE  /\ keyOf[r] \in Keys
                        /\ \E i \in 1 .. Len(pending'[keyOf[r]]) : pending'[keyOf[r]][i] = r
      BY DEF Cut
    <3>1. r \in Outcome("open") /\ r \notin Dropped(cut)
      BY DEF Outcome, Cut
    <3>2. keyOf[r] \in Keys
      BY <3>1 DEF TableIsOpenRequests
    <3>3. PICK i \in 1 .. Len(pending[keyOf[r]]) : pending[keyOf[r]][i] = r
      BY <3>1 DEF TableIsOpenRequests
    <3>4. ~ (i \in 1 .. cut[keyOf[r]])
      BY <3>1, <3>2, <3>3 DEF Dropped, Outcome
    <3>5. /\ cut[keyOf[r]] \in Nat /\ Len(pending[keyOf[r]]) \in Nat
          /\ Len(pending'[keyOf[r]]) = Len(pending[keyOf[r]]) - cut[keyOf[r]]
      BY <3>2, <1>1, <1>2
    <3>6. /\ i - cut[keyOf[r]] \in 1 .. Len(pending'[keyOf[r]])
          /\ (i - cut[keyOf[r]]) + cut[keyOf[r]] = i
      BY <3>3, <3>4, <3>5
    <3>7. pending'[keyOf[r]][i - cut[keyOf[r]]] = r
      BY <3>2, <3>3, <3>6, <1>2
    <3> QED
      BY <3>2, <3>6, <3>7
  <2> QED
    BY <2>1, <2>2, <1>7 DEF TableIsOpenRequests
<1>12. Untaken'
  <2>1. \A r \in Requests : ledger[r] = "new" => r \notin Dropped(cut)
    BY <1>4 DEF Outcome
  <2> QED
    BY <2>1 DEF Untaken, Cut
<1>13. Aged'
  <2> SUFFICES ASSUME NEW k \in Keys, NEW i \in 1 .. Len(pending'[k])
               PROVE  /\ at[pending'[k][i]] <= now
                      /\ \A j \in 1 .. i - 1 : at[pending'[k][j]] <= at[pending'[k][i]]
    BY DEF Aged, Cut
  <2>1. /\ i + cut[k] \in 1 .. Len(pending[k])
        /\ pending'[k][i] = pending[k][i + cut[k]]
    BY <1>1, <1>2
  <2>2. \A j \in 1 .. i - 1 : /\ pending'[k][j] = pending[k][j + cut[k]]
                              /\ j + cut[k] \in 1 .. (i + cut[k]) - 1
    BY <1>10
  <2> QED
    BY <2>1, <2>2 DEF Aged
<1> QED
  BY <1>2, <1>3, <1>5, <1>7, <1>8, <1>11, <1>12, <1>13

(* A queue cut leaves the figures true if its requests are counted. *)
LEMMA CutKeeps ==
  ASSUME IInv, ~ended, NEW cut, NEW to, Cut(cut, to), NoneOverstays',
         Figures', watched' \in BOOLEAN, UNCHANGED mode,
         mode = "RequestResponse",
         IF to = "answered"
         THEN /\ successful' = successful + Cardinality(Dropped(cut))
              /\ UNCHANGED <<timeouts, errors>>
         ELSE /\ UNCHANGED successful
              /\ timeouts' = timeouts + Cardinality(Dropped(cut))
              /\ errors' = errors + Cardinality(Dropped(cut))
  PROVE  IInv'
<1> USE DEF IInv, BooksBalance
<1>1. TableIsOpenRequests' /\ Untaken' /\ Aged' /\ Moves(Dropped(cut), "open", to)
  BY QueuesCut
<1>2. Counted(Dropped(cut), "open", to) /\ to \in {"answered", "overdue"}
  BY <1>1, OutcomesMove DEF Cut
<1>3. FiguresAreLedger'
  <2>1. CASE to = "answered"
    BY <1>2, <2>1 DEF FiguresAreLedger, Counted
  <2>2. CASE to = "overdue"
    BY <1>2, <2>2 DEF FiguresAreLedger, Counted
  <2> QED
    BY <1>2, <2>1, <2>2
<1>4. TypeOK'
  <2>1. ended' \in BOOLEAN
    BY Types DEF Cut
  <2> QED
    BY <2>1 DEF TypeOK, Figures
<1> QED
  BY <1>1, <1>3, <1>4

-----------------------------------------------------------------------------
(* The receiver *)

(* An answer takes the front of one queue. *)
LEMMA MatchCuts ==
  ASSUME IInv, ~ended, NEW k \in Keys, NEW r \in Requests, MatchOne(k, r),
         ledger' = [ledger EXCEPT ![r] = "answered"],
         UNCHANGED <<keyOf, at, taken, now>>, UNCHANGED ended
  PROVE  \E cut : Cut(cut, "answered") /\ Cardinality(Dropped(cut)) = 1
<1> USE DEF IInv, BooksBalance
<1> DEFINE cut == [q \in Keys |-> IF q = k THEN 1 ELSE 0]
<1>0. Figures
  BY Types
<1>1. \A q \in Keys : pending[q] \in Seq(Requests) /\ Len(pending[q]) \in Nat
  BY <1>0 DEF Figures
<1>2. /\ pending[k] # << >> /\ Len(pending[k]) >= 1 /\ r = pending[k][1]
      /\ pending' = [pending EXCEPT ![k] = Tail(pending[k])]
      /\ count' = count - 1
  BY <1>1 DEF MatchOne
<1>3. \A q \in Keys : pending'[q] = SubSeq(pending[q], cut[q] + 1, Len(pending[q]))
  <2> SUFFICES ASSUME NEW q \in Keys
               PROVE  pending'[q] = SubSeq(pending[q], cut[q] + 1, Len(pending[q]))
    OBVIOUS
  <2>1. CASE q = k
    <3>1. pending'[k] = Tail(pending[k])
      BY <1>0, <1>2 DEF Figures
    <3>2. Tail(pending[k]) = SubSeq(pending[k], 2, Len(pending[k]))
      BY <1>1, <1>2, TailIsSubSeq
    <3> QED
      BY <2>1, <3>1, <3>2
  <2>2. CASE q # k
    <3>1. pending'[q] = pending[q]
      BY <1>0, <1>2, <2>2 DEF Figures
    <3>2. pending[q] = SubSeq(pending[q], 1, Len(pending[q]))
      BY <1>1, SubSeqFull
    <3> QED
      BY <2>2, <3>1, <3>2
  <2> QED
    BY <2>1, <2>2
<1>4. pending' = [q \in Keys |-> SubSeq(pending[q], cut[q] + 1, Len(pending[q]))]
  BY <1>0, <1>2, <1>3 DEF Figures
<1>5. Dropped(cut) = {r}
  BY <1>2 DEF Dropped
<1>6. Cardinality({r}) = 1
  BY FS_Singleton
<1>7. ledger' = [q \in Requests |-> IF q \in {r} THEN "answered" ELSE ledger[q]]
  BY <1>0 DEF Figures
<1>8. cut \in [Keys -> Nat] /\ \A q \in Keys : cut[q] <= Len(pending[q])
  BY <1>1, <1>2
<1> HIDE DEF cut
<1>9. Cut(cut, "answered")
  BY <1>2, <1>4, <1>5, <1>6, <1>7, <1>8 DEF Cut
<1> QED
  BY <1>5, <1>6, <1>9

LEMMA FewerOverstay ==
  ASSUME IInv, NEW cut, NEW to, Cut(cut, to), UNCHANGED mode, UNCHANGED watched
  PROVE  NoneOverstays'
<1>1. Outcome("open")' \subseteq Outcome("open")
  BY DEF Outcome, Cut
<1> QED
  BY <1>1 DEF IInv, NoneOverstays, Cut

LEMMA MessageKeeps ==
  ASSUME IInv, ~ended, NEW k, NEW r \in 0 .. Last, OnMessage(k, r),
         pushes' \in 0 .. MaxPushes, replies' \in Seq(Requests)
  PROVE  IInv'
<1> USE DEF IInv, BooksBalance
<1>0. Figures
  BY Types
<1>1. /\ UNCHANGED <<mode, keyOf, taken, sent, sender, at, timeouts, errors, now, written>>
      /\ UNCHANGED watched /\ UNCHANGED ended /\ received' = received + 1
  BY DEF OnMessage, senderVars, timeVars
<1>2. watched' \in BOOLEAN
  BY <1>1, Types
<1>3. ASSUME mode = "RequestResponse", k \in Keys, successful' = successful + 1,
             NEW oldest \in Requests, MatchOne(k, oldest),
             ledger' = [ledger EXCEPT ![oldest] = "answered"],
             credited' = [credited EXCEPT ![oldest] = r]
      PROVE  IInv'
  <2>1. PICK cut : Cut(cut, "answered") /\ Cardinality(Dropped(cut)) = 1
    BY <1>1, <1>3, MatchCuts
  <2>2. NoneOverstays'
    BY <1>1, <2>1, FewerOverstay
  <2>3. Figures'
    <3>1. credited' \in [Requests -> 0 .. Last]
      BY <1>0, <1>3 DEF Figures
    <3>2. /\ pending' \in [Keys -> Seq(Requests)] /\ count' \in 0 .. MaxPending
          /\ ledger' \in [Requests -> {"new", "open", "answered", "overdue", "abandoned"}]
      BY <2>1, QueuesCut
    <3> QED
      BY <1>0, <1>1, <1>3, <3>1, <3>2 DEF Figures
  <2> QED
    BY <1>1, <1>2, <1>3, <2>1, <2>2, <2>3, CutKeeps
<1>4. ASSUME UNCHANGED <<pending, count, ledger, credited>>,
             \/ mode = "RequestResponse" /\ UNCHANGED successful
             \/ mode = "OneWay" /\ successful' = successful + 1
      PROVE  IInv'
  <2>1. \A o : Outcome(o)' = Outcome(o)
    BY <1>4 DEF Outcome
  <2>2. Figures'
    BY <1>0, <1>1, <1>4 DEF Figures
  <2>3. NoneOverstays'
    BY <1>1, <2>1 DEF NoneOverstays
  <2>4. FiguresAreLedger'
    BY <1>0, <1>1, <1>4, <2>1 DEF FiguresAreLedger, Figures
  <2> QED
    BY <1>1, <1>2, <1>4, <2>2, <2>3, <2>4, BooksKept
<1> QED
  BY <1>3, <1>4 DEF OnMessage

LEMMA AnswerKeeps ==
  ASSUME IInv, (\E r \in Requests : Answer(r)) \/ (\E k \in Keys \cup {NoKey} : Push(k))
  PROVE  IInv'
<1>0. Figures
  BY Types DEF IInv, BooksBalance
<1>1. ASSUME NEW r \in Requests, Answer(r) PROVE IInv'
  <2>1. /\ ~ended /\ OnMessage(keyOf[r], r) /\ r \in 0 .. Last
        /\ pushes' \in 0 .. MaxPushes /\ replies' \in Seq(Requests)
    BY <1>0, <1>1 DEF Answer, Figures, Requests
  <2> QED
    BY <2>1, MessageKeeps
<1>2. ASSUME NEW k \in Keys \cup {NoKey}, Push(k) PROVE IInv'
  <2>1. ~ended /\ OnMessage(k, 0) /\ 0 \in 0 .. Last
    BY <1>2, RequestsAssumption DEF Push
  <2>2. pushes' \in 0 .. MaxPushes /\ replies' \in Seq(Requests)
    BY <1>0, <1>2, RequestsAssumption DEF Push, Figures
  <2> QED
    BY <2>1, <2>2, MessageKeeps
<1> QED
  BY <1>1, <1>2

-----------------------------------------------------------------------------
(* The watcher, and the end of the connection *)

(* A sweep leaves no stale request: behind the first fresh one all are.    *)
LEMMA SweptClean ==
  ASSUME IInv, ~ended, NEW cut, Cut(cut, "overdue"), UNCHANGED mode,
         \A k \in Keys : StaleRun(pending[k], cut[k])
  PROVE  \A r \in Outcome("open")' : now' - at'[r] <= Timeout
<1> SUFFICES ASSUME NEW r \in Outcome("open")' PROVE now - at[r] <= Timeout
  BY DEF Cut
<1> USE DEF IInv, BooksBalance
<1>0. Figures /\ Timeout \in Nat
  BY Types, RequestsAssumption
<1>1. /\ TableIsOpenRequests' /\ ~ended'
      /\ \A k \in Keys : \A i \in 1 .. Len(pending'[k]) :
           /\ i + cut[k] \in 1 .. Len(pending[k])
           /\ pending'[k][i] = pending[k][i + cut[k]]
  BY QueuesCut DEF Cut
<1>2. keyOf'[r] = keyOf[r] /\ keyOf[r] \in Keys
  BY <1>1 DEF TableIsOpenRequests, Cut
<1> DEFINE k == keyOf[r]
           first == cut[k] + 1
<1>3. PICK i \in 1 .. Len(pending'[k]) : pending'[k][i] = r
  BY <1>1, <1>2 DEF TableIsOpenRequests
<1> HIDE DEF k, first
<1>4. k \in Keys /\ k = keyOf[r] /\ first = cut[k] + 1
  BY <1>2 DEF k, first
<1>5. /\ pending[k] \in Seq(Requests) /\ Len(pending[k]) \in Nat
      /\ cut[k] \in Nat
      /\ \A j \in 1 .. Len(pending[k]) : pending[k][j] \in Requests
  BY <1>0, <1>4 DEF Figures, Cut
<1>6. /\ i + cut[k] \in 1 .. Len(pending[k]) /\ pending[k][i + cut[k]] = r
      /\ cut[k] \in Nat /\ Len(pending[k]) \in Nat /\ i >= 1 /\ i \in Int
  BY <1>1, <1>3, <1>4, <1>5
<1>7. /\ first \in 1 .. Len(pending[k]) /\ cut[k] < Len(pending[k])
      /\ first = i + cut[k] \/ first \in 1 .. (i + cut[k]) - 1
  BY <1>6, <1>4
<1>8. ~ Stale(pending[k][first])
  BY <1>4, <1>7 DEF StaleRun
<1>9. pending[k][first] \in Requests /\ r \in Requests
  BY <1>5, <1>7 DEF Outcome
<1>10. at[pending[k][first]] \in Nat /\ at[r] \in Nat /\ now \in Nat
  BY <1>0, <1>9 DEF Figures
<1>11. at[pending[k][first]] <= at[r]
  <2>1. CASE first = i + cut[k]
    BY <2>1, <1>6, <1>10
  <2>2. CASE first \in 1 .. (i + cut[k]) - 1
    <3>1. \A j \in 1 .. (i + cut[k]) - 1 : at[pending[k][j]] <= at[pending[k][i + cut[k]]]
      BY <1>4, <1>6 DEF Aged
    <3> QED
      BY <2>2, <3>1, <1>6
  <2> QED
    BY <2>1, <2>2, <1>7
<1> QED
  BY <1>0, <1>8, <1>10, <1>11 DEF Stale

LEMMA SweepKeeps == IInv /\ Sweep => IInv'
<1> SUFFICES ASSUME IInv, Sweep PROVE IInv'
  OBVIOUS
<1> USE DEF IInv, BooksBalance
<1>0. Figures
  BY Types
<1>1. /\ ~ended /\ watched' = TRUE /\ UNCHANGED ended
      /\ UNCHANGED <<mode, keyOf, taken, sent, sender, at, received, successful, now,
                     written, pushes, replies, credited>>
  BY DEF Sweep, senderVars, peerVars
<1>2. watched' \in BOOLEAN
  BY <1>1
<1>3. CASE mode = "RequestResponse" /\ Timeout > 0
  <2>1. PICK cut \in [Keys -> 0 .. Last] : ExpireOlderThan(cut)
    BY <1>3 DEF Sweep
  <2>2. \A k \in Keys : /\ cut[k] \in Nat /\ cut[k] <= Len(pending[k])
                        /\ StaleRun(pending[k], cut[k])
    BY <2>1, RequestsAssumption DEF ExpireOlderThan, StaleRun
  <2>3. cut \in [Keys -> Nat]
    BY <2>2
  <2>4. Cut(cut, "overdue")
    BY <1>1, <2>1, <2>2, <2>3 DEF Cut, ExpireOlderThan
  <2>5. NoneOverstays'
    BY <1>1, <2>2, <2>4, SweptClean DEF NoneOverstays
  <2>6. Figures'
    <3>1. /\ pending' \in [Keys -> Seq(Requests)] /\ count' \in 0 .. MaxPending
          /\ ledger' \in [Requests -> {"new", "open", "answered", "overdue", "abandoned"}]
          /\ Moves(Dropped(cut), "open", "overdue")
      BY <1>1, <2>4, QueuesCut
    <3>2. timeouts' \in Nat /\ errors' \in Nat
      BY <1>0, <2>1, <3>1, OutcomesMove DEF Figures, ExpireOlderThan
    <3> QED
      BY <1>0, <1>1, <3>1, <3>2 DEF Figures
  <2>7. /\ timeouts' = timeouts + Cardinality(Dropped(cut))
        /\ errors' = errors + Cardinality(Dropped(cut))
    BY <2>1 DEF ExpireOlderThan
  <2> QED
    BY <1>1, <1>2, <1>3, <2>4, <2>5, <2>6, <2>7, CutKeeps
<1>4. CASE ~ (mode = "RequestResponse" /\ Timeout > 0)
  <2>1. UNCHANGED <<pending, count, timeouts, errors, ledger>>
    BY <1>4 DEF Sweep
  <2>2. Figures'
    BY <1>0, <1>1, <2>1 DEF Figures
  <2>3. \A o : Outcome(o)' = Outcome(o)
    BY <2>1 DEF Outcome
  <2>4. FiguresAreLedger'
    BY <1>1, <2>1, <2>3 DEF FiguresAreLedger
  <2>5. NoneOverstays'
    BY <1>1, <1>4 DEF NoneOverstays
  <2> QED
    BY <1>1, <1>2, <2>1, <2>2, <2>4, <2>5, BooksKept
<1> QED
  BY <1>3, <1>4

LEMMA EndMoves ==
  ASSUME End
  PROVE  ledger' = [r \in Requests |-> IF r \in Outcome("open") THEN "abandoned" ELSE ledger[r]]
BY DEF End, Outcome

LEMMA EndKeeps == IInv /\ End => IInv'
<1> SUFFICES ASSUME IInv, End PROVE IInv'
  OBVIOUS
<1> USE DEF IInv, BooksBalance
<1>0. Figures /\ watched \in BOOLEAN
  BY Types
<1>1. /\ ended' = TRUE /\ UNCHANGED watched
      /\ UNCHANGED <<mode, keyOf, sender, taken, sent, pending, count, at, received,
                     successful, timeouts, errors, now, written, pushes, replies, credited>>
  BY DEF End, senderVars, tableVars, statsVars, peerVars
<1>2. Moves(Outcome("open"), "open", "abandoned")
  BY EndMoves DEF Moves, Outcome
<1>3. Counted(Outcome("open"), "open", "abandoned")
  BY <1>2, OutcomesMove
<1>4. FiguresAreLedger'
  BY <1>1, <1>3 DEF FiguresAreLedger, Counted
<1>5. Figures'
  <2>1. ledger' \in [Requests -> {"new", "open", "answered", "overdue", "abandoned"}]
    BY <1>0, EndMoves DEF Figures
  <2> QED
    BY <1>0, <1>1, <2>1 DEF Figures
<1>6. TypeOK'
  <2>1. watched' \in BOOLEAN /\ ended' \in BOOLEAN
    BY <1>0, <1>1
  <2> QED
    BY <1>5, <2>1 DEF TypeOK, Figures
<1>7. TableIsOpenRequests' /\ Aged' /\ NoneOverstays'
  BY <1>1 DEF TableIsOpenRequests, Aged, NoneOverstays
<1>8. Untaken'
  BY <1>1, EndMoves DEF Untaken, Outcome
<1> QED
  BY <1>4, <1>6, <1>7, <1>8

LEMMA TickKeeps == IInv /\ Tick => IInv'
<1> SUFFICES ASSUME IInv, Tick PROVE IInv'
  OBVIOUS
<1> USE DEF IInv, BooksBalance
<1>0. Figures /\ watched \in BOOLEAN /\ ended \in BOOLEAN
  BY Types
<1>1. /\ watched /\ watched' = FALSE /\ ~ended /\ UNCHANGED ended
      /\ now' = now + 1 /\ now < Deadline
      /\ UNCHANGED <<mode, keyOf, sender, taken, sent, pending, count, at, received,
                     successful, timeouts, errors, ledger, written, pushes, replies, credited>>
  BY DEF Tick, senderVars, tableVars, statsVars, peerVars
<1>2. \A o : Outcome(o)' = Outcome(o)
  BY <1>1 DEF Outcome
<1>3. TypeOK'
  <2>1. watched' \in BOOLEAN /\ ended' \in BOOLEAN
    BY <1>0, <1>1
  <2>2. now' \in 0 .. Deadline
    BY <1>0, <1>1, RequestsAssumption DEF Figures
  <2>3. Figures'
    BY <1>0, <1>1, <2>2 DEF Figures
  <2> QED
    BY <2>1, <2>3 DEF TypeOK, Figures
<1>4. TableIsOpenRequests' /\ FiguresAreLedger' /\ Untaken'
  BY <1>1, <1>2 DEF TableIsOpenRequests, FiguresAreLedger, Untaken
<1>5. Aged'
  <2>1. \A k \in Keys : \A i \in 1 .. Len(pending[k]) : at[pending[k][i]] \in Nat
    BY <1>0 DEF Figures
  <2>2. now \in Nat
    BY <1>0 DEF Figures
  <2> QED
    BY <1>1, <2>1, <2>2 DEF Aged
<1>6. NoneOverstays'
  <2>1. \A r \in Outcome("open") : at[r] \in Nat
    BY <1>0 DEF Figures, Outcome
  <2>2. now \in Nat /\ Timeout \in Nat
    BY <1>0, RequestsAssumption DEF Figures
  <2> QED
    BY <1>1, <1>2, <2>1, <2>2 DEF NoneOverstays
<1> QED
  BY <1>3, <1>4, <1>5, <1>6

-----------------------------------------------------------------------------
(* The theorems *)

LEMMA Inductive == IInv /\ [Next]_vars => IInv'
<1> SUFFICES ASSUME IInv, [Next]_vars PROVE IInv'
  OBVIOUS
<1>1. CASE UNCHANGED vars
  <2>1. \A o : Outcome(o)' = Outcome(o)
    BY <1>1 DEF Outcome, vars
  <2> QED
    BY <1>1, <2>1
       DEF vars, senderVars, tableVars, statsVars, timeVars, peerVars, IInv, BooksBalance,
           TypeOK, TableIsOpenRequests, FiguresAreLedger, Untaken, Aged, NoneOverstays
<1> QED
  BY <1>1, SendTickKeeps, EnqueueKeeps, AnswerKeeps, SweepKeeps, EndKeeps, TickKeeps
     DEF Next, Terminated

LEMMA Invariance == Spec => []IInv
<1>1. Init => IInv
  BY InitIInv
<1>2. IInv /\ [Next]_vars => IInv'
  BY Inductive
<1> QED
  BY <1>1, <1>2, PTL DEF Spec

(* The table, its counter and the figures tell of the same requests,       *)
(* however large the table is and whatever the peer answers.               *)
THEOREM BooksAlwaysBalance == Spec => []BooksBalance
<1>1. IInv => BooksBalance
  BY DEF IInv
<1> QED
  BY <1>1, Invariance, PTL

(* No request stays open for longer than its timeout and one period.       *)
THEOREM NothingForgotten == Spec => []NoneOverstays
<1>1. IInv => NoneOverstays
  BY DEF IInv
<1> QED
  BY <1>1, Invariance, PTL

-----------------------------------------------------------------------------
(* The refinement *)

LEMMA StepsOfLedger == IInv /\ [Next]_vars => [Ledger!Next]_ledger
<1> SUFFICES ASSUME IInv, Next, ~ UNCHANGED ledger PROVE Ledger!Next
  BY DEF vars
<1> USE DEF IInv, BooksBalance
<1>0. Figures
  BY Types
<1>1. CASE SendTick
  <2> DEFINE r == taken + 1
  <2>1. Register(r) /\ r \in Requests /\ ledger[r] = "new"
    BY <1>0, <1>1, RequestsAssumption DEF SendTick, Figures, Untaken, Requests
  <2>2. Ledger!Open(r) \/ Ledger!Refuse(r)
    BY <2>1 DEF Register, Ledger!Open, Ledger!Refuse, Ledger!Move
  <2> QED
    BY <2>1, <2>2 DEF Ledger!Next
<1>2. ASSUME NEW k, NEW n, OnMessage(k, n), ~ended PROVE Ledger!Next
  <2>1. PICK r \in Requests : /\ MatchOne(k, r) /\ k \in Keys
                              /\ ledger' = [ledger EXCEPT ![r] = "answered"]
    BY <1>2 DEF OnMessage
  <2>2. 1 \in 1 .. Len(pending[k]) /\ pending[k][1] = r
    BY <1>0, <2>1 DEF MatchOne, Figures
  <2>3. ledger[r] = "open"
    BY <1>2, <2>1, <2>2 DEF TableIsOpenRequests
  <2> QED
    BY <2>1, <2>3 DEF Ledger!Next, Ledger!Answer, Ledger!Move
<1>3. CASE Sweep
  <2>1. PICK cut \in [Keys -> 0 .. Last] : ExpireOlderThan(cut)
    BY <1>3 DEF Sweep
  <2>2. \A k \in Keys : cut[k] \in Nat /\ cut[k] <= Len(pending[k])
    BY <2>1, RequestsAssumption DEF ExpireOlderThan, StaleRun
  <2>3. cut \in [Keys -> Nat]
    BY <2>2
  <2>4. ~ended /\ Cut(cut, "overdue")
    BY <1>3, <2>1, <2>2, <2>3 DEF Cut, ExpireOlderThan, Sweep, senderVars
  <2>5. Moves(Dropped(cut), "open", "overdue")
    BY <2>4, QueuesCut
  <2> QED
    BY <2>5 DEF Moves, Ledger!Next, Ledger!GiveUp
<1>4. CASE End
  <2>1. Outcome("open") \in SUBSET Requests
    BY DEF Outcome
  <2>2. Ledger!GiveUp(Outcome("open"), "abandoned")
    BY <1>4, EndMoves DEF Ledger!GiveUp, Outcome
  <2> QED
    BY <2>1, <2>2 DEF Ledger!Next
<1>5. CASE Enqueue \/ Write \/ Tick \/ Terminated
  BY <1>5 DEF Enqueue, Write, Tick, Terminated, vars
<1> QED
  BY <1>1, <1>2, <1>3, <1>4, <1>5 DEF Next, Answer, Push

(* Each request is entered once, gets one outcome and keeps it: the        *)
(* connection implements the ledger, for any number of requests.           *)
THEOREM Refinement == Spec => EveryRequestOneOutcome
<1>1. Init => Ledger!Init
  BY DEF Init, Ledger!Init
<1>2. IInv /\ [Next]_vars => [Ledger!Next]_ledger
  BY StepsOfLedger
<1> QED
  BY <1>1, <1>2, Invariance, PTL DEF Spec, EveryRequestOneOutcome, Ledger!Spec

-----------------------------------------------------------------------------
(* Answers and requests in step *)

(* Nothing has set the requests of r's key off by one so far. *)
Undisturbed(r) ==
  /\ pushes = 0
  /\ InOrder(r)
  /\ \A s \in Rivals(r) : ledger[s] # "overdue"
Replied(r) == \E i \in DOMAIN replies : replies[i] = r

(* Then the requests answered are those the peer has replied to.           *)
InStep ==
  \A r \in Requests :
    (mode = "RequestResponse" /\ keyOf[r] \in Keys /\ Undisturbed(r)) =>
      /\ ledger[r] = "answered" <=> Replied(r)
      /\ ledger[r] = "answered" => credited[r] = r

(* What has been sent and has a key was entered. *)
Entered ==
  /\ mode = "RequestResponse" =>
       \A r \in Requests : r <= taken /\ keyOf[r] \in Keys => ledger[r] # "new"
  /\ ~ended => \A r \in Requests : ledger[r] # "abandoned"
  /\ \A r \in Requests :
       ledger[r] = "answered" => mode = "RequestResponse" /\ keyOf[r] \in Keys

LEMMA EnteredKept == IInv /\ Entered /\ [Next]_vars => Entered'
<1> SUFFICES ASSUME IInv, Entered, Next \/ UNCHANGED vars PROVE Entered'
  OBVIOUS
<1>0. Figures /\ TableIsOpenRequests /\ Untaken
  BY Types DEF IInv, BooksBalance
<1>1. CASE SendTick
  <2> DEFINE r == taken + 1
  <2>1. /\ UNCHANGED <<mode, keyOf>> /\ UNCHANGED ended /\ ~ended /\ taken' = r
        /\ r \in Requests /\ taken \in Nat
    BY <1>0, <1>1, RequestsAssumption DEF SendTick, Figures, Requests, timeVars
  <2>2. CASE mode = "RequestResponse" /\ keyOf[r] # NoKey
    <3>1. PICK o \in {"open", "overdue"} : ledger' = [ledger EXCEPT ![r] = o]
      BY <1>1, <2>2 DEF SendTick, Register
    <3>2. \A q \in Requests : ledger'[q] = IF q = r THEN o ELSE ledger[q]
      BY <1>0, <3>1 DEF Figures
    <3>3. \A q \in Requests : q <= r => q <= taken \/ q = r
      BY <2>1 DEF Requests
    <3> HIDE DEF r
    <3> QED
      BY <2>1, <3>1, <3>2, <3>3 DEF Entered
  <2>3. CASE ~(mode = "RequestResponse" /\ keyOf[r] # NoKey)
    <3>1. UNCHANGED ledger
      BY <1>1, <2>3 DEF SendTick
    <3>2. \A q \in Requests : q <= r => q <= taken \/ q = r
      BY <2>1 DEF Requests
    <3>3. NoKey \notin Keys
      BY RequestsAssumption
    <3> HIDE DEF r
    <3> QED
      BY <2>1, <2>3, <3>1, <3>2, <3>3 DEF Entered
  <2> QED
    BY <2>2, <2>3
<1>2. ASSUME NEW k, NEW n, OnMessage(k, n), ~ended PROVE Entered'
  <2>1. UNCHANGED <<mode, keyOf, taken>> /\ UNCHANGED ended
    BY <1>2 DEF OnMessage, senderVars, timeVars
  <2>2. CASE UNCHANGED ledger
    BY <2>1, <2>2 DEF Entered
  <2>3. CASE ~ UNCHANGED ledger
    <3>1. PICK r \in Requests :
            /\ MatchOne(k, r) /\ k \in Keys /\ mode = "RequestResponse"
            /\ ledger' = [ledger EXCEPT ![r] = "answered"]
      BY <1>2, <2>3 DEF OnMessage
    <3>2. 1 \in 1 .. Len(pending[k]) /\ pending[k][1] = r
      BY <1>0, <3>1 DEF MatchOne, Figures
    <3>3. keyOf[r] = k
      BY <1>0, <1>2, <3>1, <3>2 DEF TableIsOpenRequests
    <3>4. \A q \in Requests : ledger'[q] = IF q = r THEN "answered" ELSE ledger[q]
      BY <1>0, <3>1 DEF Figures
    <3> QED
      BY <2>1, <3>1, <3>3, <3>4 DEF Entered
  <2> QED
    BY <2>2, <2>3
<1>3. CASE Sweep
  <2>1. UNCHANGED <<mode, keyOf, taken>> /\ UNCHANGED ended
    BY <1>3 DEF Sweep, senderVars
  <2>2. \A q \in Requests : ledger'[q] \in {ledger[q], "overdue"}
    BY <1>3 DEF Sweep, ExpireOlderThan
  <2> QED
    BY <2>1, <2>2 DEF Entered
<1>4. CASE End
  <2>1. UNCHANGED <<mode, keyOf, taken>> /\ ended'
    BY <1>4 DEF End, senderVars
  <2>2. \A q \in Requests : ledger'[q] = IF ledger[q] = "open" THEN "abandoned" ELSE ledger[q]
    BY <1>4 DEF End
  <2> QED
    BY <2>1, <2>2 DEF Entered
<1>5. CASE Enqueue \/ Write \/ Tick \/ UNCHANGED vars
  <2>1. UNCHANGED <<mode, keyOf, taken, ledger>> /\ UNCHANGED ended
    BY <1>5 DEF Enqueue, Write, Tick, vars, senderVars, timeVars
  <2> QED
    BY <2>1 DEF Entered
<1> QED
  BY <1>1, <1>2, <1>3, <1>4, <1>5 DEF Next, Answer, Push, Terminated

(* A step that leaves requests undisturbed found them undisturbed. *)
LEMMA Before ==
  ASSUME Figures, NEW r \in Requests, Undisturbed(r)', UNCHANGED keyOf,
         pushes \in Nat, pushes' = pushes \/ pushes' = pushes + 1,
         replies' = replies \/ (\E q \in Requests : replies' = Append(replies, q)),
         \A s \in Requests : ledger[s] = "overdue" => ledger'[s] = "overdue"
  PROVE  Undisturbed(r) /\ pushes' = pushes
<1>1. Rivals(r)' = Rivals(r)
  BY DEF Rivals
<1>2. replies \in Seq(Requests)
  BY DEF Figures
<1>3. /\ DOMAIN replies = 1 .. Len(replies) /\ DOMAIN replies \subseteq DOMAIN replies'
      /\ \A i \in DOMAIN replies : replies'[i] = replies[i]
  BY <1>2
<1>4. InOrder(r)
  <2> SUFFICES ASSUME NEW i \in DOMAIN replies, replies[i] \in Rivals(r),
                      NEW s \in Rivals(r), s < replies[i]
               PROVE  \E j \in 1 .. i - 1 : replies[j] = s
    BY DEF InOrder
  <2>1. i \in DOMAIN replies' /\ replies'[i] = replies[i]
    BY <1>3
  <2>2. PICK j \in 1 .. i - 1 : replies'[j] = s
    BY <1>1, <2>1 DEF Undisturbed, InOrder
  <2>3. j \in DOMAIN replies
    BY <1>3
  <2> QED
    BY <1>3, <2>2, <2>3
<1>5. \A s \in Rivals(r) : ledger[s] # "overdue"
  BY <1>1 DEF Undisturbed, Rivals
<1> QED
  BY <1>4, <1>5 DEF Undisturbed

(* A step that changes neither the replies nor whose request is answered. *)
LEMMA Bystander ==
  ASSUME InStep, UNCHANGED <<mode, keyOf, credited>>, NEW r \in Requests,
         mode = "RequestResponse", keyOf[r] \in Keys, Undisturbed(r),
         Replied(r)' <=> Replied(r),
         ledger'[r] = "answered" <=> ledger[r] = "answered"
  PROVE  /\ ledger'[r] = "answered" <=> Replied(r)'
         /\ ledger'[r] = "answered" => credited'[r] = r
BY DEF InStep

(* The answer to a request finds it at the head of its queue. *)
LEMMA NextInLine ==
  ASSUME IInv, Entered, InStep, ~ended, NEW q \in Requests, q <= written,
         mode = "RequestResponse", keyOf[q] \in Keys, ~ Replied(q), Undisturbed(q),
         \A s \in Rivals(q) : s < q => Replied(s)
  PROVE  ledger[q] = "open" /\ pending[keyOf[q]] # << >> /\ Head(pending[keyOf[q]]) = q
<1> DEFINE k == keyOf[q]
<1>0. Figures /\ TableIsOpenRequests
  BY Types DEF IInv, BooksBalance
<1>1. \A s \in Rivals(q) : Rivals(s) = Rivals(q) /\ s \in Requests /\ keyOf[s] = k
  BY DEF Rivals
<1>2. \A s \in Rivals(q) : Undisturbed(s)
  BY <1>1 DEF Undisturbed, InOrder
<1>3. \A s \in Rivals(q) : s < q => ledger[s] = "answered"
  BY <1>1, <1>2 DEF InStep
<1>4. ledger[q] = "open"
  <2>1. q \in Rivals(q)
    BY DEF Rivals
  <2>2. ledger[q] # "answered" /\ ledger[q] # "overdue"
    BY <2>1 DEF InStep, Undisturbed
  <2>3. q <= taken
    BY <1>0 DEF Figures, Requests
  <2>4. ledger[q] # "new" /\ ledger[q] # "abandoned"
    BY <2>3 DEF Entered
  <2> QED
    BY <1>0, <2>2, <2>4 DEF Figures
<1>5. PICK i \in 1 .. Len(pending[k]) : pending[k][i] = q
  BY <1>0, <1>4 DEF TableIsOpenRequests, Outcome
<1>6. pending[k] \in Seq(Requests) /\ 1 \in 1 .. Len(pending[k])
  BY <1>0, <1>5 DEF Figures
<1>7. pending[k][1] \in Rivals(q) /\ ledger[pending[k][1]] = "open"
  BY <1>0, <1>6 DEF TableIsOpenRequests, Rivals
<1>8. i = 1
  <2> SUFFICES ASSUME i # 1 PROVE FALSE
    OBVIOUS
  <2>1. 1 \in 1 .. i - 1
    BY <1>5, <1>6
  <2>2. pending[k][1] < q
    BY <1>0, <1>5, <2>1 DEF TableIsOpenRequests
  <2> QED
    BY <1>3, <1>7, <2>2
<1> QED
  BY <1>4, <1>5, <1>6, <1>8

LEMMA InStepKept == IInv /\ Entered /\ InStep /\ [Next]_vars => InStep'
<1> SUFFICES ASSUME IInv, Entered, InStep, Next \/ UNCHANGED vars, NEW r \in Requests,
                    mode' = "RequestResponse", keyOf'[r] \in Keys, Undisturbed(r)'
             PROVE  /\ ledger'[r] = "answered" <=> Replied(r)'
                    /\ ledger'[r] = "answered" => credited'[r] = r
  BY DEF InStep
<1>0. Figures /\ TableIsOpenRequests /\ Untaken /\ pushes \in Nat
  <2>1. Figures
    BY Types DEF IInv, BooksBalance
  <2> QED
    BY <2>1 DEF IInv, BooksBalance, Figures
<1>1. CASE SendTick
  <2> DEFINE n == taken + 1
  <2>1. /\ UNCHANGED <<mode, keyOf, pushes, replies, credited>>
        /\ n \in Requests /\ ledger[n] = "new"
    BY <1>0, <1>1, RequestsAssumption DEF SendTick, Figures, Requests, peerVars, Untaken
  <2>2. \A s \in Requests : \/ ledger'[s] = ledger[s]
                            \/ ledger[s] = "new" /\ ledger'[s] \in {"open", "overdue"}
    <3>1. \/ UNCHANGED ledger
          \/ ledger' = [ledger EXCEPT ![n] = "open"]
          \/ ledger' = [ledger EXCEPT ![n] = "overdue"]
      BY <1>1 DEF SendTick, Register
    <3> HIDE DEF n
    <3> QED
      BY <1>0, <2>1, <3>1 DEF Figures
  <2>3. Undisturbed(r)
    BY <1>0, <2>1, <2>2, Before
  <2> QED
    BY <2>1, <2>2, <2>3, Bystander DEF Replied
<1>2. CASE Sweep
  <2>1. UNCHANGED <<mode, keyOf, pushes, replies, credited>> /\ ~ended
    BY <1>2 DEF Sweep, peerVars
  <2>2. \A s \in Requests : \/ ledger'[s] = ledger[s]
                            \/ ledger[s] = "open" /\ ledger'[s] = "overdue"
    <3>1. CASE mode = "RequestResponse" /\ Timeout > 0
      <4>1. PICK cut \in [Keys -> 0 .. Last] : ExpireOlderThan(cut)
        BY <1>2, <3>1 DEF Sweep
      <4>2. \A k \in Keys : cut[k] \in Nat /\ cut[k] <= Len(pending[k])
        BY <4>1, RequestsAssumption DEF ExpireOlderThan, StaleRun
      <4>3. cut \in [Keys -> Nat]
        BY <4>2
      <4>4. Cut(cut, "overdue")
        BY <1>2, <4>1, <4>2, <4>3 DEF Cut, ExpireOlderThan, Sweep, senderVars
      <4>5. Moves(Dropped(cut), "open", "overdue")
        BY <2>1, <4>4, QueuesCut DEF IInv, BooksBalance
      <4> QED
        BY <4>5 DEF Moves
    <3> QED
      BY <1>2, <3>1 DEF Sweep
  <2>3. Undisturbed(r)
    BY <1>0, <2>1, <2>2, Before
  <2>4. ledger'[r] = "answered" <=> ledger[r] = "answered"
    BY <2>2
  <2> QED
    BY <2>1, <2>3, <2>4, Bystander DEF Replied
<1>3. CASE End
  <2>1. UNCHANGED <<mode, keyOf, pushes, replies, credited>>
    BY <1>3 DEF End, peerVars
  <2>2. \A s \in Requests : ledger'[s] = IF ledger[s] = "open" THEN "abandoned" ELSE ledger[s]
    BY <1>3 DEF End
  <2>3. Undisturbed(r)
    BY <1>0, <2>1, <2>2, Before
  <2> QED
    BY <2>1, <2>2, <2>3, Bystander DEF Replied
<1>4. CASE Enqueue \/ Write \/ Tick \/ UNCHANGED vars
  <2>1. UNCHANGED <<mode, keyOf, pushes, replies, credited, ledger>>
    BY <1>4 DEF Enqueue, Write, Tick, vars, peerVars
  <2>2. Undisturbed(r)
    BY <1>0, <2>1, Before
  <2> QED
    BY <2>1, <2>2, Bystander DEF Replied
<1>5. ASSUME NEW k, Push(k) PROVE FALSE
  BY <1>0, <1>5 DEF Push, Undisturbed
<1>6. ASSUME NEW q \in Requests, Answer(q)
      PROVE  /\ ledger'[r] = "answered" <=> Replied(r)'
             /\ ledger'[r] = "answered" => credited'[r] = r
  <2> DEFINE k == keyOf[q]
  <2>1. /\ UNCHANGED <<mode, keyOf, pushes>> /\ ~ended /\ q <= written
        /\ replies' = Append(replies, q) /\ OnMessage(k, q) /\ ~ Replied(q)
    BY <1>6 DEF Answer, OnMessage, Replied
  <2>2. /\ DOMAIN replies = 1 .. Len(replies) /\ Len(replies) \in Nat
        /\ DOMAIN replies' = 1 .. Len(replies) + 1 /\ replies'[Len(replies) + 1] = q
        /\ \A i \in 1 .. Len(replies) : replies'[i] = replies[i]
    BY <1>0, <2>1 DEF Figures
  <2>3. Replied(r)' <=> Replied(r) \/ r = q
    <3>1. Replied(r)' <=> \E i \in 1 .. Len(replies) + 1 : replies'[i] = r
      BY <2>2 DEF Replied
    <3>2. \A i \in 1 .. Len(replies) + 1 : i \in 1 .. Len(replies) \/ i = Len(replies) + 1
      BY <2>2
    <3>3. 1 .. Len(replies) \subseteq 1 .. Len(replies) + 1
          /\ Len(replies) + 1 \in 1 .. Len(replies) + 1
      BY <2>2
    <3> QED
      BY <2>2, <3>1, <3>2, <3>3 DEF Replied
  <2>4. mode = "RequestResponse" /\ keyOf[r] \in Keys
    BY <2>1
  <2>5. \/ UNCHANGED <<ledger, credited>> /\ (k \in Keys => pending[k] = << >>)
        \/ \E oldest \in Requests :
             /\ MatchOne(k, oldest) /\ k \in Keys
             /\ ledger' = [ledger EXCEPT ![oldest] = "answered"]
             /\ credited' = [credited EXCEPT ![oldest] = q]
    BY <2>1, <2>4 DEF OnMessage
  <2>6. Undisturbed(r)
    <3>1. \A s \in Requests : ledger[s] = "overdue" => ledger'[s] = "overdue"
      <4> SUFFICES ASSUME NEW oldest \in Requests, MatchOne(k, oldest), k \in Keys,
                          ledger' = [ledger EXCEPT ![oldest] = "answered"]
                   PROVE  \A s \in Requests : ledger[s] = "overdue" => ledger'[s] = "overdue"
        BY <2>5
      <4>1. 1 \in 1 .. Len(pending[k]) /\ pending[k][1] = oldest
        BY <1>0 DEF MatchOne, Figures
      <4>2. ledger[oldest] = "open"
        BY <1>0, <2>1, <4>1 DEF TableIsOpenRequests
      <4> QED
        BY <1>0, <4>2 DEF Figures
    <3> QED
      BY <1>0, <2>1, <3>1, Before
  <2>7. CASE q \in Rivals(r)
    <3>1. Rivals(q) = Rivals(r) /\ Rivals(r)' = Rivals(r) /\ keyOf[q] = keyOf[r]
      BY <2>1, <2>7 DEF Rivals
    <3>2. Undisturbed(q)
      BY <2>6, <3>1 DEF Undisturbed, InOrder
    <3>3. \A s \in Rivals(q) : s < q => Replied(s)
      <4> SUFFICES ASSUME NEW s \in Rivals(q), s < q PROVE Replied(s)
        OBVIOUS
      <4>1. Len(replies) + 1 \in DOMAIN replies' /\ replies'[Len(replies) + 1] \in Rivals(r)'
        BY <2>2, <2>7, <3>1
      <4>2. PICK j \in 1 .. (Len(replies) + 1) - 1 : replies'[j] = s
        BY <2>2, <3>1, <4>1 DEF Undisturbed, InOrder
      <4> QED
        BY <2>2, <4>2 DEF Replied
    <3>4. ledger[q] = "open" /\ pending[k] # << >> /\ Head(pending[k]) = q
      BY <2>1, <2>4, <3>1, <3>2, <3>3, NextInLine
    <3>5. /\ ledger' = [ledger EXCEPT ![q] = "answered"]
          /\ credited' = [credited EXCEPT ![q] = q]
      BY <2>4, <2>5, <3>1, <3>4 DEF MatchOne
    <3>6. CASE r = q
      BY <1>0, <2>3, <3>5, <3>6 DEF Figures
    <3>7. CASE r # q
      BY <1>0, <2>3, <2>4, <2>6, <3>5, <3>7 DEF Figures, InStep
    <3> QED
      BY <3>6, <3>7
  <2>8. CASE q \notin Rivals(r)
    <3>1. r # q /\ keyOf[r] # k
      BY <2>8 DEF Rivals
    <3>2. ledger'[r] = ledger[r] /\ credited'[r] = credited[r]
      <4> SUFFICES ASSUME NEW oldest \in Requests, MatchOne(k, oldest), k \in Keys,
                          ledger' = [ledger EXCEPT ![oldest] = "answered"],
                          credited' = [credited EXCEPT ![oldest] = q]
                   PROVE  ledger'[r] = ledger[r] /\ credited'[r] = credited[r]
        BY <2>5
      <4>1. 1 \in 1 .. Len(pending[k]) /\ pending[k][1] = oldest
        BY <1>0 DEF MatchOne, Figures
      <4>2. keyOf[oldest] = k
        BY <1>0, <2>1, <4>1 DEF TableIsOpenRequests
      <4> QED
        BY <1>0, <3>1, <4>2 DEF Figures
    <3> QED
      BY <2>3, <2>4, <2>6, <3>1, <3>2 DEF InStep
  <2> QED
    BY <2>7, <2>8
<1> QED
  BY <1>1, <1>2, <1>3, <1>4, <1>5, <1>6 DEF Next, Terminated

LEMMA InitInStep == Init => Entered /\ InStep
<1> SUFFICES ASSUME Init PROVE Entered /\ InStep
  OBVIOUS
<1>1. taken = 0 /\ replies = << >> /\ \A r \in Requests : ledger[r] = "new"
  BY DEF Init
<1>2. Entered
  BY <1>1 DEF Entered, Requests
<1>3. \A r \in Requests : ~ Replied(r)
  BY <1>1 DEF Replied
<1> QED
  BY <1>1, <1>2, <1>3 DEF InStep

(* As long as the peer answers the requests of a key in the order they     *)
(* were sent, leaves none out, says nothing unasked, and none of them was  *)
(* given up, each answer counts for its own request: for any keys, any     *)
(* number of requests, and whatever happens to the requests of other keys. *)
THEOREM AnswersCountForTheirOwn == Spec => []AnswersInStep
<1>1. IInv /\ Entered /\ InStep /\ [Next]_vars => IInv' /\ Entered' /\ InStep'
  BY Inductive, EnteredKept, InStepKept
<1>2. Entered /\ InStep => AnswersInStep
  BY DEF Entered, InStep, AnswersInStep, Undisturbed, Outcome
<1>3. Init => IInv /\ Entered /\ InStep
  BY InitIInv, InitInStep
<1> QED
  BY <1>1, <1>2, <1>3, PTL DEF Spec

=============================================================================
