------------------------- MODULE TemplateValues_proof -------------------------
(***************************************************************************)
(* Proofs about the values of a round and the data pool, for any number of *)
(* workers and rows, any setups and teardowns, whichever options the test  *)
(* has, and both modes of the pool.                                        *)
(***************************************************************************)
EXTENDS TemplateValues, FiniteSetTheorems, TLAPS

-----------------------------------------------------------------------------
(* Division with remainder *)

LEMMA DivMod ==
  ASSUME NEW a \in Nat, NEW b \in Nat \ {0}
  PROVE  /\ a \div b \in Nat /\ a % b \in 0 .. b - 1
         /\ a = b * (a \div b) + (a % b)
<1>1. a \div b \in Nat /\ a % b \in Nat /\ a % b < b /\ a = (a \div b) * b + (a % b)
  BY SMT
<1>2. \A x, y \in Nat : x * y = y * x
  OBVIOUS
<1> QED
  BY <1>1, <1>2

LEMMA DivModUnique ==
  ASSUME NEW b \in Nat \ {0}, NEW q \in Nat, NEW r \in 0 .. b - 1, NEW n \in Nat, n = b * q + r
  PROVE  n \div b = q /\ n % b = r
OBVIOUS

(* What one draw in turn does to quotient and remainder. *)
LEMMA DivModNext ==
  ASSUME NEW n \in Nat, NEW b \in Nat \ {0}
  PROVE  /\ n % b = b - 1 => (n + 1) % b = 0 /\ (n + 1) \div b = n \div b + 1
         /\ n % b # b - 1 => (n + 1) % b = (n % b) + 1 /\ (n + 1) \div b = n \div b
<1> DEFINE q == n \div b  r == n % b
<1>1. q \in Nat /\ r \in 0 .. b - 1 /\ n = b * q + r
  BY DivMod
<1> HIDE DEF q, r
<1>2. CASE r = b - 1
  <2>1. n + 1 = b * (q + 1) + 0
    BY <1>1, <1>2
  <2>2. (n + 1) \div b = q + 1 /\ (n + 1) % b = 0
    BY <1>1, <2>1, DivModUnique
  <2> QED
    BY <2>2, <1>2 DEF q, r
<1>3. CASE r # b - 1
  <2>1. n + 1 = b * q + (r + 1) /\ r + 1 \in 0 .. b - 1
    BY <1>1, <1>3
  <2>2. (n + 1) \div b = q /\ (n + 1) % b = r + 1
    BY <1>1, <2>1, DivModUnique
  <2> QED
    BY <2>2, <1>3 DEF q, r
<1> QED
  BY <1>2, <1>3

(* The quotient of the predecessor is the smaller one at a multiple.       *)
LEMMA DivModBefore ==
  ASSUME NEW n \in Nat, n > 0, NEW b \in Nat \ {0}
  PROVE  /\ n % b = 0 => n \div b = (n - 1) \div b + 1
         /\ n % b # 0 => n \div b = (n - 1) \div b
<1> DEFINE m == n - 1
<1>1. m \in Nat /\ n = m + 1
  OBVIOUS
<1>2. m % b \in 0 .. b - 1 /\ m \div b \in Nat
  BY <1>1, DivMod
<1>3. /\ m % b = b - 1 => n % b = 0 /\ n \div b = m \div b + 1
      /\ m % b # b - 1 => n % b = (m % b) + 1 /\ n \div b = m \div b
  BY <1>1, DivModNext
<1> HIDE DEF m
<1>4. /\ n % b = 0 => n \div b = m \div b + 1
      /\ n % b # 0 => n \div b = m \div b
  BY <1>2, <1>3
<1> QED
  BY <1>4 DEF m

-----------------------------------------------------------------------------
(* Maps *)

LEMMA OverIs ==
  ASSUME NEW f, NEW g
  PROVE  /\ DOMAIN Over(f, g) = DOMAIN f \cup DOMAIN g
         /\ \A k \in DOMAIN f : Over(f, g)[k] = f[k]
         /\ \A k \in DOMAIN g : k \notin DOMAIN f => Over(f, g)[k] = g[k]
BY DEF Over

LEMMA FromIs ==
  ASSUME NEW S, NEW x
  PROVE  DOMAIN From(S, x) = S /\ \A k \in S : From(S, x)[k] = x
BY DEF From

LEMMA OverEqual ==
  ASSUME NEW f, NEW g, NEW h, NEW i,
         DOMAIN f \cup DOMAIN g = DOMAIN h \cup DOMAIN i,
         \A k \in DOMAIN f \cup DOMAIN g : Over(f, g)[k] = Over(h, i)[k]
  PROVE  Over(f, g) = Over(h, i)
BY DEF Over

-----------------------------------------------------------------------------
(* The inductive invariant *)

(* Workers wait for the global setup. *)
Waiting == main \in {"setup", "failed"} => \A v \in Worker : at[v] = "top"

(* A test without options shares no values. *)
Sources == given = {} => DOMAIN shared = {} /\ DOMAIN extracts[Global] = {}

(* What the first n requests of a worker's setup extract. *)
OwnUpTo(v, n) == UNION {Names(Setup[v][i]) : i \in 1 .. n}
Base(v) == Over(Row(v), shared)

(* During a setup a worker has the shared values and its row, and in its   *)
(* copy also what this very setup has extracted so far.                    *)
MergedOf(v) ==
  at[v] = "setup" =>
    /\ values[v] = Base(v)
    /\ option[v] <= Len(Setup[v])
    /\ DOMAIN extracts[v] = OwnUpTo(v, option[v]) \cup DOMAIN Base(v)
    /\ \A k \in OwnUpTo(v, option[v]) : extracts[v][k] = <<"own", round[v]>>
    /\ \A k \in DOMAIN Base(v) : k \notin OwnUpTo(v, option[v]) => extracts[v][k] = Base(v)[k]
RightOf(v) ==
  /\ at[v] \in {"send", "teardown"} => values[v] = Expected(v)
  /\ at[v] = "teardown" =>
       /\ \A part \in Parts : request[v][part].rendered =>
            request[v][part].with = IF part = "url" THEN shared ELSE Expected(v)
       /\ request[v]["form"].rendered \/ DOMAIN Expected(v) = {}
Merged == \A v \in Worker : MergedOf(v)

Busy(v) == IF at[v] \in {"count", "merge", "setup", "send"} THEN 1 ELSE 0
Untold(v) == IF at[v] = "broken" /\ main = "running" THEN 1 ELSE 0
AccountOf(v) ==
  /\ round[v] <= sent[v] + errors[v] + Busy(v) + Untold(v)
  /\ sent[v] <= round[v] - Busy(v)

IInv == PoolSound /\ Waiting /\ Sources /\ Merged /\ ValuesOfTheRound /\ RowsAccounted

-----------------------------------------------------------------------------
(* Types are kept *)

Numbers ==
  /\ index \in Nat /\ cycles \in Nat
  /\ round \in [Worker -> 0 .. MaxRounds] /\ row \in [Worker -> 0 .. Rows - 1]
  /\ sent \in [Worker -> 0 .. MaxRounds] /\ errors \in [Worker -> Nat]
  /\ draws \in [0 .. Rows - 1 -> Nat]
Places ==
  /\ given \subseteq {"globals", "pool", "setup"} /\ mode \in {"Random", "Sequential"}
  /\ main \in {"setup", "running", "failed", "joined"}
  /\ at \in [Worker -> {"top", "count", "merge", "setup", "send", "teardown", "broken", "ended"}]
  /\ DOMAIN request = Worker
Options == option \in [Caller -> Nat]
Maps ==
  /\ DOMAIN shared \subseteq Key
  /\ DOMAIN values = Worker /\ \A v \in Worker : DOMAIN values[v] \subseteq Key
  /\ DOMAIN extracts = Caller /\ \A c \in Caller : DOMAIN extracts[c] \subseteq Key

LEMMA TypeParts == TypeOK <=> Numbers /\ Places /\ Options /\ Maps
BY DEF TypeOK, Numbers, Places, Options, Maps

LEMMA Callers == Worker \subseteq Caller /\ Global \in Caller /\ Global \notin Worker
BY ValuesAssumption DEF Caller

LEMMA NumbersKept ==
  ASSUME Numbers, Places, RowsAccounted, Next \/ UNCHANGED vars
  PROVE  Numbers'
<1>1. CASE GlobalExtract
  BY <1>1 DEF Numbers, GlobalExtract, Go, Extract, SetupFails, pool
<1>2. CASE GlobalSetupFails
  BY <1>2 DEF Numbers, GlobalSetupFails, Go, Extract, SetupFails, pool
<1>3. CASE GlobalSetupDone
  BY <1>3 DEF Numbers, GlobalSetupDone, Go, Extract, SetupFails, pool
<1>4. ASSUME NEW w \in Worker, DrawRow(w) PROVE Numbers'
  <2>1. PICK r \in 0 .. Rows - 1 :
          row' = [row EXCEPT ![w] = r] /\ draws' = [draws EXCEPT ![r] = @ + 1]
    BY <1>4 DEF DrawRow
  <2>2. /\ index' \in Nat /\ cycles' = cycles /\ UNCHANGED <<sent, errors>>
        /\ round[w] < MaxRounds /\ round' = [round EXCEPT ![w] = @ + 1]
    BY <1>4 DEF DrawRow, Numbers
  <2>3. round[w] + 1 \in 0 .. MaxRounds /\ draws[r] + 1 \in Nat
    BY <2>2, ValuesAssumption DEF Numbers
  <2> QED
    BY <2>1, <2>2, <2>3 DEF Numbers
<1>5. ASSUME NEW w \in Worker, CountCycle(w) PROVE Numbers'
  BY <1>5 DEF Numbers, CountCycle, Go, Extract, SetupFails, pool
<1>6. ASSUME NEW w \in Worker, Merge(w) PROVE Numbers'
  BY <1>6 DEF Numbers, Merge, Go, Extract, SetupFails, pool
<1>7. ASSUME NEW w \in Worker, OwnExtract(w) PROVE Numbers'
  BY <1>7 DEF Numbers, OwnExtract, Go, Extract, SetupFails, pool
<1>8. ASSUME NEW w \in Worker, OwnSetupFails(w) PROVE Numbers'
  BY <1>8 DEF Numbers, OwnSetupFails, Go, Extract, SetupFails, pool
<1>9. ASSUME NEW w \in Worker, OwnSetupDone(w) PROVE Numbers'
  BY <1>9 DEF Numbers, OwnSetupDone, Go, Extract, SetupFails, pool
<1>10. ASSUME NEW w \in Worker, Send(w) PROVE Numbers'
  <2>1. at[w] = "send" /\ sent' = [sent EXCEPT ![w] = @ + 1]
        /\ UNCHANGED <<index, cycles, draws, round, row, errors>>
    BY <1>10 DEF Send, Go, pool
  <2>2. sent[w] <= round[w] - 1
    BY <2>1 DEF RowsAccounted
  <2>3. sent[w] + 1 \in 0 .. MaxRounds
    BY <2>2, ValuesAssumption DEF Numbers
  <2> QED
    BY <2>1, <2>3 DEF Numbers
<1>11. ASSUME NEW w \in Worker, TeardownExtract(w) PROVE Numbers'
  BY <1>11 DEF Numbers, TeardownExtract, Go, Extract, SetupFails, pool
<1>12. ASSUME NEW w \in Worker, TeardownFails(w) PROVE Numbers'
  BY <1>12 DEF Numbers, TeardownFails, Go, Extract, SetupFails, pool
<1>13. ASSUME NEW w \in Worker, TeardownDone(w) PROVE Numbers'
  BY <1>13 DEF Numbers, TeardownDone, Go, Extract, SetupFails, pool
<1>14. CASE UNCHANGED vars
  BY <1>14 DEF Numbers, vars, pool
<1>15. ASSUME NEW w \in Worker, BeginRound(w) PROVE Numbers'
  <2>1. /\ round[w] < MaxRounds /\ round' = [round EXCEPT ![w] = @ + 1]
        /\ UNCHANGED <<index, cycles, draws, row, sent, errors>>
    BY <1>15 DEF BeginRound, pool
  <2>2. round[w] + 1 \in 0 .. MaxRounds
    BY <2>1, ValuesAssumption DEF Numbers
  <2> QED
    BY <2>1, <2>2 DEF Numbers
<1>16. ASSUME NEW w \in Worker, Breaks(w) PROVE Numbers'
  BY <1>16 DEF Numbers, Breaks, Go, pool
<1>17. ASSUME NEW w \in Worker, LoopEnds(w) PROVE Numbers'
  BY <1>17 DEF Numbers, LoopEnds, Go, pool
<1>18. CASE JoinWorkers
  <2>1. \A v \in Worker : errors[v] + (IF at[v] = "broken" THEN 1 ELSE 0) \in Nat
    BY DEF Numbers
  <2> QED
    BY <1>18, <2>1 DEF JoinWorkers, Numbers, pool
<1> QED
  BY <1>1, <1>2, <1>3, <1>4, <1>5, <1>6, <1>7, <1>8, <1>9, <1>10, <1>11, <1>12, <1>13, <1>14, <1>15, <1>16, <1>17, <1>18
  DEF Next, Round, Terminated

LEMMA PlacesKept ==
  ASSUME Places, Next \/ UNCHANGED vars
  PROVE  Places'
<1>1. CASE GlobalExtract
  BY <1>1 DEF Places, GlobalExtract, Go, Extract, SetupFails, pool
<1>2. CASE GlobalSetupFails
  BY <1>2 DEF Places, GlobalSetupFails, Go, Extract, SetupFails, pool
<1>3. CASE GlobalSetupDone
  BY <1>3 DEF Places, GlobalSetupDone, Go, Extract, SetupFails, pool
<1>4. ASSUME NEW w \in Worker, DrawRow(w) PROVE Places'
  BY <1>4 DEF Places, DrawRow, Go, Extract, SetupFails, pool
<1>5. ASSUME NEW w \in Worker, CountCycle(w) PROVE Places'
  BY <1>5 DEF Places, CountCycle, Go, Extract, SetupFails, pool
<1>6. ASSUME NEW w \in Worker, Merge(w) PROVE Places'
  BY <1>6 DEF Places, Merge, Go, Extract, SetupFails, pool
<1>7. ASSUME NEW w \in Worker, OwnExtract(w) PROVE Places'
  BY <1>7 DEF Places, OwnExtract, Go, Extract, SetupFails, pool
<1>8. ASSUME NEW w \in Worker, OwnSetupFails(w) PROVE Places'
  BY <1>8 DEF Places, OwnSetupFails, Go, Extract, SetupFails, pool
<1>9. ASSUME NEW w \in Worker, OwnSetupDone(w) PROVE Places'
  BY <1>9 DEF Places, OwnSetupDone, Go, Extract, SetupFails, pool
<1>10. ASSUME NEW w \in Worker, Send(w) PROVE Places'
  BY <1>10 DEF Places, Send, Go, Extract, SetupFails, pool
<1>11. ASSUME NEW w \in Worker, TeardownExtract(w) PROVE Places'
  BY <1>11 DEF Places, TeardownExtract, Go, Extract, SetupFails, pool
<1>12. ASSUME NEW w \in Worker, TeardownFails(w) PROVE Places'
  BY <1>12 DEF Places, TeardownFails, Go, Extract, SetupFails, pool
<1>13. ASSUME NEW w \in Worker, TeardownDone(w) PROVE Places'
  BY <1>13 DEF Places, TeardownDone, Go, Extract, SetupFails, pool
<1>14. CASE UNCHANGED vars
  BY <1>14 DEF Places, vars, pool
<1>15. ASSUME NEW w \in Worker, BeginRound(w) PROVE Places'
  BY <1>15 DEF Places, BeginRound, Go, pool
<1>16. ASSUME NEW w \in Worker, Breaks(w) PROVE Places'
  BY <1>16 DEF Places, Breaks, Go, pool
<1>17. ASSUME NEW w \in Worker, LoopEnds(w) PROVE Places'
  BY <1>17 DEF Places, LoopEnds, Go, pool
<1>18. CASE JoinWorkers
  BY <1>18 DEF JoinWorkers, Places, pool
<1> QED
  BY <1>1, <1>2, <1>3, <1>4, <1>5, <1>6, <1>7, <1>8, <1>9, <1>10, <1>11, <1>12, <1>13, <1>14, <1>15, <1>16, <1>17, <1>18
  DEF Next, Round, Terminated

LEMMA OptionsKept ==
  ASSUME Options, Next \/ UNCHANGED vars
  PROVE  Options'
<1>1. CASE GlobalExtract
  BY <1>1, Callers DEF Options, GlobalExtract, Go, Extract, SetupFails, pool
<1>2. CASE GlobalSetupFails
  BY <1>2, Callers DEF Options, GlobalSetupFails, Go, Extract, SetupFails, pool
<1>3. CASE GlobalSetupDone
  BY <1>3, Callers DEF Options, GlobalSetupDone, Go, Extract, SetupFails, pool
<1>4. ASSUME NEW w \in Worker, DrawRow(w) PROVE Options'
  BY <1>4, Callers DEF Options, DrawRow, Go, Extract, SetupFails, pool
<1>5. ASSUME NEW w \in Worker, CountCycle(w) PROVE Options'
  BY <1>5, Callers DEF Options, CountCycle, Go, Extract, SetupFails, pool
<1>6. ASSUME NEW w \in Worker, Merge(w) PROVE Options'
  BY <1>6, Callers DEF Options, Merge, Go, Extract, SetupFails, pool
<1>7. ASSUME NEW w \in Worker, OwnExtract(w) PROVE Options'
  BY <1>7, Callers DEF Options, OwnExtract, Go, Extract, SetupFails, pool
<1>8. ASSUME NEW w \in Worker, OwnSetupFails(w) PROVE Options'
  BY <1>8, Callers DEF Options, OwnSetupFails, Go, Extract, SetupFails, pool
<1>9. ASSUME NEW w \in Worker, OwnSetupDone(w) PROVE Options'
  BY <1>9, Callers DEF Options, OwnSetupDone, Go, Extract, SetupFails, pool
<1>10. ASSUME NEW w \in Worker, Send(w) PROVE Options'
  BY <1>10, Callers DEF Options, Send, Go, Extract, SetupFails, pool
<1>11. ASSUME NEW w \in Worker, TeardownExtract(w) PROVE Options'
  BY <1>11, Callers DEF Options, TeardownExtract, Go, Extract, SetupFails, pool
<1>12. ASSUME NEW w \in Worker, TeardownFails(w) PROVE Options'
  BY <1>12, Callers DEF Options, TeardownFails, Go, Extract, SetupFails, pool
<1>13. ASSUME NEW w \in Worker, TeardownDone(w) PROVE Options'
  BY <1>13, Callers DEF Options, TeardownDone, Go, Extract, SetupFails, pool
<1>14. CASE UNCHANGED vars
  BY <1>14 DEF Options, vars, pool
<1>15. ASSUME NEW w \in Worker, BeginRound(w) PROVE Options'
  BY <1>15, Callers DEF Options, BeginRound, Go, pool
<1>16. ASSUME NEW w \in Worker, Breaks(w) PROVE Options'
  BY <1>16, Callers DEF Options, Breaks, Go, pool
<1>17. ASSUME NEW w \in Worker, LoopEnds(w) PROVE Options'
  BY <1>17, Callers DEF Options, LoopEnds, Go, pool
<1>18. CASE JoinWorkers
  BY <1>18, Callers DEF JoinWorkers, Options, pool
<1> QED
  BY <1>1, <1>2, <1>3, <1>4, <1>5, <1>6, <1>7, <1>8, <1>9, <1>10, <1>11, <1>12, <1>13, <1>14, <1>15, <1>16, <1>17, <1>18
  DEF Next, Round, Terminated

(* The names a request extracts are keys. *)
LEMMA NamesAreKeys ==
  /\ Headers \subseteq Key /\ Globals \subseteq Key
  /\ \A i \in 1 .. Len(GlobalSetup) : Names(GlobalSetup[i]) \subseteq Key
  /\ \A v \in Worker : \A i \in 1 .. Len(Setup[v]) : Names(Setup[v][i]) \subseteq Key
  /\ \A v \in Worker : \A i \in 1 .. Len(Teardown[v]) : Names(Teardown[v][i]) \subseteq Key
<1>1. /\ DOMAIN GlobalSetup = 1 .. Len(GlobalSetup)
      /\ \A v \in Worker : /\ DOMAIN Setup[v] = 1 .. Len(Setup[v])
                           /\ DOMAIN Teardown[v] = 1 .. Len(Teardown[v])
  BY ValuesAssumption
<1>2. Headers \subseteq Key /\ Globals \subseteq Key
  BY DEF Key
<1>3. /\ Extracted(GlobalSetup) \subseteq Key
      /\ \A v \in Worker : Extracted(Setup[v]) \subseteq Key /\ Extracted(Teardown[v]) \subseteq Key
  BY DEF Key
<1>4. ASSUME NEW requests, NEW i \in DOMAIN requests
      PROVE  Names(requests[i]) \subseteq Extracted(requests)
  BY DEF Extracted
<1> QED
  BY <1>1, <1>2, <1>3, <1>4

(* What Extract does to the map of its caller. *)
LEMMA ExtractGrows ==
  ASSUME NEW c \in Caller, NEW q, NEW x, Extract(c, q, x), DOMAIN extracts = Caller
  PROVE  /\ DOMAIN extracts' = Caller
         /\ \A d \in Caller : d # c => extracts'[d] = extracts[d]
         /\ DOMAIN extracts'[c] = Names(q[option[c] + 1]) \cup DOMAIN extracts[c]
         /\ Names(q[option[c] + 1]) \cap DOMAIN extracts[c] = {}
         /\ \A k \in Names(q[option[c] + 1]) : extracts'[c][k] = x
         /\ \A k \in DOMAIN extracts[c] : extracts'[c][k] = extracts[c][k]
<1> DEFINE new == Names(q[option[c] + 1])
<1> DEFINE f == From(new, x)  g == extracts[c]
<1>1. extracts' = [extracts EXCEPT ![c] = Over(f, g)] /\ new \cap DOMAIN g = {}
  BY DEF Extract, Clash
<1>2. DOMAIN f = new /\ \A k \in new : f[k] = x
  BY FromIs
<1> HIDE DEF f, g
<1>3. extracts'[c] = Over(f, g)
  BY <1>1
<1>5. /\ DOMAIN Over(f, g) = DOMAIN f \cup DOMAIN g
      /\ \A k \in DOMAIN f : Over(f, g)[k] = f[k]
      /\ \A k \in DOMAIN g : k \notin DOMAIN f => Over(f, g)[k] = g[k]
  BY OverIs
<1>4. /\ DOMAIN extracts'[c] = new \cup DOMAIN g
      /\ \A k \in new : extracts'[c][k] = x
      /\ \A k \in DOMAIN g : extracts'[c][k] = g[k]
  BY <1>1, <1>2, <1>3, <1>5
<1> QED
  BY <1>1, <1>4 DEF new, g

LEMMA FailDrops ==
  ASSUME NEW c \in Caller, NEW q, SetupFails(c, q), Maps
  PROVE  /\ DOMAIN extracts' = Caller
         /\ \A d \in Caller : DOMAIN extracts'[d] \subseteq Key
<1>1. extracts' = [extracts EXCEPT ![c] = << >>] /\ DOMAIN << >> = {}
  BY DEF SetupFails, Nothing
<1> QED
  BY <1>1 DEF Maps

LEMMA BaseIs ==
  ASSUME NEW v \in Worker
  PROVE  /\ DOMAIN Row(v) \subseteq Headers
         /\ given = {} => DOMAIN Row(v) = {}
         /\ DOMAIN Base(v) = DOMAIN Row(v) \cup DOMAIN shared
<1>0. DOMAIN << >> = {}
  OBVIOUS
<1>1. DOMAIN Row(v) \subseteq Headers /\ (given = {} => DOMAIN Row(v) = {})
  BY <1>0, FromIs DEF Row, Nothing
<1> QED
  BY <1>1, OverIs DEF Base

LEMMA MapsKept ==
  ASSUME Maps, Options, Next \/ UNCHANGED vars
  PROVE  Maps'
<1>1. CASE GlobalExtract
  <2>1. Extract(Global, GlobalSetup, <<"global">>) /\ UNCHANGED <<shared, values>>
    BY <1>1 DEF GlobalExtract
  <2>2. option[Global] + 1 \in 1 .. Len(GlobalSetup)
    BY <2>1, Callers, ValuesAssumption DEF Extract, Options
  <2>3. Names(GlobalSetup[option[Global] + 1]) \subseteq Key
    BY <2>2, NamesAreKeys
  <2> QED
    BY <2>1, <2>3, ExtractGrows, Callers DEF Maps
<1>2. CASE GlobalSetupFails
  <2>1. SetupFails(Global, GlobalSetup) /\ UNCHANGED <<shared, values>>
    BY <1>2 DEF GlobalSetupFails
  <2> QED
    BY <2>1, FailDrops, Callers DEF Maps
<1>3. CASE GlobalSetupDone
  BY <1>3, Callers DEF Maps, GlobalSetupDone
<1>4. ASSUME NEW w \in Worker, DrawRow(w) PROVE Maps'
  BY <1>4 DEF Maps, DrawRow, Go, Extract, SetupFails, pool
<1>5. ASSUME NEW w \in Worker, CountCycle(w) PROVE Maps'
  BY <1>5 DEF Maps, CountCycle, Go, Extract, SetupFails, pool
<1>6. ASSUME NEW w \in Worker, Merge(w) PROVE Maps'
  <2>1. /\ values' = [values EXCEPT ![w] = Base(w)] /\ UNCHANGED shared
        /\ extracts' = [extracts EXCEPT ![w] = Base(w)]
    BY <1>6 DEF Merge, Base
  <2>2. DOMAIN Base(w) \subseteq Key
    BY BaseIs, NamesAreKeys DEF Maps
  <2> QED
    BY <2>1, <2>2, Callers DEF Maps
<1>7. ASSUME NEW w \in Worker, OwnExtract(w) PROVE Maps'
  <2>1. Extract(w, Setup[w], <<"own", round[w]>>) /\ UNCHANGED <<shared, values>>
    BY <1>7 DEF OwnExtract
  <2>2. option[w] + 1 \in 1 .. Len(Setup[w])
    BY <2>1, Callers, ValuesAssumption DEF Extract, Options
  <2>3. Names(Setup[w][option[w] + 1]) \subseteq Key
    BY <2>2, NamesAreKeys
  <2> QED
    BY <2>1, <2>3, ExtractGrows, Callers DEF Maps
<1>8. ASSUME NEW w \in Worker, OwnSetupFails(w) PROVE Maps'
  <2>1. SetupFails(w, Setup[w]) /\ UNCHANGED <<shared, values>>
    BY <1>8 DEF OwnSetupFails
  <2> QED
    BY <2>1, FailDrops, Callers DEF Maps
<1>9. ASSUME NEW w \in Worker, OwnSetupDone(w) PROVE Maps'
  <2>1. /\ values' = [values EXCEPT ![w] = Over(extracts[w], values[w])]
        /\ UNCHANGED <<shared, extracts>>
    BY <1>9 DEF OwnSetupDone
  <2>2. DOMAIN Over(extracts[w], values[w]) \subseteq Key
    <3>1. DOMAIN Over(extracts[w], values[w]) = DOMAIN extracts[w] \cup DOMAIN values[w]
      BY OverIs
    <3> QED
      BY <3>1, Callers DEF Maps
  <2> QED
    BY <2>1, <2>2 DEF Maps
<1>10. ASSUME NEW w \in Worker, Send(w) PROVE Maps'
  <2>1. /\ extracts' = [extracts EXCEPT ![w] = values[w]]
        /\ UNCHANGED <<shared, values>>
    BY <1>10 DEF Send
  <2> QED
    BY <2>1, Callers DEF Maps
<1>11. ASSUME NEW w \in Worker, TeardownExtract(w) PROVE Maps'
  <2>1. Extract(w, Teardown[w], <<"teardown">>) /\ UNCHANGED <<shared, values>>
    BY <1>11 DEF TeardownExtract
  <2>2. option[w] + 1 \in 1 .. Len(Teardown[w])
    BY <2>1, Callers, ValuesAssumption DEF Extract, Options
  <2>3. Names(Teardown[w][option[w] + 1]) \subseteq Key
    BY <2>2, NamesAreKeys
  <2> QED
    BY <2>1, <2>3, ExtractGrows, Callers DEF Maps
<1>12. ASSUME NEW w \in Worker, TeardownFails(w) PROVE Maps'
  <2>1. SetupFails(w, Teardown[w]) /\ UNCHANGED <<shared, values>>
    BY <1>12 DEF TeardownFails
  <2> QED
    BY <2>1, FailDrops, Callers DEF Maps
<1>13. ASSUME NEW w \in Worker, TeardownDone(w) PROVE Maps'
  BY <1>13 DEF Maps, TeardownDone, Go, Extract, SetupFails, pool
<1>14. CASE UNCHANGED vars
  BY <1>14 DEF Maps, vars, pool
<1>15. ASSUME NEW w \in Worker, BeginRound(w) PROVE Maps'
  BY <1>15 DEF Maps, BeginRound, Go, pool
<1>16. ASSUME NEW w \in Worker, Breaks(w) PROVE Maps'
  BY <1>16 DEF Maps, Breaks, Go, pool
<1>17. ASSUME NEW w \in Worker, LoopEnds(w) PROVE Maps'
  BY <1>17 DEF Maps, LoopEnds, Go, pool
<1>18. CASE JoinWorkers
  BY <1>18 DEF JoinWorkers, Maps, pool
<1> QED
  BY <1>1, <1>2, <1>3, <1>4, <1>5, <1>6, <1>7, <1>8, <1>9, <1>10, <1>11, <1>12, <1>13, <1>14, <1>15, <1>16, <1>17, <1>18
  DEF Next, Round, Terminated

-----------------------------------------------------------------------------
(* What a step leaves alone *)

(* Of one worker. *)
Untouched(v) ==
  /\ at'[v] = at[v] /\ round'[v] = round[v] /\ row'[v] = row[v]
  /\ values'[v] = values[v] /\ extracts'[v] = extracts[v] /\ option'[v] = option[v]
  /\ sent'[v] = sent[v] /\ errors'[v] = errors[v] /\ request'[v] = request[v]

LEMMA GlobalSteps ==
  ASSUME Options, Maps, GlobalExtract \/ GlobalSetupFails \/ GlobalSetupDone
  PROVE  /\ main = "setup" /\ UNCHANGED <<pool, at>>
         /\ \A v \in Worker : Untouched(v)
<1>1. CASE GlobalExtract
  BY <1>1, Callers DEF GlobalExtract, Extract, Untouched, Options, Maps
<1>2. CASE GlobalSetupFails
  BY <1>2, Callers DEF GlobalSetupFails, SetupFails, Untouched, Options, Maps
<1>3. CASE GlobalSetupDone
  BY <1>3, Callers DEF GlobalSetupDone, Untouched, Options, Maps
<1> QED
  BY <1>1, <1>2, <1>3

LEMMA OthersWait ==
  ASSUME Numbers, Places, Options, Maps, NEW w \in Worker, Round(w)
  PROVE  /\ main = "running" /\ UNCHANGED <<main, shared, given>>
         /\ extracts'[Global] = extracts[Global]
         /\ \A v \in Worker : v # w => Untouched(v)
<1>1. CASE DrawRow(w)
  BY <1>1, Callers DEF DrawRow, Go, pool, Untouched, Numbers, Places, Options, Maps
<1>2. CASE CountCycle(w)
  BY <1>2, Callers DEF CountCycle, Go, pool, Untouched, Numbers, Places, Options, Maps
<1>3. CASE Merge(w)
  BY <1>3, Callers DEF Merge, Go, pool, Untouched, Numbers, Places, Options, Maps
<1>4. CASE OwnExtract(w)
  BY <1>4, Callers DEF OwnExtract, Go, pool, Extract, Untouched, Numbers, Places, Options, Maps
<1>5. CASE OwnSetupFails(w)
  BY <1>5, Callers DEF OwnSetupFails, Go, pool, SetupFails, Untouched, Numbers, Places, Options, Maps
<1>6. CASE OwnSetupDone(w)
  BY <1>6, Callers DEF OwnSetupDone, Go, pool, Untouched, Numbers, Places, Options, Maps
<1>7. CASE Send(w)
  BY <1>7, Callers DEF Send, Go, pool, Untouched, Numbers, Places, Options, Maps
<1>8. CASE TeardownExtract(w)
  BY <1>8, Callers DEF TeardownExtract, Go, pool, Extract, Untouched, Numbers, Places, Options, Maps
<1>9. CASE TeardownFails(w)
  BY <1>9, Callers DEF TeardownFails, Go, pool, SetupFails, Untouched, Numbers, Places, Options, Maps
<1>10. CASE TeardownDone(w)
  BY <1>10, Callers DEF TeardownDone, Go, pool, Untouched, Numbers, Places, Options, Maps
<1>11. CASE BeginRound(w)
  BY <1>11, Callers DEF BeginRound, Go, pool, Untouched, Numbers, Places, Options, Maps
<1>12. CASE Breaks(w)
  BY <1>12, Callers DEF Breaks, Go, pool, Untouched, Numbers, Places, Options, Maps
<1>13. CASE LoopEnds(w)
  BY <1>13, Callers DEF LoopEnds, Go, pool, Untouched, Numbers, Places, Options, Maps
<1> QED
  BY <1>1, <1>2, <1>3, <1>4, <1>5, <1>6, <1>7, <1>8, <1>9, <1>10, <1>11, <1>12, <1>13 DEF Round

LEMMA WaitingKept ==
  ASSUME Numbers, Places, Options, Maps, Waiting, Next \/ UNCHANGED vars
  PROVE  Waiting'
<1>1. CASE GlobalExtract \/ GlobalSetupFails \/ GlobalSetupDone
  BY <1>1, GlobalSteps DEF Waiting
<1>2. ASSUME NEW w \in Worker, Round(w) PROVE Waiting'
  BY <1>2, OthersWait DEF Waiting
<1>3. CASE JoinWorkers
  BY <1>3 DEF JoinWorkers, Waiting
<1>4. CASE UNCHANGED vars
  BY <1>4 DEF Waiting, vars
<1> QED
  BY <1>1, <1>2, <1>3, <1>4 DEF Next, Terminated

LEMMA SourcesKept ==
  ASSUME Numbers, Places, Options, Maps, Sources, Next \/ UNCHANGED vars
  PROVE  Sources'
<1>0. DOMAIN << >> = {}
  OBVIOUS
<1>1. CASE GlobalExtract
  BY <1>1 DEF GlobalExtract, Sources, pool
<1>2. CASE GlobalSetupFails
  BY <1>2 DEF GlobalSetupFails, Sources, pool
<1>3. CASE GlobalSetupDone
  BY <1>3 DEF GlobalSetupDone, Sources, pool
<1>4. ASSUME NEW w \in Worker, Round(w) PROVE Sources'
  BY <1>4, OthersWait DEF Sources
<1>5. CASE JoinWorkers
  BY <1>5 DEF JoinWorkers, Sources, pool
<1>6. CASE UNCHANGED vars
  BY <1>6 DEF Sources, vars, pool
<1> QED
  BY <1>1, <1>2, <1>3, <1>4, <1>5, <1>6 DEF Next, Terminated

-----------------------------------------------------------------------------
(* The values of a round *)

LEMMA Stable ==
  ASSUME NEW v \in Worker, Untouched(v), UNCHANGED <<shared, given, main>>
  PROVE  /\ MergedOf(v) => MergedOf(v)'
         /\ RightOf(v) => RightOf(v)'
         /\ AccountOf(v) => AccountOf(v)'
<1>1. Row(v)' = Row(v)
  BY DEF Row, Untouched
<1>2. Base(v)' = Base(v) /\ Expected(v)' = Expected(v)
  BY <1>1 DEF Base, Expected, Untouched
<1>3. \A n : OwnUpTo(v, n)' = OwnUpTo(v, n)
  BY DEF OwnUpTo
<1>4. MergedOf(v) => MergedOf(v)'
  BY <1>2, <1>3 DEF MergedOf, Untouched
<1>5. RightOf(v) => RightOf(v)'
  BY <1>2 DEF RightOf, Untouched
<1>6. AccountOf(v) => AccountOf(v)'
  BY DEF AccountOf, Busy, Untold, Untouched
<1> QED
  BY <1>4, <1>5, <1>6

LEMMA OwnGrows ==
  ASSUME NEW v \in Worker
  PROVE  /\ OwnUpTo(v, 0) = {}
         /\ \A n \in Nat : OwnUpTo(v, n + 1) = OwnUpTo(v, n) \cup Names(Setup[v][n + 1])
         /\ OwnUpTo(v, Len(Setup[v])) = Extracted(Setup[v])
<1>1. OwnUpTo(v, 0) = {}
  BY DEF OwnUpTo
<1>2. ASSUME NEW n \in Nat
      PROVE  OwnUpTo(v, n + 1) = OwnUpTo(v, n) \cup Names(Setup[v][n + 1])
  <2>1. 1 .. n + 1 = (1 .. n) \cup {n + 1}
    OBVIOUS
  <2> QED
    BY <2>1 DEF OwnUpTo
<1>3. DOMAIN Setup[v] = 1 .. Len(Setup[v])
  BY ValuesAssumption
<1> QED
  BY <1>1, <1>2, <1>3 DEF OwnUpTo, Extracted

(* The worker that takes the step. *)
LEMMA OwnValues ==
  ASSUME Numbers, Places, Options, Maps, Sources, NEW w \in Worker,
         MergedOf(w), RightOf(w), Round(w)
  PROVE  MergedOf(w)' /\ RightOf(w)'
<1>b. UNCHANGED given
  BY OthersWait
<1>0. \A v : UNCHANGED <<row, shared>> => Base(v)' = Base(v)
  BY <1>b DEF Base, Row
<1>a. UNCHANGED <<row, shared, round>> => Expected(w)' = Expected(w)
  BY <1>b DEF Expected, Row
<1>1. CASE DrawRow(w) \/ BeginRound(w) \/ CountCycle(w) \/ Breaks(w) \/ LoopEnds(w)
  BY <1>1 DEF DrawRow, BeginRound, CountCycle, Breaks, LoopEnds, Go, Places, MergedOf, RightOf
<1>2. CASE Merge(w)
  <2>1. /\ at'[w] = "setup" /\ values'[w] = Base(w) /\ extracts'[w] = Base(w)
        /\ option'[w] = 0 /\ UNCHANGED <<row, shared>>
    BY <1>2, Callers DEF Merge, Go, Places, Options, Maps, Base
  <2>2. Base(w)' = Base(w) /\ OwnUpTo(w, option[w])' = {}
    <3>1. OwnUpTo(w, option[w])' = OwnUpTo(w, option'[w])
      BY DEF OwnUpTo
    <3> QED
      BY <1>0, <2>1, <3>1, OwnGrows
  <2>3. 0 <= Len(Setup[w])
    BY ValuesAssumption
  <2> QED
    BY <2>1, <2>2, <2>3 DEF MergedOf, RightOf
<1>3. CASE OwnExtract(w)
  <2> DEFINE n == option[w]  new == Names(Setup[w][n + 1])
  <2>1. /\ at[w] = "setup" /\ at'[w] = "setup" /\ UNCHANGED <<row, round, shared, values>>
        /\ Extract(w, Setup[w], <<"own", round[w]>>)
        /\ n \in Nat /\ n < Len(Setup[w]) /\ option'[w] = n + 1
    BY <1>3, Callers DEF OwnExtract, Extract, Go, Places, Options
  <2>2. /\ DOMAIN extracts'[w] = new \cup DOMAIN extracts[w]
        /\ new \cap DOMAIN extracts[w] = {}
        /\ \A k \in new : extracts'[w][k] = <<"own", round[w]>>
        /\ \A k \in DOMAIN extracts[w] : extracts'[w][k] = extracts[w][k]
    BY <2>1, ExtractGrows, Callers DEF Maps
  <2>3. /\ values[w] = Base(w)
        /\ DOMAIN extracts[w] = OwnUpTo(w, n) \cup DOMAIN Base(w)
        /\ \A k \in OwnUpTo(w, n) : extracts[w][k] = <<"own", round[w]>>
        /\ \A k \in DOMAIN Base(w) : k \notin OwnUpTo(w, n) => extracts[w][k] = Base(w)[k]
    BY <2>1 DEF MergedOf
  <2>4. OwnUpTo(w, option[w])' = OwnUpTo(w, n) \cup new
    <3>1. OwnUpTo(w, option[w])' = OwnUpTo(w, n + 1)
      BY <2>1 DEF OwnUpTo
    <3> QED
      BY <2>1, <3>1, OwnGrows
  <2>5. Base(w)' = Base(w)
    BY <1>0, <2>1
  <2>6. n + 1 <= Len(Setup[w])
    BY <2>1, ValuesAssumption
  <2> HIDE DEF new
  <2>7. /\ DOMAIN extracts'[w] = (OwnUpTo(w, n) \cup new) \cup DOMAIN Base(w)
        /\ \A k \in OwnUpTo(w, n) \cup new : extracts'[w][k] = <<"own", round[w]>>
        /\ \A k \in DOMAIN Base(w) :
             k \notin OwnUpTo(w, n) \cup new => extracts'[w][k] = Base(w)[k]
    BY <2>2, <2>3
  <2> QED
    BY <2>1, <2>3, <2>4, <2>5, <2>6, <2>7 DEF MergedOf, RightOf
<1>4. CASE OwnSetupFails(w) \/ TeardownFails(w) \/ TeardownDone(w)
  BY <1>4 DEF OwnSetupFails, TeardownFails, TeardownDone, Go, Places, MergedOf, RightOf
<1>5. CASE OwnSetupDone(w)
  <2> DEFINE mine == From(Extracted(Setup[w]), <<"own", round[w]>>)
  <2>1. /\ at[w] = "setup" /\ at'[w] = "send" /\ UNCHANGED <<row, round, shared>>
        /\ option[w] = Len(Setup[w]) /\ values'[w] = Over(extracts[w], values[w])
    BY <1>5 DEF OwnSetupDone, Go, Places, Maps
  <2>2. /\ values[w] = Base(w)
        /\ DOMAIN extracts[w] = Extracted(Setup[w]) \cup DOMAIN Base(w)
        /\ \A k \in Extracted(Setup[w]) : extracts[w][k] = <<"own", round[w]>>
        /\ \A k \in DOMAIN Base(w) : k \notin Extracted(Setup[w]) => extracts[w][k] = Base(w)[k]
    BY <2>1, OwnGrows DEF MergedOf
  <2>3. DOMAIN mine = Extracted(Setup[w])
        /\ \A k \in Extracted(Setup[w]) : mine[k] = <<"own", round[w]>>
    BY FromIs
  <2> HIDE DEF mine
  <2>4. /\ \A k \in DOMAIN extracts[w] : Over(extracts[w], Base(w))[k] = extracts[w][k]
        /\ \A k \in DOMAIN mine : Over(mine, Base(w))[k] = mine[k]
        /\ \A k \in DOMAIN Base(w) : k \notin DOMAIN mine => Over(mine, Base(w))[k] = Base(w)[k]
    BY OverIs
  <2>5. ASSUME NEW k \in DOMAIN extracts[w] \cup DOMAIN Base(w)
        PROVE  Over(extracts[w], Base(w))[k] = Over(mine, Base(w))[k]
    <3>1. k \in DOMAIN extracts[w]
      BY <2>2
    <3>2. CASE k \in Extracted(Setup[w])
      BY <2>2, <2>3, <2>4, <3>1, <3>2
    <3>3. CASE k \notin Extracted(Setup[w])
      BY <2>2, <2>3, <2>4, <3>1, <3>3
    <3> QED
      BY <3>2, <3>3
  <2>6. DOMAIN extracts[w] \cup DOMAIN Base(w) = DOMAIN mine \cup DOMAIN Base(w)
    BY <2>2, <2>3
  <2>7. Over(extracts[w], Base(w)) = Over(mine, Base(w))
    BY <2>5, <2>6, OverEqual
  <2>8. Expected(w) = Over(mine, Base(w))
    BY DEF Expected, mine, Base
  <2> QED
    BY <1>a, <2>1, <2>2, <2>7, <2>8 DEF MergedOf, RightOf
<1>6. CASE TeardownExtract(w)
  <2>1. /\ at[w] = "teardown" /\ at'[w] = "teardown"
        /\ UNCHANGED <<row, round, shared, values, request>>
    BY <1>6 DEF TeardownExtract, Go, Places
  <2> QED
    BY <1>a, <2>1 DEF MergedOf, RightOf
<1>7. CASE Send(w)
  <2>1. /\ at[w] = "send" /\ at'[w] = "teardown" /\ UNCHANGED <<row, round, shared, values>>
        /\ request'[w] = RequestOf(w)
    BY <1>7 DEF Send, Go, Places
  <2>2. Expected(w)' = Expected(w) /\ values[w] = Expected(w)
    BY <1>a, <2>1 DEF RightOf
  <2>3. ASSUME NEW part \in Parts
        PROVE  /\ RequestOf(w)[part].rendered <=> IsRendered(w, part)
               /\ IsRendered(w, part) =>
                    RequestOf(w)[part].with = IF part = "url" THEN shared ELSE values[w]
    BY DEF RequestOf, AsItIs, Rendered
  <2>4. IsRendered(w, "form") \/ DOMAIN Expected(w) = {}
    <3>1. SUFFICES ASSUME given = {}, Setup[w] = << >> PROVE DOMAIN Expected(w) = {}
      BY DEF IsRendered, NeedTemplate
    <3>2. Extracted(Setup[w]) = {}
      BY <3>1 DEF Extracted
    <3>3. DOMAIN Base(w) = {}
      BY <3>1, BaseIs DEF Sources
    <3>4. DOMAIN From(Extracted(Setup[w]), <<"own", round[w]>>) = {}
      BY <3>2, FromIs
    <3> DEFINE own == From(Extracted(Setup[w]), <<"own", round[w]>>)
    <3>5. Expected(w) = Over(own, Base(w)) /\ DOMAIN own = {}
      BY <3>4 DEF Expected, Base
    <3> HIDE DEF own
    <3>6. DOMAIN Over(own, Base(w)) = DOMAIN own \cup DOMAIN Base(w)
      BY OverIs
    <3> QED
      BY <3>3, <3>5, <3>6
  <2>5. "form" \in Parts
    BY DEF Parts
  <2>6. request'[w]["form"].rendered \/ DOMAIN Expected(w)' = {}
    BY <2>1, <2>2, <2>3, <2>4, <2>5
  <2>7. ASSUME NEW part \in Parts, request'[w][part].rendered
        PROVE  request'[w][part].with = IF part = "url" THEN shared' ELSE Expected(w)'
    BY <2>1, <2>2, <2>3, <2>7
  <2> QED
    BY <2>1, <2>2, <2>6, <2>7 DEF MergedOf, RightOf
<1> QED
  BY <1>1, <1>2, <1>3, <1>4, <1>5, <1>6, <1>7 DEF Round

LEMMA OwnAccount ==
  ASSUME Numbers, Places, Options, Maps, NEW w \in Worker, AccountOf(w), Round(w)
  PROVE  AccountOf(w)'
<1>0. /\ round[w] \in Nat /\ sent[w] \in Nat /\ errors[w] \in Nat
      /\ main = "running" /\ main' = "running"
  BY ValuesAssumption, OthersWait DEF Numbers
<1>1. CASE DrawRow(w) \/ BeginRound(w)
  <2>1. at[w] = "top" /\ at'[w] \in {"count", "merge"} /\ round'[w] = round[w] + 1
        /\ UNCHANGED <<sent, errors>>
    BY <1>1 DEF DrawRow, BeginRound, Go, Places, Numbers
  <2> QED
    BY <1>0, <2>1 DEF AccountOf, Busy, Untold
<1>2. CASE CountCycle(w) \/ Merge(w) \/ OwnExtract(w) \/ OwnSetupDone(w)
  <2>1. /\ at[w] \in {"count", "merge", "setup"} /\ at'[w] \in {"merge", "setup", "send"}
        /\ UNCHANGED <<round, sent, errors>>
    BY <1>2 DEF CountCycle, Merge, OwnExtract, OwnSetupDone, Go, Places
  <2> QED
    BY <1>0, <2>1 DEF AccountOf, Busy, Untold
<1>3. CASE OwnSetupFails(w)
  <2>1. at[w] = "setup" /\ at'[w] = "top" /\ errors'[w] = errors[w] + 1
        /\ UNCHANGED <<round, sent>>
    BY <1>3 DEF OwnSetupFails, Go, Places, Numbers
  <2> QED
    BY <1>0, <2>1 DEF AccountOf, Busy, Untold
<1>4. CASE Send(w)
  <2>1. at[w] = "send" /\ at'[w] = "teardown" /\ sent'[w] = sent[w] + 1
        /\ UNCHANGED <<round, errors>>
    BY <1>4 DEF Send, Go, Places, Numbers
  <2> QED
    BY <1>0, <2>1 DEF AccountOf, Busy, Untold
<1>5. CASE TeardownExtract(w) \/ TeardownDone(w) \/ LoopEnds(w)
  <2>1. /\ at[w] \in {"top", "teardown"} /\ at'[w] \in {"teardown", "top", "ended"}
        /\ UNCHANGED <<round, sent, errors>>
    BY <1>5 DEF TeardownExtract, TeardownDone, LoopEnds, Go, Places
  <2> QED
    BY <1>0, <2>1 DEF AccountOf, Busy, Untold
<1>6. CASE TeardownFails(w)
  <2>1. at[w] = "teardown" /\ at'[w] = "top" /\ errors'[w] = errors[w] + 1
        /\ UNCHANGED <<round, sent>>
    BY <1>6 DEF TeardownFails, Go, Places, Numbers
  <2> QED
    BY <1>0, <2>1 DEF AccountOf, Busy, Untold
<1>7. CASE Breaks(w)
  <2>1. at[w] \in {"setup", "send", "teardown"} /\ at'[w] = "broken"
        /\ UNCHANGED <<round, sent, errors>>
    BY <1>7 DEF Breaks, Go, Places
  <2> QED
    BY <1>0, <2>1 DEF AccountOf, Busy, Untold
<1> QED
  BY <1>1, <1>2, <1>3, <1>4, <1>5, <1>6, <1>7 DEF Round

(* Those that broke are reported when they are joined. *)
LEMMA JoinAccount ==
  ASSUME Numbers, Places, NEW v \in Worker, AccountOf(v), JoinWorkers
  PROVE  MergedOf(v)' /\ RightOf(v)' /\ AccountOf(v)'
<1>1. /\ at[v] \in {"ended", "broken"} /\ at' = at /\ main = "running" /\ main' = "joined"
      /\ errors'[v] = errors[v] + (IF at[v] = "broken" THEN 1 ELSE 0)
      /\ UNCHANGED <<round, sent>>
  BY DEF JoinWorkers
<1>2. round[v] \in Nat /\ sent[v] \in Nat /\ errors[v] \in Nat
  BY ValuesAssumption DEF Numbers
<1>3. AccountOf(v)'
  BY <1>1, <1>2 DEF AccountOf, Busy, Untold
<1> QED
  BY <1>1, <1>3 DEF MergedOf, RightOf

LEMMA WorkersKept ==
  ASSUME Numbers, Places, Options, Maps, Waiting, Sources, Next \/ UNCHANGED vars,
         \A v \in Worker : MergedOf(v) /\ RightOf(v) /\ AccountOf(v)
  PROVE  \A v \in Worker : MergedOf(v)' /\ RightOf(v)' /\ AccountOf(v)'
<1>1. CASE GlobalExtract \/ GlobalSetupFails \/ GlobalSetupDone
  <2> SUFFICES ASSUME NEW v \in Worker PROVE MergedOf(v)' /\ RightOf(v)' /\ AccountOf(v)'
    OBVIOUS
  <2>1. main = "setup" /\ UNCHANGED at /\ Untouched(v)
    BY <1>1, GlobalSteps
  <2>2. at'[v] = "top"
    BY <2>1 DEF Waiting
  <2>3. AccountOf(v)'
    BY <2>1, <2>2 DEF AccountOf, Busy, Untold, Untouched
  <2> QED
    BY <2>2, <2>3 DEF MergedOf, RightOf
<1>2. ASSUME NEW w \in Worker, Round(w)
      PROVE  \A v \in Worker : MergedOf(v)' /\ RightOf(v)' /\ AccountOf(v)'
  <2>1. MergedOf(w)' /\ RightOf(w)' /\ AccountOf(w)'
    BY <1>2, OwnValues, OwnAccount
  <2>2. ASSUME NEW v \in Worker, v # w PROVE MergedOf(v)' /\ RightOf(v)' /\ AccountOf(v)'
    BY <1>2, <2>2, OthersWait, Stable
  <2> QED
    BY <2>1, <2>2
<1>3. CASE JoinWorkers
  BY <1>3, JoinAccount
<1>4. CASE UNCHANGED vars
  <2>1. UNCHANGED <<shared, given, main>> /\ \A v \in Worker : Untouched(v)
    BY <1>4 DEF vars, pool, Untouched
  <2> QED
    BY <2>1, Stable
<1> QED
  BY <1>1, <1>2, <1>3, <1>4 DEF Next, Terminated

-----------------------------------------------------------------------------
(* The pool *)

Counting == {v \in Worker : at[v] = "count"}
Cycles == IF index = 0 THEN 0 ELSE (index - 1) \div Rows

LEMMA Counters ==
  /\ IsFiniteSet(Counting) /\ Cardinality(Counting) \in Nat
  /\ IsFiniteSet(Counting') /\ Cardinality(Counting') \in Nat
<1>1. IsFiniteSet(Counting) /\ IsFiniteSet(Counting')
  BY ValuesAssumption, FS_Subset DEF Counting
<1> QED
  BY <1>1, FS_CardinalityType

LEMMA PoolAlone ==
  ASSUME UNCHANGED <<pool, Counting>>, RowsInTurn, CyclesCounted
  PROVE  RowsInTurn' /\ CyclesCounted'
<1>1. CyclesCounted <=> (mode = "Sequential" => cycles + Cardinality(Counting) = Cycles)
  BY DEF CyclesCounted, Counting, Cycles
<1>2. CyclesCounted' <=> (mode' = "Sequential" => cycles' + Cardinality(Counting') = Cycles')
  BY DEF CyclesCounted, Counting, Cycles
<1>3. Cycles' = Cycles
  BY DEF pool, Cycles
<1>4. CyclesCounted'
  BY <1>1, <1>2, <1>3 DEF pool
<1> QED
  BY <1>4 DEF RowsInTurn, pool

LEMMA CyclesBefore ==
  ASSUME Numbers
  PROVE  /\ index % Rows = 0 /\ index > 0 => index \div Rows = Cycles + 1
         /\ ~(index % Rows = 0 /\ index > 0) => index \div Rows = Cycles
<1>1. index \in Nat /\ Rows \in Nat \ {0}
  BY ValuesAssumption DEF Numbers
<1>2. CASE index = 0
  <2>1. 0 \div Rows = 0
    BY <1>1
  <2> QED
    BY <1>2, <2>1 DEF Cycles
<1>3. CASE index > 0
  <2>1. Cycles = (index - 1) \div Rows
    BY <1>3 DEF Cycles
  <2>2. /\ index % Rows = 0 => index \div Rows = (index - 1) \div Rows + 1
        /\ index % Rows # 0 => index \div Rows = (index - 1) \div Rows
    BY <1>1, <1>3, DivModBefore
  <2> QED
    BY <1>3, <2>1, <2>2
<1> QED
  BY <1>1, <1>2, <1>3

LEMMA DrawInTurn ==
  ASSUME Numbers, Places, RowsInTurn, CyclesCounted, NEW w \in Worker, DrawRow(w)
  PROVE  RowsInTurn' /\ CyclesCounted'
<1> SUFFICES ASSUME mode = "Sequential" PROVE RowsInTurn' /\ CyclesCounted'
  BY DEF DrawRow, RowsInTurn, CyclesCounted
<1> DEFINE n == index  q == n \div Rows  r == n % Rows
<1>0. n \in Nat /\ cycles \in Nat /\ Rows \in Nat \ {0} /\ n + 1 # 0
  BY ValuesAssumption DEF Numbers
<1>1. /\ draws' = [draws EXCEPT ![r] = @ + 1] /\ index' = n + 1 /\ mode' = mode
      /\ cycles' = cycles /\ at[w] = "top"
      /\ at' = [at EXCEPT ![w] = IF r = 0 /\ n > 0 THEN "count" ELSE "merge"]
  BY DEF DrawRow, Go
<1>2. q \in Nat /\ r \in 0 .. Rows - 1
  BY <1>0, DivMod
<1>3. /\ r = Rows - 1 => (n + 1) % Rows = 0 /\ (n + 1) \div Rows = q + 1
      /\ r # Rows - 1 => (n + 1) % Rows = r + 1 /\ (n + 1) \div Rows = q
  BY <1>0, DivModNext
<1>4. \A p \in 0 .. Rows - 1 : draws[p] = q + (IF p < r THEN 1 ELSE 0)
  BY DEF RowsInTurn
<1>5. RowsInTurn'
  <2> SUFFICES ASSUME NEW p \in 0 .. Rows - 1
               PROVE  draws'[p] = index' \div Rows + (IF p < (index' % Rows) THEN 1 ELSE 0)
    BY DEF RowsInTurn
  <2>1. draws'[p] = IF p = r THEN draws[p] + 1 ELSE draws[p]
    BY <1>1, <1>2 DEF Numbers
  <2> DEFINE q1 == (n + 1) \div Rows  r1 == (n + 1) % Rows
  <2>2. draws[p] = q + (IF p < r THEN 1 ELSE 0)
    BY <1>4
  <2>3. /\ r = Rows - 1 => r1 = 0 /\ q1 = q + 1
        /\ r # Rows - 1 => r1 = r + 1 /\ q1 = q
    BY <1>3
  <2>4. index' \div Rows = q1 /\ index' % Rows = r1
    BY <1>1
  <2> HIDE DEF q, r, q1, r1
  <2>5. draws'[p] = q1 + (IF p < r1 THEN 1 ELSE 0)
    BY <1>0, <1>2, <2>1, <2>2, <2>3
  <2> QED
    BY <2>4, <2>5
<1>6. CyclesCounted'
  <2>1. cycles + Cardinality(Counting) = Cycles
    BY DEF CyclesCounted, Counting, Cycles
  <2>2. Cycles' = q
    BY <1>0, <1>1 DEF Cycles
  <2>3. CASE r = 0 /\ n > 0
    <3>1. Counting' = Counting \cup {w} /\ w \notin Counting
      BY <1>1, <2>3 DEF Counting, Places
    <3>2. Cardinality(Counting') = Cardinality(Counting) + 1
      BY <3>1, Counters, FS_AddElement
    <3>3. q = Cycles + 1
      BY <2>3, CyclesBefore
    <3>5. cycles \in Nat /\ Cardinality(Counting) \in Nat /\ cycles' = cycles
      BY <1>0, <1>1, Counters
    <3> HIDE DEF q
    <3>4. cycles' + Cardinality(Counting') = Cycles'
      BY <2>1, <2>2, <3>2, <3>3, <3>5
    <3> QED
      BY <3>4 DEF CyclesCounted, Counting, Cycles
  <2>4. CASE ~(r = 0 /\ n > 0)
    <3>1. Counting' = Counting
      BY <1>1, <2>4 DEF Counting, Places
    <3>2. Cycles = q
      BY <2>4, CyclesBefore
    <3>3. cycles' + Cardinality(Counting') = Cycles'
      BY <1>1, <2>1, <2>2, <3>1, <3>2
    <3> QED
      BY <3>3 DEF CyclesCounted, Counting, Cycles
  <2> QED
    BY <2>3, <2>4
<1> QED
  BY <1>5, <1>6

LEMMA PoolKept ==
  ASSUME Numbers, Places, Options, Maps, RowsInTurn, CyclesCounted, Next \/ UNCHANGED vars
  PROVE  RowsInTurn' /\ CyclesCounted'
<1>1. CASE GlobalExtract \/ GlobalSetupFails \/ GlobalSetupDone
  <2>1. UNCHANGED <<pool, Counting>>
    BY <1>1, GlobalSteps DEF Counting
  <2> QED
    BY <2>1, PoolAlone
<1>2. ASSUME NEW w \in Worker, DrawRow(w) PROVE RowsInTurn' /\ CyclesCounted'
  BY <1>2, DrawInTurn
<1>3. ASSUME NEW w \in Worker, CountCycle(w) PROVE RowsInTurn' /\ CyclesCounted'
  <2>1. /\ UNCHANGED <<mode, index, draws>> /\ cycles' = cycles + 1
        /\ at[w] = "count" /\ at' = [at EXCEPT ![w] = "merge"]
    BY <1>3 DEF CountCycle, Go
  <2>2. Counting' = Counting \ {w} /\ w \in Counting
    BY <2>1 DEF Counting, Places
  <2>3. Cardinality(Counting') = Cardinality(Counting) - 1
    BY <2>2, Counters, FS_RemoveElement
  <2>4. cycles' + Cardinality(Counting') = cycles + Cardinality(Counting)
    BY <2>1, <2>3, Counters DEF Numbers
  <2>5. Cycles' = Cycles
    BY <2>1 DEF Cycles
  <2>6. CyclesCounted <=> (mode = "Sequential" => cycles + Cardinality(Counting) = Cycles)
    BY DEF CyclesCounted, Counting, Cycles
  <2>7. CyclesCounted' <=> (mode' = "Sequential" => cycles' + Cardinality(Counting') = Cycles')
    BY DEF CyclesCounted, Counting, Cycles
  <2> QED
    BY <2>1, <2>4, <2>5, <2>6, <2>7 DEF RowsInTurn
<1>4. ASSUME NEW w \in Worker, Round(w), ~DrawRow(w), ~CountCycle(w)
      PROVE  RowsInTurn' /\ CyclesCounted'
  <2>1. UNCHANGED pool
    BY <1>4 DEF Round, BeginRound, Merge, OwnExtract, OwnSetupFails, OwnSetupDone, Send,
                Breaks, LoopEnds, TeardownExtract, TeardownFails, TeardownDone
  <2>2. \E from, to : from # "count" /\ to # "count" /\ Go(w, from, to)
    BY <1>4 DEF Round, BeginRound, Merge, OwnExtract, OwnSetupFails, OwnSetupDone, Send,
                Breaks, LoopEnds, TeardownExtract, TeardownFails, TeardownDone
  <2>3. UNCHANGED Counting
    BY <2>2 DEF Go, Counting, Places
  <2> QED
    BY <2>1, <2>3, PoolAlone
<1>5. CASE JoinWorkers \/ UNCHANGED vars
  <2>1. UNCHANGED <<pool, Counting>>
    BY <1>5 DEF JoinWorkers, vars, Counting
  <2> QED
    BY <2>1, PoolAlone
<1> QED
  BY <1>1, <1>2, <1>3, <1>4, <1>5 DEF Next, Terminated

-----------------------------------------------------------------------------
(* Theorems *)

LEMMA IInvParts ==
  /\ IInv <=> /\ Numbers /\ Places /\ Options /\ Maps /\ RowsInTurn /\ CyclesCounted /\ Waiting
              /\ Sources /\ \A v \in Worker : MergedOf(v) /\ RightOf(v) /\ AccountOf(v)
  /\ ValuesOfTheRound <=> \A v \in Worker : RightOf(v)
  /\ RowsAccounted <=> \A v \in Worker : AccountOf(v)
<1>1. ValuesOfTheRound <=> \A v \in Worker : RightOf(v)
  BY DEF ValuesOfTheRound, RightOf
<1>2. RowsAccounted <=> \A v \in Worker : AccountOf(v)
  BY DEF RowsAccounted, AccountOf, Busy, Untold
<1> QED
  BY <1>1, <1>2, TypeParts DEF IInv, PoolSound, Merged

LEMMA InitIInv == Init => IInv
<1> SUFFICES ASSUME Init PROVE IInv
  OBVIOUS
<1>1. Numbers /\ Places /\ Options
  BY ValuesAssumption DEF Init, Numbers, Places, Options
<1>2. Maps
  <2>2. DOMAIN << >> = {}
    OBVIOUS
  <2>1. DOMAIN shared \subseteq Globals
    BY <2>2, FromIs DEF Init, Nothing
  <2> QED
    BY <2>1, <2>2, NamesAreKeys DEF Init, Maps, Nothing
<1>3. RowsInTurn
  <2>1. 0 \div Rows = 0 /\ 0 % Rows = 0
    BY ValuesAssumption
  <2> QED
    BY <2>1 DEF Init, RowsInTurn
<1>4. CyclesCounted
  <2>1. {v \in Worker : at[v] = "count"} = {} /\ cycles = 0 /\ index = 0
    BY DEF Init
  <2>2. Cardinality({v \in Worker : at[v] = "count"}) = 0
    BY <2>1, FS_EmptySet
  <2> QED
    BY <2>1, <2>2 DEF CyclesCounted
<1>5. Waiting /\ \A v \in Worker : MergedOf(v) /\ RightOf(v) /\ AccountOf(v)
  BY DEF Init, Waiting, MergedOf, RightOf, AccountOf, Busy, Untold
<1>6. Sources
  <2>1. DOMAIN << >> = {}
    OBVIOUS
  <2> QED
    BY <2>1, Callers DEF Init, Sources, Nothing
<1> QED
  BY <1>1, <1>2, <1>3, <1>4, <1>5, <1>6, IInvParts

LEMMA NextIInv == IInv /\ [Next]_vars => IInv'
<1> SUFFICES ASSUME IInv, Next \/ UNCHANGED vars PROVE IInv'
  OBVIOUS
<1>1. /\ Numbers /\ Places /\ Options /\ Maps /\ RowsInTurn /\ CyclesCounted /\ Waiting
      /\ Sources /\ RowsAccounted /\ \A v \in Worker : MergedOf(v) /\ RightOf(v) /\ AccountOf(v)
  BY IInvParts
<1>2. Numbers' /\ Places' /\ Options'
  BY <1>1, NumbersKept, PlacesKept, OptionsKept
<1>3. Maps' /\ Waiting' /\ Sources'
  BY <1>1, MapsKept, WaitingKept, SourcesKept
<1>4. RowsInTurn' /\ CyclesCounted'
  BY <1>1, PoolKept
<1>5. \A v \in Worker : MergedOf(v)' /\ RightOf(v)' /\ AccountOf(v)'
  BY <1>1, WorkersKept
<1>6. /\ PoolSound' /\ Waiting' /\ Sources' /\ Merged' /\ ValuesOfTheRound' /\ RowsAccounted'
  <2>1. TypeOK'
    BY <1>2, <1>3 DEF TypeOK, Numbers, Places, Options, Maps
  <2>2. ValuesOfTheRound' /\ Merged'
    BY <1>5 DEF ValuesOfTheRound, RightOf, Merged
  <2>3. RowsAccounted'
    BY <1>5 DEF RowsAccounted, AccountOf, Busy, Untold
  <2> QED
    BY <1>3, <1>4, <2>1, <2>2, <2>3 DEF PoolSound
<1> QED
  BY <1>6 DEF IInv

LEMMA Inductive == Spec => []IInv
BY InitIInv, NextIInv, PTL DEF Spec

(* Rows are drawn in turn and evenly, and every complete cycle is counted  *)
(* once (get_next_row() and get_row()), however many workers share a pool  *)
(* of however many rows.                                                   *)
THEOREM PoolStaysSound == Spec => []PoolSound
<1>1. IInv => PoolSound
  BY DEF IInv
<1> QED
  BY <1>1, Inductive, PTL

(* What is rendered of a request is rendered with the values of its own    *)
(* round and row, all of them and no others, whatever options the test has *)
(* and whatever the setups extract, wherever they fail; at least a form is *)
(* rendered if there are values.                                           *)
THEOREM RequestsUseTheirRound == Spec => []ValuesOfTheRound
<1>1. IInv => ValuesOfTheRound
  BY DEF IInv
<1> QED
  BY <1>1, Inductive, PTL

(* Every row drawn is sent in one request or is behind a reported error:   *)
(* the setup failed, or the worker broke before it could send it.          *)
THEOREM NoRowIsLost == Spec => []RowsAccounted
<1>1. IInv => RowsAccounted
  BY DEF IInv
<1> QED
  BY <1>1, Inductive, PTL

=============================================================================
