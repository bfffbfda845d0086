----------------------------- MODULE TemplateValues -----------------------------
(***************************************************************************)
(* The values a request is rendered with: global variables, what the       *)
(* global setup extracted, a row of the data pool (data_pool.rs) and what  *)
(* the endpoint's own setup extracted (setup.rs), put together anew in     *)
(* each round of a worker (start_task.rs). The workers share the pool.     *)
(* Variables, pool and global setup are options of the test.               *)
(*                                                                         *)
(* Abstracted: a value is where it comes from. An answer of the server to  *)
(* a setup request is good, or it is not: refused, no JSON, no match of a  *)
(* JSON path or several. A request is built, or it is not: an unknown      *)
(* method, a header, cookie or body that is none once it is rendered, a    *)
(* file that cannot be opened. A template is one that renders. A list of   *)
(* no setup requests is taken for none.                                    *)
(***************************************************************************)
EXTENDS Integers, Sequences, FiniteSets

CONSTANTS
  Worker,
  Rows,         \* rows of the data pool
  Headers,      \* its columns
  Globals,      \* the names of global_variables
  GlobalSetup,  \* setup_options: for each request the names it extracts, in order
  Setup,        \* the same of each worker's endpoint
  Teardown,     \* teardown_options of each worker's endpoint
  Faults,       \* whether answers to setups may be bad, and requests unbuildable
  MaxRounds     \* bound of the model: rounds of each worker

Global == "global"
Caller == Worker \cup {Global}

ASSUME ValuesAssumption ==
  /\ IsFiniteSet(Worker) /\ Global \notin Worker
  /\ Rows \in Nat \ {0} /\ Faults \in BOOLEAN
  /\ GlobalSetup \in Seq(Seq(STRING))
  /\ Setup \in [Worker -> Seq(Seq(STRING))] /\ Teardown \in [Worker -> Seq(Seq(STRING))]
  /\ MaxRounds \in Nat

VARIABLES
  given,     \* the options there are: "globals", "pool" and "setup"
  mode,      \* Random or Sequential
  index,     \* current_index
  cycles,    \* the pool's count of its cycles
  main,      \* the test: "setup", "running", "failed" or "joined"
  shared,    \* extract_map
  at,        \* where each worker is
  round,     \* rounds it has begun, with a pool each with a row of it
  row,       \* the row it drew last
  values,    \* api_extract_b_tree_map
  extracts,  \* extract_map of start_setup, the global one under Global
  option,    \* how many of the setup requests are done
  request,   \* the parts of the request it sent last
  sent,      \* requests sent by each worker
  errors,    \* engine errors each worker is behind
  draws      \* history: how often each row was drawn

pool == <<given, mode, index, cycles, draws>>
vars == <<pool, main, shared, at, round, row, values, extracts, option, request, sent, errors>>

Nothing == << >>  \* the function with no domain
From(names, origin) == [k \in names |-> origin]
(* Insertion into a map: what is inserted replaces what is there. *)
Over(new, old) ==
  [k \in DOMAIN new \cup DOMAIN old |-> IF k \in DOMAIN new THEN new[k] ELSE old[k]]
Names(keys) == {keys[i] : i \in DOMAIN keys}

Parts == {"url", "headers", "cookies", "json", "form"}
AsItIs == [rendered |-> FALSE, with |-> Nothing]
Rendered(map) == [rendered |-> TRUE, with |-> map]

Init ==
  /\ given \in SUBSET {"globals", "pool", "setup"}
  /\ mode \in {"Random", "Sequential"}
  /\ index = 0 /\ cycles = 0
  /\ main = "setup"
  /\ shared = IF "globals" \in given THEN From(Globals, <<"variable">>) ELSE Nothing
  /\ at = [w \in Worker |-> "top"]
  /\ round = [w \in Worker |-> 0]
  /\ row = [w \in Worker |-> 0]
  /\ values = [w \in Worker |-> Nothing]
  /\ extracts = [c \in Caller |-> IF c = Global THEN shared ELSE Nothing]
  /\ option = [c \in Caller |-> 0]
  /\ request = [w \in Worker |-> [part \in Parts |-> AsItIs]]
  /\ sent = [w \in Worker |-> 0] /\ errors = [w \in Worker |-> 0]
  /\ draws = [r \in 0 .. Rows - 1 |-> 0]

-----------------------------------------------------------------------------
(* start_setup() *)

(* A key that is there already cannot be extracted. *)
Clash(map, keys) ==
  \/ Names(keys) \cap DOMAIN map # {}
  \/ Cardinality(Names(keys)) < Len(keys)

(* The next request of c, and all it extracts. *)
Extract(c, requests, origin) ==
  LET keys == requests[option[c] + 1] IN
  /\ option[c] < Len(requests)
  /\ ~Clash(extracts[c], keys)
  /\ extracts' = [extracts EXCEPT ![c] = Over(From(Names(keys), origin), @)]
  /\ option' = [option EXCEPT ![c] = @ + 1]

(* An answer that is not good ends the setup, and so does a key that is    *)
(* taken; nothing of it is kept.                                           *)
SetupFails(c, requests) ==
  /\ option[c] < Len(requests)
  /\ Faults \/ Clash(extracts[c], requests[option[c] + 1])
  /\ extracts' = [extracts EXCEPT ![c] = Nothing]
  /\ option' = [option EXCEPT ![c] = 0]

-----------------------------------------------------------------------------
(* batch() *)

GlobalExtract ==
  /\ main = "setup" /\ "setup" \in given
  /\ Extract(Global, GlobalSetup, <<"global">>)
  /\ UNCHANGED <<pool, main, shared, at, round, row, values, request, sent, errors>>

(* The test is over before it has begun. *)
GlobalSetupFails ==
  /\ main = "setup" /\ main' = "failed" /\ "setup" \in given
  /\ SetupFails(Global, GlobalSetup)
  /\ UNCHANGED <<pool, shared, at, round, row, values, request, sent, errors>>

GlobalSetupDone ==
  /\ main = "setup" /\ main' = "running"
  /\ "setup" \in given => option[Global] = Len(GlobalSetup)
  /\ shared' = extracts[Global]
  /\ UNCHANGED <<pool, at, round, row, values, extracts, option, request, sent, errors>>

-----------------------------------------------------------------------------
(* One round of a worker *)

(* is_need_render_template *)
NeedTemplate == given # {}

Go(w, from, to) == main = "running" /\ at[w] = from /\ at' = [at EXCEPT ![w] = to]

(* Variant: the counter is loaded and stored, and a store may be lost. *)
DrawRowUnfetched(w) ==
  /\ "pool" \in given
  /\ round[w] < MaxRounds /\ round' = [round EXCEPT ![w] = @ + 1]
  /\ \E r \in 0 .. Rows - 1 :
       /\ row' = [row EXCEPT ![w] = r]
       /\ draws' = [draws EXCEPT ![r] = @ + 1]
       /\ mode = "Sequential" => r = index % Rows
       /\ Go(w, "top", IF mode = "Sequential" /\ r = 0 /\ index > 0 THEN "count" ELSE "merge")
  /\ index' \in (IF mode = "Sequential" THEN {index, index + 1} ELSE {index})
  /\ UNCHANGED <<given, mode, cycles, main, shared, values, extracts, option, request, sent, errors>>

(* get_next_row(): the counter is fetched and moved on in one step. *)
DrawRow(w) ==
  /\ "pool" \in given
  /\ round[w] < MaxRounds /\ round' = [round EXCEPT ![w] = @ + 1]
  /\ \E r \in 0 .. Rows - 1 :
       /\ row' = [row EXCEPT ![w] = r]
       /\ draws' = [draws EXCEPT ![r] = @ + 1]
       /\ mode = "Sequential" => r = index % Rows
       /\ Go(w, "top", IF mode = "Sequential" /\ r = 0 /\ index > 0 THEN "count" ELSE "merge")
  /\ index' = IF mode = "Sequential" THEN index + 1 ELSE index
  /\ UNCHANGED <<given, mode, cycles, main, shared, values, extracts, option, request, sent, errors>>

(* Without a pool there is nothing to draw. *)
BeginRound(w) ==
  /\ "pool" \notin given
  /\ round[w] < MaxRounds /\ round' = [round EXCEPT ![w] = @ + 1]
  /\ Go(w, "top", "merge")
  /\ UNCHANGED <<pool, main, shared, row, values, extracts, option, request, sent, errors>>

(* The first row of a new cycle is drawn, then the cycle counted. *)
CountCycle(w) ==
  /\ Go(w, "count", "merge")
  /\ cycles' = cycles + 1
  /\ UNCHANGED <<given, mode, index, draws, main, shared, round, row, values, extracts, option, request, sent, errors>>

Row(w) == IF "pool" \in given THEN From(Headers, <<"row", row[w]>>) ELSE Nothing

(* The row goes over the shared values, and start_setup() is given a copy. *)
Merge(w) ==
  LET map == Over(Row(w), shared) IN
  /\ Go(w, "merge", "setup")
  /\ values' = [values EXCEPT ![w] = map]
  /\ extracts' = [extracts EXCEPT ![w] = map]
  /\ option' = [option EXCEPT ![w] = 0]
  /\ UNCHANGED <<pool, main, shared, round, row, request, sent, errors>>

OwnExtract(w) ==
  /\ Go(w, "setup", "setup")
  /\ Extract(w, Setup[w], <<"own", round[w]>>)
  /\ UNCHANGED <<pool, main, shared, round, row, values, request, sent, errors>>

(* Variant: a setup that fails is not reported. *)
OwnSetupFailsSilently(w) ==
  /\ Go(w, "setup", "top")
  /\ SetupFails(w, Setup[w])
  /\ UNCHANGED <<pool, main, shared, round, row, values, request, sent, errors>>

(* A second later a new round begins, with a new row. *)
OwnSetupFails(w) ==
  /\ Go(w, "setup", "top")
  /\ SetupFails(w, Setup[w])
  /\ errors' = [errors EXCEPT ![w] = @ + 1]
  /\ UNCHANGED <<pool, main, shared, round, row, values, request, sent>>

(* Variant: a setup that failed half-way is taken for one that is done. *)
OwnSetupDoneEarly(w) ==
  /\ Go(w, "setup", "send")
  /\ values' = [values EXCEPT ![w] = Over(extracts[w], @)]
  /\ UNCHANGED <<pool, main, shared, round, row, extracts, option, request, sent, errors>>

(* An endpoint without setup has nothing to wait for. *)
OwnSetupDone(w) ==
  /\ option[w] = Len(Setup[w])
  /\ Go(w, "setup", "send")
  /\ values' = [values EXCEPT ![w] = Over(extracts[w], @)]
  /\ UNCHANGED <<pool, main, shared, round, row, extracts, option, request, sent, errors>>

(* Headers, cookies and JSON are rendered when the test has values, the    *)
(* form also when only the endpoint's own setup has (is_need_render).  The *)
(* URL was rendered with the shared values before the workers began.       *)
IsRendered(w, part) == NeedTemplate \/ (part = "form" /\ Setup[w] # << >>)

RequestOf(w) ==
  [part \in Parts |->
     IF ~IsRendered(w, part) THEN AsItIs
     ELSE Rendered(IF part = "url" THEN shared ELSE values[w])]

Send(w) ==
  /\ Go(w, "send", "teardown")
  /\ request' = [request EXCEPT ![w] = RequestOf(w)]
  /\ sent' = [sent EXCEPT ![w] = @ + 1]
  /\ extracts' = [extracts EXCEPT ![w] = values[w]]
  /\ option' = [option EXCEPT ![w] = 0]
  /\ UNCHANGED <<pool, main, shared, round, row, values, errors>>

(* The worker returns an error or panics: over a header of one of its      *)
(* setups, over a request that cannot be built, or over what it got for    *)
(* the one it has sent.  It is not started again.                          *)
Breaks(w) ==
  /\ Faults
  /\ \/ option[w] < Len(Setup[w]) /\ Go(w, "setup", "broken")
     \/ Go(w, "send", "broken")
     \/ Go(w, "teardown", "broken")
  /\ UNCHANGED <<pool, main, shared, round, row, values, extracts, option, request, sent, errors>>

(* The endpoint's teardown is a setup too, on the values of the request.   *)
(* What it extracts is thrown away; an error is reported, and that is all. *)
TeardownExtract(w) ==
  /\ Go(w, "teardown", "teardown")
  /\ Extract(w, Teardown[w], <<"teardown">>)
  /\ UNCHANGED <<pool, main, shared, round, row, values, request, sent, errors>>

TeardownFails(w) ==
  /\ Go(w, "teardown", "top")
  /\ SetupFails(w, Teardown[w])
  /\ errors' = [errors EXCEPT ![w] = @ + 1]
  /\ UNCHANGED <<pool, main, shared, round, row, values, request, sent>>

TeardownDone(w) ==
  /\ option[w] = Len(Teardown[w])
  /\ Go(w, "teardown", "top")
  /\ UNCHANGED <<pool, main, shared, round, row, values, extracts, option, request, sent, errors>>

(* The test's time is over, or it is stopped. *)
LoopEnds(w) ==
  /\ Go(w, "top", "ended")
  /\ UNCHANGED <<pool, main, shared, round, row, values, extracts, option, request, sent, errors>>

Round(w) ==
  \/ DrawRow(w) \/ BeginRound(w) \/ CountCycle(w) \/ Merge(w)
  \/ OwnExtract(w) \/ OwnSetupFails(w) \/ OwnSetupDone(w)
  \/ Send(w) \/ Breaks(w) \/ LoopEnds(w)
  \/ TeardownExtract(w) \/ TeardownFails(w) \/ TeardownDone(w)

-----------------------------------------------------------------------------

(* join_all() returns when all workers have, and those that broke are      *)
(* reported.                                                               *)
JoinWorkers ==
  /\ main = "running" /\ main' = "joined"
  /\ \A w \in Worker : at[w] \in {"ended", "broken"}
  /\ errors' = [w \in Worker |-> errors[w] + (IF at[w] = "broken" THEN 1 ELSE 0)]
  /\ UNCHANGED <<pool, shared, at, round, row, values, extracts, option, request, sent>>

Terminated == main \in {"failed", "joined"} /\ UNCHANGED vars

Next ==
  \/ GlobalExtract \/ GlobalSetupFails \/ GlobalSetupDone
  \/ \E w \in Worker : Round(w)
  \/ JoinWorkers
  \/ Terminated

Spec == Init /\ [][Next]_vars

-----------------------------------------------------------------------------
(* Properties *)

(* All that a setup or a teardown extracts. *)
Extracted(requests) == UNION {Names(requests[i]) : i \in DOMAIN requests}
Key == Headers \cup Globals \cup Extracted(GlobalSetup)
         \cup UNION {Extracted(Setup[w]) \cup Extracted(Teardown[w]) : w \in Worker}

(* Types of the state. *)
TypeOK ==
  /\ given \subseteq {"globals", "pool", "setup"}
  /\ mode \in {"Random", "Sequential"} /\ index \in Nat /\ cycles \in Nat
  /\ main \in {"setup", "running", "failed", "joined"}
  /\ at \in [Worker -> {"top", "count", "merge", "setup", "send", "teardown", "broken", "ended"}]
  /\ round \in [Worker -> 0 .. MaxRounds]
  /\ row \in [Worker -> 0 .. Rows - 1]
  /\ DOMAIN shared \subseteq Key
  /\ DOMAIN values = Worker /\ \A w \in Worker : DOMAIN values[w] \subseteq Key
  /\ DOMAIN extracts = Caller /\ \A c \in Caller : DOMAIN extracts[c] \subseteq Key
  /\ option \in [Caller -> Nat]
  /\ DOMAIN request = Worker
  /\ sent \in [Worker -> 0 .. MaxRounds] /\ errors \in [Worker -> Nat]
  /\ draws \in [0 .. Rows - 1 -> Nat]

(* Drawn in turn, the rows are used evenly, however the workers            *)
(* interleave: those before the next one once more than the others.        *)
RowsInTurn ==
  mode = "Sequential" =>
    \A r \in 0 .. Rows - 1 :
      draws[r] = index \div Rows + (IF r < index % Rows THEN 1 ELSE 0)

(* The cycles the statistics show are those that are complete and whose    *)
(* next one has begun, but for the workers that are about to count one.    *)
CyclesCounted ==
  mode = "Sequential" =>
    cycles + Cardinality({w \in Worker : at[w] = "count"})
      = IF index = 0 THEN 0 ELSE (index - 1) \div Rows

(* The pool is used as its mode says, and its statistics say how.          *)
PoolSound == TypeOK /\ RowsInTurn /\ CyclesCounted

(* What a request of w has to be rendered with: its own extractions of     *)
(* this very round, else the row it drew for it, else what is shared.      *)
Expected(w) == Over(From(Extracted(Setup[w]), <<"own", round[w]>>), Over(Row(w), shared))

(* A request is sent with all its values or not at all: they are of one    *)
(* round and one row, complete, and nothing of an earlier round or of a    *)
(* setup that failed half-way is among them.  What is rendered is rendered *)
(* with these values, the URL with the shared ones, and at least a form is *)
(* rendered wherever there are values.                                     *)
ValuesOfTheRound ==
  /\ \A w \in Worker : at[w] \in {"send", "teardown"} => values[w] = Expected(w)
  /\ \A w \in Worker : at[w] = "teardown" =>
       /\ \A part \in Parts : request[w][part].rendered =>
            request[w][part].with = IF part = "url" THEN shared ELSE Expected(w)
       /\ request[w]["form"].rendered \/ DOMAIN Expected(w) = {}

(* Every row drawn ends in one request or is behind a reported error: its  *)
(* setup failed, or the worker broke over it, which is told when the       *)
(* workers are joined.  (Failed teardowns are reported on top.)            *)
RowsAccounted ==
  \A w \in Worker :
    LET busy == IF at[w] \in {"count", "merge", "setup", "send"} THEN 1 ELSE 0
        untold == IF at[w] = "broken" /\ main = "running" THEN 1 ELSE 0 IN
    /\ round[w] <= sent[w] + errors[w] + busy + untold
    /\ sent[w] <= round[w] - busy

(* A value of higher precedence takes the place of a lower one             *)
(* ("优先级：全局变量 < 全局setup提取 < CSV数据池 < 接口级setup提取",               *)
(* __init__.pyi:166), so that a setup fails on a bad answer only.          *)
HigherTakesPlace ==
  ~Faults => main # "failed" /\ \A w \in Worker : errors[w] = 0
================================================================================
