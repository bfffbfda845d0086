-------------------------------- MODULE UiServer --------------------------------
(***************************************************************************)
(* The web server of the user interface (server.py): browsers connect over *)
(* a WebSocket, one of them starts the test, and the results are stored    *)
(* and pushed to all. Each connection brings a push task and a heartbeat   *)
(* task with it; all push tasks draw from the one iterator and push to     *)
(* every connection of the pool.                                           *)
(*                                                                         *)
(* Everything runs in one asyncio loop: an action is what happens between  *)
(* two awaits that may suspend. An uncontended asyncio.Lock does not       *)
(* suspend, nor does get_db_connection() once there is a connection.       *)
(* Abstracted: the order of the pool, and what a result says. Of time, a   *)
(* connection is fresh or has been silent for more than 5 seconds.         *)
(***************************************************************************)
EXTENDS Integers, Sequences, FiniteSets, SequencesExt

CONSTANTS
  Conn,      \* bound of the model: connections
  Client,    \* the ids in the path of /ws/{id}
  Results,   \* bound of the model: results of the test
  Nobody     \* no connection

ASSUME UiAssumption ==
  /\ IsFiniteSet(Conn)
  /\ Nobody \notin Conn
  /\ Results \in Nat

VARIABLES
  running,   \* RunningState
  starting,  \* calls of /run that wait for the test to start
  resIter,   \* whether res_iter is set
  drawn,     \* results drawn from it
  history,   \* the rows of the table results
  clientOf,  \* the id each connection comes with
  pool,      \* connections
  ws,        \* the WebSocket of each connection: "none", "open", "closed"
  silent,    \* connections whose heartbeat_time is more than 5 seconds old
  handler,   \* where websocket_handler is
  push,      \* where each push_result is
  item,      \* the result it has in hand
  todo,      \* the connections it has still to push it to
  beat,      \* where each check_heartbeat is
  inbox,     \* history: how often each connection was sent each result
  cut        \* history: connections whose push task ended on a failed push

testVars == <<running, starting, resIter>>
connVars == <<pool, ws, silent, handler>>
pushVars == <<push, item, todo, drawn, history, inbox, cut>>
vars == <<testVars, connVars, pushVars, beat, clientOf>>

Done == 0  \* the text "DONE"

Init ==
  /\ running = FALSE /\ starting = 0 /\ resIter = FALSE
  /\ drawn = 0 /\ history = << >>
  /\ clientOf \in [Conn -> Client]
  /\ pool = [i \in Client |-> Nobody]
  /\ ws = [c \in Conn |-> "none"] /\ silent = {}
  /\ handler = [c \in Conn |-> "none"]
  /\ push = [c \in Conn |-> "none"]
  /\ item = [c \in Conn |-> Done]
  /\ todo = [c \in Conn |-> {}]
  /\ beat = [c \in Conn |-> "none"]
  /\ inbox = [c \in Conn |-> [n \in 0 .. Results |-> 0]] /\ cut = {}

-----------------------------------------------------------------------------
(* /run *)

(* A test that is running is left alone. Nothing suspends between the look *)
(* at the flag and its setting. It is never reset: a second test needs     *)
(* another server.                                                         *)
GetRun ==
  \/ running /\ UNCHANGED vars
  \/ /\ ~running /\ running' = TRUE
     /\ starting' = starting + 1
     /\ UNCHANGED <<clientOf, resIter, connVars, pushVars, beat>>

Started ==
  /\ starting > 0 /\ starting' = starting - 1
  /\ resIter' = TRUE
  /\ UNCHANGED <<clientOf, running, connVars, pushVars, beat>>

(* The decorated function raises: the caller gets an error, and running    *)
(* stays set.                                                              *)
StartFails ==
  /\ starting > 0 /\ starting' = starting - 1
  /\ UNCHANGED <<clientOf, running, resIter, connVars, pushVars, beat>>

-----------------------------------------------------------------------------
(* websocket_handler() *)

(* A client that connects again takes the place of its old connection. *)
Open(c) ==
  /\ ws[c] = "none" /\ ws' = [ws EXCEPT ![c] = "open"]
  /\ pool' = [pool EXCEPT ![clientOf[c]] = c]
  /\ handler' = [handler EXCEPT ![c] = "reading"]
  /\ push' = [push EXCEPT ![c] = "wait"]
  /\ beat' = [beat EXCEPT ![c] = "watch"]
  /\ UNCHANGED <<clientOf, testVars, silent, item, todo, drawn, history, inbox, cut>>

(* A ping refreshes whoever is in the pool under the client's id. *)
Ping(c) ==
  /\ ws[c] = "open" /\ handler[c] = "reading"
  /\ pool[clientOf[c]] \in silent
  /\ silent' = silent \ {pool[clientOf[c]]}
  /\ UNCHANGED <<clientOf, testVars, pool, ws, handler, pushVars, beat>>

(* The peer is gone before the answer to its ping: the handler is left by  *)
(* the exception, with its tasks running and its client in the pool.       *)
PongFails(c) ==
  /\ ws[c] = "open" /\ handler[c] = "reading"
  /\ silent' = silent \ {pool[clientOf[c]]}
  /\ ws' = [ws EXCEPT ![c] = "closed"]
  /\ handler' = [handler EXCEPT ![c] = "ended"]
  /\ UNCHANGED <<clientOf, testVars, pool, pushVars, beat>>

(* Time passes without a ping of c. *)
Silence(c) ==
  /\ pool[clientOf[c]] = c /\ c \notin silent
  /\ silent' = silent \cup {c}
  /\ UNCHANGED <<clientOf, testVars, pool, ws, handler, pushVars, beat>>

(* The peer goes away; a push notices when it is tried. *)
Break(c) ==
  /\ ws[c] = "open" /\ ws' = [ws EXCEPT ![c] = "closed"]
  /\ UNCHANGED <<clientOf, testVars, pool, silent, handler, pushVars, beat>>

(* When nothing more comes from c, the handler awaits both its tasks; then *)
(* the client's id is taken from the pool, whoever is there by now.        *)
Finish(c) ==
  /\ handler[c] = "reading" /\ ws[c] = "closed"
  /\ push[c] = "ended" /\ beat[c] = "ended"
  /\ handler' = [handler EXCEPT ![c] = "ended"]
  /\ pool' = [pool EXCEPT ![clientOf[c]] = Nobody]
  /\ UNCHANGED <<clientOf, testVars, ws, silent, pushVars, beat>>

-----------------------------------------------------------------------------
(* check_heartbeat() *)

NobodyThere(c) ==
  /\ beat[c] = "watch" /\ pool[clientOf[c]] = Nobody
  /\ beat' = [beat EXCEPT ![c] = "ended"]
  /\ UNCHANGED <<clientOf, testVars, connVars, pushVars>>

(* Variant: the connection is left open. *)
TooSilentLeftOpen(c) ==
  /\ beat[c] = "watch" /\ pool[clientOf[c]] \in silent
  /\ pool' = [pool EXCEPT ![clientOf[c]] = Nobody]
  /\ beat' = [beat EXCEPT ![c] = "ended"]
  /\ UNCHANGED <<clientOf, testVars, ws, silent, handler, pushVars>>

(* Whoever is in the pool under the id of c is looked at, and closed. *)
TooSilent(c) ==
  LET d == pool[clientOf[c]] IN
  /\ beat[c] = "watch" /\ d \in silent
  /\ pool' = [pool EXCEPT ![clientOf[c]] = Nobody]
  /\ silent' = silent \ {d}
  /\ ws' = [ws EXCEPT ![d] = "closed"]
  /\ beat' = [beat EXCEPT ![c] = "ended"]
  /\ UNCHANGED <<clientOf, testVars, handler, pushVars>>

-----------------------------------------------------------------------------
(* push_result() *)

Push(c, from, to) == push[c] = from /\ push' = [push EXCEPT ![c] = to]
Everybody == {pool[i] : i \in Client} \ {Nobody}

WaitForTest(c) ==
  /\ resIter /\ Push(c, "wait", "draw")
  /\ UNCHANGED <<clientOf, testVars, connVars, item, todo, drawn, history, inbox, cut, beat>>

(* Variant: every push task has an iterator of its own. *)
DrawOwn(c) ==
  /\ item[c] < Results
  /\ Push(c, "draw", "store")
  /\ drawn' = IF drawn = item[c] THEN drawn + 1 ELSE drawn
  /\ item' = [item EXCEPT ![c] = @ + 1]
  /\ history' = Append(history, item'[c])
  /\ UNCHANGED <<clientOf, testVars, connVars, todo, inbox, cut, beat>>

(* The next result is taken, and the insertion queued in the database's    *)
(* thread, which takes one after the other.                                *)
Draw(c) ==
  /\ drawn < Results
  /\ Push(c, "draw", "store")
  /\ drawn' = drawn + 1
  /\ item' = [item EXCEPT ![c] = drawn']
  /\ history' = Append(history, drawn')
  /\ UNCHANGED <<clientOf, testVars, connVars, todo, inbox, cut, beat>>

Stored(c) ==
  /\ Push(c, "store", "send")
  /\ todo' = [todo EXCEPT ![c] = Everybody]
  /\ UNCHANGED <<clientOf, testVars, connVars, item, drawn, history, inbox, cut, beat>>

(* Variant: the end is told by the task that drew the last result. *)
NoMoreLastOnly(c) ==
  /\ drawn = Results
  /\ Push(c, "draw", "done")
  /\ todo' = [todo EXCEPT ![c] = IF item[c] = Results THEN Everybody ELSE {}]
  /\ item' = [item EXCEPT ![c] = Done]
  /\ UNCHANGED <<clientOf, testVars, connVars, drawn, history, inbox, cut, beat>>

(* The iterator is at its end; so it is for every other task. *)
NoMore(c) ==
  /\ drawn = Results
  /\ Push(c, "draw", "done")
  /\ todo' = [todo EXCEPT ![c] = Everybody]
  /\ item' = [item EXCEPT ![c] = Done]
  /\ UNCHANGED <<clientOf, testVars, connVars, drawn, history, inbox, cut, beat>>

SendTo(c, d) ==
  /\ push[c] \in {"send", "done"}
  /\ d \in todo[c] /\ ws[d] = "open"
  /\ inbox' = [inbox EXCEPT ![d][item[c]] = @ + 1]
  /\ todo' = [todo EXCEPT ![c] = @ \ {d}]
  /\ UNCHANGED <<clientOf, testVars, connVars, push, item, drawn, history, cut, beat>>

(* ConnectionResetError: the client is taken from the pool, and the task   *)
(* returns, although it may be the task of another connection.             *)
SendToFails(c, d) ==
  /\ push[c] \in {"send", "done"}
  /\ d \in todo[c] /\ ws[d] # "open"
  /\ pool' = [pool EXCEPT ![clientOf[d]] = Nobody]
  /\ push' = [push EXCEPT ![c] = "ended"]
  /\ todo' = [todo EXCEPT ![c] = {}]
  /\ cut' = cut \cup {c}
  /\ UNCHANGED <<clientOf, testVars, ws, silent, handler, item, drawn, history, inbox, beat>>

SentToAll(c) ==
  /\ todo[c] = {}
  /\ Push(c, "send", "draw") \/ Push(c, "done", "ended")
  /\ UNCHANGED <<clientOf, testVars, connVars, item, todo, drawn, history, inbox, cut, beat>>

PushStep(c) ==
  \/ WaitForTest(c) \/ Draw(c) \/ Stored(c) \/ NoMore(c)
  \/ (\E d \in Conn : SendTo(c, d) \/ SendToFails(c, d))
  \/ SentToAll(c)

-----------------------------------------------------------------------------

TestStep == GetRun \/ Started \/ StartFails
BeatStep(c) == NobodyThere(c) \/ TooSilent(c)

Next ==
  \/ TestStep
  \/ \E c \in Conn :
       \/ Open(c) \/ Ping(c) \/ PongFails(c) \/ Silence(c) \/ Break(c)
       \/ Finish(c) \/ PushStep(c) \/ BeatStep(c)

Spec == Init /\ [][Next]_vars

(* The loop runs what is ready; the iterator has a next result or ends.    *)
FairSpec ==
  /\ Spec
  /\ \A c \in Conn : WF_vars(PushStep(c)) /\ WF_vars(Finish(c)) /\ WF_vars(BeatStep(c))

-----------------------------------------------------------------------------
(* Properties *)

Born == {c \in Conn : ws[c] # "none"}

(* Types of the state. *)
TypeOK ==
  /\ running \in BOOLEAN /\ resIter \in BOOLEAN
  /\ starting \in Nat
  /\ drawn \in 0 .. Results
  /\ clientOf \in [Conn -> Client]
  /\ pool \in [Client -> Conn \cup {Nobody}]
  /\ \A i \in Client : pool[i] # Nobody => clientOf[pool[i]] = i
  /\ ws \in [Conn -> {"none", "open", "closed"}] /\ silent \subseteq Conn
  /\ handler \in [Conn -> {"none", "reading", "ended"}]
  /\ push \in [Conn -> {"none", "wait", "draw", "store", "send", "done", "ended"}]
  /\ item \in [Conn -> 0 .. Results] /\ todo \in [Conn -> SUBSET Conn]
  /\ beat \in [Conn -> {"none", "watch", "ended"}]
  /\ cut \subseteq Born

(* The history holds every result that was drawn, once and in the order    *)
(* the test produced them, whichever tasks drew them.                      *)
HistoryInOrder == history = [i \in 1 .. drawn |-> i]

(* No connection is sent a result twice, none that is not in the history,  *)
(* and the end once for each push task at most.                            *)
EachResultOnce ==
  \A c \in Conn :
    /\ \A n \in 1 .. Results : inbox[c][n] <= (IF n \in Range(history) THEN 1 ELSE 0)
    /\ inbox[c][Done] <= Cardinality(Born)

(* Stored and pushed, the results reach everybody once and in order. *)
ResultsOnce == HistoryInOrder /\ EachResultOnce

(* A connection that is open and not in the pool is one of a client that   *)
(* has connected more than once: what closes an old connection may take    *)
(* the new one from the pool.                                              *)
ForgottenOnReconnect ==
  \A c \in Conn :
    ws[c] = "open" /\ pool[clientOf[c]] # c
      => \E d \in Conn \ {c} : clientOf[d] = clientOf[c] /\ ws[d] # "none"

(* Once the test has started, a connection of the pool is told its end, if *)
(* neither it nor its push task is cut off before. A push to another       *)
(* connection that fails cuts the task off, and then it depends on the     *)
(* tasks of the others.                                                    *)
EndIsTold ==
  \A c \in Conn :
    (resIter /\ pool[clientOf[c]] = c)
      ~> (inbox[c][Done] > 0 \/ pool[clientOf[c]] # c \/ ws[c] # "open" \/ c \in cut)
================================================================================
