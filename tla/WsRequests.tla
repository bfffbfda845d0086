------------------------------ MODULE WsRequests ------------------------------
(***************************************************************************)
(* The requests of one WebSocket connection (start_ws_task.rs): the sender *)
(* registers a request and hands it to the writer, the receiver pairs a    *)
(* message with the oldest request of its key, a watcher gives up those    *)
(* that are too old, and the end of the connection drops the rest.         *)
(* Sender, receiver and watcher are branches of one select!: they take     *)
(* turns at their awaits, in any order.                                    *)
(*                                                                         *)
(* Abstracted: what a message says, but for the key it is paired by. The   *)
(* Sequential matcher is the case of one key for all. A unit of time is    *)
(* the period of the watcher, 500 ms; the watcher is on time.              *)
(***************************************************************************)
EXTENDS Integers, Sequences, FiniteSets

CONSTANTS
  Last,        \* bound of the model: the connection sends at most Last messages
  Keys,        \* values messages are paired by
  NoKey,       \* a message that has none: binary, not JSON, no such field
  KeyMaps,     \* the assignments of keys to the messages sent
  Modes,       \* modes of the endpoint: "RequestResponse", "OneWay"
  MaxPending,  \* MAX_PENDING_PER_CONN
  Timeout,     \* timeout_ms in units, 0 for none
  WriteCap,    \* places of the channel to the writer
  Deadline,    \* the time at which the connection must end
  MaxPushes    \* bound of the model: messages the peer sends unasked

Requests == 1 .. Last

ASSUME RequestsAssumption ==
  /\ Last \in Nat /\ MaxPending \in Nat /\ Timeout \in Nat
  /\ WriteCap \in Nat \ {0} /\ Deadline \in Nat /\ MaxPushes \in Nat
  /\ NoKey \notin Keys
  /\ KeyMaps \subseteq [Requests -> Keys \cup {NoKey}]
  /\ Modes \subseteq {"RequestResponse", "OneWay"}

VARIABLES
  mode,       \* the endpoint's mode
  keyOf,      \* the key of each message
  now,        \* units since the connection opened
  watched,    \* the watcher has had its tick of this unit
  ended,      \* the select! is over
  sender,     \* "tick", or "writing" while it waits for the writer's channel
  taken,      \* messages the sender has made
  sent,       \* messages_sent: those the writer's channel has taken
  written,    \* those the writer has put on the socket
  pending,    \* PendingState::map
  count,      \* PendingState::count
  at,         \* the Instant a request was registered at
  received,   \* messages_received
  successful, \* successful_requests
  timeouts,   \* match_timeouts
  errors,     \* err_count
  pushes,     \* messages the peer sent unasked
  replies,    \* history: the requests the peer has answered, in its order
  ledger,     \* history: the outcome of each request
  credited    \* history: whose answer counted as the answer of a request

senderVars == <<sender, taken, sent>>
tableVars  == <<pending, count, at>>
statsVars  == <<received, successful, timeouts, errors>>
timeVars   == <<now, watched, ended>>
peerVars   == <<written, pushes, replies>>
vars == <<mode, keyOf, senderVars, tableVars, statsVars, timeVars, peerVars, ledger, credited>>

Init ==
  /\ mode \in Modes
  /\ keyOf \in KeyMaps
  /\ now = 0 /\ watched = FALSE /\ ended = FALSE
  /\ sender = "tick" /\ taken = 0 /\ sent = 0 /\ written = 0
  /\ pending = [k \in Keys |-> <<>>] /\ count = 0
  /\ at = [r \in Requests |-> 0]
  /\ received = 0 /\ successful = 0 /\ timeouts = 0 /\ errors = 0
  /\ pushes = 0 /\ replies = <<>>
  /\ ledger = [r \in Requests |-> "new"]
  /\ credited = [r \in Requests |-> 0]

-----------------------------------------------------------------------------
(* PendingState *)

(* A full table refuses: the request counts as timed out at once. It is    *)
(* sent all the same.                                                      *)
Register(r) ==
  LET k == keyOf[r] IN
  IF count >= MaxPending
  THEN /\ ledger' = [ledger EXCEPT ![r] = "overdue"]
       /\ timeouts' = timeouts + 1 /\ errors' = errors + 1
       /\ UNCHANGED tableVars
  ELSE /\ pending' = [pending EXCEPT ![k] = Append(@, r)]
       /\ count' = count + 1
       /\ at' = [at EXCEPT ![r] = now]
       /\ ledger' = [ledger EXCEPT ![r] = "open"]
       /\ UNCHANGED <<timeouts, errors>>

(* Variant: the newest request of the key is taken. *)
MatchNewest(k, r) ==
  /\ pending[k] # <<>> /\ r = pending[k][Len(pending[k])]
  /\ pending' = [pending EXCEPT ![k] = SubSeq(@, 1, Len(@) - 1)]
  /\ count' = count - 1

(* Variant: the number of pending requests is left alone. *)
MatchUncounted(k, r) ==
  /\ pending[k] # <<>> /\ r = Head(pending[k])
  /\ pending' = [pending EXCEPT ![k] = Tail(@)]
  /\ count' = count

(* Variant: the request is looked at and stays in its queue. *)
MatchPeek(k, r) ==
  /\ pending[k] # <<>> /\ r = Head(pending[k])
  /\ UNCHANGED <<pending, count>>

(* The oldest request of the key. *)
MatchOne(k, r) ==
  /\ pending[k] # <<>> /\ r = Head(pending[k])
  /\ pending' = [pending EXCEPT ![k] = Tail(@)]
  /\ count' = count - 1

Stale(r) == now - at[r] > Timeout

(* Variant: a queue is given up from its front only if all of it is old. *)
StaleRunWhole(q, n) ==
  \/ n = Len(q) /\ \A i \in 1 .. n : Stale(q[i])
  \/ n = 0 /\ \E i \in 1 .. Len(q) : ~Stale(q[i])

(* How far the loop over one queue comes: to its first fresh request. *)
StaleRun(q, n) ==
  /\ n <= Len(q)
  /\ \A i \in 1 .. n : Stale(q[i])
  /\ n < Len(q) => ~Stale(q[n + 1])

Dropped(cut) == {r \in Requests : \E k \in Keys : \E i \in 1 .. cut[k] : pending[k][i] = r}

ExpireOlderThan(cut) ==
  /\ \A k \in Keys : StaleRun(pending[k], cut[k])
  /\ pending' = [k \in Keys |-> SubSeq(pending[k], cut[k] + 1, Len(pending[k]))]
  /\ count' = count - Cardinality(Dropped(cut))
  /\ timeouts' = timeouts + Cardinality(Dropped(cut))
  /\ errors' = errors + Cardinality(Dropped(cut))
  /\ ledger' = [r \in Requests |-> IF r \in Dropped(cut) THEN "overdue" ELSE ledger[r]]

-----------------------------------------------------------------------------
(* sender_loop and the writer task *)

(* A tick of the sender: deadline, then the table, then the message, which *)
(* waits for a place in the channel.                                       *)
SendTick ==
  /\ ~ended /\ sender = "tick" /\ now < Deadline /\ taken < Last
  /\ taken' = taken + 1
  /\ sender' = "writing"
  /\ IF mode = "RequestResponse" /\ keyOf[taken + 1] # NoKey
     THEN Register(taken + 1)
     ELSE UNCHANGED <<tableVars, timeouts, errors, ledger>>
  /\ UNCHANGED <<mode, keyOf, sent, received, successful, timeVars, peerVars, credited>>

Enqueue ==
  /\ ~ended /\ sender = "writing" /\ sent - written < WriteCap
  /\ sent' = sent + 1
  /\ sender' = "tick"
  /\ UNCHANGED <<mode, keyOf, taken, tableVars, statsVars, timeVars, peerVars, ledger, credited>>

(* The writer goes on for a moment after the connection's select!, but     *)
(* nobody reads an answer then.                                            *)
Write ==
  /\ ~ended /\ written < sent
  /\ written' = written + 1
  /\ UNCHANGED <<mode, keyOf, senderVars, tableVars, statsVars, timeVars, pushes, replies, ledger, credited>>

-----------------------------------------------------------------------------
(* receiver_loop *)

(* on_message_received, for a message of key k that the peer sent as its   *)
(* answer to request r, or unasked (r = 0).                                *)
OnMessage(k, r) ==
  /\ received' = received + 1
  /\ \/ /\ mode = "RequestResponse"
        /\ k \in Keys
        /\ \E oldest \in Requests :
             /\ MatchOne(k, oldest)
             /\ ledger' = [ledger EXCEPT ![oldest] = "answered"]
             /\ credited' = [credited EXCEPT ![oldest] = r]
        /\ successful' = successful + 1
     \/ /\ mode = "RequestResponse"
        /\ k \in Keys => pending[k] = <<>>
        /\ UNCHANGED <<pending, count, ledger, credited, successful>>
     \/ /\ mode = "OneWay"
        /\ successful' = successful + 1
        /\ UNCHANGED <<pending, count, ledger, credited>>
  /\ UNCHANGED <<mode, keyOf, senderVars, at, timeouts, errors, timeVars, written>>

(* The peer answers what has reached it, in any order and at any time, or  *)
(* never; an answer carries the key of its request.                        *)
Answer(r) ==
  /\ ~ended /\ r <= written
  /\ \A i \in DOMAIN replies : replies[i] # r
  /\ replies' = Append(replies, r)
  /\ OnMessage(keyOf[r], r)
  /\ UNCHANGED pushes

Push(k) ==
  /\ ~ended /\ pushes < MaxPushes
  /\ pushes' = pushes + 1
  /\ OnMessage(k, 0)
  /\ UNCHANGED replies

-----------------------------------------------------------------------------
(* match_timeout_watcher, and the end of the connection *)

Sweep ==
  /\ ~ended /\ ~watched /\ now < Deadline
  /\ watched' = TRUE
  /\ IF mode = "RequestResponse" /\ Timeout > 0
     THEN \E cut \in [Keys -> 0 .. Last] : ExpireOlderThan(cut)
     ELSE UNCHANGED <<pending, count, timeouts, errors, ledger>>
  /\ UNCHANGED <<mode, keyOf, senderVars, at, received, successful, now, ended, peerVars, credited>>

(* The select! ends with its first branch: the deadline, a stop, the peer  *)
(* closing, an error, the heartbeat. The next connection begins with a new *)
(* PendingState; what this one holds is dropped without a count.           *)
End ==
  /\ ~ended
  /\ ended' = TRUE
  /\ ledger' = [r \in Requests |-> IF ledger[r] = "open" THEN "abandoned" ELSE ledger[r]]
  /\ UNCHANGED <<mode, keyOf, senderVars, tableVars, statsVars, now, watched, peerVars, credited>>

Tick ==
  /\ ~ended /\ watched /\ now < Deadline
  /\ now' = now + 1
  /\ watched' = FALSE
  /\ UNCHANGED <<mode, keyOf, senderVars, tableVars, statsVars, ended, peerVars, ledger, credited>>

Terminated == ended /\ UNCHANGED vars

Next ==
  \/ SendTick \/ Enqueue \/ Write
  \/ \E r \in Requests : Answer(r)
  \/ \E k \in Keys \cup {NoKey} : Push(k)
  \/ Sweep \/ End \/ Tick \/ Terminated

Spec == Init /\ [][Next]_vars

-----------------------------------------------------------------------------
(* Properties *)

Outcome(o) == {r \in Requests : ledger[r] = o}

TypeOK ==
  /\ mode \in Modes /\ keyOf \in KeyMaps
  /\ now \in 0 .. Deadline /\ watched \in BOOLEAN /\ ended \in BOOLEAN
  /\ sender \in {"tick", "writing"}
  /\ taken \in 0 .. Last /\ sent \in 0 .. taken /\ written \in 0 .. sent
  /\ sent = IF sender = "writing" THEN taken - 1 ELSE taken
  /\ pending \in [Keys -> Seq(Requests)] /\ count \in 0 .. MaxPending
  /\ at \in [Requests -> 0 .. Deadline]
  /\ received \in Nat /\ successful \in Nat /\ timeouts \in Nat /\ errors \in Nat
  /\ pushes \in 0 .. MaxPushes /\ replies \in Seq(Requests)
  /\ ledger \in [Requests -> {"new", "open", "answered", "overdue", "abandoned"}]
  /\ credited \in [Requests -> 0 .. Last]

(* While the connection lives, the table holds the open requests and no    *)
(* other, each once and under its key, oldest first, and its counter says  *)
(* how many they are: what the limit of the table is measured by.          *)
TableIsOpenRequests ==
  ~ended =>
    /\ count = Cardinality(Outcome("open"))
    /\ \A k \in Keys : \A i \in 1 .. Len(pending[k]) :
         LET r == pending[k][i] IN
         /\ ledger[r] = "open" /\ keyOf[r] = k
         /\ \A j \in 1 .. i - 1 : pending[k][j] < r
    /\ \A r \in Outcome("open") :
         /\ keyOf[r] \in Keys
         /\ \E i \in 1 .. Len(pending[keyOf[r]]) : pending[keyOf[r]][i] = r

(* The figures of the endpoint are the ledger: where requests are answered *)
(* a success for each one that was, a timeout and an error for each        *)
(* overdue, and nothing for what the connection left behind.               *)
FiguresAreLedger ==
  /\ mode = "RequestResponse" => successful = Cardinality(Outcome("answered"))
  /\ timeouts = Cardinality(Outcome("overdue"))
  /\ errors = timeouts

(* The table, its counter and the figures all tell of the same requests. *)
BooksBalance == TypeOK /\ TableIsOpenRequests /\ FiguresAreLedger

(* The sweep stops at the first fresh request of a queue, and still leaves *)
(* no request that is too old: no request stays open for more than its     *)
(* timeout and one period of the watcher.                                  *)
NoneOverstays ==
  (mode = "RequestResponse" /\ Timeout > 0 /\ ~ended) =>
    \A r \in Outcome("open") : now - at[r] <= IF watched THEN Timeout ELSE Timeout + 1

(* As long as the peer answers the requests of a key in the order they     *)
(* were sent, leaves none out, says nothing unasked, and none of them was  *)
(* given up, each answer counts for its own request: the response time is  *)
(* the time of that request. One request given up is enough to set all the *)
(* later ones of its key off by one (FIFO matching).                       *)
Rivals(r) == {s \in Requests : keyOf[s] = keyOf[r]}
InOrder(r) ==
  \A i \in DOMAIN replies : replies[i] \in Rivals(r) =>
    \A s \in Rivals(r) : s < replies[i] => \E j \in 1 .. i - 1 : replies[j] = s
AnswersInStep ==
  \A r \in Outcome("answered") :
    (/\ pushes = 0
     /\ InOrder(r)
     /\ \A s \in Rivals(r) : ledger[s] # "overdue")
      => credited[r] = r

(* Each request is entered once, gets one outcome and keeps it.            *)
Ledger == INSTANCE RequestLedger
EveryRequestOneOutcome == Ledger!Spec
================================================================================
