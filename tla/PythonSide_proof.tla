--------------------------- MODULE PythonSide_proof ---------------------------
(***************************************************************************)
(* Proofs about the server of the user interface, for any number of        *)
(* connections, clients and results, and about the object of the Python    *)
(* program, for any number of calls of run() and stop().                   *)
(***************************************************************************)
EXTENDS UiServer, BatchRunner, TLAPS, FiniteSetTheorems

-----------------------------------------------------------------------------
(* The inductive invariant *)

(* The push tasks that have told d the end, or will not any more. *)
Told(d) == {c \in Conn : push[c] = "ended" \/ (push[c] = "done" /\ d \notin todo[c])}

(* Tasks, pool and lists hold connections that were opened. *)
Opened ==
  /\ \A c \in Conn : push[c] # "none" => ws[c] # "none"
  /\ \A c, d \in Conn : d \in todo[c] => ws[d] # "none"
  /\ \A i \in Client : pool[i] # Nobody => ws[pool[i]] # "none"

(* A result is in the hands of one push task, which has yet to send it to  *)
(* the connections on its list.                                            *)
InHand ==
  /\ inbox \in [Conn -> [0 .. Results -> Nat]]
  /\ \A c \in Conn :
       /\ push[c] \in {"store", "send"} => item[c] \in 1 .. drawn
       /\ push[c] = "done" => item[c] = Done
  /\ \A c, d \in Conn :
       c # d /\ push[c] \in {"store", "send"} /\ push[d] \in {"store", "send"}
         => item[c] # item[d]

SentOnce ==
  /\ \A d \in Conn, n \in 1 .. Results :
       inbox[d][n] <= 1 /\ (n > drawn => inbox[d][n] = 0)
  /\ \A c, d \in Conn :
       push[c] = "store" \/ (push[c] = "send" /\ d \in todo[c]) => inbox[d][item[c]] = 0

EndsCounted == \A d \in Conn : inbox[d][Done] <= Cardinality(Told(d))

IInv ==
  /\ TypeOK /\ Opened /\ ForgottenOnReconnect
  /\ HistoryInOrder /\ InHand /\ SentOnce /\ EndsCounted

-----------------------------------------------------------------------------
(* Types *)

LEMMA NextTypeOK == TypeOK /\ Opened /\ [Next]_vars => TypeOK'
<1> SUFFICES ASSUME TypeOK, Opened, [Next]_vars PROVE TypeOK'
  OBVIOUS
<1> USE UiAssumption DEF TypeOK, Opened, Born, testVars, connVars, pushVars, Push,
                         Everybody, Done
<1>1. CASE GetRun
  <2>1. CASE UNCHANGED vars
    BY <2>1 DEF vars
  <2>2. CASE ~UNCHANGED vars
    <3>1. /\ running' = TRUE /\ starting' = starting + 1
          /\ UNCHANGED <<clientOf, resIter, connVars, pushVars, beat>>
      BY <1>1, <2>2 DEF GetRun
    <3> QED
      BY <3>1
  <2> QED
    BY <2>1, <2>2
<1>2. CASE Started
  BY <1>2 DEF Started
<1>3. CASE StartFails
  BY <1>3 DEF StartFails
<1>4. ASSUME NEW c \in Conn, Open(c) PROVE TypeOK'
  BY <1>4 DEF Open
<1>5. ASSUME NEW c \in Conn, Ping(c) PROVE TypeOK'
  BY <1>5 DEF Ping
<1>6. ASSUME NEW c \in Conn, PongFails(c) PROVE TypeOK'
  BY <1>6 DEF PongFails
<1>7. ASSUME NEW c \in Conn, Silence(c) PROVE TypeOK'
  BY <1>7 DEF Silence
<1>8. ASSUME NEW c \in Conn, Break(c) PROVE TypeOK'
  BY <1>8 DEF Break
<1>9. ASSUME NEW c \in Conn, Finish(c) PROVE TypeOK'
  BY <1>9 DEF Finish
<1>10. ASSUME NEW c \in Conn, NobodyThere(c) PROVE TypeOK'
  BY <1>10 DEF NobodyThere
<1>11. ASSUME NEW c \in Conn, TooSilent(c) PROVE TypeOK'
  BY <1>11 DEF TooSilent
<1>12. ASSUME NEW c \in Conn, WaitForTest(c) PROVE TypeOK'
  BY <1>12 DEF WaitForTest
<1>13. ASSUME NEW c \in Conn, Draw(c) PROVE TypeOK'
  BY <1>13 DEF Draw
<1>14. ASSUME NEW c \in Conn, Stored(c) PROVE TypeOK'
  BY <1>14 DEF Stored
<1>15. ASSUME NEW c \in Conn, NoMore(c) PROVE TypeOK'
  BY <1>15 DEF NoMore
<1>16. ASSUME NEW c \in Conn, NEW d \in Conn, SendTo(c, d) PROVE TypeOK'
  BY <1>16 DEF SendTo
<1>17. ASSUME NEW c \in Conn, NEW d \in Conn, SendToFails(c, d) PROVE TypeOK'
  BY <1>17 DEF SendToFails
<1>18. ASSUME NEW c \in Conn, SentToAll(c) PROVE TypeOK'
  BY <1>18 DEF SentToAll
<1>19. CASE UNCHANGED vars
  BY <1>19 DEF vars
<1> QED
  BY <1>1, <1>2, <1>3, <1>4, <1>5, <1>6, <1>7, <1>8, <1>9, <1>10, <1>11,
     <1>12, <1>13, <1>14, <1>15, <1>16, <1>17, <1>18, <1>19 DEF Next,
     TestStep, PushStep, BeatStep

LEMMA NextOpened == TypeOK /\ Opened /\ [Next]_vars => Opened'
<1> SUFFICES ASSUME TypeOK, Opened, [Next]_vars PROVE Opened'
  OBVIOUS
<1> USE UiAssumption DEF TypeOK, Opened, testVars, connVars, pushVars, Push, Everybody
<1>1. CASE GetRun
  BY <1>1 DEF GetRun, vars
<1>2. CASE Started
  BY <1>2 DEF Started
<1>3. CASE StartFails
  BY <1>3 DEF StartFails
<1>4. ASSUME NEW c \in Conn, Open(c) PROVE Opened'
  BY <1>4 DEF Open
<1>5. ASSUME NEW c \in Conn, Ping(c) PROVE Opened'
  BY <1>5 DEF Ping
<1>6. ASSUME NEW c \in Conn, PongFails(c) PROVE Opened'
  BY <1>6 DEF PongFails
<1>7. ASSUME NEW c \in Conn, Silence(c) PROVE Opened'
  BY <1>7 DEF Silence
<1>8. ASSUME NEW c \in Conn, Break(c) PROVE Opened'
  BY <1>8 DEF Break
<1>9. ASSUME NEW c \in Conn, Finish(c) PROVE Opened'
  BY <1>9 DEF Finish
<1>10. ASSUME NEW c \in Conn, NobodyThere(c) PROVE Opened'
  BY <1>10 DEF NobodyThere
<1>11. ASSUME NEW c \in Conn, TooSilent(c) PROVE Opened'
  BY <1>11 DEF TooSilent
<1>12. ASSUME NEW c \in Conn, WaitForTest(c) PROVE Opened'
  BY <1>12 DEF WaitForTest
<1>13. ASSUME NEW c \in Conn, Draw(c) PROVE Opened'
  BY <1>13 DEF Draw
<1>14. ASSUME NEW c \in Conn, Stored(c) PROVE Opened'
  BY <1>14 DEF Stored
<1>15. ASSUME NEW c \in Conn, NoMore(c) PROVE Opened'
  BY <1>15 DEF NoMore
<1>16. ASSUME NEW c \in Conn, NEW d \in Conn, SendTo(c, d) PROVE Opened'
  BY <1>16 DEF SendTo
<1>17. ASSUME NEW c \in Conn, NEW d \in Conn, SendToFails(c, d) PROVE Opened'
  BY <1>17 DEF SendToFails
<1>18. ASSUME NEW c \in Conn, SentToAll(c) PROVE Opened'
  BY <1>18 DEF SentToAll
<1>19. CASE UNCHANGED vars
  BY <1>19 DEF vars
<1> QED
  BY <1>1, <1>2, <1>3, <1>4, <1>5, <1>6, <1>7, <1>8, <1>9, <1>10, <1>11,
     <1>12, <1>13, <1>14, <1>15, <1>16, <1>17, <1>18, <1>19 DEF Next,
     TestStep, PushStep, BeatStep

LEMMA NextForgotten ==
  TypeOK /\ Opened /\ ForgottenOnReconnect /\ [Next]_vars => ForgottenOnReconnect'
<1> SUFFICES ASSUME TypeOK, Opened, ForgottenOnReconnect, [Next]_vars
             PROVE  ForgottenOnReconnect'
  OBVIOUS
<1> USE UiAssumption DEF TypeOK, Opened, ForgottenOnReconnect, testVars, connVars, pushVars, Push
<1>1. CASE GetRun
  BY <1>1 DEF GetRun, vars
<1>2. CASE Started
  BY <1>2 DEF Started
<1>3. CASE StartFails
  BY <1>3 DEF StartFails
<1>4. ASSUME NEW c \in Conn, Open(c) PROVE ForgottenOnReconnect'
  BY <1>4 DEF Open
<1>5. ASSUME NEW c \in Conn, Ping(c) PROVE ForgottenOnReconnect'
  BY <1>5 DEF Ping
<1>6. ASSUME NEW c \in Conn, PongFails(c) PROVE ForgottenOnReconnect'
  BY <1>6 DEF PongFails
<1>7. ASSUME NEW c \in Conn, Silence(c) PROVE ForgottenOnReconnect'
  BY <1>7 DEF Silence
<1>8. ASSUME NEW c \in Conn, Break(c) PROVE ForgottenOnReconnect'
  BY <1>8 DEF Break
<1>9. ASSUME NEW c \in Conn, Finish(c) PROVE ForgottenOnReconnect'
  BY <1>9 DEF Finish
<1>10. ASSUME NEW c \in Conn, NobodyThere(c) PROVE ForgottenOnReconnect'
  BY <1>10 DEF NobodyThere
<1>11. ASSUME NEW c \in Conn, TooSilent(c) PROVE ForgottenOnReconnect'
  BY <1>11 DEF TooSilent
<1>12. ASSUME NEW c \in Conn, WaitForTest(c) PROVE ForgottenOnReconnect'
  BY <1>12 DEF WaitForTest
<1>13. ASSUME NEW c \in Conn, Draw(c) PROVE ForgottenOnReconnect'
  BY <1>13 DEF Draw
<1>14. ASSUME NEW c \in Conn, Stored(c) PROVE ForgottenOnReconnect'
  BY <1>14 DEF Stored
<1>15. ASSUME NEW c \in Conn, NoMore(c) PROVE ForgottenOnReconnect'
  BY <1>15 DEF NoMore
<1>16. ASSUME NEW c \in Conn, NEW d \in Conn, SendTo(c, d) PROVE ForgottenOnReconnect'
  BY <1>16 DEF SendTo
<1>17. ASSUME NEW c \in Conn, NEW d \in Conn, SendToFails(c, d) PROVE ForgottenOnReconnect'
  BY <1>17 DEF SendToFails
<1>18. ASSUME NEW c \in Conn, SentToAll(c) PROVE ForgottenOnReconnect'
  BY <1>18 DEF SentToAll
<1>19. CASE UNCHANGED vars
  BY <1>19 DEF vars
<1> QED
  BY <1>1, <1>2, <1>3, <1>4, <1>5, <1>6, <1>7, <1>8, <1>9, <1>10, <1>11,
     <1>12, <1>13, <1>14, <1>15, <1>16, <1>17, <1>18, <1>19 DEF Next,
     TestStep, PushStep, BeatStep

-----------------------------------------------------------------------------
(* The history and the results *)

(* Only the push tasks, and a connection that is opened, change what is    *)
(* drawn, stored and sent.                                                 *)
LEMMA PushStepsOnly ==
  [Next]_vars => (\E c \in Conn : Open(c) \/ PushStep(c)) \/ UNCHANGED pushVars
<1> SUFFICES ASSUME Next PROVE (\E c \in Conn : Open(c) \/ PushStep(c)) \/ UNCHANGED pushVars
  BY DEF vars
<1>1. ASSUME TestStep PROVE UNCHANGED pushVars
  BY <1>1 DEF TestStep, GetRun, Started, StartFails, vars
<1>2. ASSUME NEW c \in Conn, BeatStep(c) PROVE UNCHANGED pushVars
  BY <1>2 DEF BeatStep, NobodyThere, TooSilent
<1>3. ASSUME NEW c \in Conn, Ping(c) \/ PongFails(c) \/ Silence(c) \/ Break(c) \/ Finish(c)
      PROVE  UNCHANGED pushVars
  BY <1>3 DEF Ping, PongFails, Silence, Break, Finish
<1> QED
  BY <1>1, <1>2, <1>3 DEF Next

LEMMA NextHistory == TypeOK /\ HistoryInOrder /\ [Next]_vars => HistoryInOrder'
<1> SUFFICES ASSUME TypeOK, HistoryInOrder, [Next]_vars PROVE HistoryInOrder'
  OBVIOUS
<1>1. ASSUME NEW c \in Conn, Draw(c) PROVE HistoryInOrder'
  <2>1. drawn' = drawn + 1 /\ history' = Append(history, drawn')
    BY <1>1 DEF Draw
  <2>2. drawn \in Nat /\ history \in Seq(Nat) /\ Len(history) = drawn
    BY UiAssumption DEF TypeOK, HistoryInOrder
  <2> QED
    BY <2>1, <2>2 DEF HistoryInOrder
<1>2. ASSUME NEW c \in Conn, PushStep(c), ~Draw(c) PROVE UNCHANGED <<drawn, history>>
  BY <1>2 DEF PushStep, WaitForTest, Stored, NoMore, SendTo, SendToFails, SentToAll
<1>3. ASSUME NEW c \in Conn, Open(c) PROVE UNCHANGED <<drawn, history>>
  BY <1>3 DEF Open
<1> QED
  BY <1>1, <1>2, <1>3, PushStepsOnly DEF pushVars, HistoryInOrder

(* The figures of a step, with what their types say. *)
LEMMA Ranges ==
  ASSUME TypeOK, InHand
  PROVE  /\ drawn \in Nat /\ Results \in Nat /\ drawn <= Results
         /\ 0 \in 0 .. Results
         /\ \A c \in Conn : item[c] \in 0 .. Results
         /\ \A d \in Conn, n \in 0 .. Results : inbox[d][n] \in Nat
  BY UiAssumption DEF TypeOK, InHand

LEMMA NextInHand == TypeOK /\ InHand /\ [Next]_vars => InHand'
<1> SUFFICES ASSUME TypeOK, InHand, [Next]_vars PROVE InHand'
  OBVIOUS
<1> DEFINE Holds(c) == push[c] \in {"store", "send"}
<1>1. ASSUME NEW c \in Conn, Open(c) PROVE InHand'
  BY <1>1 DEF Open, TypeOK, InHand
<1>2. ASSUME NEW c \in Conn, WaitForTest(c) PROVE InHand'
  BY <1>2 DEF WaitForTest, Push, TypeOK, InHand
<1>3. ASSUME NEW c \in Conn, Draw(c) PROVE InHand'
  <2>1. /\ inbox' = inbox /\ drawn' = drawn + 1 /\ drawn \in Nat
        /\ push'[c] = "store" /\ item'[c] = drawn + 1
        /\ \A d \in Conn \ {c} : push'[d] = push[d] /\ item'[d] = item[d]
    BY <1>3, Ranges DEF Draw, Push, TypeOK
  <2>2. ASSUME NEW d \in Conn, Holds(d) PROVE item[d] \in 1 .. drawn
    BY <2>2 DEF InHand
  <2>3. ASSUME NEW d \in Conn, Holds(d)' PROVE item'[d] \in 1 .. drawn'
    <3>1. CASE d = c
      BY <2>1, <3>1
    <3>2. CASE d # c
      BY <2>1, <2>2, <2>3, <3>2
    <3> QED
      BY <3>1, <3>2
  <2>4. ASSUME NEW d \in Conn, push'[d] = "done" PROVE item'[d] = Done
    BY <2>1, <2>4 DEF InHand
  <2>5. ASSUME NEW d \in Conn, NEW e \in Conn, d # e, Holds(d)', Holds(e)'
        PROVE  item'[d] # item'[e]
    <3>1. CASE d = c
      BY <2>1, <2>2, <2>5, <3>1
    <3>2. CASE e = c
      BY <2>1, <2>2, <2>5, <3>2
    <3>3. CASE d # c /\ e # c
      BY <2>1, <2>5, <3>3 DEF InHand
    <3> QED
      BY <3>1, <3>2, <3>3
  <2>6. inbox' \in [Conn -> [0 .. Results -> Nat]]
    BY <2>1 DEF InHand
  <2> QED
    BY <2>3, <2>4, <2>5, <2>6 DEF InHand
<1>4. ASSUME NEW c \in Conn, Stored(c) PROVE InHand'
  BY <1>4 DEF Stored, Push, TypeOK, InHand
<1>5. ASSUME NEW c \in Conn, NoMore(c) PROVE InHand'
  BY <1>5 DEF NoMore, Push, TypeOK, InHand
<1>6. ASSUME NEW c \in Conn, NEW d \in Conn, SendTo(c, d) PROVE InHand'
  <2>1. /\ push' = push /\ item' = item /\ drawn' = drawn
        /\ inbox' = [inbox EXCEPT ![d][item[c]] = @ + 1]
    BY <1>6 DEF SendTo
  <2>2. inbox' \in [Conn -> [0 .. Results -> Nat]]
    BY <2>1, Ranges DEF InHand
  <2> QED
    BY <2>1, <2>2 DEF InHand
<1>7. ASSUME NEW c \in Conn, NEW d \in Conn, SendToFails(c, d) PROVE InHand'
  BY <1>7 DEF SendToFails, TypeOK, InHand
<1>8. ASSUME NEW c \in Conn, SentToAll(c) PROVE InHand'
  <2>1. /\ inbox' = inbox /\ drawn' = drawn /\ item' = item
        /\ push'[c] \in {"draw", "ended"}
        /\ \A d \in Conn \ {c} : push'[d] = push[d]
    BY <1>8 DEF SentToAll, Push, TypeOK
  <2> QED
    BY <2>1 DEF InHand
<1>9. CASE UNCHANGED pushVars
  BY <1>9 DEF pushVars, InHand
<1> QED
  BY <1>1, <1>2, <1>3, <1>4, <1>5, <1>6, <1>7, <1>8, <1>9, PushStepsOnly DEF PushStep

LEMMA NextSentOnce == TypeOK /\ InHand /\ SentOnce /\ [Next]_vars => SentOnce'
<1> SUFFICES ASSUME TypeOK, InHand, SentOnce, [Next]_vars PROVE SentOnce'
  OBVIOUS
<1> DEFINE Owes(c, d) == push[c] = "store" \/ (push[c] = "send" /\ d \in todo[c])
<1>0. ASSUME NEW c \in Conn, NEW d \in Conn, Owes(c, d)
      PROVE  inbox[d][item[c]] = 0 /\ item[c] \in 1 .. Results
  BY <1>0, Ranges DEF SentOnce, InHand
<1>1. ASSUME NEW c \in Conn, Open(c) PROVE SentOnce'
  BY <1>1 DEF Open, TypeOK, SentOnce
<1>2. ASSUME NEW c \in Conn, WaitForTest(c) PROVE SentOnce'
  BY <1>2 DEF WaitForTest, Push, TypeOK, SentOnce
<1>3. ASSUME NEW c \in Conn, Draw(c) PROVE SentOnce'
  <2>1. /\ inbox' = inbox /\ todo' = todo /\ drawn' = drawn + 1 /\ drawn < Results
        /\ push'[c] = "store" /\ item'[c] = drawn + 1
        /\ \A d \in Conn \ {c} : push'[d] = push[d] /\ item'[d] = item[d]
    BY <1>3, Ranges DEF Draw, Push, TypeOK
  <2>2. \A d \in Conn : inbox[d][drawn + 1] = 0
    BY <2>1, Ranges DEF SentOnce
  <2>3. \A d \in Conn, n \in 1 .. Results :
          inbox'[d][n] <= 1 /\ (n > drawn' => inbox'[d][n] = 0)
    BY <2>1, Ranges DEF SentOnce
  <2>4. ASSUME NEW d \in Conn, NEW e \in Conn, Owes(d, e)' PROVE inbox'[e][item'[d]] = 0
    <3>1. CASE d = c
      BY <2>1, <2>2, <3>1
    <3>2. CASE d # c
      BY <2>1, <2>4, <3>2, <1>0
    <3> QED
      BY <3>1, <3>2
  <2> QED
    BY <2>3, <2>4 DEF SentOnce
<1>4. ASSUME NEW c \in Conn, Stored(c) PROVE SentOnce'
  BY <1>4 DEF Stored, Push, TypeOK, SentOnce
<1>5. ASSUME NEW c \in Conn, NoMore(c) PROVE SentOnce'
  BY <1>5 DEF NoMore, Push, TypeOK, SentOnce
<1>6. ASSUME NEW c \in Conn, NEW d \in Conn, SendTo(c, d) PROVE SentOnce'
  <2>1. /\ push' = push /\ item' = item /\ drawn' = drawn /\ d \in todo[c]
        /\ todo'[c] = todo[c] \ {d}
        /\ \A e \in Conn \ {c} : todo'[e] = todo[e]
    BY <1>6 DEF SendTo, TypeOK
  <2>2. /\ inbox'[d][item[c]] = inbox[d][item[c]] + 1
        /\ \A e \in Conn, n \in 0 .. Results :
             e # d \/ n # item[c] => inbox'[e][n] = inbox[e][n]
    BY <1>6, Ranges DEF SendTo, InHand
  <2>3. ASSUME NEW e \in Conn, NEW f \in Conn, Owes(e, f)'
        PROVE  inbox'[f][item'[e]] = 0
    <3>1. Owes(e, f) /\ (e = c => f # d)
      BY <2>1, <2>3, <1>6 DEF SendTo
    <3>2. inbox[f][item[e]] = 0 /\ item[e] \in 1 .. Results
      BY <1>0, <3>1
    <3>3. f # d \/ item[e] # item[c]
      <4>1. CASE push[c] = "send" /\ e # c
        BY <3>1, <4>1 DEF InHand
      <4>2. CASE push[c] = "done"
        BY <3>2, <4>2 DEF InHand, Done
      <4>3. CASE e = c
        BY <3>1, <4>3
      <4> QED
        BY <1>6, <4>1, <4>2, <4>3 DEF SendTo
    <3> QED
      BY <2>1, <2>2, <3>2, <3>3, Ranges
  <2>4. ASSUME NEW e \in Conn, NEW n \in 1 .. Results
        PROVE  inbox'[e][n] <= 1 /\ (n > drawn' => inbox'[e][n] = 0)
    <3>1. CASE e = d /\ n = item[c]
      <4>1. push[c] = "send"
        BY <1>6, <3>1 DEF SendTo, InHand, Done
      <4>2. inbox[d][n] = 0 /\ n <= drawn
        BY <2>1, <3>1, <4>1, Ranges DEF SentOnce, InHand
      <4> QED
        BY <2>1, <2>2, <3>1, <4>2, Ranges
    <3>2. CASE e # d \/ n # item[c]
      BY <2>1, <2>2, <3>2, Ranges DEF SentOnce
    <3> QED
      BY <3>1, <3>2
  <2> QED
    BY <2>3, <2>4 DEF SentOnce
<1>7. ASSUME NEW c \in Conn, NEW d \in Conn, SendToFails(c, d) PROVE SentOnce'
  BY <1>7 DEF SendToFails, TypeOK, SentOnce
<1>8. ASSUME NEW c \in Conn, SentToAll(c) PROVE SentOnce'
  BY <1>8 DEF SentToAll, Push, TypeOK, SentOnce
<1>9. CASE UNCHANGED pushVars
  BY <1>9 DEF pushVars, SentOnce
<1> QED
  BY <1>1, <1>2, <1>3, <1>4, <1>5, <1>6, <1>7, <1>8, <1>9, PushStepsOnly DEF PushStep

LEMMA ToldFinite ==
  ASSUME NEW d \in Conn
  PROVE  IsFiniteSet(Told(d)) /\ Cardinality(Told(d)) \in Nat
<1>1. IsFiniteSet(Told(d))
  BY UiAssumption, FS_Subset DEF Told
<1> QED
  BY <1>1, FS_CardinalityType

(* No task that has told the end takes it back. *)
LEMMA ToldGrows ==
  ASSUME NEW d \in Conn, Told(d) \subseteq Told(d)'
  PROVE  Cardinality(Told(d)) <= Cardinality(Told(d)') /\ Cardinality(Told(d)') \in Nat
<1>1. IsFiniteSet(Told(d)')
  BY UiAssumption, FS_Subset DEF Told
<1> QED
  BY <1>1, FS_Subset, FS_CardinalityType

LEMMA NextEndsCounted ==
  TypeOK /\ Opened /\ InHand /\ EndsCounted /\ [Next]_vars => EndsCounted'
<1> SUFFICES ASSUME TypeOK, Opened, InHand, EndsCounted, [Next]_vars, NEW e \in Conn
             PROVE  inbox'[e][Done] <= Cardinality(Told(e)')
  BY DEF EndsCounted
<1> DEFINE Kept == inbox'[e][Done] = inbox[e][Done] /\ Told(e) \subseteq Told(e)'
<1>1. /\ inbox[e][Done] \in Nat /\ inbox[e][Done] <= Cardinality(Told(e))
      /\ Cardinality(Told(e)) \in Nat
  BY UiAssumption, ToldFinite DEF InHand, EndsCounted, Done
<1>2. ASSUME Kept PROVE inbox'[e][Done] <= Cardinality(Told(e)')
  BY <1>1, <1>2, ToldGrows
<1>3. ASSUME NEW c \in Conn, Open(c) PROVE Kept
  <2>1. push[c] = "none"
    BY <1>3 DEF Open, Opened
  <2> QED
    BY <1>3, <2>1 DEF Open, TypeOK, Told
<1>4. ASSUME NEW c \in Conn,
             WaitForTest(c) \/ Draw(c) \/ Stored(c) \/ NoMore(c) \/ SentToAll(c)
      PROVE  Kept
  BY <1>4 DEF WaitForTest, Draw, Stored, NoMore, SentToAll, Push, TypeOK, Told
<1>5. ASSUME NEW c \in Conn, NEW d \in Conn, SendToFails(c, d) PROVE Kept
  BY <1>5 DEF SendToFails, TypeOK, Told
<1>6. ASSUME NEW c \in Conn, NEW d \in Conn, SendTo(c, d)
      PROVE  inbox'[e][Done] <= Cardinality(Told(e)')
  <2>1. /\ push' = push /\ d \in todo[c] /\ todo' = [todo EXCEPT ![c] = @ \ {d}]
        /\ inbox' = [inbox EXCEPT ![d][item[c]] = @ + 1]
    BY <1>6 DEF SendTo
  <2>2. CASE e = d /\ push[c] = "done"
    <3>1. item[c] = Done /\ inbox'[e][Done] = inbox[e][Done] + 1
      BY <2>1, <2>2, UiAssumption DEF InHand, Done
    <3>2. c \in Told(e)' /\ c \notin Told(e) /\ Told(e) \subseteq Told(e)'
      BY <2>1, <2>2 DEF Told, TypeOK
    <3>3. Cardinality(Told(e) \cup {c}) = Cardinality(Told(e)) + 1
      BY <3>2, ToldFinite, FS_AddElement
    <3>4. IsFiniteSet(Told(e)')
      BY UiAssumption, FS_Subset DEF Told
    <3>5. Cardinality(Told(e) \cup {c}) <= Cardinality(Told(e)')
      BY <3>2, <3>4, FS_Subset
    <3>6. Cardinality(Told(e)') \in Nat
      BY <3>4, FS_CardinalityType
    <3> QED
      BY <1>1, <3>1, <3>3, <3>5, <3>6
  <2>3. CASE push[c] = "send"
    <3>1. item[c] \in 1 .. drawn /\ item[c] \in 0 .. Results /\ item[c] # Done
      BY <2>3 DEF InHand, TypeOK, Done
    <3>2. inbox'[e][Done] = inbox[e][Done]
      BY <2>1, <3>1, UiAssumption DEF InHand, Done
    <3>3. Told(e) \subseteq Told(e)'
      BY <2>1 DEF Told, TypeOK
    <3> QED
      BY <1>2, <3>2, <3>3
  <2>4. CASE e # d
    <3>1. inbox'[e] = inbox[e] /\ Told(e) \subseteq Told(e)'
      BY <2>1, <2>4 DEF Told, TypeOK, InHand
    <3> QED
      BY <1>2, <3>1
  <2> QED
    BY <1>6, <2>2, <2>3, <2>4 DEF SendTo
<1>7. CASE UNCHANGED pushVars
  BY <1>2, <1>7 DEF pushVars, Told
<1> QED
  BY <1>2, <1>3, <1>4, <1>5, <1>6, <1>7, PushStepsOnly DEF PushStep

-----------------------------------------------------------------------------
(* The invariant, and what follows from it *)

LEMMA InitIInv == Init => IInv
<1> SUFFICES ASSUME Init PROVE IInv
  OBVIOUS
<1> USE UiAssumption DEF Init, Done
<1>1. TypeOK
  <2>1. 0 \in 0 .. Results /\ 0 \in Nat
    OBVIOUS
  <2> QED
    BY <2>1 DEF TypeOK, Born
<1>4. Opened /\ ForgottenOnReconnect
  BY DEF Opened, ForgottenOnReconnect
<1>5. InHand /\ SentOnce
  BY DEF InHand, SentOnce
<1>2. HistoryInOrder
  BY DEF Init, HistoryInOrder
<1>3. EndsCounted
  BY ToldFinite DEF EndsCounted
<1> QED
  BY <1>1, <1>2, <1>3, <1>4, <1>5 DEF IInv

LEMMA InvariantIInv == Spec => []IInv
<1>1. IInv /\ [Next]_vars => IInv'
  BY NextTypeOK, NextOpened, NextForgotten, NextHistory, NextInHand,
     NextSentOnce, NextEndsCounted DEF IInv
<1> QED
  BY InitIInv, <1>1, PTL DEF Spec

(* Whatever the requests of the browsers, the server's state keeps its     *)
(* types.                                                                  *)
THEOREM TypeCorrect == Spec => []TypeOK
<1>1. IInv => TypeOK
  BY DEF IInv
<1> QED
  BY <1>1, InvariantIInv, PTL

(* The tasks of any number of connections store the results in order, and  *)
(* none of them is pushed twice to anybody (push_result).                  *)
THEOREM ResultsPushedOnce == Spec => []ResultsOnce
<1>1. ASSUME IInv PROVE EachResultOnce
  <2>1. Range(history) = 1 .. drawn
    BY <1>1 DEF IInv, HistoryInOrder, Range
  <2>2. \A c \in Conn, n \in 1 .. Results :
          inbox[c][n] <= (IF n \in Range(history) THEN 1 ELSE 0)
    BY <1>1, <2>1, UiAssumption DEF IInv, SentOnce, TypeOK, InHand
  <2>3. ASSUME NEW c \in Conn PROVE inbox[c][Done] <= Cardinality(Born)
    <3>1. Told(c) \subseteq Born
      BY <1>1 DEF IInv, Opened, Told, Born
    <3>2. IsFiniteSet(Born)
      BY UiAssumption, FS_Subset DEF Born
    <3>3. Cardinality(Told(c)) <= Cardinality(Born) /\ Cardinality(Born) \in Nat
      BY <3>1, <3>2, FS_Subset, FS_CardinalityType
    <3>4. inbox[c][Done] <= Cardinality(Told(c)) /\ inbox[c][Done] \in Nat
      BY <1>1, UiAssumption DEF IInv, EndsCounted, InHand, Done
    <3> QED
      BY <3>3, <3>4, ToldFinite
  <2> QED
    BY <2>2, <2>3 DEF EachResultOnce
<1>2. IInv => HistoryInOrder
  BY DEF IInv
<1> QED
  BY <1>1, <1>2, InvariantIInv, PTL DEF ResultsOnce

(* Only the coming and going of one client can take an open connection     *)
(* from the pool (websocket_handler, push_result, check_heartbeat).        *)
THEOREM OnlyReconnectForgets == Spec => []ForgottenOnReconnect
<1>1. IInv => ForgottenOnReconnect
  BY DEF IInv
<1> QED
  BY <1>1, InvariantIInv, PTL

-----------------------------------------------------------------------------
(* The object of the Python program *)

Busy(s) == stopAt[s] \notin {"uncalled", "returned"}
Latest(r) == runAt[r] = "returned" /\ \A q \in Runs : q > r => runAt[q] # "returned"

(* Runs are called in turn; a stop() is alone with itself. *)
InTurn == \A r, q \in Runs : q < r /\ runAt[r] # "uncalled" => runAt[q] = "returned"
Alone ==
  \A s \in Stops : Busy(s) =>
    /\ \A r \in Runs : runAt[r] \in {"uncalled", "returned"}
    /\ \A t \in Stops : Busy(t) => t = s

(* Whose task, handle and stream there are. *)
Spawned ==
  /\ \A r \in Runs : task[r] # "unborn" <=> runAt[r] \in {"storing", "returned"}
  /\ \A r \in aborted : runAt[r] = "returned"
  /\ stream # 0 => task[stream] = "over"
Handled ==
  /\ handle # 0 => Latest(handle)
  /\ handle = 0 => \A r \in Runs : Latest(r) => r \in aborted
  /\ \A s \in Stops : stopAt[s] \in {"pausing", "clearing", "marking"} => handle = 0

(* How far a stop() has come with the task of the latest run. *)
Aborting ==
  /\ (\A s \in Stops : stopAt[s] # "pausing") => \A r \in aborted : task[r] = "over"
  /\ \A s \in Stops : stopAt[s] \in {"clearing", "marking"} =>
       \A r \in Runs : Latest(r) =>
         task[r] = "over" /\ (stopAt[s] = "marking" => stream # r)
Gone ==
  /\ \A r \in stopped : runAt[r] = "returned"
  /\ \A r \in stopped : (\A q \in stopped : q <= r) => task[r] = "over" /\ stream # r

(* Who has been told. *)
FlagsTold ==
  /\ \A s \in Stops : Busy(s) => shouldStop
  /\ \A s \in Stops : Busy(s) /\ stopAt[s] # "flagging" => engineStop
  /\ \A r \in stopped : (\A q \in Runs : q > r => runAt[q] = "uncalled") => engineStop

Reading ==
  /\ reader \in {"waiting", "syncLocked", "syncWaiting"} => stream # 0
  /\ reader # "idle" => \E r \in Runs : runAt[r] = "returned"
First(r) == (\A q \in Runs : r <= q) /\ (\A q \in Runs : q > r => runAt[q] = "uncalled")
Fresh ==
  \A r \in Runs :
    First(r) /\ runAt[r] \in {"storing", "returned"} /\ r \notin ended /\ ~shouldStop
      => ~isDone /\ reader # "ending"

RunnerInv ==
  /\ RunnerTypeOK /\ InTurn /\ Alone /\ Spawned /\ Handled /\ Aborting /\ Gone /\ FlagsTold
  /\ Reading /\ Fresh

(* What the iteration can change. *)
LEMMA Iteration ==
  ASSUME AsyncNext \/ SyncNext, RunnerTypeOK, Reading
  PROVE  /\ UNCHANGED <<shouldStop, engineStop, handle, runVars, stopVars>>
         /\ stream' = stream \/ stream' = 0
         /\ \E r \in Runs : runAt[r] = "returned"
         /\ reader' \in {"waiting", "syncLocked", "syncWaiting"} => stream' # 0
         /\ ended' \in SUBSET Runs /\ ended \subseteq ended'
         /\ isDone' \in BOOLEAN
         /\ reader' \in {"idle", "checked", "waiting", "ending", "syncLocked", "syncWaiting"}
         /\ given' \in {"nothing", "data", "should_wait", "empty", "done"}
         /\ ~shouldStop /\ ~isDone /\ reader # "ending" /\ stream \notin ended'
              => ~isDone' /\ reader' # "ending"
<1>1. CASE NextCheck
  BY <1>1 DEF NextCheck, Read, RunnerTypeOK, Reading, runVars, stopVars, flags
<1>2. CASE EndNext
  BY <1>2 DEF EndNext, Read, RunnerTypeOK, Reading, runVars, stopVars
<1>3. CASE LockStream
  BY <1>3 DEF LockStream, Read, StreamFree, RunnerTypeOK, Reading, runVars, stopVars, flags
<1>4. CASE Item
  BY <1>4 DEF Item, Read, RunnerTypeOK, Reading, runVars, stopVars, flags
<1>5. CASE EndMark
  BY <1>5 DEF EndMark, Read, RunnerTypeOK, Reading, runVars, stopVars, flags
<1>6. CASE Closed
  BY <1>6 DEF Closed, Read, RunnerTypeOK, Reading, runVars, stopVars, flags
<1>7. CASE SyncStopped
  BY <1>7 DEF SyncStopped, Read, StreamFree, RunnerTypeOK, Reading, runVars, stopVars
<1>8. CASE SyncDone
  BY <1>8 DEF SyncDone, Read, RunnerTypeOK, Reading, runVars, stopVars, flags
<1>9. CASE SyncLock
  BY <1>9 DEF SyncLock, Read, StreamFree, RunnerTypeOK, Reading, runVars, stopVars, flags
<1>10. CASE SyncPoll
  <2>1. /\ UNCHANGED <<shouldStop, engineStop, handle, stream, runVars, ended, stopVars>>
        /\ reader' \in {"idle", "syncWaiting"} /\ given' \in {"done", given}
        /\ reader = "syncLocked" /\ \E r \in Runs : runAt[r] = "returned"
    BY <1>10 DEF SyncPoll, Read
  <2>2. isDone' = TRUE \/ isDone' = isDone
    BY <1>10 DEF SyncPoll
  <2>3. ~shouldStop => isDone' = isDone
    BY <1>10 DEF SyncPoll
  <2>4. isDone' \in BOOLEAN
    BY <2>2 DEF RunnerTypeOK
  <2> QED
    BY <2>1, <2>3, <2>4 DEF RunnerTypeOK, Reading
<1>11. CASE SyncItem
  BY <1>11 DEF SyncItem, Read, RunnerTypeOK, Reading, runVars, stopVars, flags
<1>12. CASE SyncEndMark
  BY <1>12 DEF SyncEndMark, Read, RunnerTypeOK, Reading, runVars, stopVars
<1>13. CASE SyncClosed
  BY <1>13 DEF SyncClosed, Read, RunnerTypeOK, Reading, runVars, stopVars
<1> QED
  BY <1>1, <1>2, <1>3, <1>4, <1>5, <1>6, <1>7, <1>8, <1>9, <1>10, <1>11, <1>12, <1>13
     DEF AsyncNext, SyncNext

(* Types, and the parts of the invariant one by one. *)
LEMMA TypesKept ==
  ASSUME RunnerTypeOK, Reading, RunnerNext \/ UNCHANGED runnerVars
  PROVE  RunnerTypeOK'
<1>1. ASSUME NEW r \in Runs, CallRun(r) PROVE RunnerTypeOK'
  BY <1>1 DEF CallRun, RunStep, CallerFree, flags, readVars, stopVars, RunnerTypeOK
<1>2. ASSUME NEW r \in Runs, ResetStop(r) PROVE RunnerTypeOK'
  BY <1>2 DEF ResetStop, RunStep, readVars, stopVars, RunnerTypeOK
<1>3. ASSUME NEW r \in Runs, ResetEngine(r) PROVE RunnerTypeOK'
  BY <1>3 DEF ResetEngine, RunStep, readVars, stopVars, RunnerTypeOK
<1>4. ASSUME NEW r \in Runs, ResetDone(r) PROVE RunnerTypeOK'
  BY <1>4 DEF ResetDone, RunStep, readVars, stopVars, RunnerTypeOK
<1>5. ASSUME NEW r \in Runs, StoreHandle(r) PROVE RunnerTypeOK'
  BY <1>5 DEF StoreHandle, RunStep, HandleFree, flags, readVars, stopVars, RunnerTypeOK
<1>6. ASSUME NEW r \in Runs, Launch(r) PROVE RunnerTypeOK'
  BY <1>6 DEF Launch, flags, readVars, stopVars, RunnerTypeOK
<1>7. ASSUME NEW r \in Runs, StoreStream(r) PROVE RunnerTypeOK'
  BY <1>7 DEF StoreStream, StreamFree, flags, readVars, stopVars, RunnerTypeOK
<1>8. ASSUME NEW r \in Runs, Abandon(r) PROVE RunnerTypeOK'
  BY <1>8 DEF Abandon, flags, readVars, stopVars, RunnerTypeOK
<1>9. ASSUME NEW r \in Runs, TestOver(r) PROVE RunnerTypeOK'
  BY <1>9 DEF TestOver, flags, readVars, stopVars, RunnerTypeOK
<1>10. ASSUME NEW s \in Stops, CallStop(s) PROVE RunnerTypeOK'
  BY <1>10 DEF CallStop, StopStep, CallerFree, runVars, readVars, RunnerTypeOK
<1>11. ASSUME NEW s \in Stops, FlagEngine(s) PROVE RunnerTypeOK'
  BY <1>11 DEF FlagEngine, StopStep, runVars, readVars, RunnerTypeOK
<1>12. ASSUME NEW s \in Stops, TakeHandle(s) PROVE RunnerTypeOK'
  BY <1>12 DEF TakeHandle, StopStep, HandleFree, flags, readVars, RunnerTypeOK
<1>13. ASSUME NEW s \in Stops, Pause(s) PROVE RunnerTypeOK'
  BY <1>13 DEF Pause, StopStep, flags, runVars, readVars, RunnerTypeOK
<1>14. ASSUME NEW s \in Stops, ClearStream(s) PROVE RunnerTypeOK'
  BY <1>14 DEF ClearStream, StopStep, StreamFree, flags, runVars, readVars, RunnerTypeOK
<1>15. ASSUME NEW s \in Stops, MarkDone(s) PROVE RunnerTypeOK'
  BY <1>15 DEF MarkDone, StopStep, runVars, readVars, RunnerTypeOK
<1>16. CASE AsyncNext \/ SyncNext
  BY <1>16, Iteration DEF runVars, stopVars, RunnerTypeOK
<1>17. CASE UNCHANGED runnerVars
  BY <1>17 DEF runnerVars, flags, runVars, readVars, stopVars, RunnerTypeOK
<1> QED
  BY <1>1, <1>2, <1>3, <1>4, <1>5, <1>6, <1>7, <1>8, <1>9, <1>10, <1>11, <1>12, <1>13, <1>14,
     <1>15, <1>16, <1>17 DEF RunnerNext, RunFuture, Task, StopFuture

LEMMA InTurnKept ==
  ASSUME RunnerTypeOK, InTurn, Alone, Reading, RunnerNext \/ UNCHANGED runnerVars
  PROVE  InTurn'
<1>1. ASSUME NEW r \in Runs, CallRun(r) PROVE InTurn'
  BY <1>1 DEF CallRun, RunStep, CallerFree, flags, readVars, stopVars, InTurn
<1>2. ASSUME NEW r \in Runs, ResetStop(r) PROVE InTurn'
  BY <1>2 DEF ResetStop, RunStep, readVars, stopVars, InTurn
<1>3. ASSUME NEW r \in Runs, ResetEngine(r) PROVE InTurn'
  BY <1>3 DEF ResetEngine, RunStep, readVars, stopVars, InTurn
<1>4. ASSUME NEW r \in Runs, ResetDone(r) PROVE InTurn'
  BY <1>4 DEF ResetDone, RunStep, readVars, stopVars, InTurn
<1>5. ASSUME NEW r \in Runs, StoreHandle(r) PROVE InTurn'
  BY <1>5 DEF StoreHandle, RunStep, HandleFree, flags, readVars, stopVars, InTurn
<1>6. CASE AsyncNext \/ SyncNext
  BY <1>6, Iteration DEF runVars, stopVars, InTurn, RunnerTypeOK
<1>7. CASE UNCHANGED runAt
  BY <1>7 DEF InTurn
<1> QED
  BY <1>1, <1>2, <1>3, <1>4, <1>5, <1>6, <1>7 DEF RunnerNext, RunFuture, Task, StopFuture, Launch,
         StoreStream, Abandon, TestOver, CallStop, FlagEngine, TakeHandle, Pause, ClearStream,
         MarkDone, runnerVars, StopStep, flags, runVars, readVars, stopVars

LEMMA AloneKept ==
  ASSUME RunnerTypeOK, Alone, Reading, RunnerNext \/ UNCHANGED runnerVars
  PROVE  Alone'
<1>1. ASSUME NEW r \in Runs, CallRun(r) PROVE Alone'
  BY <1>1 DEF CallRun, RunStep, CallerFree, flags, readVars, stopVars, Alone, Busy
<1>2. ASSUME NEW r \in Runs, ResetStop(r) PROVE Alone'
  BY <1>2 DEF ResetStop, RunStep, readVars, stopVars, Alone, Busy
<1>3. ASSUME NEW r \in Runs, ResetEngine(r) PROVE Alone'
  BY <1>3 DEF ResetEngine, RunStep, readVars, stopVars, Alone, Busy
<1>4. ASSUME NEW r \in Runs, ResetDone(r) PROVE Alone'
  BY <1>4 DEF ResetDone, RunStep, readVars, stopVars, Alone, Busy
<1>5. ASSUME NEW r \in Runs, StoreHandle(r) PROVE Alone'
  BY <1>5 DEF StoreHandle, RunStep, HandleFree, flags, readVars, stopVars, Alone, Busy
<1>6. ASSUME NEW s \in Stops, CallStop(s) PROVE Alone'
  BY <1>6 DEF CallStop, StopStep, CallerFree, runVars, readVars, Alone, Busy
<1>7. ASSUME NEW s \in Stops, FlagEngine(s) PROVE Alone'
  BY <1>7 DEF FlagEngine, StopStep, runVars, readVars, Alone, Busy
<1>8. ASSUME NEW s \in Stops, TakeHandle(s) PROVE Alone'
  BY <1>8 DEF TakeHandle, StopStep, HandleFree, flags, readVars, Alone, Busy, RunnerTypeOK
<1>9. ASSUME NEW s \in Stops, Pause(s) PROVE Alone'
  BY <1>9 DEF Pause, StopStep, flags, runVars, readVars, Alone, Busy
<1>10. ASSUME NEW s \in Stops, ClearStream(s) PROVE Alone'
  BY <1>10 DEF ClearStream, StopStep, StreamFree, flags, runVars, readVars, Alone, Busy
<1>11. ASSUME NEW s \in Stops, MarkDone(s) PROVE Alone'
  BY <1>11 DEF MarkDone, StopStep, runVars, readVars, Alone, Busy
<1>12. CASE AsyncNext \/ SyncNext
  BY <1>12, Iteration DEF runVars, stopVars, Alone, Busy, RunnerTypeOK
<1>13. CASE UNCHANGED <<runAt, stopAt>>
  BY <1>13 DEF Alone, Busy
<1> QED
  BY <1>1, <1>2, <1>3, <1>4, <1>5, <1>6, <1>7, <1>8, <1>9, <1>10, <1>11, <1>12, <1>13
     DEF RunnerNext, RunFuture, Task, StopFuture, Launch, StoreStream, Abandon, TestOver,
         runnerVars, flags, runVars, readVars, stopVars

LEMMA SpawnedKept ==
  ASSUME RunnerTypeOK, InTurn, Alone, Spawned, Handled, Reading, RunnerNext \/ UNCHANGED runnerVars
  PROVE  Spawned'
<1>1. ASSUME NEW r \in Runs, CallRun(r) PROVE Spawned'
  BY <1>1 DEF CallRun, RunStep, CallerFree, flags, readVars, stopVars, Spawned
<1>2. ASSUME NEW r \in Runs, ResetStop(r) PROVE Spawned'
  BY <1>2 DEF ResetStop, RunStep, readVars, stopVars, Spawned
<1>3. ASSUME NEW r \in Runs, ResetEngine(r) PROVE Spawned'
  BY <1>3 DEF ResetEngine, RunStep, readVars, stopVars, Spawned
<1>4. ASSUME NEW r \in Runs, ResetDone(r) PROVE Spawned'
  BY <1>4 DEF ResetDone, RunStep, readVars, stopVars, Spawned, RunnerTypeOK
<1>5. ASSUME NEW r \in Runs, StoreHandle(r) PROVE Spawned'
  BY <1>5 DEF StoreHandle, RunStep, HandleFree, flags, readVars, stopVars, Spawned
<1>6. ASSUME NEW r \in Runs, Launch(r) PROVE Spawned'
  BY <1>6 DEF Launch, flags, readVars, stopVars, Spawned
<1>7. ASSUME NEW r \in Runs, StoreStream(r) PROVE Spawned'
  BY <1>7 DEF StoreStream, StreamFree, flags, readVars, stopVars, Spawned, RunnerTypeOK
<1>8. ASSUME NEW r \in Runs, Abandon(r) PROVE Spawned'
  BY <1>8 DEF Abandon, flags, readVars, stopVars, Spawned
<1>9. ASSUME NEW s \in Stops, TakeHandle(s) PROVE Spawned'
  BY <1>9 DEF TakeHandle, StopStep, HandleFree, flags, readVars, Spawned, Handled, Latest
<1>10. ASSUME NEW s \in Stops, ClearStream(s) PROVE Spawned'
  BY <1>10 DEF ClearStream, StopStep, StreamFree, flags, runVars, readVars, Spawned
<1>11. CASE AsyncNext \/ SyncNext
  BY <1>11, Iteration DEF runVars, stopVars, Spawned, RunnerTypeOK, Handled, Latest
<1>12. CASE UNCHANGED <<runAt, task, aborted, stream>>
  BY <1>12 DEF Spawned
<1> QED
  BY <1>1, <1>2, <1>3, <1>4, <1>5, <1>6, <1>7, <1>8, <1>9, <1>10, <1>11, <1>12 DEF RunnerNext,
         RunFuture, Task, StopFuture, TestOver, CallStop, FlagEngine, Pause, MarkDone, runnerVars,
         StopStep, flags, runVars, readVars, stopVars

LEMMA HandledKept ==
  ASSUME RunnerTypeOK, InTurn, Alone, Handled, Reading, RunnerNext \/ UNCHANGED runnerVars
  PROVE  Handled'
<1>1. ASSUME NEW r \in Runs, CallRun(r) PROVE Handled'
  BY <1>1 DEF CallRun, RunStep, CallerFree, flags, readVars, stopVars, Handled, Latest
<1>2. ASSUME NEW r \in Runs, ResetStop(r) PROVE Handled'
  BY <1>2 DEF ResetStop, RunStep, readVars, stopVars, Handled, Latest
<1>3. ASSUME NEW r \in Runs, ResetEngine(r) PROVE Handled'
  BY <1>3 DEF ResetEngine, RunStep, readVars, stopVars, Handled, Latest
<1>4. ASSUME NEW r \in Runs, ResetDone(r) PROVE Handled'
  BY <1>4 DEF ResetDone, RunStep, readVars, stopVars, Handled, Latest
<1>5. ASSUME NEW r \in Runs, StoreHandle(r) PROVE Handled'
  BY <1>5, RunnerAssumption DEF StoreHandle, RunStep, HandleFree, flags, readVars, stopVars,
         Handled, Latest, InTurn, RunnerTypeOK
<1>6. ASSUME NEW s \in Stops, CallStop(s) PROVE Handled'
  BY <1>6 DEF CallStop, StopStep, CallerFree, runVars, readVars, Handled, Latest
<1>7. ASSUME NEW s \in Stops, FlagEngine(s) PROVE Handled'
  BY <1>7 DEF FlagEngine, StopStep, runVars, readVars, Handled, Latest
<1>8. ASSUME NEW s \in Stops, TakeHandle(s) PROVE Handled'
  BY <1>8, RunnerAssumption DEF TakeHandle, StopStep, HandleFree, flags, readVars, Handled, Latest,
         RunnerTypeOK
<1>9. ASSUME NEW s \in Stops, Pause(s) PROVE Handled'
  BY <1>9 DEF Pause, StopStep, flags, runVars, readVars, Handled, Latest
<1>10. ASSUME NEW s \in Stops, ClearStream(s) PROVE Handled'
  BY <1>10 DEF ClearStream, StopStep, StreamFree, flags, runVars, readVars, Handled, Latest
<1>11. ASSUME NEW s \in Stops, MarkDone(s) PROVE Handled'
  BY <1>11 DEF MarkDone, StopStep, runVars, readVars, Handled, Latest
<1>12. CASE AsyncNext \/ SyncNext
  BY <1>12, Iteration DEF runVars, stopVars, Handled, Latest, Alone, Busy, InTurn, RunnerTypeOK
<1>13. CASE UNCHANGED <<handle, runAt, aborted, stopAt>>
  BY <1>13 DEF Handled, Latest
<1> QED
  BY <1>1, <1>2, <1>3, <1>4, <1>5, <1>6, <1>7, <1>8, <1>9, <1>10, <1>11, <1>12, <1>13
     DEF RunnerNext, RunFuture, Task, StopFuture, Launch, StoreStream, Abandon, TestOver,
         runnerVars, flags, runVars, readVars, stopVars

LEMMA AbortingKept ==
  ASSUME RunnerTypeOK, InTurn, Alone, Spawned, Handled, Aborting, Reading,
         RunnerNext \/ UNCHANGED runnerVars
  PROVE  Aborting'
<1>1. ASSUME NEW r \in Runs, CallRun(r) PROVE Aborting'
  BY <1>1 DEF CallRun, RunStep, CallerFree, flags, readVars, stopVars, Aborting, Latest
<1>2. ASSUME NEW r \in Runs, ResetStop(r) PROVE Aborting'
  BY <1>2 DEF ResetStop, RunStep, readVars, stopVars, Aborting, Latest
<1>3. ASSUME NEW r \in Runs, ResetEngine(r) PROVE Aborting'
  BY <1>3 DEF ResetEngine, RunStep, readVars, stopVars, Aborting, Latest
<1>4. ASSUME NEW r \in Runs, ResetDone(r) PROVE Aborting'
  BY <1>4 DEF ResetDone, RunStep, readVars, stopVars, Aborting, Alone, Busy, Spawned
<1>5. ASSUME NEW r \in Runs, StoreHandle(r) PROVE Aborting'
  BY <1>5 DEF StoreHandle, RunStep, HandleFree, flags, readVars, stopVars, Aborting, Latest
<1>6. ASSUME NEW r \in Runs, Launch(r) PROVE Aborting'
  BY <1>6 DEF Launch, flags, readVars, stopVars, Aborting, Latest
<1>7. ASSUME NEW r \in Runs, StoreStream(r) PROVE Aborting'
  BY <1>7 DEF StoreStream, StreamFree, flags, readVars, stopVars, Aborting, Latest
<1>8. ASSUME NEW r \in Runs, Abandon(r) PROVE Aborting'
  BY <1>8 DEF Abandon, flags, readVars, stopVars, Aborting, Latest
<1>9. ASSUME NEW s \in Stops, CallStop(s) PROVE Aborting'
  BY <1>9 DEF CallStop, StopStep, CallerFree, runVars, readVars, Aborting, Latest
<1>10. ASSUME NEW s \in Stops, FlagEngine(s) PROVE Aborting'
  BY <1>10 DEF FlagEngine, StopStep, runVars, readVars, Aborting, Latest
<1>11. ASSUME NEW s \in Stops, TakeHandle(s) PROVE Aborting'
  BY <1>11 DEF TakeHandle, StopStep, HandleFree, flags, readVars, Aborting, Handled, Latest, Alone,
         Busy, RunnerTypeOK
<1>12. ASSUME NEW s \in Stops, Pause(s) PROVE Aborting'
  BY <1>12 DEF Pause, StopStep, flags, runVars, readVars, Aborting, Handled, Latest
<1>13. ASSUME NEW s \in Stops, ClearStream(s) PROVE Aborting'
  BY <1>13, RunnerAssumption DEF ClearStream, StopStep, StreamFree, flags, runVars, readVars,
         Aborting, Latest, RunnerTypeOK
<1>14. ASSUME NEW s \in Stops, MarkDone(s) PROVE Aborting'
  BY <1>14 DEF MarkDone, StopStep, runVars, readVars, Aborting, Latest
<1>15. CASE AsyncNext \/ SyncNext
  <2>1. /\ UNCHANGED <<runAt, task, aborted, stopAt>> /\ (stream' = stream \/ stream' = 0)
    BY <1>15, Iteration DEF runVars, stopVars
  <2>2. \A r \in Runs : r # 0
    BY RunnerAssumption
  <2> QED
    BY <2>1, <2>2 DEF Aborting, Latest
<1>16. CASE UNCHANGED <<stopAt, aborted, task, runAt, stream>>
  BY <1>16 DEF Aborting, Latest
<1> QED
  BY <1>1, <1>2, <1>3, <1>4, <1>5, <1>6, <1>7, <1>8, <1>9, <1>10, <1>11, <1>12, <1>13, <1>14,
     <1>15, <1>16 DEF RunnerNext, RunFuture, Task, StopFuture, TestOver, runnerVars, flags,
         runVars, readVars, stopVars

LEMMA GoneKept ==
  ASSUME RunnerTypeOK, Alone, Spawned, Aborting, Gone, Reading, RunnerNext \/ UNCHANGED runnerVars
  PROVE  Gone'
<1>1. ASSUME NEW r \in Runs, CallRun(r) PROVE Gone'
  BY <1>1 DEF CallRun, RunStep, CallerFree, flags, readVars, stopVars, Gone
<1>2. ASSUME NEW r \in Runs, ResetStop(r) PROVE Gone'
  BY <1>2 DEF ResetStop, RunStep, readVars, stopVars, Gone
<1>3. ASSUME NEW r \in Runs, ResetEngine(r) PROVE Gone'
  BY <1>3 DEF ResetEngine, RunStep, readVars, stopVars, Gone
<1>4. ASSUME NEW r \in Runs, ResetDone(r) PROVE Gone'
  BY <1>4 DEF ResetDone, RunStep, readVars, stopVars, Gone
<1>5. ASSUME NEW r \in Runs, StoreHandle(r) PROVE Gone'
  BY <1>5 DEF StoreHandle, RunStep, HandleFree, flags, readVars, stopVars, Gone
<1>6. ASSUME NEW r \in Runs, Launch(r) PROVE Gone'
  BY <1>6 DEF Launch, flags, readVars, stopVars, Gone
<1>7. ASSUME NEW r \in Runs, StoreStream(r) PROVE Gone'
  BY <1>7 DEF StoreStream, StreamFree, flags, readVars, stopVars, Gone
<1>8. ASSUME NEW r \in Runs, Abandon(r) PROVE Gone'
  BY <1>8 DEF Abandon, flags, readVars, stopVars, Gone
<1>9. ASSUME NEW s \in Stops, ClearStream(s) PROVE Gone'
  BY <1>9, RunnerAssumption DEF ClearStream, StopStep, StreamFree, flags, runVars, readVars, Gone,
         RunnerTypeOK
<1>10. ASSUME NEW s \in Stops, MarkDone(s) PROVE Gone'
  BY <1>10, RunnerAssumption DEF MarkDone, StopStep, runVars, readVars, Gone, Aborting, Latest,
         RunnerTypeOK
<1>11. CASE AsyncNext \/ SyncNext
  <2>1. /\ UNCHANGED <<runAt, task, stopped>> /\ (stream' = stream \/ stream' = 0)
    BY <1>11, Iteration DEF runVars, stopVars
  <2>2. \A r \in Runs : r # 0
    BY RunnerAssumption
  <2> QED
    BY <2>1, <2>2 DEF Gone, RunnerTypeOK
<1>12. CASE UNCHANGED <<stopped, runAt, task, stream>>
  BY <1>12 DEF Gone
<1> QED
  BY <1>1, <1>2, <1>3, <1>4, <1>5, <1>6, <1>7, <1>8, <1>9, <1>10, <1>11, <1>12 DEF RunnerNext,
         RunFuture, Task, StopFuture, TestOver, CallStop, FlagEngine, TakeHandle, Pause,
         runnerVars, StopStep, flags, runVars, readVars, stopVars

LEMMA FlagsToldKept ==
  ASSUME RunnerTypeOK, InTurn, Alone, Gone, FlagsTold, Reading, RunnerNext \/ UNCHANGED runnerVars
  PROVE  FlagsTold'
<1>1. ASSUME NEW r \in Runs, CallRun(r) PROVE FlagsTold'
  BY <1>1 DEF CallRun, RunStep, CallerFree, flags, readVars, stopVars, FlagsTold, Busy
<1>2. ASSUME NEW r \in Runs, ResetStop(r) PROVE FlagsTold'
  BY <1>2, RunnerAssumption DEF ResetStop, RunStep, readVars, stopVars, FlagsTold, Busy,
         RunnerTypeOK, Alone
<1>3. ASSUME NEW r \in Runs, ResetEngine(r) PROVE FlagsTold'
  BY <1>3, RunnerAssumption DEF ResetEngine, RunStep, readVars, stopVars, FlagsTold, Gone, Alone,
         InTurn, Busy, RunnerTypeOK
<1>4. ASSUME NEW r \in Runs, ResetDone(r) PROVE FlagsTold'
  BY <1>4 DEF ResetDone, RunStep, readVars, stopVars, FlagsTold, Busy
<1>5. ASSUME NEW r \in Runs, StoreHandle(r) PROVE FlagsTold'
  BY <1>5 DEF StoreHandle, RunStep, HandleFree, flags, readVars, stopVars, FlagsTold, Busy
<1>6. ASSUME NEW s \in Stops, CallStop(s) PROVE FlagsTold'
  BY <1>6 DEF CallStop, StopStep, CallerFree, runVars, readVars, FlagsTold, Busy
<1>7. ASSUME NEW s \in Stops, FlagEngine(s) PROVE FlagsTold'
  BY <1>7 DEF FlagEngine, StopStep, runVars, readVars, FlagsTold, Busy
<1>8. ASSUME NEW s \in Stops, TakeHandle(s) PROVE FlagsTold'
  BY <1>8 DEF TakeHandle, StopStep, HandleFree, flags, readVars, FlagsTold, Busy
<1>9. ASSUME NEW s \in Stops, Pause(s) PROVE FlagsTold'
  BY <1>9 DEF Pause, StopStep, flags, runVars, readVars, FlagsTold, Busy
<1>10. ASSUME NEW s \in Stops, ClearStream(s) PROVE FlagsTold'
  BY <1>10 DEF ClearStream, StopStep, StreamFree, flags, runVars, readVars, FlagsTold, Busy
<1>11. ASSUME NEW s \in Stops, MarkDone(s) PROVE FlagsTold'
  BY <1>11 DEF MarkDone, StopStep, runVars, readVars, FlagsTold, Busy
<1>12. CASE AsyncNext \/ SyncNext
  BY <1>12, Iteration DEF runVars, stopVars, FlagsTold, Gone, Alone, InTurn, Busy, RunnerTypeOK
<1>13. CASE UNCHANGED <<stopAt, shouldStop, engineStop, stopped, runAt>>
  BY <1>13 DEF FlagsTold, Busy
<1> QED
  BY <1>1, <1>2, <1>3, <1>4, <1>5, <1>6, <1>7, <1>8, <1>9, <1>10, <1>11, <1>12, <1>13
     DEF RunnerNext, RunFuture, Task, StopFuture, Launch, StoreStream, Abandon, TestOver,
         runnerVars, flags, runVars, readVars, stopVars

LEMMA ReadingKept ==
  ASSUME RunnerTypeOK, Alone, Reading, RunnerNext \/ UNCHANGED runnerVars
  PROVE  Reading'
<1>1. ASSUME NEW r \in Runs, CallRun(r) PROVE Reading'
  BY <1>1 DEF CallRun, RunStep, CallerFree, flags, readVars, stopVars, Reading
<1>2. ASSUME NEW r \in Runs, ResetStop(r) PROVE Reading'
  BY <1>2 DEF ResetStop, RunStep, readVars, stopVars, Reading
<1>3. ASSUME NEW r \in Runs, ResetEngine(r) PROVE Reading'
  BY <1>3 DEF ResetEngine, RunStep, readVars, stopVars, Reading
<1>4. ASSUME NEW r \in Runs, ResetDone(r) PROVE Reading'
  BY <1>4 DEF ResetDone, RunStep, readVars, stopVars, Reading
<1>5. ASSUME NEW r \in Runs, StoreHandle(r) PROVE Reading'
  BY <1>5 DEF StoreHandle, RunStep, HandleFree, flags, readVars, stopVars, Reading
<1>6. ASSUME NEW r \in Runs, StoreStream(r) PROVE Reading'
  BY <1>6 DEF StoreStream, StreamFree, flags, readVars, stopVars, Reading
<1>7. ASSUME NEW s \in Stops, ClearStream(s) PROVE Reading'
  BY <1>7 DEF ClearStream, StopStep, StreamFree, flags, runVars, readVars, Reading
<1>8. CASE AsyncNext \/ SyncNext
  BY <1>8, Iteration DEF runVars, stopVars, Reading, RunnerTypeOK
<1>9. CASE UNCHANGED <<reader, stream, runAt>>
  BY <1>9 DEF Reading
<1> QED
  BY <1>1, <1>2, <1>3, <1>4, <1>5, <1>6, <1>7, <1>8, <1>9 DEF RunnerNext, RunFuture, Task,
         StopFuture, Launch, Abandon, TestOver, CallStop, FlagEngine, TakeHandle, Pause, MarkDone,
         runnerVars, StopStep, flags, runVars, readVars, stopVars

LEMMA FreshKept ==
  ASSUME RunnerTypeOK, InTurn, Alone, Spawned, FlagsTold, Reading, Fresh,
         RunnerNext \/ UNCHANGED runnerVars
  PROVE  Fresh'
<1>1. ASSUME NEW r \in Runs, CallRun(r) PROVE Fresh'
  BY <1>1 DEF CallRun, RunStep, CallerFree, flags, readVars, stopVars, Fresh, First
<1>2. ASSUME NEW r \in Runs, ResetStop(r) PROVE Fresh'
  BY <1>2, RunnerAssumption DEF ResetStop, RunStep, readVars, stopVars, Fresh, First, RunnerTypeOK
<1>3. ASSUME NEW r \in Runs, ResetEngine(r) PROVE Fresh'
  BY <1>3 DEF ResetEngine, RunStep, readVars, stopVars, Fresh, First
<1>4. ASSUME NEW r \in Runs, ResetDone(r) PROVE Fresh'
  BY <1>4, RunnerAssumption DEF ResetDone, RunStep, readVars, stopVars, Fresh, First, Reading
<1>5. ASSUME NEW r \in Runs, StoreHandle(r) PROVE Fresh'
  BY <1>5 DEF StoreHandle, RunStep, HandleFree, flags, readVars, stopVars, Fresh, First
<1>6. ASSUME NEW s \in Stops, CallStop(s) PROVE Fresh'
  BY <1>6 DEF CallStop, StopStep, CallerFree, runVars, readVars, Fresh, First
<1>7. ASSUME NEW s \in Stops, MarkDone(s) PROVE Fresh'
  BY <1>7 DEF MarkDone, StopStep, runVars, readVars, Fresh, First, FlagsTold, Busy
<1>8. CASE AsyncNext \/ SyncNext
  <2> SUFFICES ASSUME NEW r \in Runs, First(r)', runAt'[r] \in {"storing", "returned"},
                      r \notin ended', ~shouldStop'
               PROVE  ~isDone' /\ reader' # "ending"
    BY DEF Fresh
  <2>1. /\ UNCHANGED <<shouldStop, runAt, task>> /\ ended \subseteq ended'
        /\ ~isDone /\ reader # "ending" /\ stream \notin ended' => ~isDone' /\ reader' # "ending"
        /\ ended' \subseteq Runs
    BY <1>8, Iteration DEF runVars
  <2>2. First(r) /\ ~isDone /\ reader # "ending"
    BY <2>1 DEF Fresh, First
  <2>3. stream \in Runs => stream = r
    <3>1. stream \in Runs => runAt[stream] # "uncalled" /\ stream \in Nat \ {0}
      BY RunnerAssumption DEF Spawned
    <3> QED
      BY <2>2, <3>1, RunnerAssumption DEF First
  <2> QED
    BY <2>1, <2>2, <2>3
<1>9. CASE UNCHANGED <<runAt, ended, shouldStop, isDone, reader>>
  BY <1>9 DEF Fresh, First
<1> QED
  BY <1>1, <1>2, <1>3, <1>4, <1>5, <1>6, <1>7, <1>8, <1>9 DEF RunnerNext, RunFuture, Task,
         StopFuture, Launch, StoreStream, Abandon, TestOver, FlagEngine, TakeHandle, Pause,
         ClearStream, runnerVars, StopStep, flags, runVars, readVars, stopVars

LEMMA InitRunnerInv == RunnerInit => RunnerInv
<1> SUFFICES ASSUME RunnerInit PROVE RunnerInv
  OBVIOUS
<1>1. RunnerTypeOK
  BY DEF RunnerInit, RunnerTypeOK
<1>2. InTurn /\ Spawned /\ Gone
  BY DEF RunnerInit, InTurn, Spawned, Gone
<1>3. Alone /\ FlagsTold
  BY DEF RunnerInit, Alone, FlagsTold, Busy
<1>4. Handled /\ Aborting
  BY DEF RunnerInit, Handled, Aborting, Latest
<1>5. Reading /\ Fresh
  BY DEF RunnerInit, Reading, Fresh
<1> QED
  BY <1>1, <1>2, <1>3, <1>4, <1>5 DEF RunnerInv

LEMMA NextRunnerInv == RunnerInv /\ [RunnerNext]_runnerVars => RunnerInv'
<1> SUFFICES ASSUME RunnerInv, RunnerNext \/ UNCHANGED runnerVars PROVE RunnerInv'
  OBVIOUS
<1>1. RunnerTypeOK' /\ InTurn' /\ Alone' /\ Spawned' /\ Handled'
  BY TypesKept, InTurnKept, AloneKept, SpawnedKept, HandledKept DEF RunnerInv
<1>2. Aborting' /\ Gone' /\ FlagsTold' /\ Reading' /\ Fresh'
  BY AbortingKept, GoneKept, FlagsToldKept, ReadingKept, FreshKept DEF RunnerInv
<1> QED
  BY <1>1, <1>2 DEF RunnerInv

LEMMA RunnerInvariance == RunnerSpec => []RunnerInv
BY InitRunnerInv, NextRunnerInv, PTL DEF RunnerSpec

(* Once a stop() has returned, no result of the test it stopped is given   *)
(* out: its task does not put the stream back, late as it may be.          *)
THEOREM StoppedIsGone == RunnerSpec => []StoppedStreamGone
<1>1. RunnerInv => StoppedStreamGone
  <2> SUFFICES ASSUME RunnerInv, stream \in stopped, ~ \E r \in stopped : r > stream PROVE FALSE
    BY DEF StoppedStreamGone
  <2>1. stopped \subseteq Nat
    BY RunnerAssumption DEF RunnerInv, RunnerTypeOK
  <2>2. \A q \in stopped : q <= stream
    BY <2>1
  <2> QED
    BY <2>2 DEF RunnerInv, Gone
<1> QED
  BY <1>1, RunnerInvariance, PTL

(* The results of an object's first test are not cut off, whatever stop()  *)
(* was called before it and whenever the iteration begins.                 *)
THEOREM FirstTestIsRead == RunnerSpec => []FirstResultsKept
<1>1. RunnerInv => FirstResultsKept
  BY DEF RunnerInv, Fresh, First, FirstResultsKept, Unfinished
<1> QED
  BY <1>1, RunnerInvariance, PTL

(* A test that was stopped sees the flag until run() is called again.      *)
THEOREM StopIsSeen == RunnerSpec => []StoppedUntilReused
<1>1. RunnerInv => StoppedUntilReused
  BY DEF RunnerInv, FlagsTold, StoppedUntilReused
<1> QED
  BY <1>1, RunnerInvariance, PTL
=============================================================================
