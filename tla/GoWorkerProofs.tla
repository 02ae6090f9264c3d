---------------------------- MODULE GoWorkerProofs ----------------------------
(***************************************************************************)
(* Machine-checked theorems about GoWorker, for every set of tasks, every  *)
(* number of connections and every backoff.                                *)
(***************************************************************************)
EXTENDS GoWorker, TLAPS, FiniteSetTheorems

LEMMA TypeInit == Init => TypeOK
<1> SUFFICES ASSUME Init PROVE TypeOK
  OBVIOUS
<1> USE GoWorkerAssumption DEF Init, LoopState, NoStream
<1>1. wire \in [Streams -> Seq(Tasks \cup {Registration})]
  <2>1. <<>> \in Seq(Tasks \cup {Registration}) OBVIOUS
  <2> QED BY <2>1
<1>2. opened \in 0..MaxStreams /\ backoff \in BackoffBase..BackoffMax OBVIOUS
<1>3. /\ loop \in [at : LoopState, of : Streams \cup {NoStream}]
      /\ task \in [Tasks -> [at : {"none", "running", "over"}, on : Streams \cup {NoStream}]]
      /\ sending \in [Goroutines -> Streams \cup {NoStream}]
  OBVIOUS
<1> QED BY <1>1, <1>2, <1>3 DEF TypeOK

\* The end of a send, of the registration or of an answer.
LEMMA DoneType ==
    ASSUME TypeOK, NEW g \in Goroutines, Done(g)
    PROVE  /\ loop' \in [at : LoopState, of : Streams \cup {NoStream}]
           /\ task' \in [Tasks -> [at : {"none", "running", "over"}, on : Streams \cup {NoStream}]]
<1>1. CASE g = Main
  BY <1>1 DEF Done, TypeOK, LoopState
<1>2. CASE g # Main
  <2>1. g \in Tasks BY <1>2 DEF Goroutines
  <2>2. loop' = loop /\ task' = [task EXCEPT ![g].at = "over"] BY <1>2 DEF Done
  <2>3. [task[g] EXCEPT !.at = "over"] \in [at : {"none", "running", "over"}, on : Streams \cup {NoStream}]
    BY <2>1 DEF TypeOK
  <2> QED BY <2>1, <2>2, <2>3 DEF TypeOK
<1> QED BY <1>1, <1>2

LEMMA TypeStep == TypeOK /\ [Next]_vars => TypeOK'
<1> SUFFICES ASSUME TypeOK, [Next]_vars PROVE TypeOK'
  OBVIOUS
<1> USE GoWorkerAssumption DEF TypeOK, LoopState, Streams, NoStream, Goroutines
<1>1. CASE TakeStream BY <1>1 DEF TakeStream
<1>2. CASE CloseStream BY <1>2 DEF CloseStream
<1>3. CASE ConnectFails BY <1>3 DEF ConnectFails
<1>4. CASE Publish BY <1>4 DEF Publish
<1>5. CASE RecvFails BY <1>5 DEF RecvFails
<1>6. CASE Retry BY <1>6 DEF Retry
<1>7. CASE Stop
  <2>1. loop' \in [at : LoopState, of : Streams \cup {NoStream}] BY <1>7 DEF Stop
  <2> QED BY <1>7, <2>1 DEF Stop
<1>8. CASE Connect
  <2>1. opened' \in 1..MaxStreams BY <1>8 DEF Connect
  <2>2. loop' \in [at : LoopState, of : Streams \cup {NoStream}] BY <1>8, <2>1 DEF Connect
  <2>3. up' \subseteq Streams BY <1>8, <2>1 DEF Connect
  <2>4. opened' \in 0..MaxStreams BY <2>1
  <2>5. UNCHANGED <<stream, sending, task, wire, backoff, cancelled>> BY <1>8 DEF Connect
  <2> QED BY <2>2, <2>3, <2>4, <2>5
<1>9. ASSUME NEW t \in Tasks, Recv(t) PROVE TypeOK'
  BY <1>9 DEF Recv
<1>10. ASSUME NEW g \in Goroutines, BeginSend(g) PROVE TypeOK'
  <2>1. CASE stream = NoStream
    <3>1. Done(g) /\ UNCHANGED <<sending, stream, up, opened, wire, backoff, cancelled>>
      BY <1>10, <2>1 DEF BeginSend
    <3> QED BY <3>1, DoneType
  <2>2. CASE stream # NoStream
    <3>1. /\ sending' = [sending EXCEPT ![g] = stream]
          /\ UNCHANGED <<loop, task, stream, up, opened, wire, backoff, cancelled>>
      BY <1>10, <2>2 DEF BeginSend
    <3> QED BY <3>1
  <2> QED BY <2>1, <2>2
<1>11. ASSUME NEW g \in Goroutines, EndSend(g) PROVE TypeOK'
  <2>1. Message(g) \in Tasks \cup {Registration} BY DEF Message
  <2>2. sending[g] \in Streams BY <1>11 DEF EndSend
  <2>3. Append(wire[sending[g]], Message(g)) \in Seq(Tasks \cup {Registration}) BY <2>1, <2>2
  <2>4. wire' \in [Streams -> Seq(Tasks \cup {Registration})] BY <1>11, <2>2, <2>3 DEF EndSend
  <2>5. sending' \in [Goroutines -> Streams \cup {NoStream}] BY <1>11 DEF EndSend
  <2>6. /\ loop' \in [at : LoopState, of : Streams \cup {NoStream}]
        /\ task' \in [Tasks -> [at : {"none", "running", "over"}, on : Streams \cup {NoStream}]]
    BY <1>11, DoneType DEF EndSend
  <2>8. UNCHANGED <<stream, up, opened, backoff, cancelled>> BY <1>11 DEF EndSend
  <2> QED BY <2>4, <2>5, <2>6, <2>8
<1>12. ASSUME NEW s \in Streams, Break(s) PROVE TypeOK'
  BY <1>12 DEF Break
<1>13. CASE Cancel BY <1>13 DEF Cancel
<1>14. CASE UNCHANGED vars BY <1>14 DEF vars
<1> QED
  BY <1>1, <1>2, <1>3, <1>4, <1>5, <1>6, <1>7, <1>8, <1>9, <1>10, <1>11, <1>12, <1>13, <1>14
  DEF Next, LoopStep

\* The variables of a worker always have the types of Worker's fields; the backoff
\* stays between its base and its cap (Start).
THEOREM WorkerTyping == Spec => []TypeOK
BY TypeInit, TypeStep, PTL DEF Spec

-----------------------------------------------------------------------------
(* Who sends *)

\* Worker.mu: one goroutine is inside Send, on the stream that Worker.stream is.
Sender ==
    \A g, h \in Goroutines : sending[g] # NoStream =>
        /\ sending[g] = stream
        /\ sending[h] # NoStream => g = h

LEMMA SenderStep == TypeOK /\ Sender /\ [Next]_vars => Sender'
<1> SUFFICES ASSUME TypeOK, Sender, [Next]_vars PROVE Sender'
  OBVIOUS
<1> USE DEF Sender, MuFree
<1>1. CASE TakeStream BY <1>1 DEF TakeStream
<1>2. CASE Publish BY <1>2 DEF Publish
<1>3. CASE (LoopStep /\ ~TakeStream /\ ~Publish) \/ Connect \/ Cancel
           \/ (\E t \in Tasks : Recv(t)) \/ (\E s \in Streams : Break(s)) \/ UNCHANGED vars
  <2>1. UNCHANGED <<stream, sending>>
    BY <1>3 DEF LoopStep, CloseStream, ConnectFails, RecvFails, Retry, Stop, Connect, Cancel,
                Recv, Break, vars
  <2> QED BY <2>1
<1>4. ASSUME NEW g \in Goroutines, BeginSend(g) PROVE Sender'
  BY <1>4 DEF BeginSend, TypeOK
<1>5. ASSUME NEW g \in Goroutines, EndSend(g) PROVE Sender'
  BY <1>5 DEF EndSend, TypeOK
<1> QED BY <1>1, <1>2, <1>3, <1>4, <1>5 DEF Next

\* No two goroutines are inside Send of one stream, and close does not close a stream
\* under a sender, though it does so after it has given back the lock
\* (sendLocked and close).
THEOREM OneSenderPerStream == Spec => []StreamUse
<1>1. Init => Sender BY DEF Init, Sender
<1>2. TypeOK /\ Sender => StreamUse BY DEF Sender, StreamUse
<1> QED BY <1>1, <1>2, SenderStep, WorkerTyping, PTL DEF Spec

-----------------------------------------------------------------------------
(* Answers *)

Holds(s, i, t) == i \in 1..Len(wire[s]) /\ wire[s][i] = t

\* A task that is being answered is running; one whose answer is on a stream is over,
\* and its answer is there in one place.
Answers ==
    \A t \in Tasks :
        /\ sending[t] # NoStream => task[t].at = "running"
        /\ \A s \in Streams : \A i \in Nat : Holds(s, i, t) =>
              /\ task[t].at = "over"
              /\ \A r \in Streams : \A j \in Nat : Holds(r, j, t) => r = s /\ j = i

LEMMA AnswersStep == TypeOK /\ Answers /\ [Next]_vars => Answers'
<1> SUFFICES ASSUME TypeOK, Answers, [Next]_vars PROVE Answers'
  OBVIOUS
<1>1. CASE LoopStep \/ Connect \/ Cancel \/ (\E s \in Streams : Break(s)) \/ UNCHANGED vars
  <2>1. UNCHANGED <<sending, task, wire>>
    BY <1>1 DEF LoopStep, TakeStream, Publish, CloseStream, ConnectFails, RecvFails, Retry, Stop,
                Connect, Cancel, Break, vars
  <2> QED BY <2>1 DEF Answers, Holds
<1>2. ASSUME NEW u \in Tasks, Recv(u) PROVE Answers'
  <2>1. UNCHANGED <<sending, wire>> /\ task[u].at = "none" BY <1>2 DEF Recv
  <2>2. \A t \in Tasks : t # u => task'[t] = task[t] BY <1>2 DEF Recv, TypeOK
  <2>3. \A s \in Streams : \A i \in Nat : ~Holds(s, i, u) BY <2>1 DEF Answers
  <2>4. sending[u] = NoStream BY <2>1 DEF Answers
  <2> QED BY <2>1, <2>2, <2>3, <2>4 DEF Answers, Holds
<1>3. ASSUME NEW g \in Goroutines, BeginSend(g) PROVE Answers'
  <2>1. wire' = wire BY <1>3 DEF BeginSend
  <2>2. CASE stream = NoStream
    <3>1. sending' = sending BY <1>3, <2>2 DEF BeginSend
    <3>2. \A g2 \in Goroutines : sending[g2] = NoStream BY <1>3 DEF BeginSend, MuFree
    <3>3. \A t \in Tasks : task[t].at = "over" => task'[t].at = "over"
      BY <1>3, <2>2 DEF BeginSend, Done, TypeOK
    <3> QED BY <2>1, <3>1, <3>2, <3>3 DEF Answers, Holds, Goroutines
  <2>3. CASE stream # NoStream
    <3>1. task' = task /\ sending' = [sending EXCEPT ![g] = stream]
      BY <1>3, <2>3 DEF BeginSend
    <3>2. \A t \in Tasks : sending'[t] # NoStream => task[t].at = "running"
      BY <1>3, <3>1, GoWorkerAssumption DEF BeginSend, Ready, Answers, TypeOK, Goroutines
    <3> QED BY <2>1, <3>1, <3>2 DEF Answers, Holds
  <2> QED BY <2>2, <2>3
<1>4. ASSUME NEW g \in Goroutines, EndSend(g) PROVE Answers'
  <2> DEFINE s0 == sending[g]
             n == Len(wire[s0]) + 1
  <2>1. s0 \in Streams BY <1>4 DEF EndSend, TypeOK
  <2>2. wire[s0] \in Seq(Tasks \cup {Registration}) BY <2>1 DEF TypeOK
  <2>3. n \in Nat BY <2>2
  <2>4. sending' = [sending EXCEPT ![g] = NoStream] BY <1>4 DEF EndSend
  <2>5. \A s \in Streams : \A i \in Nat : \A t \in Tasks :
            Holds(s, i, t)' => Holds(s, i, t) \/ (s = s0 /\ i = n /\ t = g)
    <3> SUFFICES ASSUME NEW s \in Streams, NEW i \in Nat, NEW t \in Tasks, Holds(s, i, t)',
                        ~Holds(s, i, t)
                 PROVE  s = s0 /\ i = n /\ t = g
      OBVIOUS
    <3>1. wire' # wire BY DEF Holds
    <3>2. wire' = [wire EXCEPT ![s0] = Append(wire[s0], Message(g))]
      BY <1>4, <3>1 DEF EndSend
    <3>3. s = s0 BY <3>2 DEF Holds, TypeOK
    <3>4. wire'[s0] = Append(wire[s0], Message(g)) BY <2>1, <3>2 DEF TypeOK
    <3>5. i \in 1..n /\ wire'[s0][i] = t BY <2>2, <3>3, <3>4 DEF Holds
    <3>6. i = n BY <2>2, <2>3, <3>3, <3>4, <3>5 DEF Holds
    <3>7. t = Message(g) BY <2>2, <3>4, <3>5, <3>6
    <3> QED BY <3>3, <3>6, <3>7, GoWorkerAssumption DEF Message, Goroutines
  <2>6. CASE g = Main
    <3>1. task' = task BY <1>4, <2>6 DEF EndSend, Done
    <3>2. \A t \in Tasks : t # g /\ sending'[t] = sending[t]
      BY <2>4, <2>6, GoWorkerAssumption DEF TypeOK, Goroutines
    <3>3. \A s \in Streams : \A i \in Nat : \A t \in Tasks : Holds(s, i, t)' => Holds(s, i, t)
      BY <2>5, <3>2
    <3> QED BY <3>1, <3>2, <3>3 DEF Answers
  <2>7. CASE g # Main
    <3>1. g \in Tasks BY <2>7 DEF Goroutines
    <3>2. task' = [task EXCEPT ![g].at = "over"] BY <1>4, <2>7 DEF EndSend, Done
    <3>3. task[g].at = "running" BY <1>4, <3>1 DEF EndSend, Answers
    <3>4. \A s \in Streams : \A i \in Nat : ~Holds(s, i, g) BY <3>1, <3>3 DEF Answers
    <3>5. task'[g].at = "over" /\ \A t \in Tasks : t # g => task'[t] = task[t]
      BY <3>1, <3>2 DEF TypeOK
    <3>6. \A t \in Tasks : sending'[t] = IF t = g THEN NoStream ELSE sending[t]
      BY <2>4 DEF TypeOK, Goroutines
    <3>7. ASSUME NEW t \in Tasks
          PROVE  /\ sending'[t] # NoStream => task'[t].at = "running"
                 /\ \A s \in Streams : \A i \in Nat : Holds(s, i, t)' =>
                       /\ task'[t].at = "over"
                       /\ \A r \in Streams : \A j \in Nat : Holds(r, j, t)' => r = s /\ j = i
      <4>1. CASE t = g BY <2>5, <3>4, <3>5, <3>6, <4>1
      <4>2. CASE t # g
        <5>1. \A s \in Streams : \A i \in Nat : Holds(s, i, t)' => Holds(s, i, t) BY <2>5, <4>2
        <5> QED BY <3>5, <3>6, <4>2, <5>1 DEF Answers
      <4> QED BY <4>1, <4>2
    <3> QED BY <3>7 DEF Answers
  <2> QED BY <2>6, <2>7
<1> QED BY <1>1, <1>2, <1>3, <1>4 DEF Next

\* The daemon never gets two answers to one task (handleTask), whatever the number of
\* tasks, of streams and of reconnects.
THEOREM OneAnswerPerTask == Spec => []AnsweredOnce
<1>1. Init => Answers
  <2> SUFFICES ASSUME Init PROVE Answers OBVIOUS
  <2>1. \A t \in Tasks : sending[t] = NoStream BY DEF Init, Goroutines
  <2>2. \A s \in Streams : Len(wire[s]) = 0 BY DEF Init
  <2> QED BY <2>1, <2>2 DEF Answers, Holds
<1>2. TypeOK /\ Answers => AnsweredOnce
  <2> SUFFICES ASSUME TypeOK, Answers, NEW t \in Tasks
               PROVE  Cardinality({p \in Streams \X (1..(Cardinality(Tasks) + MaxStreams)) :
                                      p[2] <= Len(wire[p[1]]) /\ wire[p[1]][p[2]] = t}) <= 1
    BY DEF AnsweredOnce
  <2> DEFINE N == 1..(Cardinality(Tasks) + MaxStreams)
             S == {p \in Streams \X N : p[2] <= Len(wire[p[1]]) /\ wire[p[1]][p[2]] = t}
  <2>1. \A s \in Streams : \A i \in N : i <= Len(wire[s]) => i \in 1..Len(wire[s])
    BY DEF TypeOK
  <2>2. \A p \in S : \A q \in S : p = q
    <3> SUFFICES ASSUME NEW p \in S, NEW q \in S PROVE p = q
      OBVIOUS
    <3>1. /\ p[1] \in Streams /\ p[2] \in Nat /\ Holds(p[1], p[2], t) /\ p = <<p[1], p[2]>>
          /\ q[1] \in Streams /\ q[2] \in Nat /\ Holds(q[1], q[2], t) /\ q = <<q[1], q[2]>>
      BY <2>1 DEF Holds
    <3>2. p[1] = q[1] /\ p[2] = q[2] BY <3>1 DEF Answers
    <3> QED BY <3>1, <3>2
  <2>3. ASSUME S = {} PROVE Cardinality(S) <= 1
    <3>1. Cardinality({}) = 0 BY FS_EmptySet
    <3> HIDE DEF S
    <3> QED BY <2>3, <3>1
  <2>4. ASSUME S # {} PROVE Cardinality(S) <= 1
    <3>1. PICK p \in S : TRUE BY <2>4
    <3>2. S = {p} BY <2>2, <3>1
    <3>3. Cardinality({p}) = 1 BY FS_Singleton
    <3> HIDE DEF S
    <3> QED BY <3>2, <3>3
  <2>5. Cardinality(S) <= 1 BY <2>3, <2>4
  <2> QED BY <2>5
<1> QED BY <1>1, <1>2, AnswersStep, WorkerTyping, PTL DEF Spec
=============================================================================
