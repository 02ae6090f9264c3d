------------------------------ MODULE GoWorker ------------------------------
(***************************************************************************)
(* The Go worker (examples/go-worker/worker/worker.go): one goroutine runs *)
(* Start, which connects, registers and receives tasks; one goroutine per  *)
(* task runs handleTask and answers.  All of them send on the current      *)
(* stream, Worker.stream, under Worker.mu.  A send is two steps, so that   *)
(* the stream may break, and others may try the lock, while it lasts.      *)
(***************************************************************************)
EXTENDS Naturals, Sequences, FiniteSets

CONSTANTS
    Tasks,         \* task_ids the daemon may hand to this worker
    Main,          \* the goroutine of Start
    Registration,  \* the message with registered_tools and api_key
    MaxStreams,    \* bound on the connections made
    BackoffBase,   \* seconds
    BackoffMax

ASSUME GoWorkerAssumption ==
    /\ Main \notin Tasks /\ Registration \notin Tasks
    /\ MaxStreams \in Nat /\ BackoffBase \in Nat /\ BackoffMax \in Nat
    /\ 0 < BackoffBase /\ BackoffBase <= BackoffMax

Streams    == 1..MaxStreams
NoStream   == 0                       \* nil
Goroutines == Tasks \cup {Main}

VARIABLES
    loop,       \* Start and runOnce: where it is, the stream it closes or serves
    stream,     \* Worker.stream
    sending,    \* per goroutine: the stream it is inside Send of; one holds mu
    task,       \* handleTask per task: the stream it came on, and whether it is over
    up,         \* external: the streams that still work
    opened,     \* the number of streams opened so far
    wire,       \* external: what the daemon receives on each stream, in order
    backoff,
    cancelled   \* ctx is done

vars == <<loop, stream, sending, task, up, opened, wire, backoff, cancelled>>

LoopState == {"close", "closeSend", "connect", "publish", "register", "recv",
              "lost", "stopped"}

TypeOK ==
    /\ loop \in [at : LoopState, of : Streams \cup {NoStream}]
    /\ stream \in Streams \cup {NoStream}
    /\ sending \in [Goroutines -> Streams \cup {NoStream}]
    /\ task \in [Tasks -> [at : {"none", "running", "over"}, on : Streams \cup {NoStream}]]
    /\ up \subseteq Streams
    /\ opened \in 0..MaxStreams
    /\ wire \in [Streams -> Seq(Tasks \cup {Registration})]
    /\ backoff \in BackoffBase..BackoffMax
    /\ cancelled \in BOOLEAN

Init ==
    /\ loop = [at |-> "close", of |-> NoStream]
    /\ stream = NoStream
    /\ sending = [g \in Goroutines |-> NoStream]
    /\ task = [t \in Tasks |-> [at |-> "none", on |-> NoStream]]
    /\ up = {}
    /\ opened = 0
    /\ wire = [s \in Streams |-> <<>>]
    /\ backoff = BackoffBase
    /\ cancelled = FALSE

MuFree == \A g \in Goroutines : sending[g] = NoStream

-----------------------------------------------------------------------------
(* close *)

\* Mutant: the stream is taken without the lock.
TakeStreamUnlocked ==
    /\ loop.at = "close"
    /\ loop' = [at |-> "closeSend", of |-> stream]
    /\ stream' = NoStream
    /\ UNCHANGED <<sending, task, up, opened, wire, backoff, cancelled>>

\* The locked part: nobody can send on the old stream any more.
TakeStream ==
    /\ loop.at = "close"
    /\ MuFree
    /\ loop' = [at |-> "closeSend", of |-> stream]
    /\ stream' = NoStream
    /\ UNCHANGED <<sending, task, up, opened, wire, backoff, cancelled>>

\* CloseSend and conn.Close, outside the lock.
CloseStream ==
    /\ loop.at = "closeSend"
    /\ loop' = [at |-> "connect", of |-> NoStream]
    /\ up' = up \ {loop.of}
    /\ UNCHANGED <<stream, sending, task, opened, wire, backoff, cancelled>>

-----------------------------------------------------------------------------
(* runOnce *)

ConnectFails ==
    /\ loop.at = "connect"
    /\ loop' = [loop EXCEPT !.at = "lost"]
    /\ UNCHANGED <<stream, sending, task, up, opened, wire, backoff, cancelled>>

Connect ==
    /\ loop.at = "connect"
    /\ ~cancelled
    /\ opened < MaxStreams
    /\ opened' = opened + 1
    /\ up' = up \cup {opened'}
    /\ loop' = [at |-> "publish", of |-> opened']
    /\ UNCHANGED <<stream, sending, task, wire, backoff, cancelled>>

\* Mutant: the registration is sent on the first stream only.
PublishOnce ==
    /\ loop.at = "publish"
    /\ MuFree
    /\ stream' = loop.of
    /\ loop' = [loop EXCEPT !.at = IF loop.of = 1 THEN "register" ELSE "recv"]
    /\ UNCHANGED <<sending, task, up, opened, wire, backoff, cancelled>>

\* w.stream = stream: from here on every goroutine sends on the new stream.
Publish ==
    /\ loop.at = "publish"
    /\ MuFree
    /\ stream' = loop.of
    /\ loop' = [loop EXCEPT !.at = "register"]
    /\ UNCHANGED <<sending, task, up, opened, wire, backoff, cancelled>>

\* m is the first message that the daemon got on s; it takes it for the registration.
Leads(m, s) == wire[s] # <<>> /\ wire[s][1] = m

\* stream.Recv: the daemon gives tasks only to a worker it registered from the
\* first message of the stream, and each task to one worker once.
Recv(t) ==
    /\ loop.at = "recv"
    /\ loop.of \in up
    /\ Leads(Registration, loop.of)
    /\ task[t].at = "none"
    /\ task' = [task EXCEPT ![t] = [at |-> "running", on |-> loop.of]]
    /\ UNCHANGED <<loop, stream, sending, up, opened, wire, backoff, cancelled>>

RecvFails ==
    /\ loop.at = "recv"
    /\ loop.of \notin up
    /\ loop' = [loop EXCEPT !.at = "lost"]
    /\ UNCHANGED <<stream, sending, task, up, opened, wire, backoff, cancelled>>

\* Start after runOnce: wait, double the backoff, connect again.
Retry ==
    /\ loop.at = "lost"
    /\ ~cancelled
    /\ loop' = [at |-> "close", of |-> NoStream]
    /\ backoff' = IF 2 * backoff < BackoffMax THEN 2 * backoff ELSE BackoffMax
    /\ UNCHANGED <<stream, sending, task, up, opened, wire, cancelled>>

\* Start returns; it does not call close.
Stop ==
    /\ loop.at = "lost"
    /\ cancelled
    /\ loop' = [loop EXCEPT !.at = "stopped"]
    /\ UNCHANGED <<stream, sending, task, up, opened, wire, backoff, cancelled>>

-----------------------------------------------------------------------------
(* sendLocked *)

\* g has a message to send: the registration, or the answer of a task, which is
\* sent whether the handler succeeded, failed, panicked or is unknown.
Ready(g) == IF g = Main THEN loop.at = "register" ELSE task[g].at = "running"
Message(g) == IF g = Main THEN Registration ELSE g

\* Mutant: a handler forgets that it has answered.
DoneTwice(g) ==
    IF g = Main
    THEN loop' = [loop EXCEPT !.at = "recv"] /\ UNCHANGED task
    ELSE UNCHANGED <<loop, task>>

\* What g does when sendLocked returns; an error is only logged.
Done(g) ==
    IF g = Main
    THEN loop' = [loop EXCEPT !.at = "recv"] /\ UNCHANGED task
    ELSE task' = [task EXCEPT ![g].at = "over"] /\ UNCHANGED loop

BeginSend(g) ==
    /\ Ready(g)
    /\ MuFree
    /\ IF stream = NoStream
       THEN Done(g) /\ UNCHANGED sending
       ELSE sending' = [sending EXCEPT ![g] = stream] /\ UNCHANGED <<loop, task>>
    /\ UNCHANGED <<stream, up, opened, wire, backoff, cancelled>>

EndSend(g) ==
    LET s == sending[g] IN
    /\ s # NoStream
    /\ wire' = IF s \in up THEN [wire EXCEPT ![s] = Append(@, Message(g))] ELSE wire
    /\ sending' = [sending EXCEPT ![g] = NoStream]
    /\ Done(g)
    /\ UNCHANGED <<stream, up, opened, backoff, cancelled>>

-----------------------------------------------------------------------------
(* The environment *)

\* The network, or the daemon, ends a stream.
Break(s) ==
    /\ s \in up
    /\ up' = up \ {s}
    /\ UNCHANGED <<loop, stream, sending, task, opened, wire, backoff, cancelled>>

\* The caller cancels ctx: every stream was opened with it.
Cancel ==
    /\ ~cancelled
    /\ cancelled' = TRUE
    /\ up' = {}
    /\ UNCHANGED <<loop, stream, sending, task, opened, wire, backoff>>

LoopStep == TakeStream \/ CloseStream \/ ConnectFails \/ Publish \/ RecvFails
            \/ Retry \/ Stop

Next ==
    \/ LoopStep
    \/ Connect
    \/ \E t \in Tasks : Recv(t)
    \/ \E g \in Goroutines : BeginSend(g) \/ EndSend(g)
    \/ \E s \in Streams : Break(s)
    \/ Cancel

Spec == Init /\ [][Next]_vars

\* Goroutines run, mu is not held from one of them for ever (a Mutex hands over
\* after 1 ms), and a daemon that stays reachable is reached.
FairSpec ==
    /\ Spec
    /\ WF_vars(LoopStep) /\ SF_vars(TakeStream) /\ SF_vars(Publish) /\ SF_vars(Connect)
    /\ \A g \in Goroutines : SF_vars(BeginSend(g)) /\ WF_vars(EndSend(g))

-----------------------------------------------------------------------------
(* Properties *)

\* "grpc-go SendMsg goroutine-safe degil" (worker.go:59): two goroutines are
\* never inside Send of one stream, and close never half-closes or closes a
\* stream somebody is sending on, though it does so outside the lock.
StreamUse ==
    /\ \A g, h \in Goroutines : (g # h /\ sending[g] # NoStream) => sending[h] # sending[g]
    /\ \A g \in Goroutines : sending[g] # NoStream =>
          ~(loop.at \in {"closeSend", "connect"} /\ sending[g] # stream)

\* The daemon gets at most one answer to a task, whatever the stream it comes on
\* and however often the worker reconnected while the handler ran.
AnsweredOnce ==
    \A t \in Tasks :
        Cardinality({p \in Streams \X (1..(Cardinality(Tasks) + MaxStreams)) :
                        p[2] <= Len(wire[p[1]]) /\ wire[p[1]][p[2]] = t}) <= 1

\* The loop receives on a working stream on which the daemon got the registration.
Serving == loop.at = "recv" /\ loop.of \in up /\ Leads(Registration, loop.of)

\* The answer of a handler that outlived its stream came before the registration:
\* the daemon has registered a worker without tools.
Overtaken == loop.of # NoStream /\ \E t \in Tasks : Leads(t, loop.of)

\* A worker that lost its connection comes to serve again, that is, to receive on a
\* working stream that it is registered on, whatever breaks meanwhile; unless an
\* answer overtakes the registration, ctx is cancelled or the bound on
\* connections is reached (FairSpec).
Reconnects ==
    loop.at = "lost" ~> (Serving \/ Overtaken \/ cancelled \/ opened = MaxStreams)
=============================================================================
