------------------------------- MODULE Daemon -------------------------------
(***************************************************************************)
(* The tool daemon (tinypipe-daemon/src/lib.rs): workers open one stream   *)
(* each and register tools, clients invoke tools, and the daemon matches   *)
(* the answers to the waiting calls.                                       *)
(*                                                                         *)
(* The daemon is multi-threaded.  Its state is spread over four separately *)
(* locked tables (tool_groups, tool_defs, pending, in_flight) and no       *)
(* operation holds two of the locks, so one action here is one critical    *)
(* section of the code and other threads run between any two of them.      *)
(* Consecutive steps are joined only where the second one is invisible to  *)
(* every other thread, which the comments say.                             *)
(***************************************************************************)
EXTENDS Naturals, Sequences, FiniteSets

CONSTANTS
    Workers,     \* worker_ids: one per accepted ConnectWorker stream
    Calls,       \* task_ids: one per Invoke
    Tools,       \* tool names
    BlankTool,   \* a tool definition whose name is empty
    Offerings,   \* the registered_tools lists a worker may send
    Machines,    \* worker processes; one reconnects under a new worker_id
    MachineOf,   \* the process behind each worker_id
    QueueCap,    \* capacity of a worker's task channel (256 in the code)
    Nobody       \* stands for None

ASSUME DaemonAssumption ==
    /\ IsFiniteSet(Workers) /\ IsFiniteSet(Calls)
    /\ Nobody \notin Workers /\ Nobody \notin Tools /\ BlankTool \notin Tools
    /\ Offerings \subseteq Seq(Tools \cup {BlankTool})
    /\ \A o \in Offerings : \A i, j \in 1..Len(o) : o[i] = o[j] => i = j
    /\ MachineOf \in [Workers -> Machines]
    /\ QueueCap \in Nat \ {0}

Paths == {"inbound", "outbound"}  \* the two ways disconnect_worker is reached

VARIABLES
    groupOf,    \* tool_groups: the group mapped to a tool, named by its creator
    members,    \* WorkerGroup.workers of the group of a tool and a creator
    cursor,     \* WorkerGroup.next_idx
    defs,       \* tool_defs: the tools with a definition
    pending,    \* pending: the calls whose answer channel is stored
    inFlight,   \* in_flight: per worker, its calls (no entry = empty set)
    reply,      \* what was sent into a call's one-shot channel
    queue,      \* a worker's task channel
    conn,       \* a worker's ConnectWorker handler
    cleaner,    \* the two runs of disconnect_worker for a worker
    call,       \* a client's Invoke handler
    received    \* external: how often a worker process has received each task

regVars  == <<groupOf, members, cursor, defs>>
callVars == <<pending, inFlight, reply, call>>
vars     == <<groupOf, members, cursor, defs, pending, inFlight, reply, queue,
              conn, cleaner, call, received>>

ConnState == {"new", "entry", "add", "def", "open", "refused"}
Conn == [at : ConnState, todo : Seq(Tools \cup {BlankTool}),
         group : Workers \cup {Nobody}]

CleanState == {"idle", "remove", "count", "dropGroup", "dropDef", "take",
               "flush", "done"}
Cleaner == [at : CleanState, todo : SUBSET Tools, cur : Tools \cup {Nobody},
            emptied : SUBSET Tools, taken : SUBSET Calls]

Outcome == {"none", "notFound", "unavailable", "answer", "gone", "deadline",
            "cancelled"}
\* History: whether a call was recorded in in_flight ahead of its worker's last
\* cleanup taking in_flight, or after it.
Tracking == {"no", "ahead", "after"}
Call == [at : {"idle", "group", "pick", "insert", "track", "send", "await", "done"},
         tool : Tools \cup {Nobody}, group : Workers \cup {Nobody},
         worker : Workers \cup {Nobody}, outcome : Outcome,
         tracked : Tracking]

\* A thread that is past the statement that sets a local variable has it set.
LocalsSet ==
    /\ \A w \in Workers :
         /\ conn[w].at \in {"entry", "add", "def"} => conn[w].todo # <<>>
         /\ conn[w].at \in {"add", "def"} => Head(conn[w].todo) \in Tools
         /\ conn[w].at = "add" => conn[w].group \in Workers
         /\ \A p \in Paths : cleaner[w][p].at \in {"count", "dropDef"} =>
                              cleaner[w][p].cur \in Tools
    /\ \A c \in Calls :
         /\ call[c].at \in {"group", "pick"} => call[c].tool \in Tools
         /\ call[c].at = "pick" => call[c].group \in Workers
         /\ call[c].at \in {"insert", "track", "send", "await"} =>
              call[c].worker \in Workers

TypeOK ==
    /\ groupOf \in [Tools -> Workers \cup {Nobody}]
    /\ members \in [Tools -> [Workers -> Seq(Workers)]]
    /\ cursor \in [Tools -> [Workers -> Nat]]
    /\ defs \subseteq Tools
    /\ pending \subseteq Calls
    /\ inFlight \in [Workers -> SUBSET Calls]
    /\ reply \in [Calls -> {"empty", "answer", "gone"}]
    /\ queue \in [Workers -> Seq(Calls)]
    /\ conn \in [Workers -> Conn]
    /\ cleaner \in [Workers -> [Paths -> Cleaner]]
    /\ call \in [Calls -> Call]
    /\ received \in [Calls -> [Machines -> Nat]]
    /\ LocalsSet

Init ==
    /\ groupOf = [t \in Tools |-> Nobody]
    /\ members = [t \in Tools |-> [w \in Workers |-> <<>>]]
    /\ cursor = [t \in Tools |-> [w \in Workers |-> 0]]
    /\ defs = {}
    /\ pending = {}
    /\ inFlight = [w \in Workers |-> {}]
    /\ reply = [c \in Calls |-> "empty"]
    /\ queue = [w \in Workers |-> <<>>]
    /\ conn = [w \in Workers |-> [at |-> "new", todo |-> <<>>, group |-> Nobody]]
    /\ cleaner = [w \in Workers |-> [p \in Paths |->
                    [at |-> "idle", todo |-> {}, cur |-> Nobody,
                     emptied |-> {}, taken |-> {}]]]
    /\ call = [c \in Calls |-> [at |-> "idle", tool |-> Nobody, group |-> Nobody,
                                worker |-> Nobody, outcome |-> "none", tracked |-> "no"]]
    /\ received = [c \in Calls |-> [m \in Machines |-> 0]]

-----------------------------------------------------------------------------
(* Helpers *)

\* Mutant: only the head of the list is compared.
WithoutHeadOnly(s, w) == IF s # <<>> /\ s[1] = w THEN Tail(s) ELSE s

\* Vec::retain on a member list, in which a worker occurs at most once.
Without(s, w) ==
    IF \E i \in 1..Len(s) : s[i] = w
    THEN LET i == CHOOSE j \in 1..Len(s) : s[j] = w
         IN  SubSeq(s, 1, i - 1) \o SubSeq(s, i + 1, Len(s))
    ELSE s

\* The receiver of w's task channel: it exists from registration until the
\* outbound stream is destroyed, which happens after its Drop ran the cleanup.
RxAlive(w) == /\ conn[w].at \in {"entry", "add", "def", "open"}
              /\ cleaner[w]["outbound"].at # "done"

\* Both cleanups of w have been through their in_flight.remove.
Cleaned(w) == \A p \in Paths : cleaner[w][p].at \in {"flush", "done"}

\* disconnect_worker's iterator holds the shard of t between removing a member
\* and counting the rest, so nobody can insert or remove the entry of t.
EntryFree(t) == \A w \in Workers, p \in Paths :
                    ~(cleaner[w][p].at = "count" /\ cleaner[w][p].cur = t)

-----------------------------------------------------------------------------
(* ConnectWorker: registration *)

\* No first message, or a wrong api key: the handler returns an error before it
\* touches the tables.
RefuseWorker(w) ==
    /\ conn[w].at = "new"
    /\ conn' = [conn EXCEPT ![w].at = "refused"]
    /\ UNCHANGED <<regVars, callVars, queue, cleaner, received>>

\* The handler's position before the next tool of a list: the stream is
\* returned to the worker once the list is exhausted.
AtTool(todo) == IF todo = <<>> THEN "open" ELSE "entry"

AcceptWorker(w) ==
    /\ conn[w].at = "new"
    /\ \E o \in Offerings :
         conn' = [conn EXCEPT ![w] = [at |-> AtTool(o), todo |-> o, group |-> Nobody]]
    /\ UNCHANGED <<regVars, callVars, queue, cleaner, received>>

\* register_tool, first half: take or create the group and clone its Arc.
RegisterEntry(w) ==
    LET t == Head(conn[w].todo)
        g == IF groupOf[t] = Nobody THEN w ELSE groupOf[t]
    IN
    /\ conn[w].at = "entry"
    /\ t # BlankTool
    /\ EntryFree(t)
    /\ groupOf' = [groupOf EXCEPT ![t] = g]
    /\ conn' = [conn EXCEPT ![w] = [@ EXCEPT !.at = "add", !.group = g]]
    /\ UNCHANGED <<members, cursor, defs, callVars, queue, cleaner, received>>

\* register_tool fails on an empty name; `?` abandons the handler, the tools
\* registered so far stay and the task channel loses its receiver.
RegisterBlank(w) ==
    /\ conn[w].at = "entry"
    /\ Head(conn[w].todo) = BlankTool
    /\ conn' = [conn EXCEPT ![w] = [@ EXCEPT !.at = "refused", !.todo = <<>>]]
    /\ UNCHANGED <<regVars, callVars, queue, cleaner, received>>

\* register_tool, second half: join the group, whether it is still mapped or not.
RegisterAdd(w) ==
    LET t == Head(conn[w].todo) IN
    /\ conn[w].at = "add"
    /\ members' = [members EXCEPT ![t][conn[w].group] = Append(@, w)]
    /\ conn' = [conn EXCEPT ![w].at = "def"]
    /\ UNCHANGED <<groupOf, cursor, defs, callVars, queue, cleaner, received>>

RegisterDef(w) ==
    LET rest == Tail(conn[w].todo) IN
    /\ conn[w].at = "def"
    /\ defs' = defs \cup {Head(conn[w].todo)}
    /\ conn' = [conn EXCEPT ![w] = [at |-> AtTool(rest), todo |-> rest, group |-> Nobody]]
    /\ UNCHANGED <<groupOf, members, cursor, callVars, queue, cleaner, received>>

Register(w) == RefuseWorker(w) \/ AcceptWorker(w) \/ RegisterEntry(w)
               \/ RegisterBlank(w) \/ RegisterAdd(w) \/ RegisterDef(w)

-----------------------------------------------------------------------------
(* disconnect_worker, run once by the inbound task and once by the Drop of *)
(* the outbound stream                                                     *)

\* The position after the member-removal loop, given what is left to visit.
AtGroup(todo, emptied) ==
    IF todo # {} THEN "remove" ELSE IF emptied # {} THEN "dropGroup" ELSE "take"

\* The worker's side of the stream ends (inbound), or the client drops the
\* response stream (outbound); either may come first.
BeginClean(w, p) ==
    /\ conn[w].at = "open"
    /\ cleaner[w][p].at = "idle"
    /\ cleaner' = [cleaner EXCEPT
           ![w][p] = [@ EXCEPT !.at = AtGroup(Tools, {}), !.todo = Tools]]
    /\ UNCHANGED <<regVars, callVars, queue, conn, received>>

\* One entry of tool_groups.iter(): remove_worker, then (CleanCount) worker_count.
\* A tool without an entry is passed over.
CleanRemove(w, p) ==
    /\ cleaner[w][p].at = "remove"
    /\ \E t \in cleaner[w][p].todo :
         LET rest == cleaner[w][p].todo \ {t} IN
         IF groupOf[t] = Nobody
         THEN /\ cleaner' = [cleaner EXCEPT
                     ![w][p] = [@ EXCEPT !.at = AtGroup(rest, cleaner[w][p].emptied),
                                         !.todo = rest]]
              /\ UNCHANGED members
         ELSE /\ members' = [members EXCEPT ![t][groupOf[t]] = Without(@, w)]
              /\ cleaner' = [cleaner EXCEPT
                     ![w][p] = [@ EXCEPT !.at = "count", !.todo = rest, !.cur = t]]
    /\ UNCHANGED <<groupOf, cursor, defs, callVars, queue, conn, received>>

CleanCount(w, p) ==
    LET c == cleaner[w][p]
        emptied == IF members[c.cur][groupOf[c.cur]] = <<>>
                   THEN c.emptied \cup {c.cur} ELSE c.emptied
    IN
    /\ c.at = "count"
    /\ cleaner' = [cleaner EXCEPT
           ![w][p] = [@ EXCEPT !.at = AtGroup(c.todo, emptied), !.cur = Nobody,
                               !.emptied = emptied]]
    /\ UNCHANGED <<regVars, callVars, queue, conn, received>>

\* for name in emptied: the entry goes by name, then (CleanDropDef) the definition.
CleanDropGroup(w, p) ==
    /\ cleaner[w][p].at = "dropGroup"
    /\ \E t \in cleaner[w][p].emptied :
         /\ EntryFree(t)
         /\ groupOf' = [groupOf EXCEPT ![t] = Nobody]
         /\ cleaner' = [cleaner EXCEPT ![w][p] = [@ EXCEPT !.at = "dropDef", !.cur = t]]
    /\ UNCHANGED <<members, cursor, defs, callVars, queue, conn, received>>

CleanDropDef(w, p) ==
    LET c == cleaner[w][p]
        rest == c.emptied \ {c.cur}
    IN
    /\ c.at = "dropDef"
    /\ defs' = defs \ {c.cur}
    /\ cleaner' = [cleaner EXCEPT
           ![w][p] = [@ EXCEPT !.at = AtGroup({}, rest), !.cur = Nobody, !.emptied = rest]]
    /\ UNCHANGED <<groupOf, members, cursor, callVars, queue, conn, received>>

\* Mutant: the cleanup leaves in_flight alone.
CleanTakeForgets(w, p) ==
    /\ cleaner[w][p].at = "take"
    /\ cleaner' = [cleaner EXCEPT ![w][p].at = "flush"]
    /\ UNCHANGED <<regVars, callVars, queue, conn, received>>

\* in_flight.remove(worker): its calls are now this run's to fail.
CleanTake(w, p) ==
    /\ cleaner[w][p].at = "take"
    /\ cleaner' = [cleaner EXCEPT
           ![w][p] = [@ EXCEPT !.at = "flush", !.taken = inFlight[w]]]
    /\ inFlight' = [inFlight EXCEPT ![w] = {}]
    /\ UNCHANGED <<regVars, pending, reply, queue, conn, call, received>>

\* Sending into a one-shot channel: the sender is in `pending` or nowhere, so
\* removing it and using it is one step for every other thread.
Resolve(c, r) ==
    /\ pending' = pending \ {c}
    /\ reply' = IF c \in pending THEN [reply EXCEPT ![c] = r] ELSE reply

CleanFlush(w, p) ==
    /\ cleaner[w][p].at = "flush"
    /\ \E c \in cleaner[w][p].taken :
         /\ Resolve(c, "gone")
         /\ cleaner' = [cleaner EXCEPT ![w][p].taken = @ \ {c}]
    /\ UNCHANGED <<regVars, inFlight, queue, conn, call, received>>

\* The cleanup returns.  On the outbound path the stream it belongs to is then
\* destroyed: the receiver is gone and the queued tasks with it.
CleanEnd(w, p) ==
    /\ cleaner[w][p].at = "flush"
    /\ cleaner[w][p].taken = {}
    /\ cleaner' = [cleaner EXCEPT ![w][p].at = "done"]
    /\ queue' = IF p = "outbound" THEN [queue EXCEPT ![w] = <<>>] ELSE queue
    /\ UNCHANGED <<regVars, callVars, conn, received>>

CleanStep(w, p) == CleanRemove(w, p) \/ CleanCount(w, p) \/ CleanDropGroup(w, p)
                   \/ CleanDropDef(w, p) \/ CleanTake(w, p) \/ CleanFlush(w, p)
                   \/ CleanEnd(w, p)

-----------------------------------------------------------------------------
(* invoke_inner *)

\* Leave the handler with an outcome.
Return(c, o) == call' = [call EXCEPT ![c] = [@ EXCEPT !.at = "done", !.outcome = o]]

\* tool_defs.get
Invoke(c, t) ==
    /\ call[c].at = "idle"
    /\ IF t \in defs
       THEN call' = [call EXCEPT ![c] = [@ EXCEPT !.at = "group", !.tool = t]]
       ELSE Return(c, "notFound")
    /\ UNCHANGED <<regVars, pending, inFlight, reply, queue, conn, cleaner, received>>

\* tool_groups.get: the Arc keeps the group alive from here on.
InvokeGroup(c) ==
    LET g == groupOf[call[c].tool] IN
    /\ call[c].at = "group"
    /\ IF g # Nobody
       THEN call' = [call EXCEPT ![c] = [@ EXCEPT !.at = "pick", !.group = g]]
       ELSE Return(c, "notFound")
    /\ UNCHANGED <<regVars, pending, inFlight, reply, queue, conn, cleaner, received>>

\* Mutant: no check for an empty group.
InvokePickUnchecked(c) ==
    LET t == call[c].tool
        g == call[c].group
        ws == members[t][g]
    IN
    /\ call[c].at = "pick"
    /\ cursor' = [cursor EXCEPT ![t][g] = @ + 1]
    /\ call' = [call EXCEPT ![c].at = "insert",
           ![c].worker = IF ws = <<>> THEN Nobody ELSE ws[(cursor[t][g] % Len(ws)) + 1]]
    /\ UNCHANGED <<groupOf, members, defs, pending, inFlight, reply, queue, conn,
                   cleaner, received>>

\* get_next_worker: round-robin under the group's lock.
InvokePick(c) ==
    LET t == call[c].tool
        g == call[c].group
        ws == members[t][g]
    IN
    /\ call[c].at = "pick"
    /\ IF ws = <<>>
       THEN Return(c, "unavailable") /\ UNCHANGED cursor
       ELSE /\ cursor' = [cursor EXCEPT ![t][g] = @ + 1]
            /\ call' = [call EXCEPT
                   ![c] = [@ EXCEPT !.at = "insert",
                                    !.worker = ws[(cursor[t][g] % Len(ws)) + 1]]]
    /\ UNCHANGED <<groupOf, members, defs, pending, inFlight, reply, queue, conn,
                   cleaner, received>>

InvokeInsert(c) ==
    /\ call[c].at = "insert"
    /\ pending' = pending \cup {c}
    /\ call' = [call EXCEPT ![c].at = "track"]
    /\ UNCHANGED <<regVars, inFlight, reply, queue, conn, cleaner, received>>

\* Mutant: the call is not recorded under its worker.
InvokeUntracked(c) ==
    /\ call[c].at = "track"
    /\ call' = [call EXCEPT ![c].at = "send"]
    /\ UNCHANGED <<regVars, pending, inFlight, reply, queue, conn, cleaner, received>>

\* in_flight.entry(worker).insert, on whatever side of the worker's cleanups.
InvokeTrack(c) ==
    LET w == call[c].worker IN
    /\ call[c].at = "track"
    /\ inFlight' = [inFlight EXCEPT ![w] = @ \cup {c}]
    /\ call' = [call EXCEPT ![c] = [@ EXCEPT !.at = "send",
                             !.tracked = IF Cleaned(w) THEN "after" ELSE "ahead"]]
    /\ UNCHANGED <<regVars, pending, reply, queue, conn, cleaner, received>>

\* Mutant: a full channel takes the task although the caller is refused.
InvokeSendAnyway(c) ==
    LET w == call[c].worker
        full == Len(queue[w]) >= QueueCap
    IN
    /\ call[c].at = "send"
    /\ queue' = IF RxAlive(w) THEN [queue EXCEPT ![w] = Append(@, c)] ELSE queue
    /\ IF RxAlive(w) /\ ~full
       THEN call' = [call EXCEPT ![c].at = "await"] /\ UNCHANGED <<pending, inFlight>>
       ELSE /\ Return(c, "unavailable")
            /\ pending' = pending \ {c}
            /\ inFlight' = [inFlight EXCEPT ![w] = @ \ {c}]
    /\ UNCHANGED <<regVars, reply, conn, cleaner, received>>

\* try_send fails when the receiver is gone or the channel is full; the handler
\* then takes its two entries back (only it and the cleanup look at them).
InvokeSend(c) ==
    LET w == call[c].worker IN
    /\ call[c].at = "send"
    /\ IF RxAlive(w) /\ Len(queue[w]) < QueueCap
       THEN /\ queue' = [queue EXCEPT ![w] = Append(@, c)]
            /\ call' = [call EXCEPT ![c].at = "await"]
            /\ UNCHANGED <<pending, inFlight>>
       ELSE /\ Return(c, "unavailable")
            /\ pending' = pending \ {c}
            /\ inFlight' = [inFlight EXCEPT ![w] = @ \ {c}]
            /\ UNCHANGED queue
    /\ UNCHANGED <<regVars, reply, conn, cleaner, received>>

\* Mutant: a call whose worker left is dispatched again.
InvokeRetry(c) ==
    LET again == reply[c] = "gone" IN
    /\ call[c].at = "await"
    /\ reply[c] # "empty"
    /\ call' = [call EXCEPT ![c] = IF again THEN [@ EXCEPT !.at = "pick"]
                                   ELSE [@ EXCEPT !.at = "done", !.outcome = reply[c]]]
    /\ reply' = IF again THEN [reply EXCEPT ![c] = "empty"] ELSE reply
    /\ inFlight' = [inFlight EXCEPT ![call[c].worker] = @ \ {c}]
    /\ UNCHANGED <<regVars, pending, queue, conn, cleaner, received>>

\* The one-shot channel delivered: `timeout` polls it before the timer.
InvokeReply(c) ==
    /\ call[c].at = "await"
    /\ reply[c] # "empty"
    /\ Return(c, reply[c])
    /\ inFlight' = [inFlight EXCEPT ![call[c].worker] = @ \ {c}]
    /\ UNCHANGED <<regVars, pending, reply, queue, conn, cleaner, received>>

\* Mutant: the timer leaves the pending entry behind.
InvokeTimeoutLeaves(c) ==
    /\ call[c].at = "await"
    /\ reply[c] = "empty"
    /\ Return(c, "deadline")
    /\ inFlight' = [inFlight EXCEPT ![call[c].worker] = @ \ {c}]
    /\ UNCHANGED <<regVars, pending, reply, queue, conn, cleaner, received>>

\* Mutant: the timer is trusted to the worker's channel being alive.
InvokeTimeoutIfAlive(c) ==
    /\ InvokeTimeoutLeaves(c)
    /\ RxAlive(call[c].worker)

\* The timer fires first; the two entries are taken back.
InvokeTimeout(c) ==
    /\ call[c].at = "await"
    /\ reply[c] = "empty"
    /\ Return(c, "deadline")
    /\ pending' = pending \ {c}
    /\ inFlight' = [inFlight EXCEPT ![call[c].worker] = @ \ {c}]
    /\ UNCHANGED <<regVars, reply, queue, conn, cleaner, received>>

\* The client goes away while the handler waits: the server drops the handler's
\* future, which takes nothing back.
InvokeCancel(c) ==
    /\ call[c].at = "await"
    /\ Return(c, "cancelled")
    /\ UNCHANGED <<regVars, pending, inFlight, reply, queue, conn, cleaner, received>>

InvokeStep(c) == InvokeGroup(c) \/ InvokePick(c) \/ InvokeInsert(c)
                 \/ InvokeTrack(c) \/ InvokeSend(c) \/ InvokeReply(c)

-----------------------------------------------------------------------------
(* The stream to and from a worker *)

\* The outbound stream hands a task to the worker process.
DeliverTask(w) ==
    /\ conn[w].at = "open"
    /\ cleaner[w]["outbound"].at = "idle"
    /\ queue[w] # <<>>
    /\ queue' = [queue EXCEPT ![w] = Tail(@)]
    /\ received' = [received EXCEPT ![Head(queue[w])][MachineOf[w]] = @ + 1]
    /\ UNCHANGED <<regVars, callVars, conn, cleaner>>

\* A worker process answers a task on its current stream: in any order, again,
\* or for a task an earlier stream of it brought (its handlers outlive a
\* reconnect).  An answer nobody waits for is ignored and changes nothing.
Answer(w, c) ==
    /\ conn[w].at = "open"
    /\ cleaner[w]["inbound"].at = "idle"
    /\ received[c][MachineOf[w]] > 0
    /\ c \in pending
    /\ Resolve(c, "answer")
    /\ UNCHANGED <<regVars, inFlight, queue, conn, cleaner, call, received>>

-----------------------------------------------------------------------------
Next ==
    \/ \E w \in Workers :
         \/ Register(w)
         \/ DeliverTask(w)
         \/ \E p \in Paths : BeginClean(w, p) \/ CleanStep(w, p)
         \/ \E c \in Calls : Answer(w, c)
    \/ \E c \in Calls :
         \/ \E t \in Tools : Invoke(c, t)
         \/ InvokeStep(c)
         \/ InvokeTimeout(c)
         \/ InvokeCancel(c)

Spec == Init /\ [][Next]_vars

\* The runtime polls every ready task: handlers and cleanups keep moving.
Progress ==
    /\ \A w \in Workers, p \in Paths : WF_vars(CleanStep(w, p))
    /\ \A c \in Calls : WF_vars(InvokeStep(c))

\* ... and the timer of a waiting call goes off.
Timers == \A c \in Calls : WF_vars(InvokeTimeout(c))

\* What the runtime guarantees before any timer has gone off.
FairSpec == Spec /\ Progress

-----------------------------------------------------------------------------
(* Safety *)

\* A cleanup of w is still to come to its in_flight.remove (at the latest when w
\* leaves); none ever runs for a worker rejected in the middle of its list.
CleanupAhead(w) == conn[w].at # "refused" /\ ~Cleaned(w)

\* Fail-fast overlooks nobody it could have found: a call that is waiting for an
\* answer not yet sent is in `pending`, and a cleanup of its worker holds it or is
\* still to come and will find it in in_flight.  Two kinds of call have only their
\* answer and their timer: one recorded after both cleanups had taken in_flight
\* (tracked "after") and one given to a worker that was then rejected half way.
WaiterTracked ==
    \A c \in Calls : LET w == call[c].worker IN
        (call[c].at \in {"send", "await"} /\ reply[c] = "empty") =>
            /\ c \in pending
            /\ \/ \E p \in Paths : c \in cleaner[w][p].taken
               \/ /\ c \in inFlight[w]
                  /\ CleanupAhead(w) \/ call[c].tracked = "after" \/ conn[w].at = "refused"

\* A call that has returned, whatever way it returned, has left no entry in
\* pending or in_flight; only a call whose client went away may.
\* "Timeout patladiginda pending girisi garantili kaldirilir" (lib.rs:16).
ReturnedLeavesNothing ==
    \A c \in Calls :
        (call[c].at = "done" /\ call[c].outcome # "cancelled") =>
            c \notin pending /\ \A w \in Workers : c \notin inFlight[w]

\* Once a cleanup of w has been through the groups, no mapped group lists w:
\* get_next_worker cannot return it to a call that looks the tool up later.
DepartedUnreachable ==
    \A w \in Workers, p \in Paths, t \in Tools :
        (cleaner[w][p].at \in {"dropGroup", "dropDef", "take", "flush", "done"}
         /\ groupOf[t] # Nobody) =>
            \A i \in 1..Len(members[t][groupOf[t]]) : members[t][groupOf[t]][i] # w

Live(w) == conn[w].at = "open" /\ \A p \in Paths : cleaner[w][p].at = "idle"
Serves(w, t) == \E g \in Workers : \E i \in 1..Len(members[t][g]) : members[t][g][i] = w

\* No registration and no cleanup is in progress.
Settled == \A w \in Workers :
             /\ conn[w].at \in {"new", "open", "refused"}
             /\ \A p \in Paths : cleaner[w][p].at \in {"idle", "done"}

\* list_tools shows the truth (lib.rs:178): with nothing in progress a tool is
\* listed exactly when a connected worker that registered it is there, and each
\* such worker is in the group that calls to the tool are dispatched to.
ListingTrue ==
    Settled => \A t \in Tools :
        /\ t \in defs <=> \E w \in Workers : Live(w) /\ Serves(w, t)
        /\ \A w \in Workers : (Live(w) /\ Serves(w, t)) =>
              /\ groupOf[t] # Nobody
              /\ \E i \in 1..Len(members[t][groupOf[t]]) :
                    members[t][groupOf[t]][i] = w

-----------------------------------------------------------------------------
(* What a client may rely on *)

Promise == INSTANCE Delegation WITH
    outcome <- [c \in Calls |-> call[c].outcome],
    given   <- received

\* A task is delivered at most once, to one worker process over one of its streams,
\* although the process may have several and answers on any; every call ends once;
\* a call the daemon refuses (not found, unavailable) is never run.
KeepsPromise == Promise!Spec

-----------------------------------------------------------------------------
(* The inductive invariant behind WaiterTracked and ReturnedLeavesNothing *)

Untracked(c) == \A w \in Workers :
    c \notin inFlight[w] /\ \A p \in Paths : c \notin cleaner[w][p].taken

\* Before try_send nobody can have seen the call, and its entries appear in the
\* order pending, in_flight.
NotYetSent == \A c \in Calls :
    /\ call[c].at \in {"idle", "group", "pick", "insert"} =>
          c \notin pending /\ Untracked(c) /\ reply[c] = "empty"
    /\ call[c].at = "track" => c \in pending /\ Untracked(c) /\ reply[c] = "empty"

\* Some worker process has received the task of c.
Handed(c) == \E m \in Machines : received[c][m] > 0

\* Only a call that has been sent is in a channel or known to a worker process.
SentOnly ==
    /\ \A w \in Workers : \A i \in 1..Len(queue[w]) : call[queue[w][i]].at \in {"await", "done"}
    /\ \A c \in Calls : Handed(c) => call[c].at \in {"await", "done"}

\* A call is tracked under the worker it was given to, and answered out of pending.
TrackedRight == \A c \in Calls :
    /\ \A w \in Workers :
          (c \in inFlight[w] \/ \E p \in Paths : c \in cleaner[w][p].taken) =>
              call[c].worker = w
    /\ reply[c] # "empty" => c \notin pending

\* A cleanup holds calls only between its in_flight.remove and its last answer.
TakenToFlush == \A w \in Workers, p \in Paths :
    cleaner[w][p].at # "flush" => cleaner[w][p].taken = {}

CallInv == NotYetSent /\ SentOnly /\ TrackedRight /\ TakenToFlush
           /\ WaiterTracked /\ ReturnedLeavesNothing

-----------------------------------------------------------------------------
(* The inductive invariant behind KeepsPromise *)

\* A task is in one channel, once, or has been handed over; what was refused is neither.
QueuedOnce == \A w \in Workers : \A i \in 1..Len(queue[w]) : LET c == queue[w][i] IN
    /\ call[c].worker = w /\ call[c].outcome \notin Promise!Refusal
    /\ ~Handed(c)
    /\ \A j \in 1..Len(queue[w]) : queue[w][j] = c => j = i

HandedRight == \A c \in Calls : Handed(c) => call[c].outcome \notin Promise!Refusal

AnswersHanded == \A c \in Calls : reply[c] = "answer" => Handed(c)

Unended == \A c \in Calls : call[c].at # "done" => call[c].outcome = "none"

DeliveryInv == QueuedOnce /\ HandedRight /\ AnswersHanded /\ Unended

-----------------------------------------------------------------------------
(* The inductive invariant behind DepartedUnreachable *)

Lists(s, x) == \E i \in 1..Len(s) : s[i] = x

\* w is still to come to its registration of t.
Ahead(w, t) ==
    \/ conn[w].at = "new"
    \/ conn[w].at = "entry" /\ Lists(conn[w].todo, t)
    \/ conn[w].at \in {"add", "def"} /\ Lists(Tail(conn[w].todo), t)

Joining(w, t) == conn[w].at = "add" /\ Head(conn[w].todo) = t

Distinct(s) == \A i, j \in 1..Len(s) : s[i] = s[j] => i = j

\* A cleanup comes after all registrations of its worker, and each tool is one of them.
OnlyOpen  == \A w \in Workers, p \in Paths : cleaner[w][p].at # "idle" => conn[w].at = "open"
ToolsOnce == \A w \in Workers : Distinct(conn[w].todo)

\* A group is new, and so empty, when it is first mapped: its creator makes it once.
Unfounded == \A w \in Workers, t \in Tools : Ahead(w, t) =>
    /\ groupOf[t] # w /\ members[t][w] = <<>>
    /\ \A v \in Workers : Joining(v, t) => conn[v].group # w

\* A worker joins one group of a tool, once.
JoinsOnce == \A w \in Workers, t \in Tools : Ahead(w, t) \/ Joining(w, t) =>
    \A g \in Workers : ~Lists(members[t][g], w)
ListedOnce == \A t \in Tools, g \in Workers : Distinct(members[t][g])

\* The member-removal loop of this cleanup has been at t.
Passed(w, p, t) ==
    \/ cleaner[w][p].at \in {"dropGroup", "dropDef", "take", "flush", "done"}
    \/ cleaner[w][p].at \in {"remove", "count"} /\ t \notin cleaner[w][p].todo

Unlisted == \A w \in Workers, p \in Paths, t \in Tools :
    Passed(w, p, t) /\ groupOf[t] # Nobody => ~Lists(members[t][groupOf[t]], w)

MembersInv == OnlyOpen /\ ToolsOnce /\ Unfounded /\ JoinsOnce /\ ListedOnce /\ Unlisted

-----------------------------------------------------------------------------
(* Liveness *)

\* When timers go off every Invoke returns, whatever its worker does (FairSpec).
EveryCallReturns ==
    Timers => \A c \in Calls : call[c].at # "idle" ~> call[c].at = "done"

\* Fail-fast: a call that waits when a cleanup of its worker is still ahead of
\* its in_flight.remove returns without help from its timer (FairSpec).
FailFast ==
    \A c \in Calls, w \in Workers, p \in Paths :
        (/\ call[c].at = "await" /\ call[c].worker = w
         /\ cleaner[w][p].at \in {"remove", "count", "dropGroup", "dropDef", "take"})
            ~> call[c].at = "done"

=============================================================================
