----------------------------- MODULE Executions -----------------------------
(***************************************************************************)
(* Running, pausing and resuming graphs: run_execution, resume_execution   *)
(* and run_scheduler of tinypipe-server/src/engine.rs (the CLI's execute   *)
(* and resume are the same code) and the Scheduler of tinypipe-scheduler,  *)
(* over the executions and execution_steps tables, while other clients     *)
(* work on the graphs (GraphStore).                                        *)
(*                                                                         *)
(* A plan is a line of NodeCount nodes: the executor is at a position, it  *)
(* runs one node per step, and a checkpoint is its position.  An action is *)
(* one SQL statement or one node.                                          *)
(***************************************************************************)
EXTENDS GraphStore

CONSTANTS
    Execs,       \* execution ids
    Runners,     \* the clients that execute, resume and schedule
    Kinds,       \* who runs here: "engine" (the CLI, a server with
                 \* TINYPIPE_SERVER_AUDIT), "unaudited" (a server without),
                 \* "scheduler" (the scheduler crate, from the CLI)
    Budgets,     \* values of pause_after and max_nodes
    NodeCount,   \* nodes of every plan
    MaxTimes,    \* bound on the runs of one node of one execution
    Faults       \* what may go wrong: "node" (a node fails), "env" (a variable
                 \* is missing)

ASSUME ExecutionsAssumption ==
    /\ Runners \subseteq Clients
    /\ Kinds \subseteq {"engine", "unaudited", "scheduler"}
    /\ Budgets \subseteq Nat \ {0} /\ NodeCount \in Nat \ {0} /\ MaxTimes \in Nat
    /\ MaxVersion >= 1
    /\ Faults \subseteq {"node", "env"}
    /\ None \notin Execs /\ None \notin Nat

Nodes     == 1..NodeCount
Inner     == 1..(NodeCount - 1)   \* the positions a run can be resumed from
Unlimited == 0             \* max_nodes = None

VARIABLES
    exec,     \* executions: status, the graph and version recorded, checkpoint
    steps,    \* execution_steps: the number of rows per node
    run,      \* the runners: what each one is doing
    effects   \* external: how often each node has run

execVars == <<exec, steps, run, effects>>
vars == <<row, vers, client, trouble, exec, steps, run, effects>>

Status == {"none", "running", "paused", "completed", "failed"}
Exec == [status : Status, g : Graphs \cup {None}, version : 0..MaxVersion,
         checkpoint : Inner \cup {None}]

RunAt == {"idle", "pick", "loadExec", "loadCheckpoint", "loadPlan", "node",
          "completed", "paused", "checkpoint", "failed", "record"}
Run == [at : RunAt, kind : {"engine", "unaudited", "scheduler"}, e : Execs \cup {None},
        todo : SUBSET Execs, plan : Source, start : {0} \cup Inner, pos : {0} \cup Nodes,
        step : {0} \cup Inner, budget : Budgets \cup {Unlimited}]

NotRunning == [at |-> "idle", kind |-> "engine", e |-> None, todo |-> {}, plan |-> None,
               start |-> 0, pos |-> 0, step |-> 0, budget |-> Unlimited]

Known == {e \in Execs : exec[e].status # "none"}

\* A runner's locals are set before they are used, and its executions exist.
RunnerSet(r, known) ==
    /\ r.at \notin {"idle", "pick"} => r.e \in known
    /\ r.todo \subseteq known
    /\ r.at = "node" => r.plan \in Codes
    /\ r.at \in {"loadPlan", "node"} => r.pos # NodeCount
    /\ r.at \in {"paused", "checkpoint"} => r.pos \in Inner
    /\ r.at \in {"completed", "record"} => r.pos = NodeCount

ExecTyped ==
    /\ exec \in [Execs -> Exec]
    /\ steps \in [Execs -> [Nodes -> 0..MaxTimes]]
    /\ run \in [Clients -> Run]
    /\ effects \in [Execs -> [Nodes -> 0..MaxTimes]]
    /\ \A e \in Known : exec[e].g \in Graphs /\ exec[e].version \in Versions
    /\ \A c \in Clients : RunnerSet(run[c], Known)

ExecTypeOK ==
    /\ StoreTyped /\ ExecTyped
    /\ trouble \subseteq {"killed", "runners", "unaudited", "node", "env"}

\* Every graph was made before; fork_graph stored no plan.
ExecInit ==
    /\ \E code \in Codes :
         LET plan(g) == IF g \in Forked THEN None ELSE code IN
         /\ row = [g \in Graphs |-> [version |-> 1, code |-> code, plan |-> plan(g), active |-> 0]]
         /\ vers = [g \in Graphs |-> [v \in Versions |->
                        IF v = 1 THEN [code |-> code, plan |-> plan(g)]
                        ELSE [code |-> None, plan |-> None]]]
    /\ client = [c \in Clients |-> Idle]
    /\ trouble = {}
    /\ exec = [e \in Execs |-> [status |-> "none", g |-> None, version |-> 0,
                                checkpoint |-> None]]
    /\ steps = [e \in Execs |-> [k \in Nodes |-> 0]]
    /\ run = [c \in Clients |-> NotRunning]
    /\ effects = [e \in Execs |-> [k \in Nodes |-> 0]]

-----------------------------------------------------------------------------
(* Helpers *)

Free(c) == client[c].at = "idle" /\ run[c].at = "idle"

Step(c, at) == run' = [run EXCEPT ![c].at = at]

\* Done with one execution: the next one of the round, or the request's end.
Finish(c) ==
    LET r == run[c] IN
    run' = [run EXCEPT ![c] =
        IF r.todo = {} THEN NotRunning
        ELSE [NotRunning EXCEPT !.at = "pick", !.kind = r.kind, !.todo = r.todo,
                                !.budget = r.budget]]

\* Mutant: an upsert that keeps the checkpoint of the old row.
SaveKeepsCheckpoint(e, g, version, status) ==
    exec' = [exec EXCEPT ![e] = [status |-> status, g |-> g, version |-> version,
                                 checkpoint |-> @.checkpoint]]

\* save_execution is INSERT OR REPLACE of every column but the checkpoint,
\* which the new row does not have.
SaveExecution(e, g, version, status) ==
    exec' = [exec EXCEPT ![e] = [status |-> status, g |-> g, version |-> version,
                                 checkpoint |-> None]]

\* list_paused_executions, load_checkpoint and load_plan_version: what three reads
\* return.  A row without a checkpoint gives no bytes, a version without a plan an error.
PausedExecutions == {e \in Execs : exec[e].status = "paused"}
StoredCheckpoint(e) == exec[e].checkpoint
StoredPlan(e) == vers[exec[e].g][exec[e].version].plan

StoreCheckpoint(e, k) == exec' = [exec EXCEPT ![e].checkpoint = k]

\* save_step: a row with an id of its own, never one that is there.
SaveStep(e, k) == steps[e][k] < MaxTimes /\ steps' = [steps EXCEPT ![e][k] = @ + 1]

\* save_execution of a row loaded before: only the status differs.
SaveStatus(c, status) ==
    LET e == run[c].e IN SaveExecution(e, exec[e].g, exec[e].version, status)

-----------------------------------------------------------------------------
(* Starting: the graph and its plan come from GraphStore's LoadGraph and LoadPlan *)

\* run_execution saves the row as running.  (The server checks the environment
\* before, when the plan is loaded: a request that fails there is Loaded.  Without
\* audit the run writes nothing, and is Loaded as well.)
Begin(c, e, b) ==
    /\ client[c].at = "loaded" /\ ~Locked(c)
    /\ "engine" \in Kinds
    /\ exec[e].status = "none"
    /\ SaveExecution(e, client[c].g, client[c].version, "running")
    /\ run' = [run EXCEPT ![c] = [NotRunning EXCEPT !.at = "node", !.e = e,
                                      !.plan = client[c].plan, !.budget = b]]
    /\ Return(c)
    /\ UNCHANGED <<row, vers, steps, effects>>

\* The CLI checks it after: execute and resume exit and leave the row as it is.
\* (The server's resume does not check.)
EnvMissing(c) ==
    /\ "env" \in Faults
    /\ run[c].at = "node" /\ run[c].pos = run[c].start
    /\ run[c].kind = "engine" /\ run[c].todo = {}
    /\ Finish(c)
    /\ UNCHANGED <<dataVars, exec, steps, effects>>

\* The Scheduler asks the registry for what is missing before it resumes, and goes
\* on with its list.
SchedulerEnvMissing(c) ==
    /\ "env" \in Faults
    /\ run[c].at = "node" /\ run[c].pos = run[c].start
    /\ run[c].kind = "scheduler"
    /\ Finish(c)
    /\ UNCHANGED <<dataVars, exec, steps, effects>>

-----------------------------------------------------------------------------
(* Resuming: one execution (resume), or every paused one (a scheduler round) *)

Resume(c, e, kind, b) ==
    /\ Free(c)
    /\ kind # "scheduler"
    /\ exec[e].status # "none"
    /\ run' = [run EXCEPT ![c] = [NotRunning EXCEPT !.at = "pick", !.kind = kind,
                                                    !.todo = {e}, !.budget = b]]
    /\ UNCHANGED <<dataVars, exec, steps, effects>>

\* A round: the server's run_scheduler, or Scheduler::run_once of the CLI.
List(c, kind, b) ==
    /\ Free(c) /\ ~Locked(c)
    /\ PausedExecutions # {}
    /\ run' = [run EXCEPT ![c] = [NotRunning EXCEPT !.at = "pick", !.kind = kind,
                                       !.todo = PausedExecutions, !.budget = b]]
    /\ UNCHANGED <<dataVars, exec, steps, effects>>

\* The engine loads the execution again, the scheduler goes by its list.
Pick(c) ==
    /\ run[c].at = "pick"
    /\ \E e \in run[c].todo :
         run' = [run EXCEPT ![c].e = e, ![c].todo = @ \ {e},
                     ![c].at = IF run[c].kind = "scheduler" THEN "loadCheckpoint"
                               ELSE "loadExec"]
    /\ UNCHANGED <<dataVars, exec, steps, effects>>

LoadExec(c) ==
    /\ run[c].at = "loadExec" /\ ~Locked(c)
    /\ IF exec[run[c].e].status = "paused" THEN Step(c, "loadCheckpoint") ELSE Finish(c)
    /\ UNCHANGED <<dataVars, exec, steps, effects>>

\* Mutant: the node after the checkpoint is taken for done.
LoadCheckpointPlusOne(c) ==
    LET k == StoredCheckpoint(run[c].e) IN
    /\ run[c].at = "loadCheckpoint" /\ ~Locked(c)
    /\ IF k \in Nat /\ k + 1 < NodeCount
       THEN run' = [run EXCEPT ![c].at = "loadPlan", ![c].start = k + 1, ![c].pos = k + 1,
                               ![c].step = k + 1]
       ELSE Finish(c)
    /\ UNCHANGED <<dataVars, exec, steps, effects>>

\* Mutant: the resumed run starts with the node it paused after.
LoadCheckpointMinusOne(c) ==
    LET k == StoredCheckpoint(run[c].e) IN
    /\ run[c].at = "loadCheckpoint" /\ ~Locked(c)
    /\ IF k # None
       THEN run' = [run EXCEPT ![c].at = "loadPlan", ![c].start = k - 1, ![c].pos = k - 1,
                               ![c].step = k - 1]
       ELSE Finish(c)
    /\ UNCHANGED <<dataVars, exec, steps, effects>>

\* An absent checkpoint does not decode: the resume ends with an error.
LoadCheckpoint(c) ==
    LET k == StoredCheckpoint(run[c].e) IN
    /\ run[c].at = "loadCheckpoint" /\ ~Locked(c)
    /\ IF k # None
       THEN run' = [run EXCEPT ![c].at = "loadPlan", ![c].start = k, ![c].pos = k,
                               ![c].step = k]
       ELSE Finish(c)
    /\ UNCHANGED <<dataVars, exec, steps, effects>>

\* Mutant: the graph's current plan.
LoadCurrentPlan(c) ==
    LET plan == row[exec[run[c].e].g].plan IN
    /\ run[c].at = "loadPlan" /\ ~Locked(c)
    /\ IF plan # None
       THEN run' = [run EXCEPT ![c].at = "node", ![c].plan = plan]
       ELSE Finish(c)
    /\ UNCHANGED <<dataVars, exec, steps, effects>>

\* load_plan_version: the plan of the version the execution recorded.
LoadRunPlan(c) ==
    LET plan == StoredPlan(run[c].e) IN
    /\ run[c].at = "loadPlan" /\ ~Locked(c)
    /\ IF plan # None
       THEN run' = [run EXCEPT ![c].at = "node", ![c].plan = plan]
       ELSE Finish(c)
    /\ UNCHANGED <<dataVars, exec, steps, effects>>

-----------------------------------------------------------------------------
(* Executing *)

\* PausePolicy::should_pause: the budget is compared with the node count of the
\* whole execution, after the node.
ShouldPause(b, count) == b # Unlimited /\ count >= b

\* Where a segment goes on when its run is over: the engine writes the execution
\* first, the scheduler the steps first, and the scheduler leaves a paused row as it
\* is but for the checkpoint.
EngineWrites    == [end |-> "completed", pause |-> "paused"]
SchedulerWrites == [end |-> "record", pause |-> "checkpoint"]
Writes(c) == IF run[c].kind = "scheduler" THEN SchedulerWrites ELSE EngineWrites

\* Mutant: a segment that starts at its budget runs nothing.
RunNodeChecksFirst(c) ==
    LET e == run[c].e  k == run[c].pos + 1 IN
    /\ run[c].at = "node"
    /\ effects[e][k] < MaxTimes
    /\ IF ShouldPause(run[c].budget, run[c].pos)
       THEN Finish(c) /\ UNCHANGED effects
       ELSE /\ effects' = [effects EXCEPT ![e][k] = @ + 1]
            /\ run' = [run EXCEPT ![c].pos = k,
                  ![c].at = IF k = NodeCount THEN Writes(c).end
                            ELSE IF ShouldPause(run[c].budget, k) THEN Writes(c).pause
                            ELSE "node"]
    /\ UNCHANGED <<dataVars, exec, steps>>

\* Mutant: the pause is decided before the end is noticed.
RunNodePausesAtEnd(c) ==
    LET e == run[c].e  k == run[c].pos + 1 IN
    /\ run[c].at = "node"
    /\ effects[e][k] < MaxTimes
    /\ effects' = [effects EXCEPT ![e][k] = @ + 1]
    /\ run' = [run EXCEPT ![c].pos = k,
          ![c].at = IF ShouldPause(run[c].budget, k) THEN Writes(c).pause
                    ELSE IF k = NodeCount THEN Writes(c).end
                    ELSE "node"]
    /\ UNCHANGED <<dataVars, exec, steps>>

\* One node.  After the last one the execution is complete, whatever the budget.
RunNode(c) ==
    LET e == run[c].e  k == run[c].pos + 1 IN
    /\ run[c].at = "node"
    /\ effects[e][k] < MaxTimes
    /\ effects' = [effects EXCEPT ![e][k] = @ + 1]
    /\ run' = [run EXCEPT ![c].pos = k,
          ![c].at = IF k = NodeCount THEN Writes(c).end
                    ELSE IF ShouldPause(run[c].budget, k) THEN Writes(c).pause
                    ELSE "node"]
    /\ UNCHANGED <<dataVars, exec, steps>>

\* A node fails: the engine records it, the scheduler only counts it.
FailNode(c) ==
    /\ "node" \in Faults
    /\ run[c].at = "node"
    /\ IF run[c].kind = "scheduler" THEN Finish(c) ELSE Step(c, "failed")
    /\ UNCHANGED <<dataVars, exec, steps, effects>>

\* Without audit a resumed segment ends here: nothing of it is saved.
EndUnaudited(c) ==
    /\ run[c].kind = "unaudited"
    /\ run[c].at \in {"completed", "paused", "failed"}
    /\ Finish(c)
    /\ UNCHANGED <<dataVars, exec, steps, effects>>

Saves(c) == run[c].kind # "unaudited" /\ ~Locked(c)

SaveCompleted(c) ==
    /\ run[c].at = "completed" /\ run[c].kind = "engine" /\ Saves(c)
    /\ SaveStatus(c, "completed")
    /\ Step(c, "record")
    /\ UNCHANGED <<dataVars, steps, effects>>

\* record_steps, one row: the nodes of this segment, in order.
RecordStep(c) ==
    LET k == run[c].step + 1 IN
    /\ run[c].at = "record" /\ run[c].kind = "engine" /\ ~Locked(c)
    /\ SaveStep(run[c].e, k)
    /\ IF k < run[c].pos THEN run' = [run EXCEPT ![c].step = k] ELSE Finish(c)
    /\ UNCHANGED <<dataVars, exec, effects>>

\* The scheduler's own record_steps, after which resume_one saves the row.
SchedulerRecordStep(c) ==
    LET k == run[c].step + 1 IN
    /\ run[c].at = "record" /\ run[c].kind = "scheduler" /\ ~Locked(c)
    /\ SaveStep(run[c].e, k)
    /\ IF k < run[c].pos THEN run' = [run EXCEPT ![c].step = k] ELSE Step(c, "completed")
    /\ UNCHANGED <<dataVars, exec, effects>>

SchedulerSaveCompleted(c) ==
    /\ run[c].at = "completed" /\ run[c].kind = "scheduler" /\ Saves(c)
    /\ SaveStatus(c, "completed")
    /\ Finish(c)
    /\ UNCHANGED <<dataVars, steps, effects>>

\* Mutant: the request ends without the checkpoint.
SavePausedOnly(c) ==
    /\ run[c].at = "paused" /\ Saves(c)
    /\ SaveStatus(c, "paused")
    /\ Finish(c)
    /\ UNCHANGED <<dataVars, steps, effects>>

SavePaused(c) ==
    /\ run[c].at = "paused" /\ Saves(c)
    /\ SaveStatus(c, "paused")
    /\ Step(c, "checkpoint")
    /\ UNCHANGED <<dataVars, steps, effects>>

SaveCheckpoint(c) ==
    /\ run[c].at = "checkpoint" /\ ~Locked(c)
    /\ StoreCheckpoint(run[c].e, run[c].pos)
    /\ Finish(c)
    /\ UNCHANGED <<dataVars, steps, effects>>

SaveFailed(c) ==
    /\ run[c].at = "failed" /\ Saves(c)
    /\ SaveStatus(c, "failed")
    /\ Finish(c)
    /\ UNCHANGED <<dataVars, steps, effects>>

-----------------------------------------------------------------------------
ExecCrash(p) ==
    /\ p \in Mortal
    /\ \E c \in Clients : ProcessOf[c] = p /\ ~Free(c)
    /\ client' = [c \in Clients |-> IF ProcessOf[c] = p THEN Idle ELSE client[c]]
    /\ run' = [c \in Clients |-> IF ProcessOf[c] = p THEN NotRunning ELSE run[c]]
    /\ UNCHANGED <<row, vers, exec, steps, effects>>

\* What a runner does once it has begun.
RunStep(c) ==
    \/ Pick(c) \/ LoadExec(c) \/ LoadCheckpoint(c) \/ LoadRunPlan(c) \/ RunNode(c)
    \/ SaveCompleted(c) \/ RecordStep(c) \/ SchedulerRecordStep(c)
    \/ SchedulerSaveCompleted(c) \/ SavePaused(c) \/ SaveCheckpoint(c)
    \/ SaveFailed(c) \/ EndUnaudited(c)

Runner(c) ==
    \/ /\ Free(c)
       /\ \E g \in Graphs : LoadGraph(c, g)
       /\ UNCHANGED execVars
    \/ (LoadPlan(c) \/ SavePlan(c) \/ SaveVersion(c) \/ Loaded(c)) /\ UNCHANGED execVars
    \/ \E b \in Budgets \cup {Unlimited} :
         \/ \E e \in Execs : Begin(c, e, b)
         \/ \E kind \in Kinds : List(c, kind, b) \/ \E e \in Execs : Resume(c, e, kind, b)
    \/ RunStep(c)

Editor(c) == (Start(c) \/ Continue(c)) /\ UNCHANGED execVars

\* Nobody resumes an execution another one is running.
Exclusive == \A c, d \in Runners : (c # d /\ run[c].e # None) => run[d].e # run[c].e

\* What the history records of a state.
Seen == (IF Exclusive THEN {} ELSE {"runners"})
        \cup (IF \E c \in Runners : run[c].kind = "unaudited" /\ run[c].at = "node"
              THEN {"unaudited"} ELSE {})

ExecNext ==
    \/ /\ \/ \E c \in Clients \ Runners : Editor(c)
          \/ \E c \in Runners : Runner(c)
       /\ trouble' = trouble \cup Seen'
    \/ (\E c \in Runners : FailNode(c)) /\ trouble' = trouble \cup {"node"}
    \/ (\E c \in Runners : EnvMissing(c) \/ SchedulerEnvMissing(c)) /\ trouble' = trouble \cup {"env"}
    \/ (\E p \in Processes : ExecCrash(p)) /\ trouble' = trouble \cup {"killed"}

ExecSpec == ExecInit /\ [][ExecNext]_vars

\* A deployment with at most one runner per execution.
ExclusiveSpec == ExecInit /\ [][ExecNext /\ Exclusive']_vars

\* ... whose requests and runners keep moving, the connection lock (a Mutex that is
\* free again and again) coming to each of them, and whose scheduler is called
\* again and again (by a cron job or an operator), with a budget.
Observed(action) == action /\ trouble' = trouble \cup Seen'
Round(c) == \E kind \in Kinds \ {"unaudited"}, b \in Budgets : List(c, kind, b)

FairExclusiveSpec ==
    /\ ExclusiveSpec
    /\ \A c \in Clients : SF_vars(Observed(Continue(c) /\ UNCHANGED execVars))
    /\ \A c \in Runners :
         SF_vars(Observed(RunStep(c) /\ Exclusive')) /\ SF_vars(Observed(Round(c)))

-----------------------------------------------------------------------------
(* Properties *)

Resting(e) == \A c \in Runners : run[c].e # e

\* Execution e has run every node up to k.
Ran(e, k) == \A j \in Nodes : j <= k => effects[e][j] >= 1

\* A checkpoint never claims a node that did not run, and a completed execution
\* ran every node, whatever the crashes and however many runners it had.
NothingSkipped ==
    \A e \in Execs :
        /\ exec[e].status = "completed" => Ran(e, NodeCount)
        /\ exec[e].checkpoint # None => Ran(e, exec[e].checkpoint)

\* Unless a process was killed or the CLI's environment check failed, an execution
\* nobody is running can be resumed or is over: it is not left running, nor paused
\* without a checkpoint, though save_execution wipes it before save_checkpoint.
RestsSafely ==
    trouble \cap {"killed", "env"} = {} =>
        \A e \in Execs : Resting(e) =>
            \/ exec[e].status \in {"none", "completed", "failed"}
            \/ exec[e].status = "paused" /\ exec[e].checkpoint # None

\* While one runner at a time works on it, and no node fails and nothing is killed
\* or unaudited, no node of an execution runs twice and no step is recorded twice,
\* though a scheduler goes by a list that may be old when it comes to an execution.
OnceEach ==
    trouble \subseteq {"env"} =>
        \A e \in Execs, k \in Nodes : effects[e][k] <= 1 /\ steps[e][k] <= 1

\* With one runner at a time an execution that is over stays over, whatever fails
\* or is killed.
TerminalStays ==
    [][\A e \in Execs :
          ("runners" \notin trouble' /\ exec[e].status \in {"completed", "failed"}) =>
              exec'[e].status = exec[e].status]_vars

\* "later graph edits do not affect in-flight executions" (README.md:662-665): while no
\* two processes meet on a graph and none is killed between two statements, what resume
\* runs is the code of the version the execution recorded.
ResumesItsVersion ==
    "killed" \notin trouble =>
        \A c \in Runners : (run[c].at = "node" /\ run[c].start > 0) =>
            run[c].plan = vers[exec[run[c].e].g][exec[run[c].e].version].code

\* "... until they complete" (README.md:642-643): scheduler rounds, each with its
\* budget, bring a paused execution whose version has a plan to its end, though the
\* graph is edited all the time (no faults).
PausedCompletes ==
    \A e \in Execs :
        (exec[e].status = "paused" /\ vers[exec[e].g][exec[e].version].plan # None)
            ~> exec[e].status = "completed"

-----------------------------------------------------------------------------
(* The inductive invariant behind ResumesItsVersion: while the connection lock   *)
(* excludes, no two processes meet on a graph and none is killed, a version's    *)
(* plan is that of its code, which is never changed under a runner.              *)

ResumeInv == Mutex /\ ("killed" \notin trouble => Undisturbed) /\ ResumesItsVersion
=============================================================================
