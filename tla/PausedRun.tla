------------------------------ MODULE PausedRun ------------------------------
(***************************************************************************)
(* Pausing a run and resuming it from its checkpoint: execute_with, resume *)
(* and build_checkpoint of tinypipe-vm/src/compiled_executor.rs, pause.rs. *)
(* The policy asks for a pause after a node of the main pass or of a loop's*)
(* body; threads are not asked.  A checkpoint is all that is kept: what is *)
(* not in it is computed from the plan again.                              *)
(***************************************************************************)
EXTENDS CompiledRun

VARIABLES
    saved,   \* the checkpoint of a paused run, None while it runs
    midLoop  \* the segment that runs began in the middle of a loop it is still in

allVars == <<plan, runs, status, saved, midLoop>>

\* Mutant: the nodes that loops ran are not part of the checkpoint.
CheckpointNoSkipped(r) ==
    [position  |-> r.at,
     loop      |-> IF r.loop = None THEN None
                   ELSE [node |-> r.loop.node, iteration |-> r.loop.iteration, at |-> r.loop.at],
     ctx       |-> r.ctx,       outputs |-> r.outputs, enabled |-> r.enabled,
     satisfied |-> r.satisfied, skipped |-> {},        count   |-> r.count,
     result    |-> r.result,    trace   |-> r.trace]

\* build_checkpoint.  The position is that of the next node, or of the LOOP.
Checkpoint(r) ==
    [position  |-> r.at,
     loop      |-> IF r.loop = None THEN None
                   ELSE [node |-> r.loop.node, iteration |-> r.loop.iteration, at |-> r.loop.at],
     ctx       |-> r.ctx,       outputs |-> r.outputs, enabled |-> r.enabled,
     satisfied |-> r.satisfied, skipped |-> r.skipped, count   |-> r.count,
     result    |-> r.result,    trace   |-> r.trace]

\* The runner a checkpoint stands for; the bound of a loop is read from the
\* outputs again.
Restored(c) ==
    LET r == [todo |-> plan.order, at |-> c.position, loop |-> None,
              ctx |-> c.ctx, outputs |-> c.outputs, enabled |-> c.enabled,
              satisfied |-> c.satisfied, skipped |-> c.skipped, count |-> c.count,
              result |-> c.result, trace |-> c.trace, failed |-> FALSE]
    IN  IF c.loop = None THEN r ELSE Looping(r, c.loop.node, c.loop.iteration, c.loop.at)

\* resume: run_loop sets the loop's variable before it goes on with the turn.
Resumed(c) ==
    IF c.loop = None THEN Restored(c)
    ELSE SetTarget(Restored(c), c.loop.node, c.loop.iteration)

-----------------------------------------------------------------------------

InitPaused == Init /\ saved = None /\ midLoop = FALSE

\* Mutant: the policy is asked after the last node, too.
AfterEachNode ==
    /\ ~midLoop
    /\ runs'[None].loop = None
    /\ runs'[None].at = runs[None].at + 1

\* The policy is asked after each node of the main pass, passed over or not,
\* but not after the last one, nor after a LOOP that a resume went on with.
AfterNode ==
    /\ ~midLoop
    /\ runs'[None].loop = None
    /\ runs'[None].at = runs[None].at + 1
    /\ runs'[None].at <= Len(plan.order)

\* In a loop it is asked after each node that ran and did not end the turn, but for
\* a CALL of another graph (whose variables leak), after which the code goes on.
AfterBody ==
    /\ runs[None].loop # None
    /\ runs'[None].loop # None
    /\ runs'[None].loop.at = runs[None].loop.at + 1
    /\ runs'[None].count = runs[None].count + 1
    /\ Node(BodyNode(runs[None])).op \notin {"Break", "Continue", "Return"}
    /\ Node(BodyNode(runs[None])).leaks = {}

GoOn ==
    /\ saved = None
    /\ Next
    /\ saved' = None
    /\ midLoop' = (midLoop /\ runs'[None].loop # None)

Pause ==
    /\ saved = None
    /\ Next
    /\ status' = "running"
    /\ DOMAIN runs' = {None}
    /\ AfterNode \/ AfterBody
    /\ saved' = Checkpoint(runs'[None])
    /\ midLoop' = FALSE

\* What the run had in memory is gone: only the checkpoint is read.
Resume ==
    /\ saved # None
    /\ runs' = [w \in {None} |-> Resumed(saved)]
    /\ saved' = None
    /\ midLoop' = (saved.loop # None)
    /\ UNCHANGED <<plan, status>>

NextPaused == GoOn \/ Pause \/ Resume

\* The process goes on with a run, and whoever paused it resumes it.
SpecPaused == InitPaused /\ [][NextPaused]_allVars /\ WF_allVars(NextPaused)

-----------------------------------------------------------------------------

(* The inductive invariant of PausedProofs.                                *)

\* A context and a runner have these fields and no others.
WholeContext(c) == c = [vars |-> c.vars, parent |-> c.parent, scopes |-> c.scopes]
WholeRunner(r)  ==
    r = [todo |-> r.todo, at |-> r.at, loop |-> r.loop, ctx |-> r.ctx, outputs |-> r.outputs,
         enabled |-> r.enabled, satisfied |-> r.satisfied, skipped |-> r.skipped,
         count |-> r.count, result |-> r.result, trace |-> r.trace, failed |-> r.failed]

\* What every part of a step keeps, wherever the cursors are.
Sound(r) ==
    /\ WholeRunner(r)
    /\ WholeContext(r.ctx)
    /\ r.todo \in Seq(Nodes)
    /\ DOMAIN r.outputs \cup r.enabled \cup r.skipped \subseteq Nodes
    /\ \A n \in DOMAIN r.outputs : r.outputs[n].got \in Nat
    /\ r.satisfied \in [Nodes -> Nat]
    /\ r.count \in Nat
    /\ r.failed \in BOOLEAN

\* In a loop the bound is still what its range says, though the body ran since.
InItsLoop(r) ==
    /\ LoopOK(r)
    /\ r.loop # None =>
           /\ r.at <= Len(r.todo)
           /\ r.loop \in [node : Nodes, iteration : Int, at : Nat, max : Nat]
           /\ r.loop.max = Bound(r, r.loop.node)
           /\ InBody(r.loop.node) \subseteq r.skipped

Mapping(f) == f = [x \in DOMAIN f |-> f[x]]

\* A variable that is set has its value.
Has(c, b, u, y) ==
    IF b = None THEN /\ u \in DOMAIN c.vars /\ c.vars[u] = y
                     /\ Mapping(c.vars)
    ELSE /\ b \in DOMAIN c.scopes /\ u \in DOMAIN c.scopes[b] /\ c.scopes[b][u] = y
         /\ Mapping(c.scopes) /\ Mapping(c.scopes[b])

\* In a turn the loop's variable has the value of the turn: to set it again
\* changes nothing.
InTurn(r) == r.loop # None /\ r.loop.iteration \in 0..r.loop.max - 1

TargetSet(r) ==
    InTurn(r) => LET l == r.loop.node
                 IN  Has(r.ctx, Node(l).branch, Node(l).out, {<<Node(l).site, r.loop.iteration>>})

\* No node in a loop's body writes the variable of the loop.  Of `for i in range(3):
\* i = i + 1; f(i)` a run that is paused before the call loses the assignment.
BodiesKeepTheirVariable ==
    \A p \in PreparedPlans :
        \A l \in DOMAIN p.bodies : \A n \in Range(p.bodies[l]) :
            p.nodes[l].out \notin p.nodes[n].leaks \cup {p.nodes[n].out}

Orderly(r) == /\ Sound(r)
              /\ r.at \in 1..Len(r.todo) + 1
              /\ InItsLoop(r)
              /\ BodiesKeepTheirVariable => TargetSet(r)

\* The main pass goes through the plan and stands at a PARALLEL while its threads run.
Threads ==
    LET main == runs[None]
    IN  /\ main.todo = plan.order
        /\ DOMAIN runs # {None} =>
               /\ main.loop = None /\ ~main.failed /\ main.at <= Len(main.todo)
               /\ Node(Here(main)).op = "Parallel"
               /\ DOMAIN runs \ {None} \subseteq BranchesOf(Here(main))
        /\ main.failed => status = "failed"

RunInv ==
    /\ plan \in PreparedPlans
    /\ status \in {"running", "completed", "failed"}
    /\ None \in DOMAIN runs
    /\ runs = [w \in DOMAIN runs |-> runs[w]]
    /\ \A w \in DOMAIN runs : Orderly(runs[w])
    /\ \A b \in DOMAIN runs \ {None} :
           \A i \in DOMAIN runs[b].todo : Node(runs[b].todo[i]).branch = b
    /\ Threads

\* A checkpoint stands for the runner it was made of.
SavedInv ==
    /\ midLoop => runs[None].loop # None
    /\ saved # None =>
           /\ status = "running"
           /\ DOMAIN runs = {None}
           /\ saved = Checkpoint(runs[None])
           /\ Restored(saved) = runs[None]
           /\ runs[None].at <= Len(plan.order)
           /\ runs[None].loop = None \/ InTurn(runs[None])

PausedInv == RunInv /\ SavedInv

-----------------------------------------------------------------------------

\* A paused run has no threads, and a checkpoint stands before a node or in
\* a loop, never after the last node (execute_with, resume).
PausedTypeOK ==
    /\ TypeOK
    /\ midLoop => runs[None].loop # None
    /\ saved # None => /\ status = "running"
                       /\ DOMAIN runs = {None}
                       /\ saved.position \in 1..Len(plan.order)

Runners == IF saved = None THEN runs ELSE [w \in {None} |-> Restored(saved)]

Uninterrupted == INSTANCE CompiledRun WITH runs <- Runners

\* A run that is paused and resumed, wherever and however often, does what a
\* run without a pause could do: the checkpoint loses nothing of the state and
\* resume neither repeats nor leaves out a node or a turn (pause.rs 41-67,
\* compiled_executor.rs 239-449).
PauseTransparent == Uninterrupted!Safe

\* Every run of a plan ends, in an answer or an error: no node and no loop goes
\* round for ever, and the main pass does not wait for a thread for ever.
EveryRunEnds == <>(status # "running")
===============================================================================
