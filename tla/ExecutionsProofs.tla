-------------------------- MODULE ExecutionsProofs --------------------------
(***************************************************************************)
(* Machine-checked theorems about Executions, for every set of executions, *)
(* runners, clients and processes, every length of a plan, every budget    *)
(* and every choice of faults.                                             *)
(***************************************************************************)
EXTENDS Executions, GraphStoreProofs

-----------------------------------------------------------------------------
(* Type correctness *)

LEMMA Constants ==
    /\ NodeCount \in Nodes /\ Inner \subseteq Nodes /\ NodeCount \notin Inner
    /\ 0 \notin Nodes /\ \A k \in {0} \cup Nodes : k # NodeCount => k + 1 \in Nodes
    /\ \A k \in Nodes : k # NodeCount => k \in Inner
    /\ 0 # NodeCount /\ 1 \in Versions /\ Runners \subseteq Clients
    /\ None \notin Codes \cup Graphs \cup Execs \cup Nodes
BY ExecutionsAssumption, GraphStoreAssumption DEF Nodes, Inner, Versions

\* Positions from which a runner goes on at a position of its execution.
Early == {"idle", "pick", "loadExec", "loadCheckpoint"}

Progress == \A c \in Clients : run[c].at \notin Early => Ran(run[c].e, run[c].pos)

ExecInv == ExecTyped /\ Progress /\ NothingSkipped

\* A step of one runner to the locals r, in which no effect is undone.
LEMMA ExecFrame ==
    ASSUME ExecInv, NEW c \in Clients, NEW r \in Run, run' = [run EXCEPT ![c] = r],
           exec' \in [Execs -> Exec], steps' \in [Execs -> [Nodes -> 0..MaxTimes]],
           effects' \in [Execs -> [Nodes -> 0..MaxTimes]],
           Known \subseteq Known',
           \A e \in Known' : exec'[e].g \in Graphs /\ exec'[e].version \in Versions,
           RunnerSet(r, Known'),
           \A e \in Execs, j \in Nodes : effects[e][j] >= 1 => effects'[e][j] >= 1,
           r.at \notin Early => \A j \in Nodes : j <= r.pos => effects'[r.e][j] >= 1,
           NothingSkipped'
    PROVE  ExecInv'
<1>1. \A d \in Clients : run'[d] = IF d = c THEN r ELSE run[d]
  BY DEF ExecInv, ExecTyped
<1>2. ExecTyped'
  BY <1>1 DEF ExecInv, ExecTyped, RunnerSet
<1>3. Progress'
  <2> SUFFICES ASSUME NEW d \in Clients, run'[d].at \notin Early, NEW j \in Nodes, j <= run'[d].pos
               PROVE  effects'[run'[d].e][j] >= 1
    BY DEF Progress, Ran
  <2>1. CASE d = c BY <1>1, <2>1
  <2>2. CASE d # c
    <3>1. run'[d] = run[d] /\ run[d].e \in Execs
      BY <1>1, <2>2 DEF ExecInv, ExecTyped, RunnerSet, Known, Early
    <3> QED BY <3>1 DEF ExecInv, Progress, Ran
  <2> QED BY <2>1, <2>2
<1> QED BY <1>2, <1>3 DEF ExecInv

\* ... that changes nothing but its locals.
LEMMA ExecLocal ==
    ASSUME ExecInv, NEW c \in Clients, NEW r \in Run, run' = [run EXCEPT ![c] = r],
           UNCHANGED <<exec, steps, effects>>, RunnerSet(r, Known),
           r.at \notin Early => Ran(r.e, r.pos)
    PROVE  ExecInv'
<1>1. Known' = Known BY DEF Known
<1>2. NothingSkipped' BY DEF ExecInv, NothingSkipped, Ran
<1> QED BY <1>1, <1>2, ExecFrame DEF ExecInv, ExecTyped, Ran

-----------------------------------------------------------------------------
(* The steps of runners *)

\* A runner that is done with an execution has only its list.
LEMMA FinishFacts ==
    ASSUME ExecInv, NEW c \in Clients, Finish(c)
    PROVE  \E r \in Run : /\ run' = [run EXCEPT ![c] = r]
                          /\ r.at \in {"idle", "pick"} /\ RunnerSet(r, Known)
<1> DEFINE k == run[c]
           r == IF k.todo = {} THEN NotRunning
                ELSE [NotRunning EXCEPT !.at = "pick", !.kind = k.kind, !.todo = k.todo,
                                        !.budget = k.budget]
<1>1. k \in Run /\ RunnerSet(k, Known) BY DEF ExecInv, ExecTyped
<1>2. r \in Run /\ r.at \in {"idle", "pick"} /\ r.todo \subseteq k.todo
  BY <1>1 DEF Run, NotRunning, RunAt, Source, Unlimited
<1>3. RunnerSet(r, Known) BY <1>1, <1>2 DEF RunnerSet
<1>4. run' = [run EXCEPT ![c] = r] BY DEF Finish
<1> HIDE DEF r
<1> QED BY <1>2, <1>3, <1>4

LEMMA FinishStep ==
    ASSUME ExecInv, NEW c \in Clients, Finish(c), UNCHANGED <<exec, steps, effects>>
    PROVE  ExecInv'
BY FinishFacts, ExecLocal DEF Early

\* Steps that begin something, or read.
LEMMA StartStep ==
    ASSUME ExecInv, NEW c \in Clients, NEW kind \in Kinds, NEW b \in Budgets \cup {Unlimited},
           List(c, kind, b) \/ \E e \in Execs : Resume(c, e, kind, b)
    PROVE  ExecInv'
<1>1. PICK todo \in SUBSET Known :
         run' = [run EXCEPT ![c] = [NotRunning EXCEPT !.at = "pick", !.kind = kind,
                                                      !.todo = todo, !.budget = b]]
  BY DEF List, Resume, PausedExecutions, Known
<1> DEFINE r == [NotRunning EXCEPT !.at = "pick", !.kind = kind, !.todo = todo, !.budget = b]
<1>2. r \in Run /\ r.at = "pick" /\ r.todo = todo
  BY ExecutionsAssumption DEF Run, NotRunning, RunAt, Source, Known
<1>3. RunnerSet(r, Known) BY <1>2 DEF RunnerSet
<1>4. UNCHANGED <<exec, steps, effects>> BY DEF List, Resume
<1>5. run' = [run EXCEPT ![c] = r] BY <1>1
<1> HIDE DEF r
<1>6. r.at \in Early BY <1>2 DEF Early
<1> QED BY <1>2, <1>3, <1>4, <1>5, <1>6, ExecLocal

\* A round goes on with one of its executions.
LEMMA PickMoves ==
    ASSUME ExecInv, NEW c \in Clients, Pick(c)
    PROVE  \E e \in run[c].todo, at \in {"loadCheckpoint", "loadExec"} :
               run' = [run EXCEPT ![c] = [run[c] EXCEPT !.e = e, !.todo = @ \ {e}, !.at = at]]
<1>1. run \in [Clients -> Run] BY DEF ExecInv, ExecTyped
<1>2. PICK e \in run[c].todo :
         run' = [run EXCEPT ![c].e = e, ![c].todo = @ \ {e},
                            ![c].at = IF run[c].kind = "scheduler" THEN "loadCheckpoint"
                                      ELSE "loadExec"]
  BY DEF Pick
<1> DEFINE at == IF run[c].kind = "scheduler" THEN "loadCheckpoint" ELSE "loadExec"
<1>3. run' = [run EXCEPT ![c] = [run[c] EXCEPT !.e = e, !.todo = @ \ {e}, !.at = at]]
  BY <1>1, <1>2
<1>4. at \in {"loadCheckpoint", "loadExec"} OBVIOUS
<1> QED BY <1>3, <1>4

LEMMA PickStep ==
    ASSUME ExecInv, NEW c \in Clients, Pick(c)
    PROVE  ExecInv'
<1>1. PICK e \in run[c].todo, at \in {"loadCheckpoint", "loadExec"} :
         run' = [run EXCEPT ![c] = [run[c] EXCEPT !.e = e, !.todo = @ \ {e}, !.at = at]]
  BY PickMoves
<1> DEFINE r == [run[c] EXCEPT !.e = e, !.todo = @ \ {e}, !.at = at]
<1>2. run[c] \in Run /\ RunnerSet(run[c], Known) BY DEF ExecInv, ExecTyped
<1>3. e \in Execs /\ e \in Known BY <1>1, <1>2 DEF RunnerSet, Known
<1>4. r \in Run /\ r.at = at /\ r.e = e /\ r.todo \subseteq run[c].todo
  BY <1>1, <1>2, <1>3 DEF Run, RunAt
<1>5. RunnerSet(r, Known) BY <1>1, <1>2, <1>3, <1>4 DEF RunnerSet
<1>6. UNCHANGED <<exec, steps, effects>> BY DEF Pick
<1> HIDE DEF r
<1> QED BY <1>1, <1>4, <1>5, <1>6, ExecLocal DEF Early, r

\* A step to another position, at the same place of the execution.
LEMMA AtStep ==
    ASSUME ExecInv, NEW c \in Clients, NEW at \in RunAt, Step(c, at),
           UNCHANGED <<exec, steps, effects>>, run[c].at \notin {"idle", "pick"},
           RunnerSet([run[c] EXCEPT !.at = at], Known),
           at \in Early \/ run[c].at \notin Early
    PROVE  ExecInv'
<1> DEFINE r == [run[c] EXCEPT !.at = at]
<1>1. run[c] \in Run BY DEF ExecInv, ExecTyped
<1>2. r \in Run /\ r.at = at /\ r.e = run[c].e /\ r.pos = run[c].pos BY <1>1 DEF Run
<1>3. run' = [run EXCEPT ![c] = r] BY DEF Step
<1>4. r.at \notin Early => Ran(r.e, r.pos) BY <1>2 DEF ExecInv, Progress
<1> HIDE DEF r
<1> QED BY <1>2, <1>3, <1>4, ExecLocal DEF r

LEMMA LoadExecStep ==
    ASSUME ExecInv, NEW c \in Clients, LoadExec(c)
    PROVE  ExecInv'
<1>1. UNCHANGED <<exec, steps, effects>> BY DEF LoadExec
<1>2. CASE Finish(c) BY <1>1, <1>2, FinishStep
<1>3. CASE Step(c, "loadCheckpoint")
  <2>1. run[c] \in Run /\ RunnerSet(run[c], Known) /\ run[c].at = "loadExec"
    BY DEF ExecInv, ExecTyped, LoadExec
  <2>2. RunnerSet([run[c] EXCEPT !.at = "loadCheckpoint"], Known)
    BY <2>1 DEF RunnerSet, Run
  <2> QED BY <1>1, <1>3, <2>1, <2>2, AtStep DEF RunAt, Early
<1> QED BY <1>2, <1>3 DEF LoadExec

LEMMA LoadCheckpointStep ==
    ASSUME ExecInv, NEW c \in Clients, LoadCheckpoint(c)
    PROVE  ExecInv'
<1> DEFINE k == StoredCheckpoint(run[c].e)
           r == [run[c] EXCEPT !.at = "loadPlan", !.start = k, !.pos = k, !.step = k]
<1>1. UNCHANGED <<exec, steps, effects>> BY DEF LoadCheckpoint
<1>2. CASE Finish(c) BY <1>1, <1>2, FinishStep
<1>3. CASE k # None /\ run' = [run EXCEPT ![c] = r]
  <2>1. run[c] \in Run /\ RunnerSet(run[c], Known) /\ run[c].at = "loadCheckpoint"
    BY DEF ExecInv, ExecTyped, LoadCheckpoint
  <2>2. run[c].e \in Execs BY <2>1 DEF RunnerSet, Known
  <2>3. k \in Inner /\ Ran(run[c].e, k)
    BY <1>3, <2>2 DEF ExecInv, ExecTyped, Exec, NothingSkipped, StoredCheckpoint
  <2>4. /\ r \in Run /\ r.at = "loadPlan" /\ r.pos = k /\ r.e = run[c].e
        /\ r.todo = run[c].todo
    BY <2>1, <2>3, Constants DEF Run, RunAt
  <2>5. RunnerSet(r, Known) BY <2>1, <2>3, <2>4, Constants DEF RunnerSet
  <2> HIDE DEF r
  <2> QED BY <1>1, <1>3, <2>3, <2>4, <2>5, ExecLocal
<1>4. \/ Finish(c)
      \/ k # None /\ run' = [run EXCEPT ![c] = r]
  BY DEF LoadCheckpoint, ExecInv, ExecTyped
<1> QED BY <1>2, <1>3, <1>4

LEMMA LoadRunPlanStep ==
    ASSUME ExecInv, Basics, NEW c \in Clients, LoadRunPlan(c)
    PROVE  ExecInv'
<1> DEFINE plan == StoredPlan(run[c].e)
           r == [run[c] EXCEPT !.at = "node", !.plan = plan]
<1>1. UNCHANGED <<exec, steps, effects>> BY DEF LoadRunPlan
<1>2. CASE Finish(c) BY <1>1, <1>2, FinishStep
<1>3. CASE plan # None /\ run' = [run EXCEPT ![c] = r]
  <2>1. run[c] \in Run /\ RunnerSet(run[c], Known) /\ run[c].at = "loadPlan"
    BY DEF ExecInv, ExecTyped, LoadRunPlan
  <2>2. run[c].e \in Known BY <2>1 DEF RunnerSet
  <2>3. exec[run[c].e].g \in Graphs /\ exec[run[c].e].version \in Versions
    BY <2>2 DEF ExecInv, ExecTyped
  <2>4. plan \in Codes
    <3>1. vers[exec[run[c].e].g][exec[run[c].e].version] \in Snapshot
      BY <2>3 DEF Basics, StoreTyped
    <3>2. plan \in Source BY <3>1 DEF StoredPlan, Snapshot
    <3> QED BY <1>3, <3>2 DEF Source
  <2>5. /\ r \in Run /\ r.at = "node" /\ r.pos = run[c].pos /\ r.e = run[c].e
        /\ r.todo = run[c].todo /\ r.plan = plan
    BY <2>1, <2>4 DEF Run, RunAt, Source
  <2>6. RunnerSet(r, Known) BY <2>1, <2>4, <2>5 DEF RunnerSet
  <2>7. Ran(r.e, r.pos) BY <2>1, <2>5 DEF ExecInv, Progress, Early
  <2> HIDE DEF r
  <2> QED BY <1>1, <1>3, <2>5, <2>6, <2>7, ExecLocal
<1>4. \/ Finish(c)
      \/ plan # None /\ run' = [run EXCEPT ![c] = r]
  BY DEF LoadRunPlan, ExecInv, ExecTyped
<1> QED BY <1>2, <1>3, <1>4

LEMMA FailStep ==
    ASSUME ExecInv, NEW c \in Clients, FailNode(c)
    PROVE  ExecInv'
<1>1. UNCHANGED <<exec, steps, effects>> BY DEF FailNode
<1>2. CASE Finish(c) BY <1>1, <1>2, FinishStep
<1>3. CASE Step(c, "failed")
  <2>1. run[c] \in Run /\ RunnerSet(run[c], Known) /\ run[c].at = "node"
    BY DEF ExecInv, ExecTyped, FailNode
  <2>2. RunnerSet([run[c] EXCEPT !.at = "failed"], Known)
    BY <2>1 DEF RunnerSet, Run
  <2> QED BY <1>1, <1>3, <2>1, <2>2, AtStep DEF RunAt, Early
<1> QED BY <1>2, <1>3 DEF FailNode

\* One node: the position moves on by one, and the node at it has run.
LEMMA RunNodeStep ==
    ASSUME ExecInv, NEW c \in Clients, RunNode(c)
    PROVE  ExecInv'
<1> DEFINE e == run[c].e
           k == run[c].pos + 1
           at == IF k = NodeCount THEN Writes(c).end
                 ELSE IF ShouldPause(run[c].budget, k) THEN Writes(c).pause ELSE "node"
           r == [run[c] EXCEPT !.pos = k, !.at = at]
<1>1. run[c] \in Run /\ RunnerSet(run[c], Known) /\ run[c].at = "node"
  BY DEF ExecInv, ExecTyped, RunNode
<1>2. e \in Execs /\ e \in Known /\ k \in Nodes
  BY <1>1, Constants DEF RunnerSet, Known, Run
<1>3. run' = [run EXCEPT ![c] = r] BY DEF RunNode, ExecInv, ExecTyped
<1>4. /\ at \in {"completed", "record", "paused", "checkpoint", "node"}
      /\ at \in {"completed", "record"} => k = NodeCount
      /\ at \in {"paused", "checkpoint", "node"} => k # NodeCount
  BY DEF Writes, EngineWrites, SchedulerWrites
<1> HIDE DEF at
<1>5. /\ r \in Run /\ r.at = at /\ r.pos = k /\ r.e = e /\ r.todo = run[c].todo
      /\ r.plan = run[c].plan
  BY <1>1, <1>2, <1>4 DEF Run, RunAt
<1>6. RunnerSet(r, Known) BY <1>1, <1>2, <1>4, <1>5, Constants DEF RunnerSet
<1>7. /\ effects' \in [Execs -> [Nodes -> 0..MaxTimes]]
      /\ \A x \in Execs, j \in Nodes : effects[x][j] >= 1 => effects'[x][j] >= 1
      /\ effects'[e][k] >= 1
  BY <1>2, ExecutionsAssumption DEF RunNode, ExecInv, ExecTyped
<1>8. \A j \in Nodes : j <= k => effects'[e][j] >= 1
  <2> SUFFICES ASSUME NEW j \in Nodes, j <= k PROVE effects'[e][j] >= 1
    OBVIOUS
  <2>1. j = k \/ j <= run[c].pos BY <1>1, <1>2, ExecutionsAssumption DEF Nodes, Run
  <2>2. Ran(e, run[c].pos) BY <1>1 DEF ExecInv, Progress, Early
  <2> QED BY <1>2, <1>7, <2>1, <2>2 DEF Ran
<1>9. UNCHANGED <<exec, steps>> /\ Known' = Known BY DEF RunNode, Known
<1>10. NothingSkipped'
  BY <1>7, <1>9 DEF ExecInv, NothingSkipped, Ran
<1> HIDE DEF r, k
<1> QED BY <1>3, <1>5, <1>6, <1>7, <1>8, <1>9, <1>10, ExecFrame DEF ExecInv, ExecTyped

\* A step row more.
LEMMA RowStep ==
    ASSUME ExecInv, NEW c \in Clients, NEW r \in Run, run' = [run EXCEPT ![c] = r],
           RunnerSet(r, Known), r.at \notin Early => Ran(r.e, r.pos),
           run[c].e \in Execs, NEW k \in Nodes, SaveStep(run[c].e, k),
           UNCHANGED <<exec, effects>>
    PROVE  ExecInv'
<1>1. steps' \in [Execs -> [Nodes -> 0..MaxTimes]]
  BY ExecutionsAssumption DEF SaveStep, ExecInv, ExecTyped
<1>2. Known' = Known /\ NothingSkipped' BY DEF Known, ExecInv, NothingSkipped, Ran
<1> QED BY <1>1, <1>2, ExecFrame DEF ExecInv, ExecTyped, Ran

LEMMA RecordSteps ==
    ASSUME ExecInv, NEW c \in Clients, RecordStep(c) \/ SchedulerRecordStep(c)
    PROVE  ExecInv'
<1> DEFINE k == run[c].step + 1
           r == [run[c] EXCEPT !.step = k]
           s == [run[c] EXCEPT !.at = "completed"]
<1>1. /\ run[c] \in Run /\ RunnerSet(run[c], Known) /\ run[c].at = "record"
      /\ run[c].pos = NodeCount
  BY DEF ExecInv, ExecTyped, RecordStep, SchedulerRecordStep, RunnerSet
<1>2. run[c].e \in Execs /\ k \in Nodes /\ Ran(run[c].e, NodeCount)
  BY <1>1, Constants DEF RunnerSet, Known, Run, ExecInv, Progress, Early
<1>3. SaveStep(run[c].e, k) /\ UNCHANGED <<exec, effects>>
  BY DEF RecordStep, SchedulerRecordStep
<1>4. CASE Finish(c)
  BY <1>2, <1>3, <1>4, FinishFacts, RowStep DEF Early
<1>5. CASE k < run[c].pos /\ run' = [run EXCEPT ![c] = r]
  <2>1. k \in Inner BY <1>1, <1>2, <1>5, Constants, ExecutionsAssumption DEF Nodes
  <2>2. /\ r \in Run /\ r.at = "record" /\ r.pos = NodeCount /\ r.e = run[c].e
        /\ r.todo = run[c].todo
    BY <1>1, <2>1 DEF Run
  <2>3. RunnerSet(r, Known) BY <1>1, <2>2 DEF RunnerSet
  <2> HIDE DEF r
  <2> QED BY <1>2, <1>3, <1>5, <2>2, <2>3, RowStep
<1>6. CASE run' = [run EXCEPT ![c] = s]
  <2>1. /\ s \in Run /\ s.at = "completed" /\ s.pos = NodeCount /\ s.e = run[c].e
        /\ s.todo = run[c].todo
    BY <1>1 DEF Run, RunAt
  <2>2. RunnerSet(s, Known) BY <1>1, <2>1 DEF RunnerSet
  <2> HIDE DEF s
  <2> QED BY <1>2, <1>3, <1>6, <2>1, <2>2, RowStep
<1>7. \/ Finish(c)
      \/ k < run[c].pos /\ run' = [run EXCEPT ![c] = r]
      \/ run' = [run EXCEPT ![c] = s]
  BY DEF RecordStep, SchedulerRecordStep, Step, ExecInv, ExecTyped
<1> QED BY <1>4, <1>5, <1>6, <1>7

\* save_execution forgets a checkpoint, and never an execution.
LEMMA SaveStatusFacts ==
    ASSUME ExecInv, NEW c \in Clients, run[c].e \in Known, NEW status \in Status \ {"none"},
           SaveStatus(c, status), UNCHANGED <<steps, effects>>,
           status = "completed" => Ran(run[c].e, NodeCount)
    PROVE  /\ exec' \in [Execs -> Exec] /\ Known' = Known
           /\ \A x \in Known' : exec'[x].g \in Graphs /\ exec'[x].version \in Versions
           /\ NothingSkipped'
<1> DEFINE e == run[c].e
           x == [status |-> status, g |-> exec[e].g, version |-> exec[e].version,
                 checkpoint |-> None]
<1>1. /\ exec \in [Execs -> Exec] /\ e \in Execs /\ exec[e].g \in Graphs
      /\ exec[e].version \in Versions
  BY DEF ExecInv, ExecTyped, Known
<1>2. x \in Exec BY <1>1 DEF Exec, Versions
<1>3. exec' = [exec EXCEPT ![e] = x] BY DEF SaveStatus, SaveExecution
<1>4. exec' \in [Execs -> Exec] /\ exec'[e] = x /\ \A y \in Execs : y # e => exec'[y] = exec[y]
  BY <1>1, <1>2, <1>3
<1>5. x.status = status /\ x.g \in Graphs /\ x.version \in Versions /\ x.checkpoint = None
  BY <1>1
<1> HIDE DEF x
<1>6. Known' = Known BY <1>4, <1>5 DEF Known
<1>7. NothingSkipped' BY <1>4, <1>5 DEF ExecInv, NothingSkipped, Ran
<1> QED BY <1>4, <1>5, <1>6, <1>7 DEF ExecInv, ExecTyped, Known

\* A runner saves a status, and goes on or is done.
LEMMA SavesStatus ==
    ASSUME ExecInv, NEW c \in Clients, NEW status \in Status \ {"none"}, SaveStatus(c, status),
           UNCHANGED <<steps, effects>>, run[c].at \notin Early,
           status = "completed" => run[c].pos = NodeCount,
           \/ Finish(c)
           \/ \E at \in RunAt : Step(c, at) /\ RunnerSet([run[c] EXCEPT !.at = at], Known)
    PROVE  ExecInv'
<1>1. run[c] \in Run /\ RunnerSet(run[c], Known) /\ Ran(run[c].e, run[c].pos)
  BY DEF ExecInv, ExecTyped, Progress
<1>2. run[c].e \in Known BY <1>1 DEF RunnerSet, Early
<1>3. /\ exec' \in [Execs -> Exec] /\ Known' = Known /\ NothingSkipped'
      /\ \A x \in Known' : exec'[x].g \in Graphs /\ exec'[x].version \in Versions
  BY <1>1, <1>2, SaveStatusFacts
<1>4. CASE Finish(c)
  BY <1>3, <1>4, FinishFacts, ExecFrame DEF Early, ExecInv, ExecTyped
<1>5. ASSUME NEW at \in RunAt, Step(c, at), RunnerSet([run[c] EXCEPT !.at = at], Known)
      PROVE  ExecInv'
  <2> DEFINE r == [run[c] EXCEPT !.at = at]
  <2>1. r \in Run /\ r.pos = run[c].pos /\ r.e = run[c].e BY <1>1 DEF Run
  <2>2. run' = [run EXCEPT ![c] = r] BY <1>5 DEF Step
  <2>3. RunnerSet(r, Known) BY <1>5
  <2>4. \A j \in Nodes : j <= r.pos => effects'[r.e][j] >= 1 BY <1>1, <2>1 DEF Ran
  <2>5. \A x \in Execs, j \in Nodes : effects[x][j] >= 1 => effects'[x][j] >= 1 OBVIOUS
  <2> HIDE DEF r
  <2> QED BY <1>3, <2>1, <2>2, <2>3, <2>4, ExecFrame DEF ExecInv, ExecTyped
<1> QED BY <1>4, <1>5

LEMMA SaveSteps ==
    ASSUME ExecInv, NEW c \in Clients,
           \/ SaveCompleted(c) \/ SchedulerSaveCompleted(c) \/ SavePaused(c) \/ SaveFailed(c)
    PROVE  ExecInv'
<1>1. run[c] \in Run /\ RunnerSet(run[c], Known) BY DEF ExecInv, ExecTyped
<1>2. CASE SaveCompleted(c)
  <2>1. run[c].at = "completed" /\ run[c].pos = NodeCount
    BY <1>1, <1>2 DEF SaveCompleted, RunnerSet
  <2>2. RunnerSet([run[c] EXCEPT !.at = "record"], Known) BY <1>1, <2>1 DEF RunnerSet, Run
  <2> QED BY <1>2, <2>1, <2>2, SavesStatus DEF SaveCompleted, RunAt, Early, Status
<1>3. CASE SchedulerSaveCompleted(c)
  <2>1. run[c].at = "completed" /\ run[c].pos = NodeCount
    BY <1>1, <1>3 DEF SchedulerSaveCompleted, RunnerSet
  <2> QED BY <1>3, <2>1, SavesStatus DEF SchedulerSaveCompleted, Early, Status
<1>4. CASE SavePaused(c)
  <2>1. run[c].at = "paused" /\ run[c].pos \in Inner BY <1>1, <1>4 DEF SavePaused, RunnerSet
  <2>2. RunnerSet([run[c] EXCEPT !.at = "checkpoint"], Known) BY <1>1, <2>1 DEF RunnerSet, Run
  <2> QED BY <1>4, <2>1, <2>2, SavesStatus DEF SavePaused, RunAt, Early, Status
<1>5. CASE SaveFailed(c)
  BY <1>5, SavesStatus DEF SaveFailed, Early, Status
<1> QED BY <1>2, <1>3, <1>4, <1>5

LEMMA SaveCheckpointStep ==
    ASSUME ExecInv, NEW c \in Clients, SaveCheckpoint(c)
    PROVE  ExecInv'
<1> DEFINE e == run[c].e
           k == run[c].pos
           x == [exec[e] EXCEPT !.checkpoint = k]
<1>1. run[c] \in Run /\ RunnerSet(run[c], Known) /\ run[c].at = "checkpoint"
  BY DEF ExecInv, ExecTyped, SaveCheckpoint
<1>2. e \in Known /\ k \in Inner /\ Ran(e, k)
  BY <1>1 DEF RunnerSet, ExecInv, Progress, Early
<1>3. exec \in [Execs -> Exec] /\ e \in Execs /\ exec[e] \in Exec
  BY <1>2 DEF ExecInv, ExecTyped, Known
<1>4. /\ x \in Exec /\ x.checkpoint = k /\ x.status = exec[e].status /\ x.g = exec[e].g
      /\ x.version = exec[e].version
  BY <1>2, <1>3 DEF Exec
<1>5. exec' = [exec EXCEPT ![e] = x] /\ UNCHANGED <<steps, effects>>
  BY DEF SaveCheckpoint, StoreCheckpoint
<1> HIDE DEF x
<1>6. exec' \in [Execs -> Exec] /\ exec'[e] = x /\ \A y \in Execs : y # e => exec'[y] = exec[y]
  BY <1>3, <1>4, <1>5
<1>7. Known' = Known BY <1>4, <1>6 DEF Known
<1>8. NothingSkipped' BY <1>2, <1>4, <1>5, <1>6 DEF ExecInv, NothingSkipped, Ran
<1>9. \A y \in Known' : exec'[y].g \in Graphs /\ exec'[y].version \in Versions
  BY <1>4, <1>6, <1>7 DEF ExecInv, ExecTyped, Known
<1>10. Finish(c) BY DEF SaveCheckpoint
<1> QED BY <1>5, <1>6, <1>7, <1>8, <1>9, <1>10, FinishFacts, ExecFrame DEF Early, ExecInv, ExecTyped

\* A new execution runs from the first node.
LEMMA BeginStep ==
    ASSUME ExecInv, Basics, NEW c \in Clients, NEW e \in Execs, NEW b \in Budgets \cup {Unlimited},
           Begin(c, e, b)
    PROVE  ExecInv'
<1> DEFINE k == client[c]
           x == [status |-> "running", g |-> k.g, version |-> k.version, checkpoint |-> None]
           r == [NotRunning EXCEPT !.at = "node", !.e = e, !.plan = k.plan, !.budget = b]
<1>1. k.g \in Graphs /\ k.version \in Versions /\ k.plan \in Codes
  BY DEF Begin, Basics, StoreTyped, LocalsSet
<1>2. x \in Exec /\ x.status = "running" /\ x.g = k.g /\ x.version = k.version /\ x.checkpoint = None
  BY <1>1 DEF Exec, Status, Versions
<1>3. /\ r \in Run /\ r.at = "node" /\ r.e = e /\ r.plan = k.plan /\ r.pos = 0 /\ r.todo = {}
  BY <1>1, ExecutionsAssumption DEF Run, RunAt, NotRunning, Source
<1>4. /\ exec' = [exec EXCEPT ![e] = x] /\ run' = [run EXCEPT ![c] = r]
      /\ UNCHANGED <<steps, effects>>
  BY DEF Begin, SaveExecution
<1> HIDE DEF x, r
<1>5. exec' \in [Execs -> Exec] /\ exec'[e] = x /\ \A y \in Execs : y # e => exec'[y] = exec[y]
  BY <1>2, <1>4 DEF ExecInv, ExecTyped
<1>6. Known' = Known \cup {e} BY <1>2, <1>5 DEF Known
<1>7. NothingSkipped' BY <1>2, <1>4, <1>5 DEF ExecInv, NothingSkipped, Ran
<1>8. \A y \in Known' : exec'[y].g \in Graphs /\ exec'[y].version \in Versions
  BY <1>1, <1>2, <1>5, <1>6 DEF ExecInv, ExecTyped, Known
<1>9. RunnerSet(r, Known') BY <1>1, <1>3, <1>6, Constants DEF RunnerSet
<1>10. \A j \in Nodes : ~(j <= r.pos) BY <1>3, ExecutionsAssumption DEF Nodes
<1> QED BY <1>3, <1>4, <1>5, <1>6, <1>7, <1>8, <1>9, <1>10, ExecFrame DEF ExecInv, ExecTyped

-----------------------------------------------------------------------------
(* Every step *)

\* A process that is killed takes its runners with it, and nothing they have stored.
LEMMA ExecCrashStep ==
    ASSUME ExecInv, Basics, NEW p \in Processes, ExecCrash(p)
    PROVE  ExecInv' /\ Basics'
<1>1. NotRunning \in Run /\ RunnerSet(NotRunning, Known) /\ NotRunning.at \in Early
  BY DEF NotRunning, Run, RunAt, Source, Unlimited, RunnerSet, Early
<1>2. /\ run' = [c \in Clients |-> IF ProcessOf[c] = p THEN NotRunning ELSE run[c]]
      /\ UNCHANGED <<exec, steps, effects>>
  BY DEF ExecCrash
<1>3. Known' = Known /\ NothingSkipped' BY <1>2 DEF Known, ExecInv, NothingSkipped, Ran
<1>4. ExecTyped' BY <1>1, <1>2, <1>3 DEF ExecInv, ExecTyped
<1>5. Progress' BY <1>1, <1>2 DEF ExecInv, Progress, Ran
<1>6. Basics' BY BasicsCrash DEF ExecCrash
<1> QED BY <1>3, <1>4, <1>5, <1>6 DEF ExecInv

LEMMA ExecStutter ==
    ASSUME ExecInv, UNCHANGED execVars
    PROVE  ExecInv'
<1>1. Known' = Known BY DEF Known, execVars
<1> QED BY <1>1 DEF ExecInv, ExecTyped, Progress, NothingSkipped, Ran, execVars

LEMMA RunnerSteps ==
    ASSUME ExecInv, Basics, NEW c \in Runners, Runner(c)
    PROVE  ExecInv' /\ Basics'
<1>0. c \in Clients BY Constants
<1>1. CASE \E g \in Graphs : LoadGraph(c, g) /\ UNCHANGED execVars
  BY <1>0, <1>1, ExecStutter, BasicsStart
<1>2. CASE (LoadPlan(c) \/ SavePlan(c) \/ SaveVersion(c) \/ Loaded(c)) /\ UNCHANGED execVars
  BY <1>0, <1>2, ExecStutter, BasicsReads, BasicsRows, BasicsSave
<1>3. ASSUME NEW b \in Budgets \cup {Unlimited}, NEW e \in Execs, Begin(c, e, b)
      PROVE  ExecInv' /\ Basics'
  <2>1. UNCHANGED <<row, vers>> /\ client' = [client EXCEPT ![c] = Idle]
    BY <1>3 DEF Begin, Return
  <2> QED BY <1>0, <1>3, <2>1, BeginStep, BasicsIdle, BasicsLocal
<1>4. ASSUME NEW b \in Budgets \cup {Unlimited}, NEW kind \in Kinds,
             List(c, kind, b) \/ \E e \in Execs : Resume(c, e, kind, b)
      PROVE  ExecInv' /\ Basics'
  <2>1. UNCHANGED <<row, vers, client>> BY <1>4 DEF List, Resume, dataVars
  <2> QED BY <1>0, <1>4, <2>1, StartStep, BasicsStutter
<1>5. CASE RunStep(c)
  <2>1. UNCHANGED <<row, vers, client>>
    BY <1>5
    DEF RunStep, dataVars, Pick, LoadExec, LoadCheckpoint, LoadRunPlan, RunNode,
        SaveCompleted, RecordStep, SchedulerRecordStep, SchedulerSaveCompleted, SavePaused,
        SaveCheckpoint, SaveFailed, EndUnaudited
  <2>2. ASSUME EndUnaudited(c) PROVE ExecInv'
    <3>1. Finish(c) /\ UNCHANGED <<exec, steps, effects>> BY <2>2 DEF EndUnaudited
    <3> QED BY <1>0, <3>1, FinishStep
  <2>3. ExecInv'
    BY <1>0, <1>5, <2>2, PickStep, LoadExecStep, LoadCheckpointStep, LoadRunPlanStep,
       RunNodeStep, RecordSteps, SaveSteps, SaveCheckpointStep DEF RunStep
  <2> QED BY <2>1, <2>3, BasicsStutter
<1> QED BY <1>1, <1>2, <1>3, <1>4, <1>5 DEF Runner

LEMMA ExecInvNext == ExecInv /\ Basics /\ [ExecNext]_vars => ExecInv' /\ Basics'
<1> SUFFICES ASSUME ExecInv, Basics, [ExecNext]_vars PROVE ExecInv' /\ Basics'
  OBVIOUS
<1>1. CASE UNCHANGED vars
  BY <1>1, ExecStutter, BasicsStutter DEF vars, execVars
<1>2. ASSUME NEW c \in Clients \ Runners, Editor(c) PROVE ExecInv' /\ Basics'
  BY <1>2, ExecStutter, BasicsClient DEF Editor
<1>3. ASSUME NEW c \in Runners, FailNode(c) \/ EnvMissing(c) \/ SchedulerEnvMissing(c)
      PROVE  ExecInv' /\ Basics'
  <2>1. UNCHANGED <<row, vers, client>>
    BY <1>3 DEF FailNode, EnvMissing, SchedulerEnvMissing, dataVars
  <2>2. ExecInv'
    BY <1>3, Constants, FailStep, FinishStep DEF EnvMissing, SchedulerEnvMissing
  <2> QED BY <2>1, <2>2, BasicsStutter
<1>4. ASSUME NEW p \in Processes, ExecCrash(p) PROVE ExecInv' /\ Basics'
  BY <1>4, ExecCrashStep
<1> QED BY <1>1, <1>2, <1>3, <1>4, RunnerSteps DEF ExecNext

LEMMA ExecInvInit == ExecInit => ExecInv /\ Basics
<1> SUFFICES ASSUME ExecInit PROVE ExecInv /\ Basics
  OBVIOUS
<1>1. PICK code \in Codes :
        LET plan(g) == IF g \in Forked THEN None ELSE code IN
        /\ row = [g \in Graphs |-> [version |-> 1, code |-> code, plan |-> plan(g), active |-> 0]]
        /\ vers = [g \in Graphs |-> [v \in Versions |->
                       IF v = 1 THEN [code |-> code, plan |-> plan(g)]
                       ELSE [code |-> None, plan |-> None]]]
  BY DEF ExecInit
<1>2. client = [c \in Clients |-> Idle] BY DEF ExecInit
<1>3. StoreTyped
  <2>1. row \in [Graphs -> Row]
    BY <1>1, ExecutionsAssumption, GraphStoreAssumption DEF Row, Source
  <2>2. vers \in [Graphs -> [Versions -> Snapshot]] BY <1>1 DEF Snapshot, Source
  <2> QED BY <1>2, <2>1, <2>2, BasicsIdle DEF StoreTyped
<1>4. Written
  BY <1>1, <1>2, BasicsIdle, GraphStoreAssumption DEF Written, Exists, ActiveStored
<1>5. Known = {} /\ \A e \in Execs : exec[e].status = "none" /\ exec[e].checkpoint = None
  BY DEF ExecInit, Known
<1>6. ExecTyped
  <2>1. exec \in [Execs -> Exec] BY GraphStoreAssumption DEF ExecInit, Exec, Status
  <2>2. NotRunning \in Run /\ RunnerSet(NotRunning, {})
    BY DEF NotRunning, Run, RunAt, Source, Unlimited, RunnerSet
  <2>3. run = [c \in Clients |-> NotRunning] BY DEF ExecInit
  <2>4. steps \in [Execs -> [Nodes -> 0..MaxTimes]] /\ effects \in [Execs -> [Nodes -> 0..MaxTimes]]
    BY ExecutionsAssumption DEF ExecInit
  <2> QED BY <1>5, <2>1, <2>2, <2>3, <2>4 DEF ExecTyped
<1>7. Progress BY DEF ExecInit, NotRunning, Progress, Early
<1>8. NothingSkipped BY <1>5 DEF NothingSkipped
<1> QED BY <1>3, <1>4, <1>6, <1>7, <1>8 DEF ExecInv, Basics

THEOREM ExecInvariant == ExecSpec => [](ExecInv /\ Basics)
BY ExecInvInit, ExecInvNext, PTL DEF ExecSpec

\* What the history tells apart here.
TroubleOK == trouble \subseteq {"killed", "runners", "unaudited", "node", "env"}

\* The types of the execution tables and of the runners, with the positions at which
\* their locals are set.
THEOREM ExecTyping == ExecSpec => []ExecTypeOK
<1>1. ExecInit => TroubleOK BY DEF ExecInit, TroubleOK
<1>2. TroubleOK /\ [ExecNext]_vars => TroubleOK'
  BY DEF ExecNext, TroubleOK, vars, Seen
<1>3. ExecInv /\ Basics /\ TroubleOK => ExecTypeOK
  BY DEF ExecInv, Basics, ExecTypeOK, TroubleOK
<1> QED BY <1>1, <1>2, <1>3, ExecInvariant, PTL DEF ExecSpec

\* No node of an execution is ever skipped: what its checkpoint or its status claims has
\* run, however often processes are killed between two statements (save_execution,
\* save_checkpoint and record_steps of engine.rs and tinypipe-scheduler/src/lib.rs), however many runners it has and whatever they fail at.
THEOREM NoNodeSkipped == ExecSpec => []NothingSkipped
<1>1. ExecInv => NothingSkipped BY DEF ExecInv
<1> QED BY <1>1, ExecInvariant, PTL

-----------------------------------------------------------------------------
(* One runner at a time *)

\* The status an execution has while a runner is at a position of it.
Stands(r, t) ==
    /\ r.at \in {"loadPlan", "node", "paused", "completed", "failed"} =>
         t[r.e].status \in {"running", "paused"}
    /\ r.at = "checkpoint" => t[r.e].status = "paused"
    /\ (r.kind = "scheduler" /\ r.at \in {"loadPlan", "node", "record", "completed"}) =>
         t[r.e].status = "paused"

Marked == \A e \in Execs : exec[e].checkpoint # None => exec[e].status = "paused"

Standing == Exclusive /\ Marked /\ \A c \in Runners : Stands(run[c], exec)

OverInv == "runners" \notin trouble => Standing

\* The steps of one runner, whatever the history makes of them.
Moves(c) == Runner(c) \/ FailNode(c) \/ EnvMissing(c) \/ SchedulerEnvMissing(c)

LEMMA OthersRun ==
    ASSUME ExecInv, NEW c \in Runners, Moves(c)
    PROVE  \A d \in Clients : d # c => run'[d] = run[d]
<1>1. run \in [Clients -> Run] /\ c \in Clients BY Constants DEF ExecInv, ExecTyped
<1>2. CASE RunStep(c)
  BY <1>1, <1>2
  DEF RunStep, Finish, Step, Pick, LoadExec, LoadCheckpoint, LoadRunPlan, RunNode,
      SaveCompleted, RecordStep, SchedulerRecordStep, SchedulerSaveCompleted, SavePaused,
      SaveCheckpoint, SaveFailed, EndUnaudited
<1>3. CASE FailNode(c) \/ EnvMissing(c) \/ SchedulerEnvMissing(c)
  BY <1>1, <1>3 DEF FailNode, EnvMissing, SchedulerEnvMissing, Finish, Step
<1>4. CASE \E b \in Budgets \cup {Unlimited} :
             \/ \E e \in Execs : Begin(c, e, b)
             \/ \E kind \in Kinds : List(c, kind, b) \/ \E e \in Execs : Resume(c, e, kind, b)
  BY <1>1, <1>4 DEF Begin, List, Resume
<1>5. CASE UNCHANGED execVars BY <1>5 DEF execVars
<1> QED BY <1>2, <1>3, <1>4, <1>5 DEF Moves, Runner

\* What others are at stands, if a runner writes only its own execution.
LEMMA StandingFrame ==
    ASSUME ExecInv, Standing, NEW c \in Runners, Moves(c), Exclusive', Marked',
           \A e \in Known : e # run[c].e => exec'[e] = exec[e], Stands(run'[c], exec')
    PROVE  Standing'
<1>1. ASSUME NEW d \in Runners PROVE Stands(run'[d], exec')
  <2>1. CASE d = c BY <2>1
  <2>2. CASE d # c
    <3>1. run'[d] = run[d] /\ Stands(run[d], exec) /\ RunnerSet(run[d], Known)
      BY <2>2, OthersRun, Constants DEF ExecInv, ExecTyped, Standing
    <3>2. CASE run[d].at \in {"idle", "pick"} BY <3>1, <3>2 DEF Stands
    <3>3. CASE run[d].at \notin {"idle", "pick"}
      <4>1. run[d].e \in Known /\ run[d].e # None
        BY <3>1, <3>3, Constants DEF RunnerSet, Known
      <4>2. run[d].e # run[c].e BY <2>2, <4>1 DEF Standing, Exclusive
      <4> QED BY <3>1, <4>1, <4>2 DEF Stands
    <3> QED BY <3>2, <3>3
  <2> QED BY <2>1, <2>2
<1> QED BY <1>1 DEF Standing

\* A runner that finishes has nothing to stand for.
LEMMA FinishStands ==
    ASSUME ExecInv, NEW c \in Runners, Finish(c), NEW t
    PROVE  run'[c].at \in {"idle", "pick"} /\ run'[c].e = None /\ Stands(run'[c], t)
<1>1. run'[c].at \in {"idle", "pick"} /\ run'[c].e = None
  BY Constants DEF Finish, ExecInv, ExecTyped, NotRunning, Run
<1> QED BY <1>1 DEF Stands

Over(e) == exec[e].status \in {"completed", "failed"}

\* The steps that write an execution.
Saving(c) ==
    \/ SaveCompleted(c) \/ SchedulerSaveCompleted(c) \/ SavePaused(c) \/ SaveCheckpoint(c)
    \/ SaveFailed(c)
    \/ \E b \in Budgets \cup {Unlimited}, e \in Execs : Begin(c, e, b)

\* Steps that leave the executions as they are.
LEMMA ReadsStand ==
    ASSUME ExecInv, Standing, NEW c \in Runners, Moves(c), Exclusive', UNCHANGED exec,
           ~Saving(c)
    PROVE  Standing'
<1> DEFINE r == run[c]
<1>1. Marked' BY DEF Standing, Marked
<1>2. /\ c \in Clients /\ run \in [Clients -> Run] /\ RunnerSet(r, Known) /\ Stands(r, exec)
      /\ Marked
  BY Constants DEF ExecInv, ExecTyped, Standing
<1>3. CASE Finish(c) BY <1>1, <1>3, FinishStands, StandingFrame
<1>4. CASE run'[c].at \in Early BY <1>1, <1>4, StandingFrame DEF Stands, Early
<1>5. CASE LoadCheckpoint(c) /\ ~Finish(c)
  <2>1. /\ exec[r.e].checkpoint # None /\ run'[c].at = "loadPlan" /\ run'[c].e = r.e
        /\ r.at = "loadCheckpoint"
    BY <1>2, <1>5 DEF LoadCheckpoint, StoredCheckpoint, Run
  <2>2. exec[r.e].status = "paused" BY <1>2, <2>1 DEF Marked, RunnerSet, Known
  <2> QED BY <1>1, <2>1, <2>2, StandingFrame DEF Stands
<1>6. CASE LoadRunPlan(c) /\ ~Finish(c)
  <2>1. run'[c].at = "node" /\ run'[c].e = r.e /\ run'[c].kind = r.kind /\ r.at = "loadPlan"
    BY <1>2, <1>6 DEF LoadRunPlan, Run
  <2> QED BY <1>1, <1>2, <2>1, StandingFrame DEF Stands
<1>7. CASE RunNode(c)
  <2>1. /\ run'[c].e = r.e /\ run'[c].kind = r.kind /\ r.at = "node"
        /\ \/ run'[c].at = "node"
           \/ r.kind = "scheduler" /\ run'[c].at \in {"record", "checkpoint"}
           \/ r.kind # "scheduler" /\ run'[c].at \in {"completed", "paused"}
    BY <1>2, <1>7 DEF RunNode, Run, Writes, EngineWrites, SchedulerWrites
  <2> QED BY <1>1, <1>2, <2>1, StandingFrame DEF Stands
<1>8. CASE FailNode(c) /\ ~Finish(c)
  <2>1. /\ run'[c].at = "failed" /\ run'[c].e = r.e /\ run'[c].kind = r.kind /\ r.at = "node"
        /\ r.kind # "scheduler"
    BY <1>2, <1>8 DEF FailNode, Step, Run
  <2> QED BY <1>1, <1>2, <2>1, StandingFrame DEF Stands
<1>9. CASE (RecordStep(c) \/ SchedulerRecordStep(c)) /\ ~Finish(c)
  <2>1. /\ run'[c].e = r.e /\ run'[c].kind = r.kind /\ r.at = "record"
        /\ \/ run'[c].at = "record"
           \/ r.kind = "scheduler" /\ run'[c].at = "completed"
    BY <1>2, <1>9 DEF RecordStep, SchedulerRecordStep, Step, Run
  <2> QED BY <1>1, <1>2, <2>1, StandingFrame DEF Stands
<1>10. CASE \E b \in Budgets \cup {Unlimited} :
              \/ \E e \in Execs : Begin(c, e, b)
              \/ \E kind \in Kinds : List(c, kind, b) \/ \E e \in Execs : Resume(c, e, kind, b)
  <2>1. ASSUME NEW b \in Budgets \cup {Unlimited}, NEW e \in Execs, Begin(c, e, b) PROVE FALSE
    BY <2>1 DEF Begin, SaveExecution, ExecInv, ExecTyped
  <2>2. ASSUME NEW b \in Budgets \cup {Unlimited}, NEW kind \in Kinds, List(c, kind, b)
        PROVE  run'[c].at = "pick"
    BY <1>2, <2>2 DEF List, NotRunning
  <2>3. ASSUME NEW b \in Budgets \cup {Unlimited}, NEW kind \in Kinds, NEW e \in Execs,
               Resume(c, e, kind, b)
        PROVE  run'[c].at = "pick"
    BY <1>2, <2>3 DEF Resume, NotRunning
  <2>4. run'[c].at = "pick" BY <1>10, <2>1, <2>2, <2>3
  <2> QED BY <1>4, <2>4 DEF Early
<1>11. CASE UNCHANGED execVars BY <1>1, <1>2, <1>11, StandingFrame DEF execVars
<1>12. CASE Pick(c) \/ LoadExec(c)
  <2>1. run'[c].at \in Early \/ Finish(c)
    BY <1>2, <1>12, ZenonT(60) DEF Pick, LoadExec, Step, Early, Run
  <2> QED BY <1>3, <1>4, <2>1
<1>13. CASE EndUnaudited(c) \/ EnvMissing(c) \/ SchedulerEnvMissing(c)
  BY <1>3, <1>13 DEF EndUnaudited, EnvMissing, SchedulerEnvMissing
<1> QED
  BY <1>3, <1>4, <1>5, <1>6, <1>7, <1>8, <1>9, <1>10, <1>11, <1>12, <1>13
  DEF Moves, Runner, RunStep, Saving

\* Steps that write an execution.
LEMMA WritesStand ==
    ASSUME ExecInv, Standing, NEW c \in Runners, Moves(c), Exclusive', Saving(c)
    PROVE  /\ Standing'
           /\ \A e \in Execs : Over(e) => exec'[e].status = exec[e].status
<1> DEFINE r == run[c]
<1>1. /\ c \in Clients /\ run \in [Clients -> Run] /\ RunnerSet(r, Known) /\ Stands(r, exec)
      /\ Marked /\ exec \in [Execs -> Exec] /\ Known \subseteq Execs
  BY Constants DEF ExecInv, ExecTyped, Standing, Known
<1>2. CASE SaveCompleted(c)
  <2>1. /\ r.at = "completed" /\ r.kind = "engine" /\ r.e \in Execs
        /\ exec[r.e].status \in {"running", "paused"}
        /\ exec' = [exec EXCEPT ![r.e] = [status |-> "completed", g |-> exec[r.e].g,
                       version |-> exec[r.e].version, checkpoint |-> None]]
        /\ run'[c].at = "record" /\ run'[c].kind = "engine" /\ run'[c].e = r.e
    BY <1>1, <1>2 DEF SaveCompleted, SaveStatus, SaveExecution, Step, Stands, RunnerSet, Run
  <2>2. Marked' BY <1>1, <2>1 DEF Marked
  <2>3. Stands(run'[c], exec') BY <2>1 DEF Stands
  <2>4. \A e \in Execs : e # r.e => exec'[e] = exec[e] BY <1>1, <2>1
  <2>5. \A e \in Known : e # r.e => exec'[e] = exec[e] BY <1>1, <2>4
  <2>6. Standing' BY <2>2, <2>3, <2>5, StandingFrame
  <2> QED BY <2>1, <2>4, <2>6 DEF Over
<1>3. CASE SchedulerSaveCompleted(c)
  <2>1. /\ r.at = "completed" /\ r.e \in Execs /\ Finish(c)
        /\ exec[r.e].status \in {"running", "paused"}
        /\ exec' = [exec EXCEPT ![r.e] = [status |-> "completed", g |-> exec[r.e].g,
                       version |-> exec[r.e].version, checkpoint |-> None]]
    BY <1>1, <1>3 DEF SchedulerSaveCompleted, SaveStatus, SaveExecution, Stands, RunnerSet
  <2>2. Marked' BY <1>1, <2>1 DEF Marked
  <2>3. Stands(run'[c], exec') BY <2>1, FinishStands
  <2>4. \A e \in Execs : e # r.e => exec'[e] = exec[e] BY <1>1, <2>1
  <2>5. \A e \in Known : e # r.e => exec'[e] = exec[e] BY <1>1, <2>4
  <2>6. Standing' BY <2>2, <2>3, <2>5, StandingFrame
  <2> QED BY <2>1, <2>4, <2>6 DEF Over
<1>4. CASE SavePaused(c)
  <2>1. /\ r.at = "paused" /\ r.e \in Execs
        /\ exec[r.e].status \in {"running", "paused"}
        /\ exec' = [exec EXCEPT ![r.e] = [status |-> "paused", g |-> exec[r.e].g,
                       version |-> exec[r.e].version, checkpoint |-> None]]
        /\ run'[c].at = "checkpoint" /\ run'[c].e = r.e
    BY <1>1, <1>4 DEF SavePaused, SaveStatus, SaveExecution, Step, Stands, RunnerSet, Run
  <2>2. Marked' BY <1>1, <2>1 DEF Marked
  <2>3. Stands(run'[c], exec') BY <1>1, <2>1 DEF Stands
  <2>4. \A e \in Execs : e # r.e => exec'[e] = exec[e] BY <1>1, <2>1
  <2>5. \A e \in Known : e # r.e => exec'[e] = exec[e] BY <1>1, <2>4
  <2>6. Standing' BY <2>2, <2>3, <2>5, StandingFrame
  <2> QED BY <2>1, <2>4, <2>6 DEF Over
<1>5. CASE SaveCheckpoint(c)
  <2>1. /\ r.at = "checkpoint" /\ r.e \in Execs /\ Finish(c)
        /\ exec[r.e].status = "paused"
        /\ exec' = [exec EXCEPT ![r.e].checkpoint = r.pos]
    BY <1>1, <1>5 DEF SaveCheckpoint, StoreCheckpoint, Stands, RunnerSet
  <2>2. exec'[r.e].status = "paused" BY <1>1, <2>1 DEF Exec
  <2>3. \A e \in Execs : e # r.e => exec'[e] = exec[e] BY <1>1, <2>1
  <2>4. Marked' BY <1>1, <2>2, <2>3 DEF Marked
  <2>5. Stands(run'[c], exec') BY <2>1, FinishStands
  <2>6. \A e \in Known : e # r.e => exec'[e] = exec[e] BY <1>1, <2>3
  <2>7. Standing' BY <2>4, <2>5, <2>6, StandingFrame
  <2> QED BY <2>1, <2>2, <2>3, <2>7 DEF Over
<1>6. CASE SaveFailed(c)
  <2>1. /\ r.at = "failed" /\ r.e \in Execs /\ Finish(c)
        /\ exec[r.e].status \in {"running", "paused"}
        /\ exec' = [exec EXCEPT ![r.e] = [status |-> "failed", g |-> exec[r.e].g,
                       version |-> exec[r.e].version, checkpoint |-> None]]
    BY <1>1, <1>6 DEF SaveFailed, SaveStatus, SaveExecution, Stands, RunnerSet
  <2>2. Marked' BY <1>1, <2>1 DEF Marked
  <2>3. Stands(run'[c], exec') BY <2>1, FinishStands
  <2>4. \A e \in Execs : e # r.e => exec'[e] = exec[e] BY <1>1, <2>1
  <2>5. \A e \in Known : e # r.e => exec'[e] = exec[e] BY <1>1, <2>4
  <2>6. Standing' BY <2>2, <2>3, <2>5, StandingFrame
  <2> QED BY <2>1, <2>4, <2>6 DEF Over
<1>7. ASSUME NEW b \in Budgets \cup {Unlimited}, NEW e \in Execs, Begin(c, e, b)
      PROVE  /\ Standing'
             /\ \A f \in Execs : Over(f) => exec'[f].status = exec[f].status
  <2>1. /\ exec[e].status = "none"
        /\ exec' = [exec EXCEPT ![e] = [status |-> "running", g |-> client[c].g,
                       version |-> client[c].version, checkpoint |-> None]]
        /\ run'[c].at = "node" /\ run'[c].kind = "engine" /\ run'[c].e = e
    BY <1>1, <1>7 DEF Begin, SaveExecution, NotRunning
  <2>2. exec'[e].status = "running" /\ exec'[e].checkpoint = None BY <1>1, <2>1
  <2>3. Marked' BY <1>1, <2>1, <2>2 DEF Marked
  <2>4. Stands(run'[c], exec') BY <2>1, <2>2 DEF Stands
  <2>5. \A f \in Execs : f # e => exec'[f] = exec[f] BY <1>1, <2>1
  <2>6. \A f \in Known : f # r.e => exec'[f] = exec[f] BY <1>1, <2>1, <2>5 DEF Known
  <2>7. Standing' BY <2>3, <2>4, <2>6, StandingFrame
  <2> QED BY <2>1, <2>5, <2>7 DEF Over
<1> QED BY <1>2, <1>3, <1>4, <1>5, <1>6, <1>7 DEF Saving

\* Every other step leaves the executions as they are.
LEMMA ReadsOnly ==
    ASSUME ExecInv, NEW c \in Runners, Moves(c), ~Saving(c)
    PROVE  UNCHANGED exec
<1>1. CASE RunStep(c)
  BY <1>1 DEF RunStep, Saving, Pick, LoadExec, LoadCheckpoint, LoadRunPlan, RunNode,
              RecordStep, SchedulerRecordStep, EndUnaudited
<1>2. CASE FailNode(c) \/ EnvMissing(c) \/ SchedulerEnvMissing(c)
  BY <1>2 DEF FailNode, EnvMissing, SchedulerEnvMissing
<1>3. CASE \E b \in Budgets \cup {Unlimited} :
             \/ \E e \in Execs : Begin(c, e, b)
             \/ \E kind \in Kinds : List(c, kind, b) \/ \E e \in Execs : Resume(c, e, kind, b)
  BY <1>3 DEF Saving, List, Resume
<1>4. CASE UNCHANGED execVars BY <1>4 DEF execVars
<1> QED BY <1>1, <1>2, <1>3, <1>4 DEF Moves, Runner

\* A runner's step.
LEMMA MoveStands ==
    ASSUME ExecInv, Standing, NEW c \in Runners, Moves(c), Exclusive'
    PROVE  /\ Standing'
           /\ \A e \in Execs : Over(e) => exec'[e].status = exec[e].status
<1>1. CASE Saving(c) BY <1>1, WritesStand
<1>2. CASE ~Saving(c)
  <2>1. UNCHANGED exec BY <1>2, ReadsOnly
  <2> QED BY <1>2, <2>1, ReadsStand
<1> QED BY <1>1, <1>2

\* A step after which a runner works on no other execution keeps them apart.
LEMMA StaysExclusive ==
    ASSUME ExecInv, Exclusive, NEW c \in Runners, Moves(c),
           run'[c].e \in {run[c].e, None}
    PROVE  Exclusive'
<1>1. \A d \in Runners : d # c => run'[d] = run[d] BY OthersRun, Constants
<1> QED BY <1>1 DEF Exclusive

\* Every step.
LEMMA StandingNext ==
    ASSUME ExecInv, OverInv, [ExecNext]_vars
    PROVE  /\ OverInv'
           /\ "runners" \notin trouble' =>
                \A e \in Execs : Over(e) => exec'[e].status = exec[e].status
<1> SUFFICES ASSUME "runners" \notin trouble'
             PROVE  /\ Standing'
                    /\ \A e \in Execs : Over(e) => exec'[e].status = exec[e].status
  BY DEF OverInv
<1>1. trouble \subseteq trouble' BY DEF ExecNext, vars
<1>2. Standing BY <1>1 DEF OverInv
<1>3. ASSUME UNCHANGED <<exec, run>>
      PROVE  /\ Standing'
             /\ \A e \in Execs : Over(e) => exec'[e].status = exec[e].status
  BY <1>2, <1>3 DEF Standing, Exclusive, Marked, Stands
<1>4. ASSUME trouble' = trouble \cup Seen' PROVE Exclusive' BY <1>4 DEF Seen
<1>5. CASE UNCHANGED vars BY <1>3, <1>5 DEF vars
<1>6. CASE \E c \in Clients \ Runners : Editor(c)
  BY <1>3, <1>6 DEF Editor, execVars
<1>7. CASE (\E c \in Runners : Runner(c)) /\ trouble' = trouble \cup Seen'
  BY <1>2, <1>4, <1>7, MoveStands DEF Moves
<1>8. ASSUME NEW c \in Runners, FailNode(c) \/ EnvMissing(c) \/ SchedulerEnvMissing(c)
      PROVE  /\ Standing'
             /\ \A e \in Execs : Over(e) => exec'[e].status = exec[e].status
  <2>1. Moves(c) BY <1>8 DEF Moves
  <2>2. run \in [Clients -> Run] /\ c \in Clients BY Constants DEF ExecInv, ExecTyped
  <2>3. CASE Finish(c) BY <1>2, <2>1, <2>3, FinishStands, StaysExclusive, MoveStands DEF Standing
  <2>4. CASE ~Finish(c)
    <3>1. run'[c].e = run[c].e
      BY <1>8, <2>2, <2>4 DEF FailNode, EnvMissing, SchedulerEnvMissing, Step, Run
    <3> QED BY <1>2, <2>1, <3>1, StaysExclusive, MoveStands DEF Standing
  <2> QED BY <2>3, <2>4
<1>9. ASSUME NEW p \in Processes, ExecCrash(p)
      PROVE  /\ Standing'
             /\ \A e \in Execs : Over(e) => exec'[e].status = exec[e].status
  <2>1. /\ UNCHANGED exec
        /\ \A c \in Runners : run'[c] \in {run[c], NotRunning}
    BY <1>9, Constants DEF ExecCrash
  <2>2. Marked' BY <1>2, <2>1 DEF Standing, Marked
  <2>3. Exclusive' BY <1>2, <2>1 DEF Standing, Exclusive, NotRunning
  <2>4. \A c \in Runners : Stands(run'[c], exec')
    BY <1>2, <2>1 DEF Standing, Stands, NotRunning
  <2> QED BY <2>1, <2>2, <2>3, <2>4 DEF Standing
<1> QED BY <1>5, <1>6, <1>7, <1>8, <1>9 DEF ExecNext

\* TerminalStays for every number of executions, runners, nodes and versions, and
\* whatever fails or is killed: while nobody resumes what another one is running,
\* no save_execution of run_execution, resume_execution or the scheduler reopens an
\* execution that is completed or failed.
THEOREM OverStaysOver == ExecSpec => TerminalStays
<1>1. ExecInit => OverInv
  <2> SUFFICES ASSUME ExecInit PROVE Standing BY DEF OverInv
  <2>1. /\ \A c \in Runners : run[c] = NotRunning
        /\ \A e \in Execs : exec[e].checkpoint = None
    BY Constants DEF ExecInit
  <2> QED BY <2>1 DEF Standing, Exclusive, Marked, Stands, NotRunning
<1>2. ExecInv /\ OverInv /\ [ExecNext]_vars => OverInv' BY StandingNext
<1>3. ExecInv /\ OverInv /\ [ExecNext]_vars =>
        [\A e \in Execs :
            ("runners" \notin trouble' /\ exec[e].status \in {"completed", "failed"}) =>
                exec'[e].status = exec[e].status]_vars
  BY StandingNext DEF Over
<1> QED BY <1>1, <1>2, <1>3, ExecInvariant, PTL DEF ExecSpec, TerminalStays

-----------------------------------------------------------------------------
(* An execution nobody works on *)

\* Who is to write a running execution, and the checkpoint of a paused one.
Holder(r, e)  == r.e = e /\ r.kind = "engine" /\ r.at \in {"node", "completed", "paused", "failed"}
Marking(r, e) == r.e = e /\ r.at = "checkpoint"

Held == \A e \in Execs :
    /\ exec[e].status = "running" => \E c \in Runners : Holder(run[c], e)
    /\ (exec[e].status = "paused" /\ exec[e].checkpoint = None) =>
         \E c \in Runners : Marking(run[c], e)

HeldInv == trouble \cap {"killed", "env"} = {} => Held

\* A runner that loads a plan runs nothing yet.
OneJob == \A c \in Runners : client[c].at # "idle" => run[c].at = "idle"

LEMMA OneJobNext ==
    ASSUME ExecInv, Basics, OneJob, [ExecNext]_vars
    PROVE  OneJob'
<1>1. CASE UNCHANGED vars BY <1>1 DEF vars, OneJob
<1>2. ASSUME NEW c \in Clients \ Runners, Editor(c) PROVE OneJob'
  <2>1. \A d \in Clients : d # c => client'[d] = client[d] BY <1>2, OthersKeep DEF Editor
  <2> QED BY <1>2, <2>1, Constants DEF Editor, execVars, OneJob
<1>3. ASSUME NEW c \in Runners, Moves(c) PROVE OneJob'
  <2>1. \A d \in Runners : d # c => run'[d] = run[d] BY <1>3, OthersRun, Constants
  <2>2. c \in Clients /\ client \in [Clients -> Client] /\ run \in [Clients -> Run]
    BY Constants DEF Basics, StoreTyped, ExecInv, ExecTyped
  <2>3. CASE (LoadPlan(c) \/ SavePlan(c) \/ SaveVersion(c) \/ Loaded(c)) /\ UNCHANGED execVars
    <3>1. client[c].at # "idle"
      BY <2>3 DEF LoadPlan, SavePlan, SaveVersion, Loaded
    <3>2. \A d \in Clients : d # c => client'[d] = client[d]
      BY <2>2, <2>3, OthersKeep DEF Continue
    <3> QED BY <2>3, <3>1, <3>2, Constants DEF execVars, OneJob
  <2>4. CASE \E g \in Graphs : Free(c) /\ LoadGraph(c, g) /\ UNCHANGED execVars
    <3>1. \A d \in Clients : d # c => client'[d] = client[d]
      BY <2>2, <2>4, OthersKeep DEF Start
    <3> QED BY <2>4, <3>1, Constants DEF execVars, OneJob, Free
  <2>5. ASSUME UNCHANGED client, client[c].at = "idle" PROVE OneJob'
    BY <2>1, <2>5 DEF OneJob
  <2>6. CASE RunStep(c)
    <3>1. UNCHANGED client /\ run[c].at # "idle"
      BY <2>6 DEF RunStep, Pick, LoadExec, LoadCheckpoint, LoadRunPlan, RunNode, SaveCompleted,
             RecordStep, SchedulerRecordStep, SchedulerSaveCompleted, SavePaused, SaveCheckpoint,
             SaveFailed, EndUnaudited, dataVars
    <3> QED BY <2>5, <3>1 DEF OneJob
  <2>7. CASE FailNode(c) \/ EnvMissing(c) \/ SchedulerEnvMissing(c)
    <3>1. UNCHANGED client /\ run[c].at # "idle"
      BY <2>7 DEF FailNode, EnvMissing, SchedulerEnvMissing, dataVars
    <3> QED BY <2>5, <3>1 DEF OneJob
  <2>8. ASSUME NEW b \in Budgets \cup {Unlimited},
               \E kind \in Kinds : List(c, kind, b) \/ \E e \in Execs : Resume(c, e, kind, b)
        PROVE  OneJob'
    BY <2>5, <2>8 DEF List, Resume, Free, dataVars
  <2>9. ASSUME NEW b \in Budgets \cup {Unlimited}, NEW e \in Execs, Begin(c, e, b) PROVE OneJob'
    <3>1. client' = [client EXCEPT ![c] = Idle] BY <2>9 DEF Begin, Return
    <3>2. client'[c].at = "idle" /\ \A d \in Clients : d # c => client'[d] = client[d]
      BY <2>2, <3>1 DEF Idle, Request
    <3> QED BY <2>1, <3>2, Constants DEF OneJob
  <2> QED BY <1>3, <2>3, <2>4, <2>6, <2>7, <2>8, <2>9 DEF Moves, Runner
<1>4. ASSUME NEW p \in Processes, ExecCrash(p) PROVE OneJob'
  <2>1. \A c \in Runners : \/ client'[c] = client[c] /\ run'[c] = run[c]
                           \/ client'[c] = Idle
    BY <1>4, Constants DEF ExecCrash
  <2> QED BY <2>1 DEF OneJob, Idle, Request
<1> QED BY <1>1, <1>2, <1>3, <1>4 DEF ExecNext, Moves


\* A step that only reads leaves the writers where they are, or further on.
LEMMA ReadsHold ==
    ASSUME ExecInv, Held, NEW c \in Runners, Runner(c) \/ FailNode(c), ~Saving(c)
    PROVE  Held'
<1>1. UNCHANGED exec BY ReadsOnly DEF Moves
<1>2. \A d \in Runners : d # c => run'[d] = run[d] BY OthersRun, Constants DEF Moves
<1>3. c \in Clients /\ run \in [Clients -> Run] BY Constants DEF ExecInv, ExecTyped
<1>4. ASSUME NEW e \in Execs, Holder(run[c], e) PROVE Holder(run'[c], e)
  <2>1. CASE RunStep(c)
    <3>1. RunNode(c)
      BY <1>4, <2>1 DEF Holder, RunStep, Saving, Pick, LoadExec, LoadCheckpoint, LoadRunPlan,
                        RecordStep, SchedulerRecordStep, EndUnaudited
    <3> QED BY <1>3, <1>4, <3>1 DEF RunNode, Run, Holder, Writes, EngineWrites
  <2>2. CASE FailNode(c) BY <1>3, <1>4, <2>2 DEF FailNode, Step, Run, Holder
  <2>3. CASE UNCHANGED execVars BY <1>4, <2>3 DEF execVars
  <2>4. ASSUME NEW b \in Budgets \cup {Unlimited},
               \/ \E f \in Execs : Begin(c, f, b)
               \/ \E kind \in Kinds : List(c, kind, b) \/ \E f \in Execs : Resume(c, f, kind, b)
        PROVE  FALSE
    BY <1>4, <2>4 DEF Saving, List, Resume, Free, Holder
  <2> QED BY <2>1, <2>2, <2>3, <2>4 DEF Runner
<1>5. ASSUME NEW e \in Execs, Marking(run[c], e) PROVE Marking(run'[c], e)
  <2>1. ~RunStep(c) /\ ~FailNode(c)
    BY <1>5 DEF Marking, RunStep, Saving, Pick, LoadExec, LoadCheckpoint, LoadRunPlan, RunNode,
                RecordStep, SchedulerRecordStep, EndUnaudited, FailNode
  <2>2. CASE UNCHANGED execVars BY <1>5, <2>2 DEF execVars
  <2>3. ASSUME NEW b \in Budgets \cup {Unlimited},
               \/ \E f \in Execs : Begin(c, f, b)
               \/ \E kind \in Kinds : List(c, kind, b) \/ \E f \in Execs : Resume(c, f, kind, b)
        PROVE  FALSE
    BY <1>5, <2>3 DEF Saving, List, Resume, Free, Marking
  <2> QED BY <2>1, <2>2, <2>3 DEF Runner
<1> QED BY <1>1, <1>2, <1>4, <1>5 DEF Held

\* What a runner writes to its execution e holds, if what it wrote is held.
LEMMA HeldFrame ==
    ASSUME ExecInv, Held, NEW c \in Runners, Moves(c), NEW e \in Execs,
           run[c].e \in {e, None},
           \A f \in Execs : f # e => exec'[f] = exec[f],
           exec'[e].status = "running" => Holder(run'[c], e),
           (exec'[e].status = "paused" /\ exec'[e].checkpoint = None) => Marking(run'[c], e)
    PROVE  Held'
<1>1. \A d \in Runners : d # c => run'[d] = run[d] BY OthersRun, Constants
<1> SUFFICES ASSUME NEW f \in Execs, f # e
             PROVE  /\ exec'[f].status = "running" => \E d \in Runners : Holder(run'[d], f)
                    /\ (exec'[f].status = "paused" /\ exec'[f].checkpoint = None) =>
                         \E d \in Runners : Marking(run'[d], f)
  BY DEF Held
<1>2. exec'[f] = exec[f] /\ f # None BY Constants
<1>3. \A d \in Runners : Holder(run[d], f) \/ Marking(run[d], f) => d # c
  BY <1>2 DEF Holder, Marking
<1> QED BY <1>1, <1>2, <1>3 DEF Held

\* Steps that write an execution.
LEMMA WritesHold ==
    ASSUME ExecInv, OneJob, Held, NEW c \in Runners, Moves(c), Saving(c)
    PROVE  Held'
<1> DEFINE r == run[c]
<1>1. /\ c \in Clients /\ run \in [Clients -> Run] /\ RunnerSet(r, Known)
      /\ exec \in [Execs -> Exec] /\ Known \subseteq Execs
  BY Constants DEF ExecInv, ExecTyped, Known
<1>2. ASSUME NEW status \in {"completed", "failed"}, r.at \in {"completed", "failed"},
             SaveStatus(c, status)
      PROVE  Held'
  <2>1. /\ r.e \in Execs
        /\ exec' = [exec EXCEPT ![r.e] = [status |-> status, g |-> exec[r.e].g,
                       version |-> exec[r.e].version, checkpoint |-> None]]
    BY <1>1, <1>2 DEF SaveStatus, SaveExecution, RunnerSet
  <2>2. /\ exec'[r.e].status = status
        /\ \A f \in Execs : f # r.e => exec'[f] = exec[f]
    BY <1>1, <2>1
  <2> QED BY <2>1, <2>2, HeldFrame
<1>3. CASE SaveCompleted(c) BY <1>2, <1>3 DEF SaveCompleted
<1>4. CASE SchedulerSaveCompleted(c) BY <1>2, <1>4 DEF SchedulerSaveCompleted
<1>5. CASE SaveFailed(c) BY <1>2, <1>5 DEF SaveFailed
<1>6. CASE SavePaused(c)
  <2>1. /\ r.e \in Execs
        /\ exec' = [exec EXCEPT ![r.e] = [status |-> "paused", g |-> exec[r.e].g,
                       version |-> exec[r.e].version, checkpoint |-> None]]
        /\ run'[c].at = "checkpoint" /\ run'[c].e = r.e
    BY <1>1, <1>6 DEF SavePaused, SaveStatus, SaveExecution, Step, RunnerSet, Run
  <2>2. /\ exec'[r.e].status = "paused" /\ \A f \in Execs : f # r.e => exec'[f] = exec[f]
        /\ Marking(run'[c], r.e)
    BY <1>1, <2>1 DEF Marking
  <2> QED BY <2>1, <2>2, HeldFrame
<1>7. CASE SaveCheckpoint(c)
  <2>1. /\ r.e \in Execs /\ r.pos \in Inner
        /\ exec' = [exec EXCEPT ![r.e].checkpoint = r.pos]
    BY <1>1, <1>7 DEF SaveCheckpoint, StoreCheckpoint, RunnerSet
  <2>2. /\ exec'[r.e].checkpoint = r.pos /\ exec'[r.e].status = exec[r.e].status
        /\ \A f \in Execs : f # r.e => exec'[f] = exec[f]
    BY <1>1, <2>1 DEF Exec
  <2>3. r.pos # None BY <2>1, Constants
  <2>4. CASE exec[r.e].status # "running" BY <2>1, <2>2, <2>3, <2>4, HeldFrame
  <2>5. CASE exec[r.e].status = "running"
    \* Another one is to write it.
    <3>1. PICK d \in Runners : Holder(run[d], r.e) BY <2>1, <2>5 DEF Held
    <3>2. d # c BY <3>1, <1>7 DEF Holder, SaveCheckpoint
    <3>3. \A b \in Runners : b # c => run'[b] = run[b] BY OthersRun, Constants
    <3>4. Holder(run'[d], r.e) BY <3>1, <3>2, <3>3
    <3> SUFFICES ASSUME NEW f \in Execs, f # r.e
                 PROVE  /\ exec'[f].status = "running" => \E b \in Runners : Holder(run'[b], f)
                        /\ (exec'[f].status = "paused" /\ exec'[f].checkpoint = None) =>
                             \E b \in Runners : Marking(run'[b], f)
      BY <2>2, <2>3, <3>4 DEF Held
    <3>5. exec'[f] = exec[f] /\ \A b \in Runners : Holder(run[b], f) \/ Marking(run[b], f) => b # c
      BY <2>2 DEF Holder, Marking
    <3> QED BY <3>3, <3>5 DEF Held
  <2> QED BY <2>4, <2>5
<1>8. ASSUME NEW b \in Budgets \cup {Unlimited}, NEW e \in Execs, Begin(c, e, b) PROVE Held'
  <2>1. /\ exec' = [exec EXCEPT ![e] = [status |-> "running", g |-> client[c].g,
                       version |-> client[c].version, checkpoint |-> None]]
        /\ run'[c].at = "node" /\ run'[c].kind = "engine" /\ run'[c].e = e
        /\ client[c].at = "loaded" /\ exec[e].status = "none"
    BY <1>1, <1>8 DEF Begin, SaveExecution, NotRunning
  <2>2. /\ exec'[e].status = "running" /\ \A f \in Execs : f # e => exec'[f] = exec[f]
        /\ Holder(run'[c], e)
    BY <1>1, <2>1 DEF Holder
  <2>3. \A d \in Runners : d # c => run'[d] = run[d] BY OthersRun, Constants
  <2>4. \A f \in Execs : ~Holder(run[c], f) /\ ~Marking(run[c], f)
    BY <2>1 DEF OneJob, Holder, Marking
  <2> QED BY <2>2, <2>3, <2>4 DEF Held
<1> QED BY <1>3, <1>4, <1>5, <1>6, <1>7, <1>8 DEF Saving

\* Every step, while nothing is killed and no variable is missing.
LEMMA HeldNext ==
    ASSUME ExecInv, OneJob, HeldInv, [ExecNext]_vars
    PROVE  HeldInv'
<1> SUFFICES ASSUME trouble' \cap {"killed", "env"} = {} PROVE Held'
  BY DEF HeldInv
<1>1. trouble \subseteq trouble' BY DEF ExecNext, vars
<1>2. Held BY <1>1 DEF HeldInv
<1>3. CASE UNCHANGED <<exec, run>> BY <1>2, <1>3 DEF Held, Holder, Marking
<1>4. CASE UNCHANGED vars BY <1>3, <1>4 DEF vars
<1>5. CASE \E c \in Clients \ Runners : Editor(c) BY <1>3, <1>5 DEF Editor, execVars
<1>6. ASSUME NEW c \in Runners, Runner(c) \/ FailNode(c) PROVE Held'
  <2>1. Moves(c) BY <1>6 DEF Moves
  <2> QED BY <1>2, <1>6, <2>1, ReadsHold, WritesHold
<1>7. ~\E p \in Processes : ExecCrash(p) /\ trouble' = trouble \cup {"killed"} OBVIOUS
<1>8. ~\E c \in Runners : /\ EnvMissing(c) \/ SchedulerEnvMissing(c)
                         /\ trouble' = trouble \cup {"env"}
  OBVIOUS
<1> QED BY <1>4, <1>5, <1>6, <1>7, <1>8 DEF ExecNext

\* RestsSafely for every number of executions, runners, nodes and versions: however
\* runners of the engine and the scheduler crate cross each other and whatever nodes
\* fail, the statements of run_execution, resume_execution and Scheduler::resume_one
\* never leave an execution running, or paused without a checkpoint, with nobody to
\* write it, unless a process is killed or its environment check fails.
THEOREM RestIsSafe == ExecSpec => []RestsSafely
<1>1. ExecInit => OneJob /\ HeldInv
  <2> SUFFICES ASSUME ExecInit PROVE OneJob /\ Held
    BY DEF HeldInv
  <2>1. \A c \in Runners : client[c] = Idle BY Constants DEF ExecInit
  <2>2. \A e \in Execs : exec[e].status = "none" BY DEF ExecInit
  <2> QED BY <2>1, <2>2 DEF OneJob, Held, Idle, Request
<1>2. ExecInv /\ Basics /\ OneJob /\ HeldInv /\ [ExecNext]_vars => OneJob' /\ HeldInv'
  BY OneJobNext, HeldNext
<1>3. ExecInv /\ HeldInv => RestsSafely
  <2> SUFFICES ASSUME ExecInv, Held, NEW e \in Execs, \A c \in Runners : run[c].e # e
               PROVE  \/ exec[e].status \in {"none", "completed", "failed"}
                      \/ exec[e].status = "paused" /\ exec[e].checkpoint # None
    BY DEF HeldInv, RestsSafely, Resting
  <2>1. exec[e].status \in Status BY DEF ExecInv, ExecTyped, Exec
  <2> QED BY <2>1 DEF Status, Held, Holder, Marking
<1> QED BY <1>1, <1>2, <1>3, ExecInvariant, PTL DEF ExecSpec-----------------------------------------------------------------------------
(* Once *)

\* No node after the k-th has run, and no step was recorded.
Fresh(e, k)   == \A j \in Nodes : j > k => effects[e][j] = 0
Unrecorded(e) == \A j \in Nodes : steps[e][j] = 0
Recording(r)  == r.at = "record" \/ (r.at = "completed" /\ r.kind = "scheduler")

\* What a runner at a position of its execution has still to do.
ToDo(r) ==
    /\ r.at # "failed" /\ (r.at # "loadPlan" => r.kind # "unaudited")
    /\ Fresh(r.e, r.pos)
    /\ ~Recording(r) => Unrecorded(r.e)
    /\ r.at = "record" => \A j \in Nodes : j > r.step => steps[r.e][j] = 0
    /\ (r.at = "record" /\ r.kind # "scheduler") => exec[r.e].checkpoint = None
    /\ r.at = "loadPlan" => r.pos = r.start
    /\ (r.at \in {"loadPlan", "node"} /\ exec[r.e].checkpoint # None) =>
          exec[r.e].checkpoint = r.start

\* What is to be done of an execution that nobody is at.
Left(e) ==
    /\ exec[e].status = "none" => Fresh(e, 0) /\ Unrecorded(e)
    /\ (exec[e].checkpoint # None /\ \A c \in Runners : run[c].e = e => run[c].at \in Early) =>
         Fresh(e, exec[e].checkpoint) /\ Unrecorded(e)

AtMostOnce == \A e \in Execs, j \in Nodes : effects[e][j] <= 1 /\ steps[e][j] <= 1

Orderly ==
    /\ AtMostOnce
    /\ \A c \in Runners : run[c].at \notin Early => ToDo(run[c])
    /\ \A e \in Execs : Left(e)

OrderlyInv == trouble \subseteq {"env"} => Orderly

\* A step that touches only the executions of one runner.
LEMMA OrderlyFrame ==
    ASSUME ExecInv, Standing, Orderly, NEW c \in Runners, Moves(c), Exclusive',
           NEW D, D = {run[c].e, run'[c].e} \cap Execs,
           \A f \in Execs \ D : exec'[f] = exec[f] /\ effects'[f] = effects[f] /\ steps'[f] = steps[f],
           \A f \in D : /\ \A j \in Nodes : effects'[f][j] <= 1 /\ steps'[f][j] <= 1
                        /\ Left(f)',
           run'[c].at \notin Early => ToDo(run[c])'
    PROVE  Orderly'
<1>1. \A d \in Runners : d # c => run'[d] = run[d] BY OthersRun, Constants
<1>2. AtMostOnce' BY DEF Orderly, AtMostOnce
<1>3. ASSUME NEW d \in Runners, d # c, run'[d].at \notin Early PROVE ToDo(run[d])'
  <2>1. run'[d] = run[d] /\ RunnerSet(run[d], Known) /\ ToDo(run[d])
    BY <1>1, <1>3, Constants DEF ExecInv, ExecTyped, Orderly
  <2>2. run[d].e \in Execs /\ run[d].e # None
    BY <1>3, <2>1, Constants DEF RunnerSet, Known, Early
  <2>3. run[d].e \notin D
    BY <1>3, <2>1, <2>2 DEF Standing, Exclusive
  <2>4. /\ exec'[run[d].e] = exec[run[d].e] /\ effects'[run[d].e] = effects[run[d].e]
        /\ steps'[run[d].e] = steps[run[d].e]
    BY <2>2, <2>3
  <2> QED BY <2>1, <2>4 DEF ToDo, Fresh, Unrecorded
<1>4. ASSUME NEW f \in Execs \ D PROVE Left(f)'
  <2>1. Left(f) /\ exec'[f] = exec[f] /\ effects'[f] = effects[f] /\ steps'[f] = steps[f]
    BY DEF Orderly
  <2>2. run[c].e # f /\ run'[c].e # f OBVIOUS
  <2>3. (\A b \in Runners : run'[b].e = f => run'[b].at \in Early)
          => \A b \in Runners : run[b].e = f => run[b].at \in Early
    BY <1>1, <2>2
  <2> QED BY <2>1, <2>3 DEF Left, Fresh, Unrecorded
<1> QED BY <1>2, <1>3, <1>4 DEF Orderly

\* A runner that has not begun leaves everything to be done.
LEMMA EarlyStep ==
    ASSUME ExecInv, Standing, Orderly, NEW c \in Runners, Moves(c), Exclusive',
           UNCHANGED <<exec, steps, effects>>, run[c].at \in Early, run'[c].at \in Early
    PROVE  Orderly'
<1>1. \A d \in Runners : d # c => run'[d] = run[d] BY OthersRun, Constants
<1>2. ASSUME NEW f \in Execs PROVE Left(f)'
  <2>1. (\A b \in Runners : run'[b].e = f => run'[b].at \in Early)
          => \A b \in Runners : run[b].e = f => run[b].at \in Early
    BY <1>1
  <2> QED BY <2>1 DEF Orderly, Left, Fresh, Unrecorded
<1>3. ASSUME NEW d \in Runners, run'[d].at \notin Early PROVE ToDo(run[d])'
  <2>1. run'[d] = run[d] BY <1>1, <1>3
  <2> QED BY <1>3, <2>1 DEF Orderly, ToDo, Fresh, Unrecorded
<1> QED BY <1>2, <1>3 DEF Orderly, AtMostOnce

\* A runner that has begun and gives its execution back.
LEMMA GivesBack ==
    ASSUME ExecInv, Standing, Orderly, NEW c \in Runners, Moves(c), Exclusive',
           run[c].at \notin Early, Finish(c),
           \A f \in Execs : f # run[c].e =>
               exec'[f] = exec[f] /\ effects'[f] = effects[f] /\ steps'[f] = steps[f],
           \A j \in Nodes : effects'[run[c].e][j] <= 1 /\ steps'[run[c].e][j] <= 1,
           exec'[run[c].e].status # "none",
           exec'[run[c].e].checkpoint # None =>
               /\ \A j \in Nodes : j > exec'[run[c].e].checkpoint => effects'[run[c].e][j] = 0
               /\ \A j \in Nodes : steps'[run[c].e][j] = 0
    PROVE  Orderly'
<1> DEFINE e == run[c].e  D == {run[c].e, run'[c].e} \cap Execs
<1>1. run'[c].at \in Early /\ run'[c].e = None BY FinishStands DEF Early
<1>2. D \subseteq {e} BY <1>1, Constants
<1>3. \A f \in D : Left(f)' BY <1>2 DEF Left, Fresh, Unrecorded
<1>4. \A f \in Execs \ D : f # e OBVIOUS
<1> HIDE DEF D
<1>5. D = {run[c].e, run'[c].e} \cap Execs BY DEF D
<1> QED BY <1>1, <1>2, <1>3, <1>4, <1>5, OrderlyFrame

\* A runner that has begun and goes on.
LEMMA GoesOn ==
    ASSUME ExecInv, Standing, Orderly, NEW c \in Runners, Moves(c), Exclusive',
           run'[c].at \notin Early, run'[c].e \in Execs, run[c].e \in {run'[c].e, None},
           \A f \in Execs : f # run'[c].e =>
               exec'[f] = exec[f] /\ effects'[f] = effects[f] /\ steps'[f] = steps[f],
           \A j \in Nodes : effects'[run'[c].e][j] <= 1 /\ steps'[run'[c].e][j] <= 1,
           exec'[run'[c].e].status # "none",
           ToDo(run[c])'
    PROVE  Orderly'
<1> DEFINE e == run'[c].e  D == {run[c].e, run'[c].e} \cap Execs
<1>1. D = {e} BY Constants
<1>2. \A f \in D : Left(f)' BY <1>1 DEF Left
<1>3. \A f \in Execs \ D : f # e BY <1>1
<1> HIDE DEF D
<1>4. D = {run[c].e, run'[c].e} \cap Execs BY DEF D
<1> QED BY <1>1, <1>2, <1>3, <1>4, OrderlyFrame

\* Steps before the first node.
LEMMA LoadsOrderly ==
    ASSUME ExecInv, Standing, Orderly, NEW c \in Runners, Exclusive',
           LoadCheckpoint(c) \/ LoadRunPlan(c), "unaudited" \notin Seen'
    PROVE  Orderly'
<1> DEFINE r == run[c]
<1>1. /\ c \in Clients /\ run \in [Clients -> Run] /\ RunnerSet(r, Known) /\ r.e \in Known
      /\ exec \in [Execs -> Exec] /\ Known \subseteq Execs /\ Moves(c)
  BY Constants DEF ExecInv, ExecTyped, Known, RunnerSet, Moves, Runner, RunStep, LoadCheckpoint,
                   LoadRunPlan
<1>2. exec[r.e].status # "none" /\ Left(r.e) /\ r.e # None
  BY <1>1, Constants DEF Known, Orderly
<1>3. AtMostOnce BY DEF Orderly
<1>4. CASE LoadCheckpoint(c) /\ Finish(c)
  BY <1>1, <1>4, FinishStands, EarlyStep DEF LoadCheckpoint, Early
<1>5. CASE LoadCheckpoint(c) /\ ~Finish(c)
  <2> DEFINE k == exec[r.e].checkpoint
  <2>1. /\ k # None /\ r.at = "loadCheckpoint"
        /\ run' = [run EXCEPT ![c].at = "loadPlan", ![c].start = k, ![c].pos = k, ![c].step = k]
        /\ UNCHANGED <<exec, steps, effects>>
    BY <1>5 DEF LoadCheckpoint, StoredCheckpoint
  <2>2. /\ run'[c].at = "loadPlan" /\ run'[c].e = r.e /\ run'[c].start = k /\ run'[c].pos = k
    BY <1>1, <2>1 DEF Run
  <2>3. \A d \in Runners : run[d].e = r.e => d = c BY <1>2 DEF Standing, Exclusive
  <2>4. Fresh(r.e, k) /\ Unrecorded(r.e) BY <1>2, <2>1, <2>3 DEF Left, Early
  <2>5. ToDo(run[c])' BY <2>1, <2>2, <2>4 DEF ToDo, Fresh, Unrecorded, Recording
  <2> QED BY <1>1, <1>2, <1>3, <2>1, <2>2, <2>5, GoesOn DEF Early, AtMostOnce
<1>6. CASE LoadRunPlan(c)
  <2>1. r.at = "loadPlan" /\ ToDo(r) /\ UNCHANGED <<exec, steps, effects>>
    BY <1>6 DEF LoadRunPlan, Orderly, Early
  <2>2. /\ Fresh(r.e, r.pos) /\ Unrecorded(r.e) /\ r.pos = r.start
        /\ exec[r.e].checkpoint # None => exec[r.e].checkpoint = r.start
    BY <2>1 DEF ToDo, Recording
  <2>3. CASE Finish(c)
    BY <1>1, <1>2, <1>3, <2>1, <2>2, <2>3, GivesBack DEF Early, AtMostOnce, Fresh, Unrecorded
  <2>4. CASE ~Finish(c)
    <3>1. /\ run'[c].at = "node" /\ run'[c].e = r.e /\ run'[c].kind = r.kind
          /\ run'[c].pos = r.pos /\ run'[c].start = r.start
      BY <1>1, <1>6, <2>4 DEF LoadRunPlan, Run
    <3>2. run'[c].kind # "unaudited" BY <3>1 DEF Seen
    <3>3. ToDo(run[c])' BY <2>1, <2>2, <3>1, <3>2 DEF ToDo, Fresh, Unrecorded, Recording
    <3> QED BY <1>1, <1>2, <1>3, <2>1, <3>1, <3>3, GoesOn DEF Early, AtMostOnce
  <2> QED BY <2>3, <2>4
<1> QED BY <1>4, <1>5, <1>6

\* A node, or the variable it needs.
LEMMA NodesOrderly ==
    ASSUME ExecInv, Standing, Orderly, NEW c \in Runners, Exclusive',
           RunNode(c) \/ EnvMissing(c) \/ SchedulerEnvMissing(c)
    PROVE  Orderly'
<1> DEFINE r == run[c]
<1>1. /\ c \in Clients /\ run \in [Clients -> Run] /\ RunnerSet(r, Known) /\ r.at = "node"
      /\ exec \in [Execs -> Exec] /\ Known \subseteq Execs /\ Moves(c)
      /\ effects \in [Execs -> [Nodes -> 0..MaxTimes]]
  BY Constants DEF ExecInv, ExecTyped, Known, Moves, Runner, RunStep, RunNode, EnvMissing,
                   SchedulerEnvMissing
<1>2. r.e \in Known /\ exec[r.e].status # "none" /\ r.e # None /\ ToDo(r)
  BY <1>1, Constants DEF Known, Orderly, RunnerSet, Early
<1>3. AtMostOnce BY DEF Orderly
<1>4. /\ Fresh(r.e, r.pos) /\ Unrecorded(r.e) /\ r.kind # "unaudited"
      /\ exec[r.e].checkpoint # None => exec[r.e].checkpoint = r.start
  BY <1>1, <1>2 DEF ToDo, Recording
<1>5. CASE EnvMissing(c) \/ SchedulerEnvMissing(c)
  <2>1. Finish(c) /\ r.pos = r.start /\ UNCHANGED <<exec, steps, effects>>
    BY <1>5 DEF EnvMissing, SchedulerEnvMissing
  <2> QED BY <1>1, <1>2, <1>3, <1>4, <2>1, GivesBack DEF Early, AtMostOnce, Fresh, Unrecorded
<1>6. CASE RunNode(c)
  <2> DEFINE k == r.pos + 1
  <2>1. k \in Nodes /\ r.pos \in Nat
    BY <1>1, Constants, ExecutionsAssumption DEF RunnerSet, Run, Nodes
  <2>2. effects' = [effects EXCEPT ![r.e][k] = @ + 1] /\ UNCHANGED <<exec, steps>>
    BY <1>6 DEF RunNode
  <2>3. effects[r.e][k] = 0 BY <1>4, <2>1 DEF Fresh
  <2>4. /\ effects'[r.e][k] = 1
        /\ \A j \in Nodes : j # k => effects'[r.e][j] = effects[r.e][j]
        /\ \A f \in Execs : f # r.e => effects'[f] = effects[f]
    BY <1>1, <1>2, <2>1, <2>2, <2>3
  <2>5. /\ run'[c].pos = k /\ run'[c].e = r.e /\ run'[c].kind = r.kind
        /\ run'[c].start = r.start
        /\ \/ run'[c].at = "node"
           \/ r.kind = "scheduler" /\ run'[c].at \in {"record", "checkpoint"}
           \/ r.kind # "scheduler" /\ run'[c].at \in {"completed", "paused"}
    BY <1>1, <1>6 DEF RunNode, Run, Writes, EngineWrites, SchedulerWrites
  <2>6. \A j \in Nodes : j > k => j # k /\ j > r.pos BY <2>1 DEF Nodes
  <2>7. \A j \in Nodes : j > k => effects'[r.e][j] = 0 BY <1>4, <2>4, <2>6 DEF Fresh
  <2>8. ToDo(run[c])'
    BY <1>4, <2>2, <2>5, <2>7 DEF ToDo, Fresh, Unrecorded, Recording
  <2>9. \A j \in Nodes : effects'[r.e][j] <= 1 /\ steps'[r.e][j] <= 1
    BY <1>1, <1>2, <1>3, <2>2, <2>4 DEF AtMostOnce
  <2> QED BY <1>1, <1>2, <2>2, <2>4, <2>5, <2>8, <2>9, GoesOn DEF Early
<1> QED BY <1>5, <1>6

\* The statements that save a segment.
LEMMA SavesOrderly ==
    ASSUME ExecInv, Standing, Orderly, NEW c \in Runners, Exclusive',
           \/ SaveCompleted(c) \/ SchedulerSaveCompleted(c) \/ SavePaused(c)
           \/ SaveCheckpoint(c) \/ SaveFailed(c) \/ EndUnaudited(c)
    PROVE  Orderly'
<1> DEFINE r == run[c]
<1>1. /\ c \in Clients /\ run \in [Clients -> Run] /\ RunnerSet(r, Known)
      /\ r.at \in {"completed", "paused", "checkpoint", "failed"}
      /\ exec \in [Execs -> Exec] /\ Known \subseteq Execs /\ Moves(c)
  BY Constants DEF ExecInv, ExecTyped, Known, Moves, Runner, RunStep, SaveCompleted,
         SchedulerSaveCompleted, SavePaused, SaveCheckpoint, SaveFailed, EndUnaudited
<1>2. r.e \in Known /\ exec[r.e].status # "none" /\ r.e # None /\ ToDo(r)
  BY <1>1, Constants DEF Known, Orderly, RunnerSet, Early
<1>3. AtMostOnce BY DEF Orderly
<1>4. /\ Fresh(r.e, r.pos) /\ r.kind # "unaudited" /\ r.at # "failed"
      /\ r.at # "completed" \/ r.kind # "scheduler" => Unrecorded(r.e)
  BY <1>1, <1>2 DEF ToDo, Recording
<1>5. ASSUME NEW status \in {"completed", "paused"}, SaveStatus(c, status)
      PROVE  /\ exec'[r.e].status = status /\ exec'[r.e].checkpoint = None
             /\ \A f \in Execs : f # r.e => exec'[f] = exec[f]
  BY <1>1, <1>2, <1>5 DEF SaveStatus, SaveExecution
<1>6. CASE SaveCompleted(c)
  <2>1. /\ r.at = "completed" /\ r.kind = "engine" /\ SaveStatus(c, "completed")
        /\ run'[c].at = "record" /\ run'[c].e = r.e /\ run'[c].kind = "engine"
        /\ run'[c].pos = r.pos /\ UNCHANGED <<steps, effects>>
    BY <1>1, <1>6 DEF SaveCompleted, Step, Run
  <2>2. ToDo(run[c])'
    BY <1>4, <1>5, <2>1 DEF ToDo, Fresh, Unrecorded, Recording
  <2> QED BY <1>1, <1>2, <1>3, <1>5, <2>1, <2>2, GoesOn DEF Early, AtMostOnce
<1>7. CASE SchedulerSaveCompleted(c)
  <2>1. SaveStatus(c, "completed") /\ Finish(c) /\ UNCHANGED <<steps, effects>>
    BY <1>7 DEF SchedulerSaveCompleted
  <2> QED BY <1>1, <1>2, <1>3, <1>5, <2>1, GivesBack DEF Early, AtMostOnce
<1>8. CASE SavePaused(c)
  <2>1. /\ r.at = "paused" /\ SaveStatus(c, "paused") /\ run'[c].kind = r.kind
        /\ run'[c].at = "checkpoint" /\ run'[c].e = r.e
        /\ run'[c].pos = r.pos /\ UNCHANGED <<steps, effects>>
    BY <1>1, <1>8 DEF SavePaused, Step, Run
  <2>2. ToDo(run[c])'
    BY <1>4, <2>1 DEF ToDo, Fresh, Unrecorded, Recording
  <2> QED BY <1>1, <1>2, <1>3, <1>5, <2>1, <2>2, GoesOn DEF Early, AtMostOnce
<1>9. CASE SaveCheckpoint(c)
  <2>1. /\ r.at = "checkpoint" /\ Finish(c) /\ UNCHANGED <<steps, effects>>
        /\ exec' = [exec EXCEPT ![r.e].checkpoint = r.pos]
    BY <1>9 DEF SaveCheckpoint, StoreCheckpoint
  <2>2. /\ exec'[r.e].checkpoint = r.pos /\ exec'[r.e].status # "none"
        /\ \A f \in Execs : f # r.e => exec'[f] = exec[f]
    BY <1>1, <1>2, <2>1 DEF Exec
  <2> QED
    BY <1>1, <1>2, <1>3, <1>4, <2>1, <2>2, GivesBack DEF Early, AtMostOnce, Fresh, Unrecorded
<1>10. CASE SaveFailed(c) \/ EndUnaudited(c)
  BY <1>4, <1>10 DEF SaveFailed, EndUnaudited
<1> QED BY <1>6, <1>7, <1>8, <1>9, <1>10

\* The rows of execution_steps.
LEMMA RecordsOrderly ==
    ASSUME ExecInv, Standing, Orderly, NEW c \in Runners, Exclusive',
           RecordStep(c) \/ SchedulerRecordStep(c)
    PROVE  Orderly'
<1> DEFINE r == run[c]  k == r.step + 1
<1>1. /\ c \in Clients /\ run \in [Clients -> Run] /\ RunnerSet(r, Known) /\ r.at = "record"
      /\ exec \in [Execs -> Exec] /\ Known \subseteq Execs /\ Moves(c)
      /\ steps \in [Execs -> [Nodes -> 0..MaxTimes]]
  BY Constants DEF ExecInv, ExecTyped, Known, Moves, Runner, RunStep, RecordStep,
                   SchedulerRecordStep
<1>2. r.e \in Known /\ exec[r.e].status # "none" /\ r.e # None /\ ToDo(r)
  BY <1>1, Constants DEF Known, Orderly, RunnerSet, Early
<1>3. AtMostOnce BY DEF Orderly
<1>4. /\ Fresh(r.e, r.pos) /\ r.kind # "unaudited"
      /\ \A j \in Nodes : j > r.step => steps[r.e][j] = 0
      /\ r.kind # "scheduler" => exec[r.e].checkpoint = None
  BY <1>1, <1>2 DEF ToDo
<1>5. r.step \in Nat /\ k \in Nodes
  BY <1>1, Constants, ExecutionsAssumption DEF Run, Inner, Nodes
<1>6. steps' = [steps EXCEPT ![r.e][k] = @ + 1] /\ UNCHANGED <<exec, effects>>
  BY DEF RecordStep, SchedulerRecordStep, SaveStep
<1>7. /\ steps'[r.e][k] = 1
      /\ \A j \in Nodes : j # k => steps'[r.e][j] = steps[r.e][j]
      /\ \A f \in Execs : f # r.e => steps'[f] = steps[f]
  BY <1>1, <1>2, <1>4, <1>5, <1>6
<1>8. \A j \in Nodes : effects'[r.e][j] <= 1 /\ steps'[r.e][j] <= 1
  BY <1>1, <1>2, <1>3, <1>6, <1>7 DEF AtMostOnce
<1>9. CASE RecordStep(c) /\ Finish(c)
  BY <1>1, <1>2, <1>4, <1>6, <1>7, <1>8, <1>9, GivesBack DEF Early, RecordStep
<1>10. CASE ~(RecordStep(c) /\ Finish(c))
  <2>1. /\ run'[c].e = r.e /\ run'[c].kind = r.kind /\ run'[c].pos = r.pos
        /\ \/ run'[c].at = "record" /\ run'[c].step = k
           \/ run'[c].at = "completed" /\ r.kind = "scheduler"
    BY <1>1, <1>10 DEF RecordStep, SchedulerRecordStep, Step, Run
  <2>2. \A j \in Nodes : j > k => steps'[r.e][j] = 0
    <3>1. \A j \in Nodes : j > k => j # k /\ j > r.step BY <1>5 DEF Nodes
    <3> QED BY <1>4, <1>7, <3>1
  <2>3. ToDo(run[c])' BY <1>4, <1>6, <2>1, <2>2 DEF ToDo, Fresh, Unrecorded, Recording
  <2> QED BY <1>1, <1>2, <1>6, <1>7, <1>8, <2>1, <2>3, GoesOn DEF Early
<1> QED BY <1>9, <1>10

\* The first statement of a run.
LEMMA BeginsOrderly ==
    ASSUME ExecInv, OneJob, Standing, Orderly, NEW c \in Runners, Exclusive',
           NEW b \in Budgets \cup {Unlimited}, NEW e \in Execs, Begin(c, e, b)
    PROVE  Orderly'
<1> DEFINE D == {run[c].e, run'[c].e} \cap Execs
<1>1. /\ c \in Clients /\ run \in [Clients -> Run] /\ exec \in [Execs -> Exec] /\ Moves(c)
  BY Constants DEF ExecInv, ExecTyped, Moves, Runner
<1>2. /\ exec[e].status = "none" /\ UNCHANGED <<steps, effects>>
      /\ exec' = [exec EXCEPT ![e] = [status |-> "running", g |-> client[c].g,
                     version |-> client[c].version, checkpoint |-> None]]
      /\ run'[c].at = "node" /\ run'[c].kind = "engine" /\ run'[c].e = e /\ run'[c].pos = 0
  BY <1>1 DEF Begin, SaveExecution, NotRunning
<1>3. /\ exec'[e].status = "running" /\ exec'[e].checkpoint = None
      /\ \A f \in Execs : f # e => exec'[f] = exec[f]
  BY <1>1, <1>2
<1>4. Fresh(e, 0) /\ Unrecorded(e) /\ AtMostOnce BY <1>2 DEF Orderly, Left
<1>5. ToDo(run[c])' BY <1>2, <1>3, <1>4 DEF ToDo, Fresh, Unrecorded, Recording
<1>6. run[c].at \in Early BY DEF Begin, OneJob, Early
<1>7. \A d \in Runners : d # c => run'[d] = run[d] BY <1>1, OthersRun, Constants
<1>8. ASSUME NEW f \in D PROVE Left(f)'
  <2>1. CASE f = e BY <1>3, <2>1 DEF Left
  <2>2. CASE f # e
    <3>1. (\A d \in Runners : run'[d].e = f => run'[d].at \in Early)
            => \A d \in Runners : run[d].e = f => run[d].at \in Early
      BY <1>6, <1>7
    <3> QED BY <1>2, <1>3, <2>2, <3>1 DEF Orderly, Left, Fresh, Unrecorded
  <2> QED BY <2>1, <2>2
<1>9. \A f \in D : \A j \in Nodes : effects'[f][j] <= 1 /\ steps'[f][j] <= 1
  BY <1>2, <1>4 DEF AtMostOnce
<1>10. \A f \in Execs \ D : /\ exec'[f] = exec[f] /\ effects'[f] = effects[f]
                            /\ steps'[f] = steps[f]
  BY <1>2, <1>3
<1> HIDE DEF D
<1>11. D = {run[c].e, run'[c].e} \cap Execs BY DEF D
<1> QED BY <1>1, <1>5, <1>8, <1>9, <1>10, <1>11, OrderlyFrame

\* Every step while one runner at a time works on an execution and nothing else goes
\* wrong but a missing variable.
LEMMA OrderlyNext ==
    ASSUME ExecInv, OneJob, OverInv, OrderlyInv, [ExecNext]_vars
    PROVE  OrderlyInv'
<1> SUFFICES ASSUME trouble' \subseteq {"env"} PROVE Orderly'
  BY DEF OrderlyInv
<1>1. trouble \subseteq trouble' BY DEF ExecNext, vars
<1>2. Orderly BY <1>1 DEF OrderlyInv
<1>3. Standing BY <1>1 DEF OverInv
<1>4. Standing' BY <1>1, StandingNext DEF OverInv
<1>5. Exclusive' BY <1>4 DEF Standing
<1>6. CASE UNCHANGED execVars
  BY <1>2, <1>6 DEF execVars, Orderly, AtMostOnce, ToDo, Left, Fresh, Unrecorded
<1>7. CASE UNCHANGED vars BY <1>6, <1>7 DEF vars, execVars
<1>8. CASE \E c \in Clients \ Runners : Editor(c) BY <1>6, <1>8 DEF Editor
<1>9. ASSUME NEW c \in Runners, Runner(c), "unaudited" \notin Seen' PROVE Orderly'
  <2>1. Moves(c) BY <1>9 DEF Moves
  <2>2. CASE RunStep(c)
    <3>1. ASSUME Pick(c) \/ LoadExec(c) PROVE Orderly'
      <4>1. UNCHANGED <<exec, steps, effects>> /\ run[c].at \in Early
        BY <3>1 DEF Pick, LoadExec, Early
      <4>2. run \in [Clients -> Run] /\ c \in Clients
        BY Constants DEF ExecInv, ExecTyped
      <4>3. CASE Finish(c)
        <5>1. run'[c].at \in Early BY <4>3, FinishStands DEF Early
        <5> QED BY <1>2, <1>3, <1>5, <2>1, <4>1, <5>1, EarlyStep
      <4>4. CASE ~Finish(c)
        <5>1. CASE Pick(c)
          <6>1. PICK e \in run[c].todo, at \in {"loadCheckpoint", "loadExec"} :
                  run' = [run EXCEPT ![c] = [run[c] EXCEPT !.e = e, !.todo = @ \ {e}, !.at = at]]
            BY <4>2, <5>1, PickMoves
          <6>2. run'[c].at \in Early BY <4>2, <6>1 DEF Early, Run
          <6> QED BY <1>2, <1>3, <1>5, <2>1, <4>1, <6>2, EarlyStep
        <5>2. CASE LoadExec(c)
          <6>1. run'[c].at \in Early BY <4>2, <4>4, <5>2 DEF LoadExec, Step, Early, Run
          <6> QED BY <1>2, <1>3, <1>5, <2>1, <4>1, <6>1, EarlyStep
        <5> QED BY <3>1, <5>1, <5>2
      <4> QED BY <4>3, <4>4
    <3>2. CASE LoadCheckpoint(c) \/ LoadRunPlan(c)
      BY <1>2, <1>3, <1>5, <1>9, <3>2, LoadsOrderly
    <3>3. CASE RunNode(c) BY <1>2, <1>3, <1>5, <3>3, NodesOrderly
    <3>4. CASE \/ SaveCompleted(c) \/ SchedulerSaveCompleted(c) \/ SavePaused(c)
               \/ SaveCheckpoint(c) \/ SaveFailed(c) \/ EndUnaudited(c)
      BY <1>2, <1>3, <1>5, <3>4, SavesOrderly
    <3>5. CASE RecordStep(c) \/ SchedulerRecordStep(c)
      BY <1>2, <1>3, <1>5, <3>5, RecordsOrderly
    <3> QED BY <2>2, <3>1, <3>2, <3>3, <3>4, <3>5 DEF RunStep
  <2>3. ASSUME NEW b \in Budgets \cup {Unlimited}, NEW e \in Execs, Begin(c, e, b) PROVE Orderly'
    BY <1>2, <1>3, <1>5, <2>3, BeginsOrderly
  <2>4. ASSUME NEW b \in Budgets \cup {Unlimited},
               \E kind \in Kinds : List(c, kind, b) \/ \E e \in Execs : Resume(c, e, kind, b)
        PROVE  Orderly'
    <3>1. run \in [Clients -> Run] /\ c \in Clients BY Constants DEF ExecInv, ExecTyped
    <3>2. /\ UNCHANGED <<exec, steps, effects>> /\ run[c].at \in Early
          /\ run'[c].at = "pick"
      <4>1. /\ UNCHANGED <<exec, steps, effects>> /\ run[c].at = "idle"
            /\ \E kind, todo : run' = [run EXCEPT ![c] = [NotRunning EXCEPT
                                  !.at = "pick", !.kind = kind, !.todo = todo, !.budget = b]]
        BY <2>4 DEF List, Resume, Free
      <4>2. \A kind, todo : [NotRunning EXCEPT !.at = "pick", !.kind = kind, !.todo = todo,
                                               !.budget = b].at = "pick"
        BY DEF NotRunning
      <4> QED BY <3>1, <4>1, <4>2 DEF Early
    <3>3. run'[c].at \in Early BY <3>2 DEF Early
    <3> QED BY <1>2, <1>3, <1>5, <2>1, <3>2, <3>3, EarlyStep
  <2> QED BY <1>6, <1>9, <2>2, <2>3, <2>4 DEF Runner
<1>10. ASSUME NEW c \in Runners, EnvMissing(c) \/ SchedulerEnvMissing(c) PROVE Orderly'
  BY <1>2, <1>3, <1>5, <1>10, NodesOrderly
<1>11. CASE /\ \/ \E c \in Clients \ Runners : Editor(c)
               \/ \E c \in Runners : Runner(c)
            /\ trouble' = trouble \cup Seen'
  BY <1>8, <1>9, <1>11
<1>12. /\ ~\E p \in Processes : ExecCrash(p) /\ trouble' = trouble \cup {"killed"}
       /\ ~\E c \in Runners : FailNode(c) /\ trouble' = trouble \cup {"node"}
  OBVIOUS
<1> QED BY <1>7, <1>10, <1>11, <1>12 DEF ExecNext

\* OnceEach for every number of executions, runners, nodes and versions: as long as one
\* runner at a time works on an execution, no sequence of execute, resume and scheduler
\* rounds (of the engine and of the scheduler crate, which goes by the list it read when
\* its round began) runs a node of it twice or records a step twice; a missing variable
\* before the first node of a segment does no harm.
THEOREM NothingTwice == ExecSpec => []OnceEach
<1>1. ExecInit => OneJob /\ OverInv /\ OrderlyInv
  <2> SUFFICES ASSUME ExecInit PROVE OneJob /\ Standing /\ Orderly
    BY DEF OverInv, OrderlyInv
  <2>1. \A c \in Runners : client[c] = Idle /\ run[c] = NotRunning
    BY Constants DEF ExecInit
  <2>2. \A e \in Execs : /\ exec[e].status = "none" /\ exec[e].checkpoint = None
                         /\ \A j \in Nodes : steps[e][j] = 0 /\ effects[e][j] = 0
    BY DEF ExecInit
  <2>3. OneJob BY <2>1 DEF OneJob, Idle, Request
  <2>4. Standing BY <2>1, <2>2 DEF Standing, Exclusive, Marked, Stands, NotRunning
  <2>5. Orderly
    BY <2>1, <2>2 DEF Orderly, AtMostOnce, Left, Fresh, Unrecorded, NotRunning, Early
  <2> QED BY <2>3, <2>4, <2>5
<1>2. ExecInv /\ Basics /\ OneJob /\ OverInv /\ OrderlyInv /\ [ExecNext]_vars
        => OneJob' /\ OverInv' /\ OrderlyInv'
  BY OneJobNext, StandingNext, OrderlyNext
<1>3. OrderlyInv => OnceEach BY DEF OrderlyInv, Orderly, AtMostOnce, OnceEach
<1> QED BY <1>1, <1>2, <1>3, ExecInvariant, PTL DEF ExecSpec

-----------------------------------------------------------------------------
(* Resuming the version that was recorded *)

\* What a step does to the graph tables: it is one of a client's, or none.
LEMMA StoreStep ==
    ASSUME NEW c \in Runners, Moves(c)
    PROVE  UNCHANGED <<row, vers, client>> \/ Start(c) \/ Continue(c)
<1>1. CASE RunStep(c)
  BY <1>1
  DEF RunStep, dataVars, Pick, LoadExec, LoadCheckpoint, LoadRunPlan, RunNode,
      SaveCompleted, RecordStep, SchedulerRecordStep, SchedulerSaveCompleted, SavePaused,
      SaveCheckpoint, SaveFailed, EndUnaudited
<1>2. CASE FailNode(c) \/ EnvMissing(c) \/ SchedulerEnvMissing(c)
  BY <1>2 DEF FailNode, EnvMissing, SchedulerEnvMissing, dataVars
<1>3. CASE \E b \in Budgets \cup {Unlimited} :
             \E kind \in Kinds : List(c, kind, b) \/ \E e \in Execs : Resume(c, e, kind, b)
  BY <1>3 DEF List, Resume, dataVars
<1>4. ASSUME NEW b \in Budgets \cup {Unlimited}, NEW e \in Execs, Begin(c, e, b)
      PROVE  Continue(c)
  BY <1>4 DEF Begin, Continue, Loaded
<1>5. CASE \E g \in Graphs : LoadGraph(c, g) BY <1>5 DEF Start
<1>6. CASE LoadPlan(c) \/ SavePlan(c) \/ SaveVersion(c) \/ Loaded(c) BY <1>6 DEF Continue
<1> QED BY <1>1, <1>2, <1>3, <1>4, <1>5, <1>6 DEF Moves, Runner

\* The graph and the version an execution recorded stay.
LEMMA VersionStays ==
    ASSUME ExecInv, NEW c \in Runners, Moves(c), NEW e \in Known
    PROVE  exec'[e].g = exec[e].g /\ exec'[e].version = exec[e].version
<1>0. exec \in [Execs -> Exec] /\ e \in Execs BY DEF ExecInv, ExecTyped, Known
<1>1. CASE ~Saving(c) BY <1>1, ReadsOnly
<1>2. ASSUME NEW b \in Budgets \cup {Unlimited}, NEW x \in Execs, Begin(c, x, b)
      PROVE  exec'[e].g = exec[e].g /\ exec'[e].version = exec[e].version
  BY <1>0, <1>2 DEF Begin, SaveExecution, Known
<1>3. CASE SaveCompleted(c) \/ SchedulerSaveCompleted(c) \/ SavePaused(c) \/ SaveFailed(c)
  <2>1. PICK status : SaveStatus(c, status)
    BY <1>3 DEF SaveCompleted, SchedulerSaveCompleted, SavePaused, SaveFailed
  <2>2. exec' = [exec EXCEPT ![run[c].e] =
                    [status |-> status, g |-> exec[run[c].e].g,
                     version |-> exec[run[c].e].version, checkpoint |-> None]]
    BY <2>1 DEF SaveStatus, SaveExecution
  <2> QED BY <1>0, <2>2
<1>4. CASE SaveCheckpoint(c)
  BY <1>0, <1>4 DEF SaveCheckpoint, StoreCheckpoint, Exec
<1> QED BY <1>1, <1>2, <1>3, <1>4 DEF Saving

\* A runner comes to the nodes of a resumed execution by loading its plan.
LEMMA ComesToNode ==
    ASSUME ExecInv, NEW c \in Runners, Moves(c), run'[c].at = "node", run'[c].start > 0
    PROVE  run'[c] = run[c] \/ RunNode(c) \/ LoadRunPlan(c)
<1>1. run \in [Clients -> Run] /\ c \in Clients BY Constants DEF ExecInv, ExecTyped
<1>2. ~Finish(c) BY <1>1, FinishFacts
<1>3. \A at : Step(c, at) => at = "node" BY <1>1 DEF Step, Run
<1>4. CASE RunStep(c)
  <2>1. ASSUME Pick(c) PROVE FALSE
    <3>1. PICK e \in run[c].todo, at \in {"loadCheckpoint", "loadExec"} :
             run' = [run EXCEPT ![c] = [run[c] EXCEPT !.e = e, !.todo = @ \ {e}, !.at = at]]
      BY <1>1, <2>1, PickMoves
    <3> DEFINE r == [run[c] EXCEPT !.e = e, !.todo = @ \ {e}, !.at = at]
    <3>2. r.at = at BY <1>1 DEF Run
    <3> HIDE DEF r
    <3> QED BY <1>1, <3>1, <3>2
  <2>2. ASSUME LoadCheckpoint(c) PROVE FALSE
    <3> DEFINE k == StoredCheckpoint(run[c].e)
               r == [run[c] EXCEPT !.at = "loadPlan", !.start = k, !.pos = k, !.step = k]
    <3>1. run' = [run EXCEPT ![c] = r] BY <1>1, <1>2, <2>2 DEF LoadCheckpoint
    <3>2. r.at = "loadPlan" BY <1>1 DEF Run
    <3> HIDE DEF r
    <3> QED BY <1>1, <3>1, <3>2
  <2>3. ~RecordStep(c) /\ ~SchedulerRecordStep(c)
    BY <1>1, <1>2, <1>3 DEF RecordStep, SchedulerRecordStep, Run
  <2> QED BY <1>2, <1>3, <1>4, <2>1, <2>2, <2>3
      DEF RunStep, LoadExec, SaveCompleted, SchedulerSaveCompleted, SavePaused,
          SaveCheckpoint, SaveFailed, EndUnaudited
<1>5. ~FailNode(c) /\ ~EnvMissing(c) /\ ~SchedulerEnvMissing(c)
  BY <1>2, <1>3 DEF FailNode, EnvMissing, SchedulerEnvMissing
<1>6. ASSUME NEW b \in Budgets \cup {Unlimited}, NEW e \in Execs, Begin(c, e, b) PROVE FALSE
  <2> DEFINE r == [NotRunning EXCEPT !.at = "node", !.e = e, !.plan = client[c].plan, !.budget = b]
  <2>1. run' = [run EXCEPT ![c] = r] BY <1>6 DEF Begin
  <2>2. r.start = 0 BY DEF NotRunning
  <2> HIDE DEF r
  <2> QED BY <1>1, <2>1, <2>2
<1>7. ASSUME NEW b \in Budgets \cup {Unlimited}, NEW kind \in Kinds,
             List(c, kind, b) \/ \E e \in Execs : Resume(c, e, kind, b)
      PROVE  FALSE
  <2>1. PICK todo : run' = [run EXCEPT ![c] = [NotRunning EXCEPT !.at = "pick", !.kind = kind,
                                                  !.todo = todo, !.budget = b]]
    BY <1>7 DEF List, Resume
  <2> DEFINE r == [NotRunning EXCEPT !.at = "pick", !.kind = kind, !.todo = todo, !.budget = b]
  <2>2. r.at = "pick" BY DEF NotRunning
  <2> HIDE DEF r
  <2> QED BY <1>1, <2>1, <2>2
<1>8. CASE UNCHANGED execVars BY <1>8 DEF execVars
<1> QED BY <1>4, <1>5, <1>6, <1>7, <1>8 DEF Moves, Runner

\* What a runner was given is still what its execution's version says after a step, if
\* versions keep their code.
LEMMA ResumedFrame ==
    ASSUME ExecInv, NEW d \in Runners, run[d].at = "node",
           run[d].plan = vers[exec[run[d].e].g][exec[run[d].e].version].code,
           \A x \in Graphs, n \in Versions :
               vers[x][n].code # None => vers'[x][n].code = vers[x][n].code
    PROVE  /\ run[d].e \in Known
           /\ vers'[exec[run[d].e].g][exec[run[d].e].version].code = run[d].plan
<1>1. run[d].e \in Known /\ run[d].plan \in Codes
  BY Constants DEF ExecInv, ExecTyped, RunnerSet
<1> DEFINE g == exec[run[d].e].g
           v == exec[run[d].e].version
<1>2. g \in Graphs /\ v \in Versions BY <1>1 DEF ExecInv, ExecTyped
<1>3. run[d].plan = vers[g][v].code OBVIOUS
<1>4. vers[g][v].code # None BY <1>1, <1>3, Constants
<1> HIDE DEF g, v
<1>5. vers'[g][v].code = vers[g][v].code BY <1>2, <1>4
<1> QED BY <1>1, <1>3, <1>5 DEF g, v

LEMMA ResumedMoves ==
    ASSUME ExecInv, Basics, Undisturbed, "killed" \notin trouble, ResumesItsVersion,
           NEW c \in Runners, Moves(c), NEW d \in Runners,
           run'[d].at = "node", run'[d].start > 0
    PROVE  run'[d].plan = vers'[exec'[run'[d].e].g][exec'[run'[d].e].version].code
<1> DEFINE Kept == \A x \in Graphs, n \in Versions :
                       vers[x][n].code # None => vers'[x][n].code = vers[x][n].code
<1>0. run \in [Clients -> Run] /\ c \in Clients BY Constants DEF ExecInv, ExecTyped
<1>1. Kept
  <2>1. CASE UNCHANGED <<row, vers, client>> BY <2>1
  <2>2. CASE Start(c) \/ Continue(c) BY <1>0, <2>2, CodesKept
  <2> QED BY <2>1, <2>2, StoreStep
<1>2. ASSUME run[d].at = "node", run[d].start > 0,
             run'[d].plan = run[d].plan, run'[d].e = run[d].e
      PROVE  run'[d].plan = vers'[exec'[run'[d].e].g][exec'[run'[d].e].version].code
  <2>1. run[d].plan = vers[exec[run[d].e].g][exec[run[d].e].version].code
    BY <1>2 DEF ResumesItsVersion
  <2>2. /\ run[d].e \in Known
        /\ vers'[exec[run[d].e].g][exec[run[d].e].version].code = run[d].plan
    <3> HIDE DEF Kept
    <3>1. \A x \in Graphs, n \in Versions :
              vers[x][n].code # None => vers'[x][n].code = vers[x][n].code
      BY <1>1 DEF Kept
    <3> QED BY <1>2, <2>1, <3>1, ResumedFrame
  <2>3. /\ exec'[run[d].e].g = exec[run[d].e].g
        /\ exec'[run[d].e].version = exec[run[d].e].version
    BY <2>2, VersionStays
  <2> QED BY <1>2, <2>2, <2>3
<1>3. CASE run'[d] = run[d] BY <1>2, <1>3
<1>4. CASE d = c /\ RunNode(c)
  <2>1. /\ run[d].at = "node" /\ run'[d].plan = run[d].plan /\ run'[d].e = run[d].e
        /\ run'[d].start = run[d].start
    BY <1>0, <1>4 DEF RunNode, Run
  <2> QED BY <1>2, <2>1
<1>5. CASE d = c /\ LoadRunPlan(c)
  <2> DEFINE e == run[c].e
             plan == StoredPlan(e)
  <2>1. run[c].at = "loadPlan" /\ UNCHANGED <<vers, exec>>
    BY <1>5 DEF LoadRunPlan, dataVars
  <2>2. e \in Known BY <1>0, <2>1 DEF ExecInv, ExecTyped, RunnerSet
  <2>3. exec[e].g \in Graphs /\ exec[e].version \in Versions
    BY <2>2 DEF ExecInv, ExecTyped
  <2>4. ~Finish(c) BY <1>0, <1>5, FinishFacts
  <2>5. plan # None /\ run' = [run EXCEPT ![c].at = "node", ![c].plan = plan]
    BY <1>5, <2>4 DEF LoadRunPlan
  <2>6. run'[c].plan = plan /\ run'[c].e = e
    <3> HIDE DEF plan
    <3> QED BY <1>0, <2>5 DEF Run
  <2>7. plan = vers[exec[e].g][exec[e].version].code
    BY <2>3, <2>5 DEF Undisturbed, StoredPlan
  <2> QED BY <1>5, <2>1, <2>6, <2>7
<1>6. d # c => run'[d] = run[d] BY OthersRun, Constants
<1> QED BY <1>3, <1>4, <1>5, <1>6, ComesToNode

LEMMA ResumeNext == ExecInv /\ Basics /\ Basics' /\ ResumeInv /\ ~Crossed' /\ [ExecNext]_vars
                        => ResumeInv'
<1> SUFFICES ASSUME ExecInv, Basics, Basics', ResumeInv, ~Crossed', [ExecNext]_vars
             PROVE  ResumeInv'
  OBVIOUS
<1>1. Mutex /\ ResumesItsVersion BY DEF ResumeInv
<1>2. trouble \subseteq trouble' BY DEF ExecNext, vars
<1>3. "killed" \notin trouble' => "killed" \notin trouble /\ Undisturbed
  BY <1>2 DEF ResumeInv
<1>4. CASE UNCHANGED vars
  <2>1. Mutex' BY <1>1, <1>4 DEF Mutex, vars
  <2>2. ResumesItsVersion' BY <1>1, <1>4 DEF ResumesItsVersion, vars
  <2>3. Undisturbed => Undisturbed' BY <1>4, OrderStutter DEF vars
  <2> QED BY <1>3, <2>1, <2>2, <2>3 DEF ResumeInv
<1>5. ASSUME NEW c \in Clients \ Runners, Editor(c) PROVE ResumeInv'
  <2>1. c \in Clients /\ (Start(c) \/ Continue(c)) /\ UNCHANGED <<exec, run>>
    BY <1>5 DEF Editor, execVars
  <2>2. Mutex' BY <1>1, <2>1, MutexClient
  <2>3. "killed" \notin trouble' => Undisturbed' BY <1>1, <1>3, <2>1, OrderClient
  <2>4. \A x \in Graphs, n \in Versions :
            vers[x][n].code # None => vers'[x][n].code = vers[x][n].code
    BY <2>1, CodesKept
  <2>5. ASSUME "killed" \notin trouble', NEW d \in Runners, run[d].at = "node", run[d].start > 0
        PROVE  run[d].plan = vers'[exec[run[d].e].g][exec[run[d].e].version].code
    <3>1. run[d].plan = vers[exec[run[d].e].g][exec[run[d].e].version].code
      BY <1>1, <1>3, <2>5 DEF ResumesItsVersion
    <3> QED BY <2>4, <2>5, <3>1, ResumedFrame
  <2>6. ResumesItsVersion' BY <2>1, <2>5 DEF ResumesItsVersion
  <2> QED BY <2>2, <2>3, <2>6 DEF ResumeInv
<1>6. ASSUME NEW c \in Runners, Moves(c) PROVE ResumeInv'
  <2>1. c \in Clients BY Constants
  <2>2. CASE UNCHANGED <<row, vers, client>>
    <3>1. Mutex' BY <1>1, <2>2 DEF Mutex
    <3>2. Undisturbed => Undisturbed' BY <2>2, OrderStutter
    <3> QED BY <1>1, <1>3, <1>6, <3>1, <3>2, ResumedMoves DEF ResumeInv, ResumesItsVersion
  <2>3. CASE Start(c) \/ Continue(c)
    <3>1. Mutex' BY <1>1, <2>1, <2>3, MutexClient
    <3>2. "killed" \notin trouble' => Undisturbed' BY <1>1, <1>3, <2>1, <2>3, OrderClient
    <3> QED BY <1>1, <1>3, <1>6, <3>1, <3>2, ResumedMoves DEF ResumeInv, ResumesItsVersion
  <2> QED BY <1>6, <2>2, <2>3, StoreStep
<1>7. ASSUME NEW p \in Processes, ExecCrash(p), trouble' = trouble \cup {"killed"}
      PROVE  ResumeInv'
  <2>1. \A d \in Clients : client'[d] \in {Idle, client[d]} BY <1>7 DEF ExecCrash
  <2>2. Mutex' BY <1>1, <2>1, MutexCrash
  <2> QED BY <1>7, <2>2 DEF ResumeInv, ResumesItsVersion
<1> QED BY <1>4, <1>5, <1>6, <1>7 DEF ExecNext, Moves

LEMMA ResumeInit == ExecInit => ResumeInv
<1> SUFFICES ASSUME ExecInit PROVE ResumeInv
  OBVIOUS
<1>1. \A c \in Clients : client[c].at = "idle" /\ client[c].g = None
  BY DEF ExecInit, Idle, Request
<1>2. Mutex BY <1>1 DEF Mutex, InStore
<1>3. ResumesItsVersion BY Constants DEF ExecInit, ResumesItsVersion, NotRunning
<1>4. PICK code \in Codes :
        /\ \A g \in Graphs : row[g].version = 1 /\ row[g].code = code
        /\ \A g \in Graphs, v \in Versions :
             /\ vers[g][v].code = IF v = 1 THEN code ELSE None
             /\ vers[g][v].plan \in {None, vers[g][v].code}
  BY DEF ExecInit
<1>5. \A g \in Graphs : HeadIsLatest(g)
  BY <1>4, Constants, ExecutionsAssumption DEF HeadIsLatest, LatestIs, Stored, Exists
<1>6. ~Crossed BY <1>1 DEF Crossed
<1>7. \A c \in Clients : Placed(c) BY <1>1 DEF Placed, Ahead
<1> QED BY <1>2, <1>3, <1>4, <1>5, <1>6, <1>7 DEF ResumeInv, Undisturbed

\* ResumesItsVersion for every number of runners, editors, processes and versions: while
\* no two processes work on one graph at once, load_plan_version of resume_execution,
\* run_scheduler and Scheduler::resume_one returns the plan of the code that the
\* execution's version was stored with, however the graph is edited meanwhile.
THEOREM ResumedVersion == ExecSpec /\ []~Crossed => []ResumesItsVersion
<1>1. ResumeInv => ResumesItsVersion BY DEF ResumeInv
<1> QED BY <1>1, ResumeInit, ResumeNext, ExecInvariant, PTL DEF ExecSpec

\* The requests of one process, whose connection lock keeps them apart, need no more.
THEOREM OneProcessResumes ==
    ASSUME \A c, d \in Clients : ProcessOf[c] = ProcessOf[d]
    PROVE  ExecSpec => []ResumesItsVersion
<1>1. ~Crossed BY DEF Crossed
<1> QED BY <1>1, ResumedVersion, PTL
=============================================================================
