# tinypipe: verification project

tinypipe stores graphs written in a small Python dialect, compiles them to
plans, runs the plans on a VM, publishes them as HTTP routes and lets external
workers provide tools through a daemon. This directory holds TLA+ modules of
it, TLC configurations for small instances, and TLAPS proofs.

## 1. Inventory

| Component | Source | State it keeps | Operations | Modelled in |
| --- | --- | --- | --- | --- |
| Tool daemon | `tinypipe-daemon/src/lib.rs` | worker groups, tool definitions, pending calls, in-flight ids per worker | connect/register, invoke, answer, timeout, disconnect | `Daemon`, `Delegation` |
| Go worker | `examples/go-worker/worker/worker.go` | current stream, mutex, backoff | connect, register, receive, handle, close | `GoWorker` |
| Graph store | `tinypipe-storage/src/lib.rs` | `graphs`, `graph_versions` | create, fork, update, save_plan, deploy, rollback, load_plan with self-heal | `GraphStore`; as one process sees it, `ServerStore` |
| Executions | `tinypipe-server/src/engine.rs`, `tinypipe-scheduler`, `tinypipe-cli`, executions part of the storage | `executions`, `execution_steps`, checkpoint | execute, pause, resume, scheduler round | `Executions` |
| Published routes | `tinypipe-server/src/{routes,state,meta,api,main}.rs` | route table, plan table, response cache, dynamic plan cache | refresh_all, conflict check, change a graph, serve a path, run code, start, restart | `Publish`, `DynamicPlans`, `Server` |
| Tool registry | `tinypipe-tools/src/registry.rs`, `tinypipe-env` | plan cache per graph, environment scopes | resolve, load and heal a plan, subgraph call, environment check | `Registry`, `Server` |
| VM executor | `tinypipe-vm/src/compiled_executor.rs`, `pause.rs` | enabled nodes, control counts, loop state, context, outputs | run a node, propagate edges, loops, parallel regions, checkpoint, resume; evaluate an expression | `CompiledRun`, `PausedRun`, `Expressions`; its segments in `Executions` |
| Context | `tinypipe-api/src/types.rs` | scopes of variables | get, set, snapshot, merge | `CompiledRun`, default merge strategy |
| Compiler front end | `tinypipe-compiler/src/{sanitizer,transform,validator,auto_repair}.rs` | none (pure) | sanitize, transform, validate, check for the editor | `Sanitizer`, `Transform`, `Validator`, `FrontEnd` |
| LLM adapter | `tinypipe-compiler/src/llm` | the conversation | ask, extract code, compile, ask again with the report | `Conversation`, `FrontEnd` |
| Compiler back end and IR | `tinypipe-compiler/src/backend`, `tinypipe-ir` | none (pure) | optimise, order, encode, decode, view | `Compiler`, `Expressions`, `PlanFormat`, `PlanView` |
| Built-in tools, insight, protocol | `tinypipe-tools/src/tools`, `tinypipe-insight`, `proto` | none | I/O, reports, message types | not modelled |

How they interact. The CLI and the server are processes that open the same
SQLite file; inside one process every storage function holds one connection
lock, between processes only single SQL statements are atomic, for the code
opens no transaction. `execute` reads a graph and its plan from the store, writes an
execution row, runs the VM, and writes the outcome; `resume` and the scheduler
go on from a checkpoint with the plan of the recorded version. Code reaches the
store through the compiler, whose input may come from an LLM. The VM calls tools
through the registry, which calls built-in tools, other graphs (each in an executor of
its own), or the daemon over gRPC; the daemon hands the call to a worker's stream and waits
for the answer with the same task id. The server keeps plans and routes in memory
and rebuilds them from the store after every change.

What is hard. Interleavings of tokio tasks over the daemon's five concurrent
maps; two cleanups per departed worker; Go handlers that outlive their stream;
two-statement writes and crashes between them; several processes on one file;
stale reads between two storage calls; scheduler lists that are old when used;
pauses in the middle of a run; plans in which a node that is passed over once
never runs; threads of a parallel region on copies of the state; caches that
outlive what they cache; changes of a graph while it runs, is published, or is
called by another one; expressions that are printed as text, folded as text and
evaluated as text.

What makes each component correct.

- Daemon: a waiting call is held by a cleanup of its worker or one is still to come
  that finds it, unless it came too late for both; a call that returned leaves nothing;
  a departed worker is not offered; every call has one outcome and is delivered at most
  once; every call returns.
- Go worker: one sender per stream, no close under a sender, one answer per task; after
  a lost connection it comes to receive on a stream that it is registered on, unless an
  old answer overtakes the registration.
- Graph store: version rows are never overwritten; the row is its latest version;
  versions grow; plans belong to their code; the deployed version exists.
- Executions: no node is skipped; with one runner none runs twice; what rests can
  be resumed or is over; what is over stays over; resume runs the version that
  was recorded; rounds complete what is paused.
- Server: a change that was accepted comes to be served; the tables are the store's; a
  cached response is one that the path gives now.
- Registry: every executor runs the plan of the version it resolved; a run that passed
  the environment check lacks no variable.
- Front end and back end: what is accepted is translated, statement by statement, and read
  back as it was written; an expression gives what it means; a refused answer is asked
  for again with its fault.
- Compiler and VM: a run of a plan does what the code says; a paused and resumed run
  does what an uninterrupted one can do; every run ends.

## 2. Modules

The daemon and its workers.

- `Daemon.tla`: one action per critical section of the daemon: `connect_worker`,
  `register_tool` (entry, join, definition), `disconnect_worker` (run twice per
  worker, from the inbound task and from the Drop of the outbound stream),
  `invoke_inner` (group lookup, pick, insert, track, send, wait), answers, timers
  and client cancellation. `groupOf`, `members`, `cursor`, `defs`, `pending` and
  `inFlight` are the fields of `Daemon` and `WorkerGroup`; the other variables are
  the program counters and locals of the handlers. Two are history: `received` counts how
  often a task was delivered to a worker process (`MachineOf` says which streams are of
  one process), and `tracked` whether a call was recorded before both cleanups of its
  worker had taken `in_flight` or after.
- `Delegation.tla`: what the daemon promises of one call, whatever its tables do:
  it is accepted or refused, a refused call never runs, it is delivered at most once,
  to one worker process, and has one outcome. `given` counts the deliveries, so that a second one,
  to the same process too, is a step that `Delegation` does not have. `Daemon` implements it
  (`KeepsPromise`).
- `GoWorker.tla`: the goroutines of a worker process: the main loop (close,
  connect, publish the stream, register, receive, back off) and one handler per
  task; a send lasts two steps, during which `Worker.mu` is held. `wire` is what the
  daemon gets on each stream, in order: it takes the first message for the registration
  (`Leads`).

The store and the executions.

- `GraphStore.tla`: the two graph tables and the operations of clients on
  them, one action per SQL statement. `client` holds where each request is and its
  locals; `ProcessOf` says which process it runs in, `Locked` is that process's
  connection lock. A plan is named by the code it was compiled from. `trouble` is
  a history variable: whether a process was ever killed, and whether two processes
  ever worked on one graph at once. The properties that the code promises only
  without these say so by it, which lets one run check all of them.
- `Executions.tla` extends `GraphStore` with the execution tables and runners.
  A runner starts an execution with the version and plan it loaded through
  `GraphStore`'s own actions, or resumes one, alone or from a list. `kind` tells the
  engine (the server's and the CLI's execute and resume) from the scheduler crate,
  which orders its writes in another way and has actions of its own where it differs.
  `effects` records what the nodes did in the world. The plan is a line of nodes and a
  checkpoint a position. `run_loop` of the scheduler, which repeats rounds up to a number,
  is the repetition of rounds. `trouble` also records two runners on one execution, runs
  without audit, and nodes or environment checks that failed. `Editor` lets other
  clients do all that `GraphStore` knows to the graphs meanwhile.

The server.

- `ServerStore.tla`: the tables of `GraphStore` as one process sees them, whose lock
  makes a storage function one step.
- `Publish.tla`: the plan table, the route table and the response cache. A request that
  changes graphs (`admin`) checks its route, writes, compiles, saves and then runs
  `refresh_all`: list, load and heal each graph, install plans, install routes,
  clear the cache. A request to a published path (`visit`) looks up the cache and the
  route, takes the plan, runs it and stores the body. `StartServer` and `KillServer` are
  main.rs and the end of the process.
- `Registry.tla`: a request to execute a graph: a name is resolved, the plan comes from
  the cache or from the store (and is healed), `validate_env` walks the calls depth first, and
  each subgraph CALL makes an executor with a scope of its own.
- `DynamicPlans.tla`: `POST /api/run` and its cache of 64 plans by a hash of the code.
- `Server.tla` composes the three in one process. `changed` and `trouble` record which
  kinds of requests overlapped: two changes, a response that was being computed when the
  cache was cleared, an update killed half way, a heal that saved the plan of another
  version or over a row that was left with another plan. Its second half holds the three
  inductive invariants of section 5.

From code to plan.

- `Sanitizer.tla`: the rules of `sanitize` as a fold over the statements; an error is
  the name of its rule.
- `Transform.tla`: the translation of a graph's statements to nodes and edges,
  one operator per kind of statement, as in `transform_stmt`. An expression is the
  sequence of the variables it reads. Nodes and edges are sequences, for the VM's order
  of execution depends on theirs. `marks` are the statements whose expressions a CALC
  computes, which is how a fused CALC is still recognised.
- `Validator.tla`: the checks of a plan, each named after its comment in the code.
- `Compiler.tla`: `compile`, with the passes of the optimizer that change what a plan does.
- `PlanFormat.tla`: the plan with counted edges, its bytes, and both read back; the order
  of codegen.
- `PlanView.tla`: the picture of a plan: groups, places and edges of `build_view`.
- `Expressions.tla`: expressions as the compiler prints them (`format_expr`), the folding of
  constants, and `eval_expression`, which has no grammar and looks for one operator after the
  other. A text is a sequence of tokens. `Meaning` is what the expression means in
  Python, with which the result is compared.
- `Conversation.tla`: the loop of `compile_from_natural_language`: a prompt, the answer of an
  LLM, and what is refused is asked for again with the report, up to `MaxAttempts` times. The
  compiler is an operator it is given (`Fault`), so that it is proved for any; its theorems are
  at its end.
- `FrontEnd.tla` gives it the compiler: an answer of the LLM becomes code (`extract_code`), the
  code is sanitized, transformed, validated, optimized, encoded, read back and drawn;
  `check_code` of the editor looks at the same code.

From plan to effects.

- `CompiledRun.tla`: the VM. The main pass and each thread of a PARALLEL is a runner: a
  cursor in a list of nodes or in the body of a loop, and what `run_node` is handed
  (outputs, enabled nodes, control counts, skipped nodes, context, count). A runner's step
  is one node, or the start or end of a turn. `trace` records what a run does to the world:
  calls, decisions, lengths of loops, returns, with what each was computed from. A
  condition, a range or a tool that may fail gives any of its values, and a run may
  fail before any node (an expression, a limit, a tool). What it computes from a plan before
  the run (`Prepared`: the order, the bodies of loops, the groups of branches) is a constant:
  `TopologicalOrder` is Kahn's algorithm with its stack (`Start`, `Pop`, `Kahn`), `LoopBody` what
  `collect_reachable_indices` makes of a LOOP's edges, and a plan whose order is too short is
  refused (`PreparedPlans`). What each opcode makes of a runner is an operator of its own (`Computed`, `Switched`,
  `Merged`, `Turned`, `Finished`, `Forked`, `Joined`, ...), one lemma each in the proofs.
- `PausedRun.tla`: the same run with pauses: `Checkpoint` is `build_checkpoint`, `Resume`
  starts from it alone. `Uninterrupted` is `CompiledRun` again, with a pause mapped to
  the runner its checkpoint stands for. Its second half holds the inductive invariant of
  section 5.
- `SourceRun.tla`: what a program says, by recursion over its statements, with no plan,
  order or enabled nodes: the traces of Python. It is what `CompiledRun` is compared with,
  not a model of code in the repository.

Instances and proofs.

- `MCDaemon`, `MCGoWorker`, `MCGraphStore`, `MCExecutions`, `MCServer`, `MCCompiled`,
  `MCFrontEnd`: instances for TLC; the last two hold the programs.
- `DaemonProofs`, `GoWorkerProofs`, `GraphStoreProofs`, `ExecutionsProofs`, and for the server
  `ServerProofs` and `TablesProofs`, which extends it, and for the VM `PausedProofs`: section 5.

Operators named as mutants in their comments (`...Unchecked`, `SaveLatest`, ...)
are not part of any specification: each is a variant of the definition below it
with a plausible mistake, and shows that the property can tell the difference.

## 3. Runs

| Run | Shows | Bounds |
| --- | --- | --- |
| `DaemonCalls` | `TypeOK`, `WaiterTracked`, `ReturnedLeavesNothing`, `DepartedUnreachable`, `KeepsPromise` | 2 streams of one worker process, a list may fail half way, 1 call |
| `DaemonPromise` | `KeepsPromise` (`Daemon` implements `Delegation`), `FailFast`, `EveryCallReturns` | 1 worker, 2 calls, channel of capacity 1 |
| `DaemonListing` (violated) | a registration that overlaps a cleanup is lost | 2 workers |
| `GoWorkerShared` | `StreamUse`, `AnsweredOnce`, `Reconnects` | 2 tasks, 3 connections |
| `StoreShared` | `VersionPlanRight`, `CurrentStored`, `ActiveStored`, `VersionsKept` | 2 requests of a server and a CLI command on one graph that is created or forked, 2 versions, both processes killed at any statement |
| `ExecShared` | `ExecTypeOK`, `NothingSkipped`, `RestsSafely`, `OnceEach`, `TerminalStays` | 2 runners of every kind on 1 execution of 3 nodes, all faults, both processes killed |
| `ExecEdited` | `ResumesItsVersion`, `PausedCompletes` | a runner and an editor in one process, 2 versions, a forked graph, budgets 1 and 2 |
| `ServerShared` | `ServerTypeOK`, `TablesAgree`, `CacheFresh`, `RunsWhatItResolved`, `CheckedRunLacksNothing`, `DynamicPlansSound`, `RefreshNeverFails`, `ChangesServed` | 2 graphs, 6 codes, 3 versions; one request that changes graphs and the process's own start, with a visitor, a caller of a graph that calls another, or two runs of code; the process is killed and started again |
| `ServerHeal` (violated) | the old plan overwrites that of the new code | 2 graphs, 3 codes, 2 versions |
| `CompiledPrograms` | `PausedTypeOK`, `PlanInOrder`, `FollowsSource`, `PauseTransparent`, `EveryRunEnds` | 14 compiled programs, 2 plans with parallel branches and one with a SWITCH, loops of at most 2 turns, at most 22 nodes a run, pauses at every place where the policy is asked |
| `FrontEnd` | `AcceptedIsTranslated`, `ChecksAgree`, `ViewLeadsWherePlanDoes`, `MeansWhatItSays`, `PromptTellsWhy` | some 4500 programs: every statement in every place and every place in another one, and every expression of a grammar, alone, as a condition and as an argument; up to 3 attempts |
| `FrontEndSums` (violated) | a sum of three numbers is a string | the same programs, one attempt |

Why the bounds are enough. The daemon's tables are keyed by worker, tool and
call, and an action touches one key of each, so that two workers and one call, or
two calls on one worker, show every pair of interfering handlers. The two workers of
`DaemonCalls` are two streams of one process, so that a task delivered on the first may be
answered on the second, which is what `KeepsPromise` and the answers are about there; for the
tables they are two workers. Three connections of a Go worker are one to lose, one on which an
old answer may overtake the registration, and one more. In the store every
interference is between clients on one graph; the two requests share a connection lock
and the command does not, so both kinds of interleaving occur in `StoreShared`. Two
processes that take the same number need two versions. A rollback to a version older
than the one before the current needs three, which the run does not reach. In
`Executions` a segment can start, pause and end at different nodes with three of them,
and two runners are what it takes to have an execution worked on twice. The proofs
(section 5) remove the bounds for what the runs show of the store, for all the safety
properties of the executions, of the Go worker, of the server, of the conversation with an LLM
and of the order and the pauses of the VM, and for those of the daemon but the one that
`DaemonListing` violates. In
`ServerShared` two graphs are what a route conflict and a subgraph call take, and three
versions what an update and a rollback to the version before take; one path with two
methods has a cache entry that survives a change of method. The requests to
paths, to execute graphs and to run code share nothing but the store, so `MCServer` lets a
behaviour have one kind (`focus`), and the codes it is given tell apart what each kind looks
at. Through the store they do interact: an execution may save the plan of a version while
graphs are changed. The proofs need neither the split nor the bounds. The
plan cache of `/api/run` keeps 2 plans of 4 sources instead of 64, two of which have one hash.
The programs of `CompiledPrograms` have every statement, gate and kind of edge that `Transform`
makes except PARALLEL (section 4); a loop of two turns shows what one turn leaves for the
next, and `NodeBudget` is more than what any of them needs. The programs of `FrontEnd` put each
kind of statement after, before and in each other one, with each kind of target, mark and
use that a rule of the sanitizer is about; its expressions have up to two operators.
`MaxNumber` and `MaxExact` stand for the largest integer and for 2^53, above which a double has no
odd numbers, so that sums of the small numbers of the programs get past both.
`MaxStreams`, `MaxVersion` and `MaxTimes` (the runs of one node of one execution) only cut
histories short.

Deadlock is not checked where the system may stop: all requests are over, or a
bound is reached.

Fairness.

- `DaemonPromise`: tokio polls ready tasks, so each cleanup and each call keeps
  moving (weak fairness). `FailFast` rests on that alone. `EveryCallReturns` has its
  second assumption, that timers go off, as a premise (`Timers => ...`).
- `GoWorkerShared`: goroutines are scheduled; `sync.Mutex` hands over to a waiter
  that has waited for 1 ms, so a goroutine that keeps wanting the lock gets it
  (strong fairness on the steps that take it); a daemon that can be reached again
  and again is reached. That is not enough to serve after every loss, so `Reconnects`
  says when else: `ctx` was cancelled, the bound on connections was reached, or an answer overtook
  the registration and the worker receives but is registered without tools.
- `ExecEdited`: requests and runners go on with what they do; the steps that take
  the connection lock have strong fairness, as the lock is free again and
  again; the scheduler, a command or an endpoint that somebody calls, is called
  again and again with a budget. That an editor never stops working on the graph is
  allowed.
- `ServerShared`: a handler that has begun goes on (weak fairness of its next step), and a
  process that has ended is started again by whoever runs it. `ChangesServed` asks for no
  end of the changes: it is about what the tables come back to again and again.
- `CompiledPrograms`: `execute` and `resume` are loops that go on (weak fairness), and
  whoever paused a run resumes it. A run could be paused for ever, were it not that
  each pause comes after a node that ran or was passed over.

## 4. Where the code and its documents disagree

Three of these are runs that TLC finds violated; the quotations are in `PROJECT.json`.

- `DaemonListing`: a worker that registers while another one of the same tool is cleaned
  up can vanish from the tables though it stays connected.
- `ServerHeal`: an execution that finds no plan compiles one and saves it over that of
  an update that came in between; it is served from then on.
- `FrontEndSums`: `o.a + 2 + b` is a concatenation, for the operands after the first `+` are
  no number to `resolve_numeric`.

Shapes of code whose plans do not do what the code says, for which `FollowsSource` fails
when they are added to `Programs`; the programs there stay clear of them:

- statements after `with PARALLEL()`: the VM never counts the control edge that leads
  to them, so they do not run (the two plans with parallel branches are built by hand, as
  in the tests of the VM, with a MERGE);
- an argument of a call that was last written in a branch not taken
  (`a = p`, `if a: a = f(a)`, `call(k=a)`): the value of the argument has an edge
  from the dead writer only;
- three or more statements in a branch: the gate is on the first and the last;
- a variable that is assigned in a branch and used only as an argument of a call there: it
  is fused away, and the call finds it unset;
- an assignment that is inlined into another one: its text is never evaluated, so that
  the fused CALC fails, and it loses the gate of its branch (optimize.rs 247 and 311);
- a loop whose body is fused away (`for i: t = i`, `return t`);
- a second loop whose range reads what both branches of an `if` in a first loop wrote;
- a return in a loop, which leaves the loop only, and an `if` nested in an `if` in a
  loop, which may follow the decision of an earlier turn;
- a `for` at the end of a branch.

Seen while modelling, by component.

- Daemon and worker: an answer of a Go handler that outlives its stream may come before the
  registration on the next one, where the daemon takes it for one (worker.go 140); a call
  that is recorded after both cleanups of its worker took `in_flight`, while the channel is still
  open, is in no cleanup's reach and waits for its timer, though README.md 681 says that pending
  tasks fail at once and the comment at lib.rs 233 that a call which is recorded before
  `try_send` is found; so does one that is given to a worker which was rejected in the middle of its
  list, for which no cleanup runs (lib.rs 332). `WaiterTracked` names the two.
- Store and executions: a crash between two statements loses a version row, and one between a
  row and its checkpoint leaves an execution nobody can resume (README.md 613); `execute` reads
  version and plan apart, so an update in between gives one execution two plans
  (README.md 662); two updates that overlap may leave the older plan in the row; healing an old
  version's plan replaces the row's; a budget counts the nodes of the whole execution;
  a segment that pauses records no steps.
- Server: two creates with one route are both stored, and every later `refresh_all` fails
  (README.md 808); so it does when an update is killed between its two writes, so that the row
  keeps its old plan, another graph takes the route that this plan does not claim, and an
  execution then finds the new version without a plan and saves it (registry.rs 154); two
  updates that overlap, an update that is killed half way and a heal leave a row whose plan is
  not that of its code: the check of the environment walks the one and the run has the other;
  a response computed before a change may enter the cache after it was
  cleared; the key of the response cache has no method, so that a HEAD is answered with a body
  (routes.rs 85-89); `http_public` is not looked at; the plan cache of `/api/run` drops the oldest
  plan, not the least recently used (README.md 837); the limit on recursion counts the calls of
  one executor and never binds across nested ones (compiled_executor.rs 706); the environment check
  goes by the name of the root (engine.rs 106).
- Front end: the else of a `for` is dropped; an annotated assignment never stores its
  variable; `match`, `assert` and a `pass` in a live place never compile
  (EXECUTION_GRAPH_PLATFORM.md 2681); the error of the last statement is swallowed, and the
  program refused for an edge without a node only; only the first error is reported; the
  variables of a subgraph stay in its caller's context; defaults and annotations of parameters
  are not sanitized; a later assignment, another branch and the target of a loop are no
  data race; `type_check` only logs; check 11 of the validator and the dependencies of
  codegen never find a subgraph, whose name is in quotes; schema hashes are empty, so no
  drift is detected.
- VM: a body that assigns the variable of its own loop does something else when it is paused
  after that, for `resume` sets the variable of the turn again (compiled_executor.rs 1305-1308):
  of `for i in range(3): i = i + p; x = f(i)` a run that is paused before the call calls f with
  the number of the turn. TLC finds `PauseTransparent` violated when this program is added to
  `Programs` (README.md 612-615 says that a run goes on where it stopped); the programs there
  have no such body, which `ProgramsKeepLoopVariables` says. A CALC whose evaluation fails when the
  last turn of its loop is over is passed over without an error (compiled_executor.rs 1656); in
  the model a variable without a value is what makes it fail. No pause is asked for after a call of
  another graph in a loop's body (compiled_executor.rs 1491).
- LLM: the number of attempts counts the first one, though it is called retries; a backend that
  refuses or cannot be reached ends the loop at once, though provider.rs 5 speaks of retries.
- Pictures: of two edges between two places the first is drawn, so that a data edge is lost
  when a control edge came before it (the comment at plan_view.rs 256-266).
- Expressions: parentheses are not printed; two operators with a `+` may give a wrong value
  without an error, others fail; a string is evaluated as an expression (`"a"` is the variable a in
  a CALC, `"l[x]"` fails the run); arrays and objects never equal anything; an empty array is
  true; a sum that overflows is a concatenation; numbers above 2^53 are rounded; `and`, `or`, `%`,
  unary minus and lists are not evaluated; a condition loses the quotes at its ends (`if s ==
  "ok"` is false); a range of two arguments binds its variable from 0. `Plain` names the
  expressions for which none of this happens, and `MeansWhatItSays` is about them.

## 5. Proofs

Every theorem holds for all values of the constants that satisfy the named assumptions of the
modules (types, and NULL is neither a code nor an id).

`DaemonProofs.tla`, for every set of workers, calls and tools and every channel capacity:

- `Typing`: `Spec => []TypeOK`;
- `NoLostWaiter`: `Spec => []WaiterTracked`;
- `NothingLeftBehind`: `Spec => []ReturnedLeavesNothing`;
- `PromiseKept`: `Spec => KeepsPromise`, that `Daemon` implements `Delegation`;
- `DepartedStaysUnreachable`: `Spec => []DepartedUnreachable`.

`WaiterTracked` is not inductive: that a cleanup holds a call or is still to come depends on what
each of the two took and has yet to flush, on which of them began when the call was recorded, and on how far the call's own insertions got. The
invariant `CallInv` says, per call and per position of its handler, which of `pending` and
`inFlight` hold it and which cleanup list may; it is proved inductive with one step per
action, and the second and third property follow from it.

Every step of the daemon is a step of `Delegation` or leaves its variables as they are, given
`DeliveryInv`: a task is in one worker's channel, once, or was handed over, never both, so that the
count of its deliveries never passes one; a call that was
refused is neither, an answer comes from a machine that was handed the task, and a call has no
outcome before it is done. `MembersInv` is behind `DepartedUnreachable`: a group is empty when it is
first mapped, a worker joins one group of a tool, once, and before any of its own cleanups begins, so
that the one removal of a cleanup is enough, and a group that is mapped later is a new one, in which a departed worker never was.

`GoWorkerProofs.tla`, for every set of tasks and every number of connections: `WorkerTyping`
(`[]TypeOK`, which no run checks), `OneSenderPerStream` (`[]StreamUse`), `OneAnswerPerTask` (`[]AnsweredOnce`).
`StreamUse` follows from `Sender`: at most one goroutine is inside a send, and its stream is the
current one. `AnsweredOnce` follows from `Answers`: an answer that some stream carries is there once,
and its handler is over.

`GraphStoreProofs.tla`, for every set of graphs, codes, clients and processes, every assignment
of clients to processes and every bound on versions:

- Whatever is killed and however many processes share the file: `StoreTyping` (`[]TypeOK`,
  whose `StoreTyped` the runs of the executions check in `ExecTypeOK`), `DeployedExists`
  (`[]ActiveStored`), `VersionsAreKept` (`VersionsKept`). They follow from `Basics`, which is
  `StoreTyped` and `Written`: that a deployed version exists rests on what a request saw when
  it passed its check, and that no version row is ever deleted.
- While one process works on a graph and none is killed: `VersionPlans`
  (`[]VersionPlanRight`), `CurrentIsStored` (`[]CurrentStored`), `VersionsGrow`
  (`VersionGrows`, which no run checks: it is the stronger reading of `CurrentStored` over
  time). None of these is inductive: the row is moved one statement before
  the version is inserted, and a plan is saved one call after that. `StoreInv`
  (`StoreOrder`) adds `Mutex`, the connection lock, and `Undisturbed`, which says for
  every position of a request what it implies about the tables (`Placed`) and that a graph
  nobody is `Ahead` on is at its latest version. The steps fall in three kinds, with one
  lemma for each: those that move no head (`StillFrame`), those that move the head of a
  graph on which, by the lock, no one else is inside a function (`HeadFrame`), and the INSERT
  that follows, which is the first of its number (`HeadInserts`).

`ExecutionsProofs.tla`, for every number of executions, runners, clients and processes, every
length of a plan, every budget and every choice of faults. It rests on `Basics` of the store,
whose lemmas it cites for the steps of the clients.

- Whatever is killed or fails and however many runners an execution has: `ExecTyping`
  (`[]ExecTypeOK`) and `NoNodeSkipped` (`[]NothingSkipped`), from `ExecInv` (`ExecInvariant`): a
  runner that has begun has run every node up to its position (`Progress`).
- Unless a process is killed or its environment check fails: `RestIsSafe` (`[]RestsSafely`).
  `Held` says who is to write a running execution (`Holder`) and the checkpoint of a paused one
  (`Marking`); every write keeps it though others write the same row in between. It needs
  that a runner that loads a plan runs nothing yet (`OneJob`).
- While one runner at a time works on an execution: `OverStaysOver` (`TerminalStays`), from
  `Standing`, which gives the status an execution has at every position of its runner.
- If besides no node fails and nothing is killed or unaudited: `NothingTwice` (`[]OnceEach`), from
  `Orderly`: what a runner at a position has still to do has not been done (`ToDo`), and what
  nobody is at has nothing done beyond its checkpoint (`Left`). A round that goes by an old list
  takes part: a row that was completed meanwhile has no checkpoint for it.

- While no two processes meet on a graph and none is killed: `ResumedVersion`
  (`[]ResumesItsVersion`), from `ResumeInv`, which is `Mutex` and `Undisturbed` of the store, kept by
  the steps of the runners as well (beginning an execution is, for the store, the end of a load).
  `OneProcessResumes` is the case of one process, in which two never meet. TLC showed that one that
  is killed between the two statements of an update is enough to lose it: the row is ahead of the versions,
  an execution that heals it saves its plan under a number that a rollback may take.

`ServerProofs.tla` and `TablesProofs.tla`, for every number of graphs,
codes, routes, requests of every kind, kills and restarts, every call graph, environment and hash
function, and every bound on versions and nesting. Each layer uses the invariant of the one
before, as their properties hold under more and more conditions:

- Whatever overlaps, fails or is killed: `ServerTyping` (`[]ServerTypeOK`),
  `ServerRunsWhatItResolved` (`[]RunsWhatItResolved`), `ServerDynamicPlansSound`
  (`[]DynamicPlansSound`), from `HistoryInv` (`ServerHistory`). The versions of a graph
  have no gap and keep the code they were stored with (`StoreOrdered`, the lemmas about `Kept`), so
  what a request has read of a version stays true while it holds it: `AdminPlaced` and
  `FetchedRight` say what that is at each position. A run of the cache evicts before it inserts,
  which is why its length never exceeds the capacity even when the key is there already.
- Until two changes overlap: `ServerTablesAgree` (`[]TablesAgree`), `ServerCacheFresh`
  (`[]CacheFresh`), `ServerRefreshNeverFails` (`RefreshNeverFails`), from `TablesInv`
  (`ServerTables`). What is stored can be published side by side (`Apart`) and what a request
  proposes fits in (`ProposalFits`): the conflict check looks at the tables in memory, so it
  takes that these are the store's when a change begins (`TablesServed`), which takes that
  `refresh_all` accepts what is stored. `Refreshing` says how far a refresh has come. A step of
  a request is proved for one that is `Alone`, and `StepsAlone` shows that without an overlap
  it is. `VisitsCurrent` says the same of the requests to paths and of the response cache.
- If besides no update was killed half way and no plan healed after the fact, for a request
  during which no graph was changed and graphs with different names:
  `ServerCheckedRunLacksNothing` (`[]CheckedRunLacksNothing`), from `ChecksInv`
  (`ServerChecks`). While no change is in progress no row changes (`RowsKept`; a heal then
  saves what is there). The check has a set of visited graphs that is closed under calls but for
  the names still to visit (`Walked`); when there are none left it is closed, and every executor
  is in it (`Checked`). A nested executor has more scopes than the root and so lacks no more
  (`ScopesLackLess`).

`PausedProofs.tla`, for every sequence of plans, every range of values, every node budget and every
place and number of pauses: `PausedTyping` (`[]PausedTypeOK`), `PauseIsTransparent`
(`SpecPaused => PauseTransparent`), from `PausedInv` (`PausedInvariant`). The model has no step
for a thread that comes to a PARALLEL of its own, so these are about runs without one.

- `PausedTypeOK` is not inductive. That the cursor of a loop is in its body, and so that a
  pause there has something to go on with, takes that the bound of the loop does not
  change under it: a checkpoint does not hold the bound, `resume` reads it from the outputs
  again (`InItsLoop`). The body may write outputs, but never that of a node which
  leads to the LOOP, for then the plan had a cycle (`BoundStays`). That a thread's cursor is in
  its group takes that nothing joins before all have ended (`Threads`).
- A checkpoint restores to the very runner it was made of (`RestoredIsTheRunner`, kept in
  `SavedInv`): every field of a runner is in it or is computed from the plan. It takes that a
  pause finds the main pass alone, before a node or in a turn that has begun, never before the
  first turn (`BodyKeepsTurn`), when the variable has no value yet.
- The refinement then maps a pause to the runner of its checkpoint, which is the runner
  (`RunnersAreRuns`); every step of the run is a step of `Uninterrupted` (`SameSteps`, `SameNext`),
  and `Resume` is none. It takes that to set the loop's variable again changes nothing (`TargetSet`),
  so the theorem has a hypothesis, that no node in a loop's body writes the variable of its loop
  (`BodiesKeepTheirVariable`). It is no convenience: without it the theorem is false (section 4).

Assumed of a plan (`PlansAssumption`) is only that it is a graph: its nodes are a list, with
branches that are numbers or None, and its edges a list between them. Everything else that these
proofs need of the order, the bodies and the groups (`PlanFacts`) is proved of what the VM computes:

- `RefusedForACycle`: `topological_order` refuses a plan if and only if it has a cycle. After
  every turn of the algorithm the degree of a node is the number of its edges from nodes that
  are not done, and a node is on the stack when it is not done and has none (`KahnInv`); a turn keeps that
  with any number of edges between the same two nodes (`PopInv`). When the stack is empty,
  each node that is left is entered from one that is left, and the order is whole
  exactly if there is no such set (`WholeOrder`, `NoCircle`).
- `PlansAreOrdered` (`[]PlanInOrder`): the order has each node once, no edge leads back in it or
  in a list that is cut out of it (`InOrderKeepsOrder`), and no body leads back to its
  LOOP, for else the loop were on a cycle (`BodyLeadsOn`, `PlansArePrepared`).

`TopologicalOrder`, `Reachable` and `InOrder` are recursive functions, which takes induction. The
induction theorems of the library have an operator as a parameter, so it is done on sets, by a least
counterexample (`Least`, `Induction`), and `Recursion` gives that such a function exists and what it
is at each number; `PickedUnfolds`, `VisitedUnfolds` and `KahnUnfolds` are its instances.

`Conversation.tla`, for every compiler, every LLM and every number of attempts: `PromptRight`
(`PromptTellsWhy`) and `EndsAsItTells` (who is out of attempts gets the report on the last answer,
and what runs is an answer that compiled), from `ConversationInv` (`Conversing`): between two
attempts `last_error` is the report on the answer that was just refused, whichever exit of the loop's
body refused it.

Two properties were weaker than what had been stated: on small instances with all kinds of
requests TLC showed that `RefreshNeverFails` needs that no heal saved a plan late, and
`CheckedRunLacksNothing` that no two updates overlapped (section 4).

Only model-checked: everything about liveness and fairness and all that needs ENABLED, which
are out of the prover's reach (`EveryCallReturns`, `FailFast`, `Reconnects`, `PausedCompletes`,
`ChangesServed`, `EveryRunEnds`); `FollowsSource`, which compares the VM with the recursive
`SourceRun`; `AcceptedIsTranslated`, `ChecksAgree`, `ViewLeadsWherePlanDoes` and `MeansWhatItSays` of
`FrontEnd`. Programs and expressions are trees, and what `Transform`, `Sanitizer`, `Validator`,
`PlanFormat`, `PlanView`, `Expressions` and `SourceRun` compute of them are RECURSIVE operators, which
no module with a proof can use; these are compared with their reference definitions by TLC only.

## 6. Not modelled

Built-in tools (independent I/O), insight (reports over stored rows), the protocol's message types,
the daemon's gateway in `tinypipe-tools/src/daemon.rs` (one blocking call, no state), token checks, JSON,
listings, profiles, printing. Inside the modelled components: source positions and wording of errors,
`type_check` (it only logs), the text of prompts, templates and `.env` files, time stamps, `last_event`,
graph lineage. Of a schema's drift, the edge mappings and the defaults of inputs the VM has code, but no
plan that the compiler makes reaches it. A PARALLEL in a branch of another one and merge strategies
other than the default are left out. Floats, `$` names and single quotes are left out of
`Expressions`. The `simple` mark that `Transform` gives a CALC is the number of variables it reads, which for
an expression is an approximation; only the picture looks at it.

## 7. Plan

The safety properties of the runs are proved but for those that compare a result with a
RECURSIVE definition. What could come next: the round trip of `PlanFormat` and the picture of
`PlanView` over recursive functions, as the order of the VM is now, so that they can be
proved; lemmas about what `JoinedTrace` and `MergeBranches` make of the threads, whatever order they
ended in; a rollback past the version before the current one in `StoreShared`.
