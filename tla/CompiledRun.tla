----------------------------- MODULE CompiledRun -----------------------------
(***************************************************************************)
(* A run of a plan on the VM, from its first node to its last one without  *)
(* a pause: CompiledExecutor of tinypipe-vm/src/compiled_executor.rs.      *)
(*                                                                         *)
(* A runner is what `run_node` works on: the main pass has one, and each   *)
(* thread of a PARALLEL has one of its own, a copy.  A value is the set of *)
(* what it was computed from: the inputs, answers of tools, values of loop *)
(* variables, and statements whose expressions made it.  An output is a    *)
(* value and, for what the VM tests, a number: the decision of a DECIDE,   *)
(* the length of a range, whether a tool failed.                           *)
(***************************************************************************)
EXTENDS Integers, FiniteSets, Sequences, Functions

CONSTANTS
    Plans,       \* the plans a run may be of, a sequence: nodes, edges, params, program
    MaxBound,    \* a range has at most this many values
    NodeBudget,  \* max_node_execution_count
    None

VARIABLES
    plan,    \* the plan, with what is computed from it before it runs
    runs,    \* the runner of the main pass, at None, and those of the threads of
             \* the PARALLEL that is running, each at the id of its branch
    status   \* running, completed or failed

vars == <<plan, runs, status>>

Unset == {}            \* no value
Given == {<<0, 0>>}    \* the value of an input

NoVars       == [v \in {} |-> Unset]
PutAll(f, S, v) == [x \in DOMAIN f \cup S |-> IF x \in S THEN v ELSE f[x]]
Put(f, k, v) == PutAll(f, {k}, v)
Largest(S)   == CHOOSE x \in S : \A y \in S : y <= x
Smallest(S)  == CHOOSE x \in S : \A y \in S : x <= y

-----------------------------------------------------------------------------
(* The plan. *)

\* Nodes without incoming edges.
Roots(p) == {n \in DOMAIN p.nodes : \A i \in DOMAIN p.edges : p.edges[i].to # n}

OutEdges(p, n)   == {i \in DOMAIN p.edges : p.edges[i].from = n}
Successors(p, n) == {p.edges[i].to : i \in OutEdges(p, n)}

\* collect_reachable_indices
Visited(p, S) ==
    LET grow[k \in 0..Len(p.nodes)] ==
            IF k = 0 THEN S
            ELSE UNION {{n} \cup Successors(p, n) : n \in grow[k - 1]}
    IN  grow

Reachable(p, S) == Visited(p, S)[Len(p.nodes)]

\* identify_loop_bodies: what a LOOP's DATA edges reach and its CONTROL edges
\* do not.
Entries(p, l, kind) ==
    {p.edges[i].to : i \in {j \in OutEdges(p, l) : /\ p.edges[j].kind = kind
                                                  /\ p.edges[j].when = "always"}}

LoopBody(p, l) == Reachable(p, Entries(p, l, "data")) \ Reachable(p, Entries(p, l, "control"))

\* The elements of a sequence that are in a set, in their order.
Picked(order, S) ==
    LET picked[k \in 0..Len(order)] ==
            IF k = 0 THEN <<>>
            ELSE IF order[k] \in S THEN Append(picked[k - 1], order[k])
                 ELSE picked[k - 1]
    IN  picked

InOrder(order, S) == Picked(order, S)[Len(order)]

\* topological_order: Kahn's algorithm with a stack of ready nodes.  The degree of
\* a node is the number of edges into it that are not followed yet.
Start(p) ==
    [ready  |-> InOrder([n \in DOMAIN p.nodes |-> n], Roots(p)),
     degree |-> [n \in DOMAIN p.nodes |-> Cardinality({i \in DOMAIN p.edges : p.edges[i].to = n})],
     done   |-> <<>>]

EdgesOf(p, f, t) == {i \in DOMAIN p.edges : p.edges[i].from = f /\ p.edges[i].to = t}

\* Mutant: one edge is enough to make a node ready.
FreeingAny(p, n, degree) == OutEdges(p, n)

\* The last edge from n to each node that it leaves without edges to follow.
Freeing(p, n, degree) ==
    {i \in DOMAIN p.edges :
        /\ p.edges[i].from = n
        /\ degree[p.edges[i].to] = 0
        /\ \A j \in EdgesOf(p, n, p.edges[i].to) : j <= i}

\* The node on top of the stack is the next one of the order.
Pop(p, s) ==
    LET n      == s.ready[Len(s.ready)]
        degree == [t \in DOMAIN p.nodes |-> s.degree[t] - Cardinality(EdgesOf(p, n, t))]
        freed  == InOrder([i \in DOMAIN p.edges |-> i], Freeing(p, n, degree))
    IN  [ready  |-> SubSeq(s.ready, 1, Len(s.ready) - 1)
                        \o [i \in DOMAIN freed |-> p.edges[freed[i]].to],
         degree |-> degree,
         done   |-> Append(s.done, n)]

Kahn(p) ==
    LET kahn[k \in 0..Len(p.nodes)] ==
            IF k = 0 THEN Start(p)
            ELSE LET s == kahn[k - 1]
                 IN  IF s.ready = <<>> THEN s ELSE Pop(p, s)
    IN  kahn

TopologicalOrder(p) == Kahn(p)[Len(p.nodes)].done

\* What a PARALLEL leads to.
Region(p, n) == Reachable(p, Successors(p, n))

\* What execute_with and resume compute from the i-th plan, p, before they run it,
\* and the groups of each PARALLEL: its region by branch.
Prepared(i, p) ==
    LET order   == TopologicalOrder(p)
        ops(o)  == {n \in DOMAIN p.nodes : p.nodes[n].op = o}
        fork(n) == Region(p, n)
    IN  [id |-> i, nodes |-> p.nodes, edges |-> p.edges, order |-> order,
         bodies |-> [l \in ops("Loop") |-> InOrder(order, LoopBody(p, l))],
         groups |-> [n \in ops("Parallel") |->
                        [b \in {p.nodes[m].branch : m \in fork(n)} \ {None} |->
                            InOrder(order, {m \in fork(n) : p.nodes[m].branch = b})]]]

\* A plan with a cycle is refused.
PreparedPlans == {p \in {Prepared(i, Plans[i]) : i \in DOMAIN Plans} : Len(p.order) = Len(p.nodes)}

ASSUME BoundsAssumption == MaxBound \in Nat

\* A record of a LOOP, of a runner or of a checkpoint, is not None.
ASSUME NoneAssumption ==
    /\ None \notin [node : Nat, iteration : Int, at : Nat, max : Nat]
    /\ None \notin [node : Nat, iteration : Int, at : Nat]

\* A plan is a graph: a list of nodes, some of them on a branch, and a list of edges
\* between nodes of the list.
Graph(p) ==
    /\ p.nodes \in Seq(Range(p.nodes))
    /\ p.edges \in Seq(Range(p.edges))
    /\ \A n \in DOMAIN p.nodes : p.nodes[n].branch \in Nat \cup {None}
    /\ \A i \in DOMAIN p.edges : {p.edges[i].from, p.edges[i].to} \subseteq DOMAIN p.nodes

\* The back end of the compiler numbers nodes and edges.
ASSUME PlansAssumption ==
    /\ DOMAIN Plans \subseteq Nat
    /\ \A i \in DOMAIN Plans : Graph(Plans[i])

Nodes       == DOMAIN plan.nodes
Node(n)     == plan.nodes[n]
Edge(i)     == plan.edges[i]
Links       == {Edge(i) : i \in DOMAIN plan.edges}
DataInto(n) == {e \in Links : e.to = n /\ e.kind = "data"}
OutOf(n)    == {e \in Links : e.from = n}
Controls(f, t) == {i \in DOMAIN plan.edges :
                      /\ Edge(i).kind = "control" /\ Edge(i).from \in f /\ Edge(i).to = t}

Body(l)   == plan.bodies[l]
InBody(l) == Range(Body(l))
InLoops   == UNION {InBody(l) : l \in DOMAIN plan.bodies}

-----------------------------------------------------------------------------
(* Variables: Context.  A branch of a PARALLEL writes to a scope of its own   *)
(* and reads what it did not write from the snapshot taken at the PARALLEL.   *)

Get(c, b, v) ==
    IF b # None /\ b \in DOMAIN c.scopes /\ v \in DOMAIN c.scopes[b] THEN c.scopes[b][v]
    ELSE IF c.parent # None /\ v \in DOMAIN c.parent THEN c.parent[v]
    ELSE IF v \in DOMAIN c.vars THEN c.vars[v]
    ELSE Unset

\* One value for a set of variables.
Set(c, b, S, value) ==
    IF b = None THEN [c EXCEPT !.vars = PutAll(c.vars, S, value)]
    ELSE [c EXCEPT !.scopes = Put(c.scopes, b,
              PutAll(IF b \in DOMAIN c.scopes THEN c.scopes[b] ELSE NoVars, S, value))]

EnterParallel(c) == [c EXCEPT !.parent = c.vars, !.scopes = NoVars]

\* merge_branches: the last writer is the branch with the largest id.
MergeBranches(c) ==
    LET writers(v) == {b \in DOMAIN c.scopes : v \in DOMAIN c.scopes[b]}
        written    == UNION {DOMAIN c.scopes[b] : b \in DOMAIN c.scopes}
    IN  [vars   |-> [v \in DOMAIN c.vars \cup written |->
                        IF v \in written THEN c.scopes[Largest(writers(v))][v] ELSE c.vars[v]],
         parent |-> None,
         scopes |-> NoVars]

-----------------------------------------------------------------------------
(* Whether a runner runs a node: the checks at the start of run_node. *)

Produced(r, n) == n \in DOMAIN r.outputs

\* The decision a gate waits for is the other one.
Opposed(r, e) == /\ e.when # "always"
                 /\ Node(e.from).op = "Decide"
                 /\ Produced(r, e.from)
                 /\ r.outputs[e.from].got # (IF e.when = "true" THEN 1 ELSE 0)

\* branch_mismatch
BranchMismatch(r, n) ==
    /\ \E e \in DataInto(n) : /\ e.when # "always" /\ Node(e.from).op = "Decide"
                              /\ Opposed(r, e) \/ ~Produced(r, e.from)
    /\ Node(n).op = "Merge" =>
           ~\E e \in DataInto(n) : e.when = "always" /\ Produced(r, e.from)

\* Mutant: a value is waited for that the decision left uncomputed.
NeverDead(r, n) == FALSE

IsBranchDead(r, n) == \E e \in DataInto(n) : Opposed(r, e)

DataPredMissing(r, n) ==
    \E e \in DataInto(n) : /\ ~Produced(r, e.from)
                           /\ Node(e.from).op # "Input"
                           /\ e.from \notin InLoops
                           /\ ~IsBranchDead(r, e.from)

Ready(r, n) == /\ n \notin r.skipped
               /\ n \in r.enabled
               /\ ~BranchMismatch(r, n)
               /\ r.satisfied[n] >= Cardinality(Controls(Nodes, n))
               /\ ~DataPredMissing(r, n)

-----------------------------------------------------------------------------
(* What a node does. *)

Output(saw, got) == [saw |-> saw, got |-> got]

Sees(r, b, n) == UNION {Get(r.ctx, b, v) : v \in Node(n).reads}

Yields(r, n, saw, got) == [r EXCEPT !.outputs = Put(@, n, Output(saw, got))]

\* An effect that the program makes.
Effect(r, n, saw, got) ==
    [r EXCEPT !.trace = Append(@, [site |-> Node(n).site, saw |-> saw, got |-> got])]

\* The value that a node gives: what a CALC computes from, or the answer of a
\* tool.
ValueOf(r, b, n) ==
    IF Node(n).op # "Call" THEN Sees(r, b, n) \cup {<<m, 0>> : m \in Node(n).marks}
    ELSE {<<Node(n).site, 1 + Cardinality({i \in DOMAIN r.trace :
                                              r.trace[i].site = Node(n).site})>>}

\* The numbers a node's value can be: a condition, a length, a tool that failed.
\* An expression in which another one stands in parentheses does not evaluate;
\* a condition is then false.
Values(n) ==
    CASE Node(n).op = "Decide"                    -> IF Node(n).fused THEN {0} ELSE {0, 1}
      [] Node(n).fused                            -> {}
      [] Node(n).op = "Calc" /\ Node(n).range     -> 0..MaxBound
      [] Node(n).op = "Call" /\ Node(n).tolerant  -> {0, 1}
      [] OTHER                                    -> {0}

\* The variables of a subgraph are variables of its caller when it is done.
Leaked(c, b, n) == Set(c, b, Node(n).leaks, {<<Node(n).site, 0>>})

Computed(r, b, n, got) ==
    LET value == ValueOf(r, b, n)
        moved == IF Node(n).site = 0 THEN r ELSE Effect(r, n, Sees(r, b, n), got)
        told  == IF Node(n).leaks = {} THEN moved ELSE [moved EXCEPT !.ctx = Leaked(@, b, n)]
        wrote == IF Node(n).out = None THEN told
                 ELSE [told EXCEPT !.ctx = Set(@, b, {Node(n).out}, value)]
    IN  Yields(wrote, n, value, got)

\* An INPUT has no output when there is no such variable.
ReadInput(r, b, n) == IF Sees(r, b, n) = Unset THEN r ELSE Computed(r, b, n, 0)

\* What a return gives: the output of its last predecessor, of an
\* unconditional edge if there is one.
Returned(r, n, otherwise) ==
    LET into == {i \in DOMAIN plan.edges :
                    /\ Edge(i).to = n /\ Edge(i).kind = "data" /\ Produced(r, Edge(i).from)}
        sure == {i \in into : Edge(i).when = "always"}
    IN  IF sure # {} THEN r.outputs[Edge(Largest(sure)).from].saw
        ELSE IF into # {} THEN r.outputs[Edge(Largest(into)).from].saw
        ELSE otherwise

\* The runners there are after the runner r of branch b ran a node that the
\* main pass and loops run alike.
Ran(r, b, n) ==
    IF Node(n).op = "Input" THEN {ReadInput(r, b, n)}
    ELSE {Computed(r, b, n, got) : got \in Values(n)}

\* propagate_edges
Propagated(r, n) ==
    LET opened == {e \in OutOf(n) : e.kind = "data" => ~Opposed(r, e)}
    IN  [r EXCEPT !.enabled = @ \cup {e.to : e \in opened},
                  !.satisfied = [t \in DOMAIN @ |-> @[t] + Cardinality(Controls({n}, t))]]

-----------------------------------------------------------------------------
(* Runners. *)

Runner(todo, ctx, enabled) ==
    [todo |-> todo, at |-> 1, loop |-> None, ctx |-> ctx, outputs |-> NoVars,
     enabled |-> enabled, satisfied |-> [n \in Nodes |-> 0], skipped |-> {},
     count |-> 0, result |-> None, trace |-> <<>>, failed |-> FALSE]

Init ==
    /\ plan \in PreparedPlans
    /\ runs = [w \in {None} |->
                  Runner(plan.order,
                         [vars |-> [v \in Plans[plan.id].params |-> Given], parent |-> None,
                          scopes |-> NoVars],
                         Roots(plan))]
    /\ status = "running"

\* The main pass waits for the threads it forked.
Works(w) == /\ status = "running"
            /\ w \in DOMAIN runs
            /\ w = None => DOMAIN runs = {None}
            /\ ~runs[w].failed

\* Mutant: a thread that failed is waited for.
EndedInOrder(r) == r.loop = None /\ r.at > Len(r.todo)

Ended(r) == r.failed \/ (r.loop = None /\ r.at > Len(r.todo))

Here(r)   == r.todo[r.at]
AtNode(w) == Works(w) /\ runs[w].loop = None /\ runs[w].at <= Len(runs[w].todo)

Becomes(w, r) == runs' = [runs EXCEPT ![w] = r] /\ UNCHANGED <<plan, status>>

Onward(r) == [r EXCEPT !.at = @ + 1]
Spent(r)  == [r EXCEPT !.count = @ + 1]

\* A node that is not ready is passed over for good.
Pass(w) ==
    /\ AtNode(w)
    /\ ~Ready(runs[w], Here(runs[w]))
    /\ Becomes(w, Onward(runs[w]))

Starts(w, op) == /\ AtNode(w)
                 /\ Ready(runs[w], Here(runs[w]))
                 /\ Node(Here(runs[w])).op \in op
                 /\ runs[w].count < NodeBudget

Execute(w) ==
    /\ Starts(w, {"Input", "Calc", "Call", "Decide", "Wait", "Break", "Continue"})
    /\ LET r == runs[w]
           n == Here(r)
       IN  \E x \in Ran(Spent(r), Node(n).branch, n) : Becomes(w, Onward(Propagated(x, n)))

Answered(r, n) ==
    LET saw == Returned(r, n, UNION {Get(r.ctx, Node(n).branch, v) : v \in DOMAIN r.ctx.vars})
    IN  Propagated([Yields(Effect(r, n, saw, 0), n, saw, 0) EXCEPT !.result = saw], n)

Act(w) ==
    /\ Starts(w, {"Return"})
    /\ Becomes(w, Onward(Answered(Spent(runs[w]), Here(runs[w]))))

\* A case that matches is enabled, and an edge without a condition or the default
\* if no case before it matched.  The rest of the edges is not looked at: a SWITCH
\* satisfies no CONTROL edge.
Cases(n) == {e.when : e \in OutOf(n)} \ {"always"}

Switched(r, n, c) ==
    LET out  == {i \in DOMAIN plan.edges : Edge(i).from = n}
        hit  == {i \in out : Edge(i).when = c}
        free == {i \in out : Edge(i).when \in {"always", "default"} /\ \A k \in hit : i < k}
        got  == IF c = None THEN 0 ELSE Cardinality({i \in out : \E j \in hit : i <= j})
        saw  == Sees(r, Node(n).branch, n)
    IN  [Effect(Yields(r, n, saw, got), n, saw, got) EXCEPT
            !.enabled = @ \cup {Edge(i).to : i \in hit \cup free}]

Switch(w) ==
    /\ Starts(w, {"Switch"})
    /\ \E c \in Cases(Here(runs[w])) \cup {None} :
           Becomes(w, Onward(Switched(Spent(runs[w]), Here(runs[w]), c)))

Merged(r, n) ==
    LET ctx == MergeBranches(r.ctx)
    IN  Propagated(Yields([r EXCEPT !.ctx = ctx], n,
                          UNION {ctx.vars[v] : v \in DOMAIN ctx.vars}, 0), n)

Merge(w) ==
    /\ Starts(w, {"Merge"})
    /\ Becomes(w, Onward(Merged(Spent(runs[w]), Here(runs[w]))))

-----------------------------------------------------------------------------
(* LOOP: run_loop.  A cursor past the end of the body is between two turns;   *)
(* a break moves it past the last turn.                                       *)

\* The range: the output of the first predecessor that may have an integer, which
\* is no INPUT: a DECIDE gives a Boolean, a LOOP or a MERGE no number at all.  A
\* LOOP without one takes max_iterations; the compiler makes none.
LoopRange(r, l) ==
    LET into == {i \in DOMAIN plan.edges :
                    /\ Edge(i).to = l /\ Edge(i).kind = "data" /\ Produced(r, Edge(i).from)
                    /\ Node(Edge(i).from).op \in {"Calc", "Call"}}
    IN  IF into = {} THEN Output(Unset, MaxBound)
        ELSE r.outputs[Edge(Smallest(into)).from]

\* A LOOP without DATA edges makes no turn.
Bound(r, l) == IF \E e \in OutOf(l) : e.kind = "data" THEN LoopRange(r, l).got ELSE 0

Looping(r, l, iteration, at) ==
    [r EXCEPT !.skipped = @ \cup InBody(l),
              !.loop = [node |-> l, iteration |-> iteration, at |-> at, max |-> Bound(r, l)]]

Enter(w) ==
    /\ Starts(w, {"Loop"})
    /\ LET l     == Here(runs[w])
           range == LoopRange(runs[w], l)
       IN  Becomes(w, Looping(Effect(Spent(runs[w]), l, range.saw, range.got),
                              l, -1, Len(Body(l)) + 1))

InLoop(w)    == Works(w) /\ runs[w].loop # None
TurnEnded(r) == r.loop.at > Len(Body(r.loop.node))

SetTarget(r, l, i) ==
    [r EXCEPT !.ctx = Set(@, Node(l).branch, {Node(l).out}, {<<Node(l).site, i>>})]

\* The next value of the loop's variable.
Turned(r) ==
    LET i == r.loop.iteration + 1
    IN  [SetTarget(r, r.loop.node, i) EXCEPT !.loop.iteration = i, !.loop.at = 1]

Turn(w) ==
    /\ InLoop(w)
    /\ TurnEnded(runs[w])
    /\ runs[w].loop.iteration + 1 < runs[w].loop.max
    /\ Becomes(w, Turned(runs[w]))

AtBody(w) == InLoop(w) /\ ~TurnEnded(runs[w])
BodyNode(r) == Body(r.loop.node)[r.loop.at]

NextInBody(r) == [r EXCEPT !.loop.at = @ + 1]
EndTurn(r)    == [r EXCEPT !.loop.at = Len(Body(r.loop.node)) + 1]
EndLoop(r)    == [EndTurn(r) EXCEPT !.loop.iteration = r.loop.max]

PassInBody(w) ==
    /\ AtBody(w)
    /\ BranchMismatch(runs[w], BodyNode(runs[w]))
    /\ Becomes(w, NextInBody(runs[w]))

StartsInBody(w, op) ==
    /\ AtBody(w)
    /\ ~BranchMismatch(runs[w], BodyNode(runs[w]))
    /\ Node(BodyNode(runs[w])).op \in op
    /\ runs[w].count < NodeBudget

\* A tool that fails ends the run here, whatever its on_error says, and so does a
\* condition that does not evaluate.
ExecuteInBody(w) ==
    /\ StartsInBody(w, {"Input", "Calc", "Call", "Decide"})
    /\ LET r == Spent(runs[w])
           n == BodyNode(r)
       IN  \E x \in Ran(r, Node(r.loop.node).branch, n) :
               /\ Node(n).op = "Call" => x.outputs[n].got = 0
               /\ Node(n).op = "Decide" => ~Node(n).fused
               /\ Becomes(w, NextInBody(x))

\* A return only leaves the loop: it does not set the result of the run.
Left(r, n) ==
    LET saw == Returned(r, n, Unset)
    IN  EndLoop(IF Node(n).op = "Break" THEN r ELSE Yields(Effect(r, n, saw, 0), n, saw, 0))

Leave(w) ==
    /\ StartsInBody(w, {"Return", "Break"})
    /\ Becomes(w, Left(Spent(runs[w]), BodyNode(runs[w])))

Continue(w) ==
    /\ StartsInBody(w, {"Continue"})
    /\ Becomes(w, EndTurn(Spent(runs[w])))

\* The other opcodes do nothing in the body of a loop.
Ignore(w) ==
    /\ StartsInBody(w, {"Merge", "Loop", "Parallel", "Switch", "Wait", "Error"})
    /\ LET r == Spent(runs[w])
       IN  Becomes(w, NextInBody(Yields(r, BodyNode(r), Unset, 0)))

\* After the last turn: calcs of the body that only read are computed if no
\* turn did, and what follows the loop is enabled.  One that does not evaluate, as
\* a variable of it has no value, is left out.
Unread(r) == {n \in InBody(r.loop.node) :
                 /\ Node(n).op = "Calc" /\ Node(n).out = None
                 /\ ~Produced(r, n) /\ ~Node(n).fused
                 /\ \A v \in Node(n).reads : Get(r.ctx, Node(r.loop.node).branch, v) # Unset}

Finished(r, got) ==
    LET l     == r.loop.node
        fed   == {n \in Nodes \ r.skipped :
                     /\ DataInto(n) # {}
                     /\ \A e \in DataInto(n) : e.from \in InBody(l)}
        after == {e \in OutOf(l) : e.to \notin InBody(l)}
    IN  [r EXCEPT !.loop = None,
                  !.outputs = [n \in DOMAIN r.outputs \cup Unread(r) \cup {l} |->
                      IF n = l THEN Output(Unset, 0)
                      ELSE IF n \in Unread(r)
                           THEN Output(ValueOf(r, Node(l).branch, n), got[n])
                           ELSE r.outputs[n]],
                  !.enabled = @ \cup fed \cup {e.to : e \in after},
                  !.satisfied = Propagated(r, l).satisfied]

Finish(w) ==
    /\ InLoop(w)
    /\ TurnEnded(runs[w])
    /\ runs[w].loop.iteration + 1 >= runs[w].loop.max
    /\ \E got \in [Unread(runs[w]) -> 0..MaxBound] :
           /\ \A n \in Unread(runs[w]) : got[n] \in Values(n)
           /\ Becomes(w, Onward(Finished(runs[w], got)))

-----------------------------------------------------------------------------
(* PARALLEL: a thread per branch, each with a copy of the state; the main     *)
(* pass joins them in the order of the branches.                              *)

Children(n) == {e.to : e \in OutOf(n)}
Group(n, b)   == plan.groups[n][b]
BranchesOf(n) == DOMAIN plan.groups[n]

\* The state of the main pass once PARALLEL enabled its children.
Forked(r, n) ==
    [Yields(r, n, Unset, 0) EXCEPT
        !.ctx     = EnterParallel(r.ctx),
        !.enabled = @ \cup Children(n),
        !.skipped = @ \cup UNION {Range(Group(n, b)) : b \in BranchesOf(n)}]

\* What a thread starts with.
Thread(r, n, mine) ==
    LET own == Range(mine)
    IN  [r EXCEPT !.todo = mine, !.at = 1, !.count = 0, !.result = None,
                  !.enabled = Children(n) \cap own, !.skipped = @ \ own]

Fork(w) ==
    /\ w = None
    /\ Starts(w, {"Parallel"})
    /\ LET n == Here(runs[w])
           r == Forked(Spent(runs[w]), n)
       IN  IF BranchesOf(n) = {} THEN Becomes(w, Onward(r))
           ELSE /\ runs' = [b \in {None} \cup BranchesOf(n) |->
                              IF b = None THEN r ELSE Thread(r, n, Group(n, b))]
                /\ UNCHANGED <<plan, status>>

\* The effects of the threads, in the order of their branches.
JoinedTrace(all) ==
    LET before  == all[None].trace
        threads == DOMAIN all \ {None}
        inTurn  == [k \in 1..Cardinality(threads) |->
                       CHOOSE b \in threads : Cardinality({x \in threads : x <= b}) = k]
        did[k \in 0..Cardinality(threads)] ==
            IF k = 0 THEN before
            ELSE LET t == all[inTurn[k]].trace
                 IN  did[k - 1] \o SubSeq(t, 1 + Len(before), Len(t))
    IN  did[Cardinality(threads)]

\* The results of the threads merged into the main pass: of two outputs or answers
\* the first one stays, of two counts of satisfied edges the last one.
Joined(all) ==
    LET main      == all[None]
        threads   == DOMAIN all \ {None}
        each      == UNION {{b} \X (1..all[b].count) : b \in threads}
        gave      == {b \in threads : all[b].result # None}
        made(n)   == {b \in threads : Produced(all[b], n)}
        raised(n) == {b \in threads : all[b].satisfied[n] > main.satisfied[n]}
        wrote     == {b \in threads : b \in DOMAIN all[b].ctx.scopes}
        ctx       == main.ctx
    IN  [main EXCEPT
            !.count     = main.count + Cardinality(each),
            !.trace     = JoinedTrace(all),
            !.outputs   = [n \in UNION {DOMAIN all[w].outputs : w \in DOMAIN all} |->
                              IF Produced(main, n) THEN main.outputs[n]
                              ELSE all[Smallest(made(n))].outputs[n]],
            !.enabled   = main.enabled \cup UNION {all[b].enabled : b \in threads},
            !.satisfied = [n \in Nodes |-> IF raised(n) = {} THEN main.satisfied[n]
                                           ELSE all[Largest(raised(n))].satisfied[n]],
            !.ctx       = [ctx EXCEPT !.scopes = [b \in DOMAIN ctx.scopes \cup wrote |->
                                IF b \in wrote THEN all[b].ctx.scopes[b] ELSE ctx.scopes[b]]],
            !.result    = IF main.result # None \/ gave = {} THEN main.result
                          ELSE all[Smallest(gave)].result]

Join ==
    /\ status = "running"
    /\ DOMAIN runs # {None}
    /\ None \in DOMAIN runs
    /\ \A b \in DOMAIN runs \ {None} : Ended(runs[b])
    /\ LET failed == \E b \in DOMAIN runs \ {None} : runs[b].failed
       IN  /\ runs' = [w \in {None} |->
                          IF failed THEN [runs[None] EXCEPT !.failed = TRUE]
                          ELSE Onward(Joined(runs))]
           /\ status' = IF failed THEN "failed" ELSE "running"
           /\ UNCHANGED plan

-----------------------------------------------------------------------------
(* The run. *)

\* A node that is about to run fails: the time, the memory or the number of
\* nodes is over its limit, an expression or a tool fails, or it is an ERROR.
Running(w) == \/ AtNode(w) /\ Ready(runs[w], Here(runs[w]))
              \/ AtBody(w) /\ ~BranchMismatch(runs[w], BodyNode(runs[w]))

Fail(w) ==
    /\ Running(w)
    /\ runs' = [runs EXCEPT ![w].count = @ + 1, ![w].failed = TRUE]
    /\ status' = IF w = None THEN "failed" ELSE status
    /\ UNCHANGED plan

Complete ==
    /\ Works(None)
    /\ Ended(runs[None])
    /\ status' = "completed"
    /\ UNCHANGED <<plan, runs>>

Step(w) == \/ Pass(w) \/ Execute(w) \/ Act(w) \/ Switch(w) \/ Merge(w)
           \/ Enter(w) \/ Turn(w) \/ PassInBody(w) \/ ExecuteInBody(w) \/ Leave(w)
           \/ Continue(w) \/ Ignore(w) \/ Finish(w)
           \/ Fork(w)
           \/ Fail(w)

Next == (\E w \in DOMAIN runs : Step(w)) \/ Join \/ Complete

\* Without the promise that it goes on.
Safe == Init /\ [][Next]_vars

Spec == Safe /\ WF_vars(Next)

-----------------------------------------------------------------------------

LoopOK(r) ==
    LET l == r.loop
    IN  \/ l = None
        \/ /\ l.node = Here(r) /\ Node(l.node).op = "Loop"
           /\ l.max \in Nat /\ l.iteration \in -1..l.max
           /\ l.at \in 1..Len(Body(l.node)) + 1
           /\ ~TurnEnded(r) => l.iteration \in 0..l.max - 1

RunnerOK(r) ==
    /\ r.at \in 1..Len(r.todo) + 1
    /\ LoopOK(r)
    /\ DOMAIN r.outputs \cup r.enabled \cup r.skipped \subseteq Nodes
    /\ r.satisfied \in [Nodes -> Nat]
    /\ r.count \in Nat
    /\ r.failed \in BOOLEAN

\* Cursors stay in the plan, in the body of the loop they are in and at their
\* LOOP, and there are threads only while the main pass stands at a PARALLEL
\* whose branches they are (compiled_executor.rs 830-1050, 1265-1330).
TypeOK ==
    /\ plan.id \in Nat
    /\ status \in {"running", "completed", "failed"}
    /\ None \in DOMAIN runs
    /\ \A w \in DOMAIN runs : RunnerOK(runs[w])
    /\ DOMAIN runs # {None} =>
           /\ Node(Here(runs[None])).op = "Parallel"
           /\ \A b \in DOMAIN runs \ {None} :
                  \A i \in DOMAIN runs[b].todo : Node(runs[b].todo[i]).branch = b

\* What the VM makes of a plan before it runs it: an order of all nodes, each of them
\* once and after those its edges come from, that the body of a loop and the nodes of
\* a branch keep; and no node of a body leads back to its LOOP
\* (compiled_executor.rs 1824-1913).
PlanInOrder ==
    LET lists == {plan.order} \cup {Body(l) : l \in DOMAIN plan.bodies}
                 \cup UNION {{plan.groups[n][b] : b \in DOMAIN plan.groups[n]} : n \in DOMAIN plan.groups}
    IN  /\ Range(plan.order) = Nodes /\ Len(plan.order) = Cardinality(Nodes)
        /\ \A e \in Links, o \in lists : \A i, j \in DOMAIN o :
               o[i] = e.from /\ o[j] = e.to => i < j
        /\ \A e \in Links : e.to \in DOMAIN plan.bodies => e.from \notin InBody(e.to)
===============================================================================
