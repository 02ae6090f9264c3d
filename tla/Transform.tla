------------------------------ MODULE Transform ------------------------------
(***************************************************************************)
(* From a graph's code to its plan: TransformEngine of                     *)
(* tinypipe-compiler/src/transform.rs.  A program is a sequence of         *)
(* statements; a plan has nodes, in the order in which they were pushed,   *)
(* and edges, in theirs (the VM's order of execution depends on both).     *)
(* The code has passed the sanitizer.                                      *)
(* An expression is the sequence of the variables it reads.  `site` names  *)
(* the statement an effect of a run belongs to (a call, a decision, a loop,*)
(* a return); `marks` the statements whose expressions a CALC computes.    *)
(***************************************************************************)
EXTENDS Integers, FiniteSets, Sequences, SequencesExt

CONSTANT None

Blank(op) == [op |-> op, reads |-> {}, marks |-> {}, out |-> None, site |-> 0,
              tool |-> None, leaks |-> {}, branch |-> None, range |-> FALSE, tolerant |-> FALSE,
              fused |-> FALSE, simple |-> FALSE, id |-> 0, group |-> None]

Data(f, t)    == [from |-> f, to |-> t, kind |-> "data", when |-> "always"]
Gate(f, t, w) == [from |-> f, to |-> t, kind |-> "data", when |-> w]
Control(f, t) == [from |-> f, to |-> t, kind |-> "control", when |-> "always"]

Empty == [nodes |-> <<>>, edges |-> <<>>, vars |-> [v \in {} |-> 0], branch |-> None,
          group |-> None, refused |-> FALSE, failed |-> FALSE]

\* f of a value, which is computed once.
With(v, f(_)) == CHOOSE r \in {f(x) : x \in {v}} : TRUE

Push(b, node) ==
    [b EXCEPT !.nodes = Append(@, [node EXCEPT !.branch = b.branch, !.group = b.group,
                                               !.id = Len(b.nodes) + 1])]
Newest(b)     == Len(b.nodes)
Link(b, es)   == [b EXCEPT !.edges = @ \o es]

\* var_map: the node that wrote a variable last.
Bind(b, v, n) ==
    [b EXCEPT !.vars = [x \in DOMAIN b.vars \cup {v} |-> IF x = v THEN n ELSE b.vars[x]]]

\* The newest node wrote a variable.
Bound(b, v) == Bind(b, v, Newest(b))

\* Edges to the newest node from the writers of the variables it reads.
Wire(b, reads) ==
    LET known == SelectSeq(reads, LAMBDA v : v \in DOMAIN b.vars)
    IN  Link(b, [i \in DOMAIN known |-> Data(b.vars[known[i]], Newest(b))])

\* A CALC for an expression, which is `simple` if it is a name or a literal.
Calc(b, node, reads) ==
    Wire(Push(b, [node EXCEPT !.reads = ToSet(reads), !.simple = Len(reads) < 2]), reads)

\* An INPUT.
Input(b, v) == Bound(Push(b, [Blank("Input") EXCEPT !.reads = {v}]), v)

\* A node that is fed by the newest one.
Chain(b, node) == Link(Push(b, node), <<Data(Newest(b), Newest(b) + 1)>>)

\* The newest node is an argument of the node n.
Feeds(b, n) == Link(b, <<Data(Newest(b), n)>>)

Argument(b, reads, n) == Feeds(Calc(b, Blank("Calc"), reads), n)

\* A statement's first and last node.
One(b, n) == [b |-> b, first |-> n, last |-> n]

OneNode(b) == One(b, Newest(b))

\* The id of no node.
Missing == 0

\* pass
Nothing(b) == One(b, Missing)

\* A statement that is not translated: an error, which the next statement finds.
Refused(b) == One([b EXCEPT !.refused = TRUE], Missing)

\* x = expr
Assign(b, s) ==
    OneNode(Bound(Calc(b, [Blank("Calc") EXCEPT !.out = s.var, !.marks = {s.site}], s.reads),
                  s.var))

\* x: type = expr, whose node has no output, and x: type, which is an INPUT.
Annotate(b, s) ==
    IF s.valued
    THEN OneNode(Bound(Calc(b, [Blank("Calc") EXCEPT !.marks = {s.site}], s.reads), s.var))
    ELSE OneNode(Bound(Push(b, [Blank("Input") EXCEPT !.reads = {s.var}, !.marks = {s.site}]),
                       s.var))

\* [x =] len(variable, ...), or another builtin: a CALC per argument, then the
\* CALC of the whole.
Output(b, var, n) == IF var = None THEN b ELSE Bind(b, var, n)

Builtin(b, s) ==
    LET args == FoldLeft(LAMBDA x, v : Calc(x, Blank("Calc"), <<v>>), b, s.reads)
        calc == Push(args, [Blank("Calc") EXCEPT !.out = s.var, !.marks = {s.site},
                                                 !.reads = ToSet(s.reads)])
        fed  == Link(calc, [i \in DOMAIN s.reads |-> Data(Newest(b) + i, Newest(calc))])
    IN  One(Output(fed, s.var, Newest(calc)), Newest(calc))

\* x += expr: an INPUT for x if nothing wrote it, the right side, then the sum.
Known(b, v) == IF v \in DOMAIN b.vars THEN b ELSE Input(b, v)

Sum(right, s) ==
    LET n == Newest(right) + 1
    IN  Link(Push(right, [Blank("Calc") EXCEPT !.out = s.var, !.marks = {s.site},
                                               !.reads = ToSet(s.reads) \cup {s.var}]),
             <<Data(right.vars[s.var], n), Data(n - 1, n)>>)

Augment(b, s) ==
    OneNode(Bound(Sum(Calc(Known(b, s.var), Blank("Calc"), s.reads), s), s.var))

\* [x =] call("tool", key=variable, ...): the CALL, then a CALC for the name of
\* the tool and one per argument.  `leaks`: the variables of a subgraph, its
\* arguments among them.  A statement with an expression has it as its one argument.
Arguments(call, s) ==
    LET args == IF "expr" \in DOMAIN s THEN <<s.reads>> ELSE [i \in DOMAIN s.reads |-> <<s.reads[i]>>]
    IN  FoldLeft(LAMBDA b, reads : Argument(b, reads, Newest(call)), call, <<<<>>>> \o args)

WithArguments(call, s) ==
    One(Output(Arguments(call, s), s.var, Newest(call)), Newest(call))

Call(b, s) ==
    WithArguments(Push(b, [Blank("Call") EXCEPT !.out = s.var, !.site = s.site, !.tool = s.tool,
                                                !.reads = ToSet(s.reads), !.leaks = s.leaks,
                                                !.tolerant = s.tolerant]), s)

\* [x =] f(variable, ...) of another function, and sleep(variable): the node, then
\* a CALC per argument.
Fed(b, node, s) ==
    LET whole == Push(b, node)
        n     == Newest(whole)
    IN  One(Output(FoldLeft(LAMBDA x, v : Argument(x, <<v>>, n), whole, s.reads), s.var, n), n)

Apply(b, s) == Fed(b, [Blank("Calc") EXCEPT !.out = s.var, !.marks = {s.site},
                                            !.reads = ToSet(s.reads)], s)
Sleep(b, s) == Fed(b, [Blank("Wait") EXCEPT !.marks = {s.site}], s)

\* return expr: the value's CALC is the first node, the ACT the last one.
Return(b, s) ==
    LET ret == [Blank("Return") EXCEPT !.site = s.site]
        act == Chain(Calc(b, Blank("Calc"), s.reads), ret)
    IN  IF s.valued THEN [b |-> act, first |-> Newest(act) - 1, last |-> Newest(act)]
        ELSE OneNode(Push(b, ret))

\* break, continue and raise are markers.
Marker(b, op, s) == OneNode(Push(b, [Blank(op) EXCEPT !.marks = {s.site}]))

\* assert expr: a DECIDE that gates nothing.
Asserted(b, s) ==
    OneNode(Chain(Calc(b, Blank("Calc"), s.reads),
                  [Blank("Decide") EXCEPT !.reads = ToSet(s.reads), !.site = s.site]))

\* A statement after which nothing of its block runs: return, raise, or an if
\* whose branches consist of such statements.
RECURSIVE Terminal(_)
Terminal(s) ==
    \/ s.do \in {"return", "raise"}
    \/ /\ s.do = "if"
       /\ s.else # <<>>
       /\ \A t \in ToSet(s.then) \cup ToSet(s.else) : Terminal(t)

AllTerminal(body) == body # <<>> /\ \A i \in DOMAIN body : Terminal(body[i])

\* What joins a statement to the one before it: CONTROL edges in the body of
\* the function and of loops, DATA edges in a GROUP, nothing in a branch.
Joint(join, prev, from, to) ==
    CASE join = "control" -> IF Terminal(prev) THEN <<>> ELSE <<Control(from, to)>>
      [] join = "data"    -> <<Data(from, to)>>
      [] OTHER            -> <<>>

\* DECIDE gates the last node of a branch, and the first one if it is another.
Gates(decide, block, w) ==
    <<Gate(decide, block.last, w)>>
    \o IF block.first = block.last THEN <<>> ELSE <<Gate(decide, block.first, w)>>

\* The statements of a block, one after the other.
RECURSIVE Stmt(_, _)
Block(b, body, join) ==
    LET joined(x, i, s) ==
            [b     |-> IF i = 1 THEN s.b
                       ELSE Link(s.b, Joint(join, body[i - 1], x.last, s.first)),
             first |-> IF i = 1 THEN s.first ELSE x.first,
             last  |-> s.last]
    IN  FoldLeft(LAMBDA block, i :
                     With(block, LAMBDA x : With(Stmt(x.b, body[i]), LAMBDA s : joined(x, i, s))),
                 One(b, Missing), [i \in DOMAIN body |-> i])

Gated(block, decide, w) == [block EXCEPT !.b = Link(@, Gates(decide, block, w))]

Branch(b, decide, body, w) ==
    IF body = <<>> THEN One(b, 0) ELSE Gated(Block(b, body, "none"), decide, w)

\* The MERGE: an edge from each branch that gets to it, or from the DECIDE for
\* an else that is not there.  Variables the branches brought in are the
\* MERGE's from here on, and those they wrote again are the last writer's.
Rejoined(b, s, decide, then, else) ==
    LET merged == Push(else.b, Blank("Merge"))
        merge  == Newest(merged)
        into   == (IF AllTerminal(s.then) THEN <<>> ELSE <<Data(then.last, merge)>>)
                  \o (IF s.else = <<>> THEN <<Gate(decide, merge, "false")>>
                      ELSE IF AllTerminal(s.else) THEN <<>>
                      ELSE <<Data(else.last, merge)>>)
        var(v) == IF v \in DOMAIN b.vars THEN else.b.vars[v] ELSE merge
    IN  IF AllTerminal(s.then) /\ AllTerminal(s.else) THEN One(else.b, decide)
        ELSE [b |-> [Link(merged, into) EXCEPT !.vars = [v \in DOMAIN else.b.vars |-> var(v)]],
              first |-> decide, last |-> merge]

WithThen(b, s, decide, then) ==
    Rejoined(b, s, decide, then, Branch(then.b, decide, s.else, "false"))

WithDecide(b, s, start) ==
    WithThen(b, s, Newest(start), Branch(start, Newest(start), s.then, "true"))

If(b, s) ==
    WithDecide(b, s, Chain(Calc(b, Blank("Calc"), s.reads),
                           [Blank("Decide") EXCEPT !.reads = ToSet(s.reads), !.site = s.site]))

\* match expr: the SWITCH gates the first node of the last statement of a case.
\* A pattern is a literal, a name (the default) or another one; the body of a case
\* with another pattern is passed over.
Case(x, switch, case, again) ==
    LET noted == IF case.pattern = "other" \/ (case.pattern = "default" /\ again)
                 THEN Refused(x).b ELSE x
        block == FoldLeft(LAMBDA y, s : Stmt(y.b, s), One(noted, Missing), case.body)
        gate  == IF case.pattern = "default" THEN Data(switch, block.first)
                 ELSE Gate(switch, block.first, case.pattern)
    IN  IF case.pattern = "other" THEN noted ELSE Link(block.b, <<gate>>)

Match(b, s) ==
    LET switch == Chain(Calc(b, Blank("Calc"), s.reads),
                        [Blank("Switch") EXCEPT !.reads = ToSet(s.reads), !.site = s.site])
        again(i) == \E j \in 1..i - 1 : s.cases[j].pattern = "default"
    IN  One(FoldLeft(LAMBDA x, i : Case(x, Newest(switch), s.cases[i], again(i)),
                     switch, [i \in DOMAIN s.cases |-> i]), Newest(switch))

\* for x in range(expr): the argument, the range, the LOOP, then the body; an
\* else of the loop is not translated.
\* Mutant: an edge back to the LOOP.
WithBodyAndBack(n, body) == One(Link(body.b, <<Data(n, body.first), Control(body.last, n)>>), n)

WithBody(n, body) == One(Link(body.b, <<Data(n, body.first)>>), n)

WithLoop(loop, s) ==
    WithBody(Newest(loop), Block(Bound(loop, s.var), s.body, "control"))

Ranged(b, s) == Chain(Calc(b, Blank("Calc"), s.reads),
                     [Blank("Calc") EXCEPT !.reads = ToSet(s.reads), !.range = TRUE])

For(b, s) ==
    IF s.target = "name"
    THEN WithLoop(Chain(Ranged(b, s), [Blank("Loop") EXCEPT !.out = s.var, !.site = s.site]), s)
    ELSE Refused(Ranged(b, s))

\* with PARALLEL(): the i-th statement is branch i - 1.
Side(x, par, branch, s) ==
    LET side == Stmt([x EXCEPT !.branch = branch], s)
    IN  Link([side.b EXCEPT !.branch = x.branch], <<Data(par, side.first)>>)

Sides(par, s) ==
    One(FoldLeft(LAMBDA x, i : Side(x, Newest(par), i - 1, s.body[i]),
                 par, [i \in DOMAIN s.body |-> i]), Newest(par))

Parallel(b, s) == Sides(Push(b, Blank("Parallel")), s)

\* with GROUP(title): a title for the nodes of its statements, for display.
Group(b, s) ==
    LET block == Block([b EXCEPT !.group = s.title], s.body, "data")
    IN  [block EXCEPT !.b.group = b.group]

\* What binds a variable binds one name.
Binding == {"assign", "annotate", "augment", "call", "builtin", "apply"}

\* The node or nodes of a statement that follows no error.
Translated(b, s) ==
    CASE s.do \in Binding /\ s.target # "name" -> Refused(b)
      [] s.do = "assign"   -> Assign(b, s)
      [] s.do = "annotate" -> Annotate(b, s)
      [] s.do = "augment"  -> Augment(b, s)
      [] s.do = "call"     -> Call(b, s)
      [] s.do = "builtin"  -> Builtin(b, s)
      [] s.do = "apply"    -> Apply(b, s)
      [] s.do = "sleep"    -> Sleep(b, s)
      [] s.do = "return"   -> Return(b, s)
      [] s.do = "break"    -> Marker(b, "Break", s)
      [] s.do = "continue" -> Marker(b, "Continue", s)
      [] s.do = "raise"    -> Marker(b, "Error", s)
      [] s.do = "pass"     -> Nothing(b)
      [] s.do = "assert"   -> Asserted(b, s)
      [] s.do = "match"    -> Match(b, s)
      [] s.do = "if"       -> If(b, s)
      [] s.do = "for"      -> For(b, s)
      [] s.do = "parallel" -> Parallel(b, s)
      [] s.do = "group"    -> Group(b, s)
      [] OTHER             -> Refused(b)

\* transform_stmt: an error of the statement before ends the transform.
Stmt(b, s) ==
    With(b, LAMBDA x : IF x.refused THEN One([x EXCEPT !.failed = TRUE], Missing)
                       ELSE Translated(x, s))

\* transform_module, the body of graph: an INPUT per parameter, then the
\* statements.
Compile(params, body) ==
    LET whole == Block(FoldLeft(Input, Empty, params), body, "control")
    IN  [nodes |-> whole.b.nodes, edges |-> whole.b.edges, failed |-> whole.b.failed,
         params |-> ToSet(params), program |-> body]

\* The functions of a module that are the graph, in their order.
Graphs(module) == SelectSeq(module, LAMBDA s : s.do = "def" /\ s.var = "graph")

\* transform_module: one META at most, and the first function of that name.
Transformable(module) ==
    /\ Cardinality({i \in DOMAIN module : module[i].do = "meta"}) <= 1
    /\ Graphs(module) # <<>>

Transformed(module) == Compile(Head(Graphs(module)).params, Head(Graphs(module)).body)
===============================================================================
