----------------------------- MODULE PlanFormat -----------------------------
(***************************************************************************)
(* The plan on its way to the store and back: the plan of the optimizer,   *)
(* whose edges name nodes by their ids, becomes one whose edges count      *)
(* (from_execution_plan of tinypipe-ir/src/compiled.rs), that one becomes  *)
(* the bytes of graphs.execution_plan (to_fb_bytes), and the VM and the    *)
(* commands that show a plan read them (from_fb_bytes).                    *)
(*                                                                         *)
(* A byte form is a record of numbers, texts and lists.  Nodes are counted *)
(* from 1.  Edges of the transform have no mapping, priority or label, and *)
(* nodes no inferred type.                                                 *)
(***************************************************************************)
EXTENDS Compiler

\* For u32::MAX: no branch, no group, the place of a node that is not there.
NoIndex == 2147483647

Place(s, x) == SelectInSeq(s, LAMBDA y : y = x)

-----------------------------------------------------------------------------
(* codegen *)

\* The titles of groups, in the order of their first nodes.
Titles(p) ==
    FoldLeft(LAMBDA titles, n : IF n.group = None \/ n.group \in ToSet(titles) THEN titles
                                ELSE Append(titles, n.group),
             <<>>, p.nodes)

\* tool_deps and subgraph_dependencies.  A target is a quoted text, and no quoted
\* text starts with `subgraph:`: the subgraphs a plan calls are among its tools.
Dependencies(p) ==
    LET calls == SelectSeq(p.nodes, LAMBDA n : n.op = "Call")
    IN  [tools |-> [i \in DOMAIN calls |-> calls[i].tool], subgraphs |-> <<>>]

\* from_execution_plan: ids become places, titles places in the list of titles.
Lowered(p) ==
    LET ids       == [i \in DOMAIN p.nodes |-> p.nodes[i].id]
        titles    == Titles(p)
        index(id) == IF id \in ToSet(ids) THEN Place(ids, id) ELSE NoIndex
        group(t)  == IF t = None THEN None ELSE Place(titles, t)
    IN  [nodes  |-> [i \in DOMAIN p.nodes |-> [p.nodes[i] EXCEPT !.group = group(@)]],
         edges  |-> [i \in DOMAIN p.edges |-> [p.edges[i] EXCEPT !.from = index(@), !.to = index(@)]],
         groups |-> titles,
         deps   |-> Dependencies(p)]

\* The nodes need an order.
Ordered(p) == With(Lowered(p), LAMBDA plan : ~Cyclic(plan, Links(plan)))

-----------------------------------------------------------------------------
(* to_fb_bytes *)

\* Opcodes count from 0.
Opcodes == <<"Input", "Call", "Calc", "Decide", "Switch", "Act", "Parallel", "Loop", "Wait",
             "Merge", "Error">>

\* return, break and continue are ACTs, told apart by an argument.
Acts == {"Return", "Break", "Continue"}

OpcodeOf(n) == Place(Opcodes, IF n.op \in Acts THEN "Act" ELSE n.op) - 1

\* What else a node says is in its arguments.
Arguing(n) == [f \in DOMAIN n \ {"id", "branch", "group"} |-> n[f]]

OrElse(x, none) == IF x = None THEN none ELSE x

EncodedNode(n) ==
    [id |-> n.id, op |-> OpcodeOf(n), args |-> Arguing(n),
     branch |-> OrElse(n.branch, NoIndex), group |-> OrElse(n.group, NoIndex)]

\* A condition that is not there is not written.
EncodedEdge(e) ==
    [from |-> e.from, to |-> e.to, kind |-> IF e.kind = "data" THEN 0 ELSE 1,
     condition |-> IF e.when = "always" THEN None ELSE e.when]

Encoded(p) ==
    [nodes  |-> [i \in DOMAIN p.nodes |-> EncodedNode(p.nodes[i])],
     edges  |-> [i \in DOMAIN p.edges |-> EncodedEdge(p.edges[i])],
     groups |-> p.groups, deps |-> p.deps]

-----------------------------------------------------------------------------
(* from_fb_bytes *)

Given(x, none) == IF x = none THEN None ELSE x

\* An opcode that is none is an INPUT.
DecodedOp(f) ==
    IF f.op \notin 0..Len(Opcodes) - 1 THEN "Input"
    ELSE IF Opcodes[f.op + 1] = "Act" THEN f.args.op ELSE Opcodes[f.op + 1]

DecodedNode(f) ==
    [x \in DOMAIN f.args \cup {"id", "branch", "group"} |->
        CASE x = "op"     -> DecodedOp(f)
          [] x = "id"     -> f.id
          [] x = "branch" -> Given(f.branch, NoIndex)
          [] x = "group"  -> Given(f.group, NoIndex)
          [] OTHER        -> f.args[x]]

\* An empty condition is none.
DecodedEdge(f) ==
    [from |-> f.from, to |-> f.to, kind |-> IF f.kind = 1 THEN "control" ELSE "data",
     when |-> IF f.condition \in {None, ""} THEN "always" ELSE f.condition]

Decoded(f) ==
    [nodes  |-> [i \in DOMAIN f.nodes |-> DecodedNode(f.nodes[i])],
     edges  |-> [i \in DOMAIN f.edges |-> DecodedEdge(f.edges[i])],
     groups |-> f.groups, deps |-> f.deps]

\* What is read of a plan that was stored.
ReadBack(p) == Decoded(Encoded(Lowered(p)))

\* The stored plan of a body that passes.
Stored(params, body) == ReadBack(Optimized(Compile(params, body)))
===============================================================================
