------------------------------ MODULE PlanView ------------------------------
(***************************************************************************)
(* The pictures of a plan (tinypipe-ir/src/plan_view.rs), which `plan` and *)
(* /api/graphs show: build_view makes a graph of the plan that is read     *)
(* back; how it is printed is left out.  The nodes of a picture are places *)
(* of nodes and groups.  An edge is drawn for the first edge of the plan   *)
(* that asks for it, whose kind and condition it has.                      *)
(***************************************************************************)
EXTENDS PlanFormat

\* hidden_nodes: CALCs of a name or a literal, with no variable.
Hidden(p) == {n \in DOMAIN p.nodes : p.nodes[n].op = "Calc" /\ p.nodes[n].simple /\ p.nodes[n].out = None}

\* visible_roots and visible_leaves: the nodes that are seen in a node's place.
RECURSIVE VisibleRoots(_, _, _)
VisibleRoots(p, hidden, n) ==
    IF n \notin hidden THEN {n}
    ELSE UNION {VisibleRoots(p, hidden, e.from) : e \in {d \in Links(p) : d.to = n}}

RECURSIVE VisibleLeaves(_, _, _)
VisibleLeaves(p, hidden, n) ==
    IF n \notin hidden THEN {n}
    ELSE UNION {VisibleLeaves(p, hidden, e.to) : e \in From(p, n)}

\* Edges that are drawn, each with the first of those that ask for it.
Firsts(ends) ==
    [pair \in UNION {ends[i] : i \in DOMAIN ends} |->
        CHOOSE i \in DOMAIN ends : pair \in ends[i] /\ \A j \in 1..i - 1 : pair \notin ends[j]]

\* Mutant: an edge to or from a hidden node is left out.
ProjectedBare(p) ==
    LET hidden == Hidden(p)
        ends(e) == {<<e.from, e.to>>} \cap ((DOMAIN p.nodes \ hidden) \X (DOMAIN p.nodes \ hidden))
    IN  [nodes |-> DOMAIN p.nodes \ hidden,
         edges |-> Firsts([i \in DOMAIN p.edges |-> ends(p.edges[i])])]

\* project
Projected(p) ==
    LET hidden  == Hidden(p)
        ends(e) == {pair \in VisibleRoots(p, hidden, e.from) \X VisibleLeaves(p, hidden, e.to) :
                       pair[1] # pair[2]}
    IN  [nodes |-> DOMAIN p.nodes \ hidden,
         edges |-> Firsts([i \in DOMAIN p.edges |-> ends(p.edges[i])])]

\* What a node is in the summary: a group's node is the group, u32::MAX less its
\* number.
Box(p, n) == IF p.nodes[n].group = None THEN n ELSE NoIndex - p.nodes[n].group

\* collapse: each group a node.
Collapsed(p, v) ==
    LET boxes(i) == {<<Box(p, pair[1]), Box(p, pair[2])>> :
                        pair \in {q \in DOMAIN v.edges : v.edges[q] = i}}
    IN  IF p.groups = <<>> THEN v
        ELSE [nodes |-> {Box(p, n) : n \in v.nodes} \cup {NoIndex - g : g \in DOMAIN p.groups},
              edges |-> Firsts([i \in DOMAIN p.edges |-> {b \in boxes(i) : b[1] # b[2]}])]

\* Where the edges of a plan, and those of a picture, lead from a node.
Led(p, n) == Along(p, {e.to : e \in From(p, n)}, Links(p))

Shown(v, n) ==
    LET next(S) == S \cup {pair[2] : pair \in {q \in DOMAIN v.edges : q[1] \in S}}
        grow[k \in 0..Cardinality(v.nodes)] ==
            IF k = 0 THEN {pair[2] : pair \in {q \in DOMAIN v.edges : q[1] = n}}
            ELSE next(grow[k - 1])
    IN  grow[Cardinality(v.nodes)]
===============================================================================
