------------------------------ MODULE Validator ------------------------------
(***************************************************************************)
(* The checks of a plan: `validate` of tinypipe-compiler/src/validator.rs. *)
(* A check is named after its comment there.  The check of subgraph calls  *)
(* (11) is left out: it finds none in a plan of Transform, whose calls     *)
(* name their targets in quotes.                                           *)
(***************************************************************************)
EXTENDS Transform

Of(p, ops) == {n \in DOMAIN p.nodes : p.nodes[n].op \in ops}
Links(p)   == {p.edges[i] : i \in DOMAIN p.edges}
From(p, n) == {e \in Links(p) : e.from = n}

\* The nodes on a path of edges E from S.
Along(p, S, E) ==
    LET next(n) == {e.to : e \in {d \in E : d.from = n}}
        grow[k \in 0..Len(p.nodes)] ==
            IF k = 0 THEN S ELSE UNION {{n} \cup next(n) : n \in grow[k - 1]}
    IN  grow[Len(p.nodes)]

\* 2. An edge of a node that is not there.
Dangling(p) == \E e \in Links(p) : e.from \notin DOMAIN p.nodes \/ e.to \notin DOMAIN p.nodes

\* 4. Edges back to a LOOP are none of a cycle.
Cyclic(p, E) == \E n \in DOMAIN p.nodes : n \in Along(p, {e.to : e \in {d \in E : d.from = n}}, E)

Forward(p) == {e \in Links(p) : e.to \notin Of(p, {"Loop"})}

\* 5. A node that no node without incoming edges leads to.
Unreached(p) ==
    DOMAIN p.nodes \ Along(p, {n \in DOMAIN p.nodes : \A e \in Links(p) : e.to # n}, Links(p))

\* is_terminal_opcode: ACT and ERROR.
Terminals(p) == Of(p, {"Return", "Break", "Continue", "Error"})

\* Nodes that end with a loop.
BodiesOf(p) ==
    Along(p, {e.to : e \in {d \in Links(p) : /\ d.from \in Of(p, {"Loop"})
                                             /\ d.kind = "data" /\ d.when = "always"}},
          {d \in Links(p) : d.kind = "data"})

\* 6. A node with edges that no end can be got to from.
Endless(p) ==
    {n \in DOMAIN p.nodes \ (Terminals(p) \cup BodiesOf(p)) :
        /\ From(p, n) # {}
        /\ Along(p, {n}, Links(p)) \cap (Terminals(p) \cup Of(p, {"Loop"}) \cup BodiesOf(p)) = {}}

\* 7. The SWITCH of a match names its source, the check asks for a condition.
Incomplete(p) == Of(p, {"Switch"})

\* 8. What the edges of a node must and must not say.
Ungated(p) ==
    {n \in Of(p, {"Decide", "Switch"}) :
        LET whens == {e.when : e \in From(p, n)}
        IN  "true" \notin whens \/ "false" \notin whens \/ "always" \in whens}

Childless(p) == {n \in Of(p, {"Loop", "Parallel"}) : From(p, n) = {}}

Gating(p) ==
    {n \in DOMAIN p.nodes \ Of(p, {"Decide", "Switch", "Loop"}) :
        \E e \in From(p, n) : e.when # "always"}

\* Mutant: an edge without a node is no error.
NoError(p) == {}

\* A plan with such an edge is not looked at any further.
Unknown(p) == IF Dangling(p) THEN {"unknown node"} ELSE {}

\* validate: what is wrong with a plan.
Complaints(p) ==
    IF Unknown(p) # {} THEN Unknown(p)
    ELSE UNION {IF p.nodes = <<>>             THEN {"zero nodes"} ELSE {},
                IF Cyclic(p, Forward(p))      THEN {"cycle"} ELSE {},
                IF Unreached(p) # {}          THEN {"not reachable"} ELSE {},
                IF Terminals(p) = {}          THEN {"no terminal"} ELSE {},
                IF Endless(p) # {}            THEN {"cannot reach a terminal"} ELSE {},
                IF Incomplete(p) # {}         THEN {"missing argument"} ELSE {},
                IF Ungated(p) # {}            THEN {"branch without edges"} ELSE {},
                IF Childless(p) # {}          THEN {"no outgoing edge"} ELSE {},
                IF Gating(p) # {}             THEN {"condition"} ELSE {}}

Valid(plan) == With(plan, LAMBDA p : Complaints(p)) = {}
===============================================================================
