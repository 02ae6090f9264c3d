------------------------------ MODULE Compiler ------------------------------
(***************************************************************************)
(* The compiler of a graph's code: `compile` of tinypipe-compiler/src.     *)
(* Transform makes a plan, the validator lets it pass or not               *)
(* (Validator), and the optimizer (backend/optimize.rs) makes the plan     *)
(* that codegen makes a binary of (PlanFormat).  Folding constants         *)
(* (Expressions) changes no variable that a node reads or writes.          *)
(***************************************************************************)
EXTENDS Validator

Ends(p) == {p.edges[i].from : i \in DOMAIN p.edges} \cup {p.edges[i].to : i \in DOMAIN p.edges}

\* dead_node_elimination
Live(p) == {n \in DOMAIN p.nodes : p.nodes[n].op = "Calc" => n \in Ends(p)}

Consumers(p, live, d) ==
    Cardinality({i \in DOMAIN p.edges : p.edges[i].from = d /\ p.edges[i].to \in live})

\* The CALCs whose expressions go into that of the CALC n: the last writers of
\* variables it reads, with n at the end of their only edge.
Inlined(p, live, n) ==
    {d \in live :
        /\ p.nodes[n].op = "Calc" /\ p.nodes[d].op = "Calc"
        /\ p.nodes[d].out \in p.nodes[n].reads
        /\ p.nodes[d].out \notin p.nodes[d].reads
        /\ ~\E m \in live : m > d /\ p.nodes[m].op = "Calc" /\ p.nodes[m].out = p.nodes[d].out
        /\ Consumers(p, live, d) = 1
        /\ \E i \in DOMAIN p.edges : p.edges[i].from = d /\ p.edges[i].to = n}

\* One round of calc_fusion: expressions go in, in parentheses, as they were
\* before the round.
RECURSIVE Fused(_, _)
Fused(p, live) ==
    LET into == [n \in live |-> Inlined(p, live, n)]
        gone == UNION {into[n] : n \in live}
        fuse(n) == LET from == p.nodes[n]
                   IN  [from EXCEPT
                           !.reads = (@ \ {p.nodes[d].out : d \in into[n]})
                                     \cup UNION {p.nodes[d].reads : d \in into[n]},
                           !.marks = @ \cup UNION {p.nodes[d].marks : d \in into[n]},
                           !.fused = @ \/ into[n] # {}]
    IN  IF gone = {} THEN [plan |-> p, live |-> live]
        ELSE Fused([p EXCEPT !.nodes = [n \in DOMAIN @ |-> IF n \in live THEN fuse(n) ELSE @[n]]],
                   live \ gone)

\* multi_branch_fusion: of the children of a PARALLEL that make the same call,
\* all but the first go; their edges become edges of the first.
Twins(p, live, n) ==
    LET call(m)  == LET c == p.nodes[m] IN <<c.tool, c.reads, c.out, c.tolerant>>
        child(m) == {e.from : e \in {d \in Links(p) : d.to = m /\ d.from \in Of(p, {"Parallel"})}}
    IN  {m \in live \cap Of(p, {"Call"}) :
            /\ p.nodes[n].op = "Call" /\ call(m) = call(n)
            /\ m = n \/ child(m) \cap child(n) # {}}

Kept(p, live, n) ==
    LET twins == Twins(p, live, n)
    IN  IF twins = {} THEN n ELSE CHOOSE m \in twins : \A k \in twins : m <= k

\* The nodes that are left, and the edges between them, which name nodes by their
\* ids: those of a call that is gone are its twin's.
Optimized(p) ==
    LET end   == Fused(p, Live(p))
        order == SelectSeq([n \in DOMAIN p.nodes |-> n],
                           LAMBDA n : n \in end.live /\ Kept(end.plan, end.live, n) = n)
        edges == SelectSeq(p.edges, LAMBDA e : e.from \in end.live /\ e.to \in end.live)
    IN  [p EXCEPT !.nodes = [i \in DOMAIN order |-> end.plan.nodes[order[i]]],
                  !.edges = [i \in DOMAIN edges |->
                      [edges[i] EXCEPT !.from = Kept(end.plan, end.live, @),
                                       !.to   = Kept(end.plan, end.live, @)]]]
===============================================================================
