------------------------------ MODULE SourceRun ------------------------------
(***************************************************************************)
(* What the code of a graph says by itself: statements run in their order, *)
(* a branch when its condition has its value, a loop body once per value,  *)
(* and a return, break or continue ends what it ends in Python, of which   *)
(* the dialect is a subset.  A value is the set of what it was computed    *)
(* from: the inputs, the answers of tools, the values of loop variables    *)
(* and the statements whose expressions made it.  An effect (a call, a     *)
(* decision, a loop, a return) is recorded with the value it saw.  What    *)
(* the code leaves open (conditions, lengths of ranges, failing tools) is  *)
(* any value.                                                              *)
(***************************************************************************)
EXTENDS Integers, FiniteSets, Sequences, SequencesExt

CONSTANTS MaxBound, None

Unset == {}
Given == {<<0, 0>>}

\* The effects of a run and the variables after it; how it left its block.
Begun(params) == [trace |-> <<>>, vars |-> [v \in params |-> Given], flow |-> "next"]

Sees(m, reads) == UNION {m.vars[v] : v \in reads \cap DOMAIN m.vars}

Does(m, s, reads, got) ==
    [m EXCEPT !.trace = Append(@, [site |-> s.site, saw |-> Sees(m, reads), got |-> got])]

Binds(m, var, value) ==
    [m EXCEPT !.vars = [v \in DOMAIN @ \cup {var} |-> IF v = var THEN value ELSE @[v]]]

Lets(m, s, reads) == Binds(m, s.var, {<<s.site, 0>>} \cup Sees(m, reads))

\* The answer of a call is named by its site and how often that was called.
Answers(m, s, reads, got) ==
    LET asked == Does(m, s, reads, got)
        times == Cardinality({i \in DOMAIN asked.trace : asked.trace[i].site = s.site})
    IN  IF s.var = None THEN asked ELSE Binds(asked, s.var, {<<s.site, times>>})

\* The runs of the statements of a block from m, in their order.
RECURSIVE Meaning(_, _)
Body(body, m) ==
    FoldLeft(LAMBDA runs, s :
                 UNION {IF x.flow = "next" THEN Meaning(s, x) ELSE {x} : x \in runs},
             {m}, body)

\* The turns of the loop s, as many as n.
Turns(s, m, n) ==
    LET turn(x, i)  == Body(s.body, Binds([x EXCEPT !.flow = "next"], s.var, {<<s.site, i - 1>>}))
        ended(x)    == x.flow \notin {"next", "continue"}
        all == FoldLeft(LAMBDA runs, i :
                            UNION {IF ended(x) THEN {x} ELSE turn(x, i) : x \in runs},
                        {m}, [i \in 1..n |-> i])
    IN  {IF x.flow \in {"break", "continue"} THEN [x EXCEPT !.flow = "next"] ELSE x : x \in all}

\* The branches of the block s: each starts from the variables before the
\* block, and what it wrote holds after it.
Sides(s, m) ==
    LET wrote(x, v)  == v \in DOMAIN x.vars /\ (v \in DOMAIN m.vars => x.vars[v] # m.vars[v])
        \* x, after a branch that started where y had come to.
        back(x, y) == [x EXCEPT !.vars = [v \in DOMAIN x.vars \cup DOMAIN y.vars |->
                                              IF wrote(x, v) THEN x.vars[v] ELSE y.vars[v]]]
    IN  FoldLeft(LAMBDA runs, t :
                     UNION {{back(x, y) : x \in Body(<<t>>, [y EXCEPT !.vars = m.vars])} :
                                y \in runs},
                 {m}, s.body)

\* The runs of the statement s from m.
Meaning(s, m) ==
    LET reads == ToSet(s.reads)
    IN  CASE s.do = "assign"   -> {Lets(m, s, reads)}
          [] s.do = "augment"  -> {Lets(m, s, reads \cup {s.var})}
          [] s.do = "call"     -> {Answers(m, s, reads, got) :
                                       got \in IF s.tolerant THEN {0, 1} ELSE {0}}
          [] s.do = "return"   -> {[Does(m, s, reads, 0) EXCEPT !.flow = "return"]}
          [] s.do = "if"       -> UNION {Body(IF got = 1 THEN s.then ELSE s.else,
                                              Does(m, s, reads, got)) : got \in {0, 1}}
          [] s.do = "match"    -> UNION {Body(IF got = 0 THEN <<>> ELSE s.cases[got].body,
                                              Does(m, s, reads, got)) : got \in 0..Len(s.cases)}
          [] s.do = "sleep"    -> {m}
          [] s.do = "for"      -> UNION {Turns(s, Does(m, s, reads, n), n) : n \in 0..MaxBound}
          [] s.do = "group"    -> Body(s.body, m)
          [] s.do = "parallel" -> Sides(s, m)
          [] OTHER             -> {[m EXCEPT !.flow = s.do]}

Meanings(plan) == Body(plan.program, Begun(plan.params))
===============================================================================
