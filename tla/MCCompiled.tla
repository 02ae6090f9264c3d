----------------------------- MODULE MCCompiled -----------------------------
(***************************************************************************)
(* Programs, their plans as the compiler makes them, and what they say.    *)
(* A variable of a program is a string; p is the parameter of the graph.   *)
(***************************************************************************)
EXTENDS PausedRun

C == INSTANCE PlanFormat
S == INSTANCE SourceRun

Statement(do, site, var, reads) ==
    [do |-> do, site |-> site, var |-> var, reads |-> reads, tolerant |-> FALSE,
     tool |-> site, leaks |-> {}, target |-> "name", valued |-> TRUE, title |-> "steps",
     cases |-> <<>>, then |-> <<>>, else |-> <<>>, body |-> <<>>]

Let(site, var, reads)       == Statement("assign", site, var, reads)
Add(site, var, reads)       == Statement("augment", site, var, reads)
Tool(site, var, reads)      == Statement("call", site, var, reads)
Try(site, var, reads)       == [Tool(site, var, reads) EXCEPT !.tolerant = TRUE]
Sub(site, var, reads)       == [Tool(site, var, reads) EXCEPT !.leaks = {"k", "a"}]
Ret(site, reads)            == Statement("return", site, None, reads)
If(site, reads, then, else) == [Statement("if", site, None, reads) EXCEPT !.then = then, !.else = else]
For(site, var, reads, body) == [Statement("for", site, var, reads) EXCEPT !.body = body]
Grouped(body)                == [Statement("group", 0, None, <<>>) EXCEPT !.body = body]
Par(body)                   == [Statement("parallel", 0, None, <<>>) EXCEPT !.body = body]
Word(do)                    == Statement(do, 0, None, <<>>)

\* Programs with one statement of each kind in each place where plans keep its
\* meaning; the README lists the places where they do not.
Programs ==
    << << Tool(1, "a", <<"p">>), Try(2, "b", <<"a", "p">>), Ret(3, <<"b">>) >>,
       << If(1, <<"p">>, <<Let(2, "a", <<"p">>)>>, <<Tool(3, "a", <<>>)>>), Ret(4, <<"a">>) >>,
       << If(1, <<"p">>, <<Ret(2, <<"p">>)>>, <<>>), Tool(3, "a", <<"p">>), Ret(4, <<"a">>) >>,
       << If(1, <<"p">>, <<Word("raise")>>, <<>>), Ret(2, <<"p">>) >>,
       << If(1, <<"p">>, <<Tool(2, "a", <<>>)>>,
             <<If(3, <<"p">>, <<Let(4, "a", <<>>)>>, <<Tool(5, "a", <<"p">>)>>)>>),
          Tool(6, "b", <<"a">>), Ret(7, <<"b">>) >>,
       << Let(1, "t", <<>>),
          For(2, "i", <<"p">>, <<If(3, <<"i">>, <<Word("break")>>, <<>>), Add(4, "t", <<"i">>)>>),
          Ret(5, <<"t">>) >>,
       << Let(1, "t", <<>>),
          For(2, "i", <<"p">>, <<Tool(3, "x", <<"i", "t">>),
                                 If(4, <<"x">>, <<Word("continue")>>, <<>>),
                                 Add(5, "t", <<"x">>)>>),
          Ret(6, <<"t">>) >>,
       << Let(1, "t", <<>>),
          For(2, "i", <<"p">>, <<If(3, <<"i">>, <<Let(4, "t", <<"i">>)>>, <<Let(5, "t", <<>>)>>)>>),
          For(6, "j", <<"p">>, <<Tool(7, "y", <<"j">>)>>), Ret(8, <<"t">>) >>,
       << Grouped(<<Tool(1, "a", <<"p">>), Tool(2, "b", <<"a">>)>>), Ret(3, <<"b">>) >>,
       << Let(1, "a", <<"p">>), If(2, <<"a">>, <<Let(3, "a", <<"a">>)>>, <<>>),
          Let(4, "c", <<"a">>), Ret(5, <<"c">>) >>,
       << If(1, <<"p">>, <<Ret(2, <<"p">>)>>, <<Ret(3, <<>>)>>) >>,
       << Let(1, "t", <<>>),
          For(2, "i", <<"p">>, <<Tool(3, "x", <<"i">>), Add(4, "t", <<"x">>)>>),
          For(5, "j", <<"t">>, <<Tool(6, "y", <<"j">>)>>), Ret(7, <<"t">>) >>,
       << If(1, <<"p">>, <<Let(2, "a", <<"p">>), Let(3, "b", <<"a">>)>>, <<Let(4, "b", <<>>)>>),
          Ret(5, <<"b">>) >>,
       << Let(1, "t", <<"p">>), Statement("sleep", 2, None, <<>>), Sub(3, "b", <<"t">>),
          Ret(4, <<"b", "t">>) >> >>

\* Branches that write the same variable and are joined by a MERGE, as in the
\* plans of compiled_executor.rs 3971-4060, and one branch with a LOOP.
Piece(op, reads, marks, out, site, branch) ==
    [C!Blank(op) EXCEPT !.reads = reads, !.marks = marks, !.out = out,
                        !.site = site, !.branch = branch]

Isolated ==
    [nodes |-> << Piece("Input", {"p"}, {}, None, 0, None),
                  Piece("Parallel", {}, {}, None, 0, None),
                  Piece("Calc", {"p"}, {1}, "a", 0, 0),
                  Piece("Call", {"p"}, {}, "a", 2, 1),
                  Piece("Calc", {"a"}, {3}, "b", 0, 1),
                  Piece("Merge", {}, {}, None, 0, None),
                  Piece("Return", {}, {}, None, 4, None) >>,
     edges |-> << C!Data(1, 2), C!Data(2, 3), C!Data(2, 4), C!Data(4, 5),
                  C!Data(3, 6), C!Data(5, 6), C!Data(6, 7) >>,
     params |-> {"p"},
     program |-> << Par(<<Let(1, "a", <<"p">>),
                          Grouped(<<Tool(2, "a", <<"p">>), Let(3, "b", <<"a">>)>>)>>),
                    Ret(4, <<"p", "a", "b">>) >>]

LoopInBranch ==
    [nodes |-> << Piece("Input", {"p"}, {}, None, 0, None),
                  Piece("Parallel", {}, {}, None, 0, None),
                  Piece("Calc", {"p"}, {1}, "a", 0, 0),
                  [Piece("Calc", {"p"}, {}, None, 0, 0) EXCEPT !.range = TRUE],
                  Piece("Loop", {}, {}, "i", 2, 0),
                  Piece("Calc", {"a", "i"}, {3}, "a", 0, 0),
                  Piece("Calc", {"a"}, {4}, "c", 0, 0),
                  Piece("Call", {"p"}, {}, "a", 5, 1),
                  Piece("Merge", {}, {}, None, 0, None),
                  Piece("Return", {}, {}, None, 6, None) >>,
     edges |-> << C!Data(1, 2), C!Data(2, 3), C!Data(3, 4), C!Data(4, 5), C!Data(5, 6),
                  C!Control(5, 7), C!Data(2, 8), C!Data(7, 9), C!Data(8, 9), C!Data(9, 10) >>,
     params |-> {"p"},
     program |-> << Par(<<Grouped(<<Let(1, "a", <<"p">>),
                                    For(2, "i", <<"p">>, <<Add(3, "a", <<"i">>)>>),
                                    Let(4, "c", <<"a">>)>>),
                          Tool(5, "a", <<"p">>)>>),
                    Ret(6, <<"p", "a", "c", "i">>) >>]

\* The plan of compiled_executor.rs 3532-3560.
Cased ==
    [nodes |-> << Piece("Input", {"p"}, {}, None, 0, None),
                  Piece("Switch", {"p"}, {}, None, 1, None),
                  Piece("Return", {}, {}, None, 2, None),
                  Piece("Return", {}, {}, None, 3, None) >>,
     edges |-> << C!Data(1, 2), C!Gate(2, 3, "red"), C!Gate(2, 4, "blue") >>,
     params |-> {"p"},
     program |-> << [Statement("match", 1, None, <<"p">>) EXCEPT
                        !.cases = << [pattern |-> "red", body |-> <<Ret(2, <<"p">>)>>],
                                     [pattern |-> "blue", body |-> <<Ret(3, <<"p">>)>>] >>] >>]

ProgramPlans ==
    [k \in DOMAIN Programs |->
        LET p == C!Stored(<<"p">>, Programs[k])
        IN  [nodes |-> p.nodes, edges |-> p.edges, params |-> {"p"}, program |-> Programs[k]]]
    \o <<Isolated, LoopInBranch, Cased>>

ASSUME ProgramsAreValid ==
    \A body \in {Programs[k] : k \in DOMAIN Programs} :
        C!Valid(C!Compile(<<"p">>, body))

\* What the theorem on pauses asks of the plans.
ASSUME ProgramsKeepLoopVariables == BodiesKeepTheirVariable

Says(body)  == S!Meanings([program |-> body, params |-> {"p"}])
ProgramsSay == [k \in DOMAIN Programs |-> Says(Programs[k])]
               \o <<Says(Isolated.program), Says(LoopInBranch.program), Says(Cased.program)>>

-----------------------------------------------------------------------------

\* The main pass has made the effects m makes so far, in their order and from
\* the same values, and when it completes it has made them all.
Follows(m) ==
    LET made == runs[None].trace
    IN  /\ Len(made) <= Len(m.trace)
        /\ \A i \in DOMAIN made : made[i] = m.trace[i]
        /\ status = "completed" =>
               /\ Len(made) = Len(m.trace)
               /\ m.flow # "raise"
               /\ runs[None].result = IF m.flow = "return" THEN m.trace[Len(m.trace)].saw ELSE None

\* A run of a compiled plan does what the code of the graph says: the same
\* calls, decisions, loops and returns, in the same order and on values that
\* were computed from the same things, whatever the conditions, ranges and
\* tools give, and it gives what the return statement gave.  It is about every
\* stage at once: wiring, gates and fusion in the compiler, order, gating and
\* propagation in the VM.
FollowsSource == \E m \in ProgramsSay[plan.id] : Follows(m)
=============================================================================
