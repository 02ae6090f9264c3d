----------------------------- MODULE MCFrontEnd -----------------------------
(***************************************************************************)
(* Programs of every statement in every place, and of every expression of  *)
(* a grammar, as answers of the LLM.  The graph has one parameter, p, but  *)
(* for the programs of expressions, whose parameters are Context's.        *)
(***************************************************************************)
EXTENDS FrontEnd

Statement(do, site) ==
    [do |-> do, site |-> site, var |-> None, reads |-> <<>>, tolerant |-> FALSE, tool |-> "t",
     leaks |-> {}, target |-> "name", valued |-> TRUE, constant |-> TRUE, cases |-> <<>>,
     then |-> <<>>, else |-> <<>>, body |-> <<>>, uses |-> <<>>, params |-> <<>>,
     title |-> "steps"]

On(s, x)       == [s EXCEPT !.var = x]
Reading(s, r)  == [s EXCEPT !.reads = r]
Using(s, u)    == [s EXCEPT !.uses = <<u>>]
Aimed(s, kind) == [s EXCEPT !.target = kind]
Holding(s, b)  == [s EXCEPT !.body = b]

Let(site)  == Reading(On(Statement("assign", site), "a"), <<"p">>)
Tool(site) == Reading(On(Statement("call", site), "b"), <<"p">>)
Ret(site)  == Reading(Statement("return", site), <<"p">>)
Branches(site, then, else) ==
    [Reading(Statement("if", site), <<"p">>) EXCEPT !.then = then, !.else = else]
Loop(site, body) == [Reading(On(Statement("for", site), "i"), <<"p">>) EXCEPT !.body = body]
Cases(site, first, body) ==
    [Reading(Statement("match", site), <<"p">>) EXCEPT
        !.cases = << [pattern |-> first, body |-> body],
                     [pattern |-> "default", body |-> <<Let(19)>>] >>]
Grouped(body) == Holding(Statement("group", 0), body)
Par(body)     == Holding(Statement("parallel", 0), body)
Graph(body)   == Holding([On(Statement("def", 0), "graph") EXCEPT !.params = <<"p">>], body)

\* One statement of each kind, with the site 1.
Statements ==
    { Let(1), Tool(1), Ret(1),
      Aimed(Let(1), "other"), Aimed(Let(1), "several"), Aimed(Tool(1), "several"),
      On(Reading(Statement("annotate", 1), <<"p">>), "a"),
      On([Statement("annotate", 1) EXCEPT !.valued = FALSE], "a"),
      On(Reading(Statement("augment", 1), <<"p">>), "a"),
      On(Tool(1), None), [Tool(1) EXCEPT !.tool = "u"],
      On(Reading(Statement("builtin", 1), <<"p">>), "a"),
      On(Reading(Statement("apply", 1), <<"p">>), "a"),
      Reading(Statement("sleep", 1), <<"p">>),
      [Statement("return", 1) EXCEPT !.valued = FALSE],
      Statement("break", 1), Statement("continue", 1), Statement("raise", 1),
      Statement("pass", 1), Statement("other", 1),
      Reading(Statement("assert", 1), <<"p">>),
      Cases(1, "red", <<Let(2)>>), Cases(1, "true", <<Ret(2)>>),
      Cases(1, "other", <<Ret(2)>>), Cases(1, "default", <<Statement("pass", 2)>>),
      Branches(1, <<Let(2)>>, <<>>), Branches(1, <<Ret(2)>>, <<Ret(3)>>),
      Branches(1, <<Tool(2), Let(3)>>, <<Ret(4)>>),
      Loop(1, <<Tool(2)>>), Loop(1, <<Let(2), Statement("break", 3)>>), Loop(1, <<Statement("pass", 2)>>),
      Aimed(Loop(1, <<Tool(2)>>), "other"),
      [Loop(1, <<Tool(2)>>) EXCEPT !.else = <<Let(3)>>],
      Grouped(<<Let(1), Tool(2)>>), [Grouped(<<Let(1)>>) EXCEPT !.constant = FALSE],
      Par(<<Tool(1), Let(2)>>), Par(<<Tool(1), Tool(2)>>), Par(<<Statement("pass", 2)>>),
      Statement("while", 1), Statement("import", 1), Statement("meta", 1),
      Using(Let(1), Uses("lambda")), Using(Let(1), Uses("slice")),
      Using(Let(1), Calls("name", "eval", FALSE)), Using(Let(1), Calls("attribute", "fork", FALSE)),
      Using(Let(1), Calls("dynamic", "none", FALSE)), Using(Tool(1), Calls("name", "call", FALSE)),
      Using(Tool(1), Calls("name", "call", TRUE)), Graph(<<Ret(1)>>) }

\* The same one level down.
Nested(s) ==
    { Branches(21, <<s>>, <<>>), Branches(21, <<Ret(22)>>, <<s>>), Loop(21, <<s, Let(22)>>),
      Par(<<s, Tool(21)>>), Grouped(<<Tool(21), s>>) }

\* The places a statement is put in.
Bodies(s) ==
    { <<s>>, <<s, Ret(11)>>, <<Ret(11), s>>, <<Let(11), s>>,
      <<Branches(11, <<s>>, <<>>), Ret(12)>>, <<Branches(11, <<Ret(12)>>, <<>>), s>>,
      <<Branches(11, <<Ret(12)>>, <<s>>), Ret(13)>>,
      <<Branches(11, <<Let(12), s>>, <<Let(13)>>), Ret(14)>>,
      <<Branches(11, <<s, Let(12)>>, <<>>), Ret(14)>>,
      <<Loop(11, <<Statement("break", 12)>>), s>>,
      <<Loop(11, <<s>>), Ret(12)>>, <<Loop(11, <<s, Let(12)>>), Ret(13)>>,
      <<Loop(11, <<Branches(12, <<s>>, <<>>), Let(13)>>), Ret(14)>>,
      <<Par(<<Tool(11), s>>), Ret(12)>>, <<Grouped(<<s, Let(12)>>), Ret(13)>>,
      <<Let(11), Grouped(<<s>>), Ret(13)>>,
      <<Let(11), Par(<<Grouped(<<Tool(12), s>>), Let(13)>>), Ret(14)>> }

\* Modules that differ in what is around the function.
Frames ==
    LET graph == Graph(<<Ret(1)>>)
        meta  == Statement("meta", 0)
    IN  { <<>>, <<meta, graph>>, <<meta, meta, graph>>, <<graph, meta>>,
          <<[meta EXCEPT !.constant = FALSE], graph>>, <<On(graph, "main")>>,
          <<graph, On(graph, "main")>>, <<graph, graph>>, <<[graph EXCEPT !.constant = FALSE]>>,
          <<Statement("return", 1), graph>>, <<Let(1), graph>>, <<Using(graph, Uses("lambda"))>> }

Shapes ==
    LET all == Statements \cup UNION {Nested(s) : s \in Statements}
    IN  UNION {{<<Graph(body)>> : body \in Bodies(s)} : s \in all} \cup Frames

-----------------------------------------------------------------------------
\* Expressions of every form, over names of every kind.
Context ==
    [x \in {"a", "b", "s", "o", "l"} |->
        CASE x = "a" -> Number(1)
          [] x = "b" -> Number(9)
          [] x = "s" -> String(<<"z">>)
          [] x = "o" -> Object((<<"a">> :> Number(2)) @@ (<<"2">> :> Number(5)))
          [] x = "l" -> Array(<<Number(2), Number(3), Array(<<Number(4), Number(7)>>)>>)]

Atoms == {Num(2), Name("a"), Name("b"), Name("s"), Name("o"), Name("l"),
          Str(<<"z">>), Str(<<"z", ".", "y">>), Str(<<"a">>), Bool(FALSE)}
Reads == {Attribute(Name("o"), "a"), Subscript(Name("l"), Num(2)),
          Subscript(Subscript(Name("l"), Num(2)), Name("a")), Subscript(Name("o"), Num(2)),
          CallOf("len", <<Name("l")>>), CallOf("len", <<Name("s")>>)}
Terms == Atoms \cup Reads
Sums  == {Infix(op, x, y) : op \in {"+", "-", "*", "/"}, x \in Terms, y \in Terms}

Few   == {Infix(op, x, y) : op \in {"+", "-"}, x \in {Name("a"), Num(2), Name("s")},
                            y \in {Name("b"), Attribute(Name("o"), "a"), Str(<<"z">>)}}

Formulas ==
    Terms \cup Sums
    \cup {Infix(op, x, y) : op \in {"==", "<"}, x \in Terms, y \in Terms}
    \cup {Infix("<", x, y) : x \in Few, y \in Terms} \cup {Infix("==", x, y) : x \in Few, y \in Few}
    \cup {Prefix("not", x) : x \in Terms} \cup {Dict(Str(<<"k">>), x) : x \in Terms}
    \cup {Subscript(Name("l"), x) : x \in {Infix("-", Num(2), Name("a")), Infix("-", Name("a"), Num(2))}}
    \cup {Infix("+", Infix("+", x, y), z) : x \in Reads, y \in {Name("a"), Num(2)}, z \in {Name("b")}}

\* The variables an expression reads.
RECURSIVE Names(_)
Names(e) ==
    CASE e.form = "name"  -> {e.x}
      [] e.form = "infix" -> Names(e.left) \cup Names(e.right)
      [] e.form \in {"prefix", "field", "dict"} -> Names(e.of)
      [] e.form = "index" -> Names(e.of) \cup Names(e.key)
      [] e.form = "call"  -> UNION {Names(x) : x \in ToSet(e.args)}
      [] OTHER            -> {}

Parameters == <<"a", "b", "s", "o", "l">>

\* `return e`, `if e: return` before another return, and `b = call("t", k=e)`.
About(s, e) ==
    [x \in DOMAIN s \cup {"expr"} |->
        IF x = "expr" THEN e
        ELSE IF x = "reads" THEN SelectSeq(Parameters, LAMBDA v : v \in Names(e)) ELSE s[x]]

Returning(e) == <<About(Statement("return", 1), e)>>
Deciding(e)  == <<About(Branches(1, <<[Ret(2) EXCEPT !.reads = <<>>]>>, <<>>), e),
                  [Ret(3) EXCEPT !.reads = <<>>]>>

Calling(e)   == <<About(Tool(1), e), [Ret(3) EXCEPT !.reads = <<>>]>>

Expressing ==
    {<<[Graph(body) EXCEPT !.params = Parameters]>> :
        body \in UNION {{Returning(e), Deciding(e)} : e \in Formulas}
                 \cup {Calling(e) : e \in Terms \cup {Infix("+", x, y) : x \in Terms, y \in Terms}}}

-----------------------------------------------------------------------------
\* Answers as they are asked for, and others.
Fenced(m) == <<PythonFence, Program(m), Fence>>

Good == <<Graph(<<Ret(1)>>)>>
Bad  == <<Graph(<<Let(1)>>)>>

Odd == { <<>>, <<Prose>>, <<Program(Good)>>, <<Program(Bad)>>, <<Fence, Program(Good), Fence>>,
         <<Prose, PythonFence, Program(Good), Fence, Prose>>, <<PythonFence, Program(Good)>>,
         <<Fence, Prose, Fence, PythonFence, Program(Good), Fence>>,
         <<Prose, Fence, Program(Bad), PythonFence, Program(Good)>>,
         <<PythonFence, Prose, Program(Good), Fence>>, <<PythonFence, Fence>> }

AllAnswers == {Fenced(m) : m \in Shapes \cup Expressing} \cup Odd
NextAnswers == {Fenced(Good), Fenced(Bad), Fenced(<<>>)} \cup Odd

AnswersAt(n) == IF n = 1 THEN AllAnswers ELSE NextAnswers
=============================================================================
