------------------------------- MODULE FrontEnd -------------------------------
(***************************************************************************)
(* The compiler that Conversation's LLM writes for: graph creation         *)
(* compiles (`compile` of lib.rs) and the editor checks (check_code of     *)
(* auto_repair.rs) the same code.  Each of the three goes through the      *)
(* sanitizer, the transform, the validator and codegen on its own.         *)
(*                                                                         *)
(* An answer is a sequence of fences, programs and prose.  The parameters  *)
(* of Conversation are ResponseFault, ResponseRuns and ResponseResult.     *)
(***************************************************************************)
EXTENDS PlanView, Sanitizer, Expressions, Conversation

CONSTANT
    Inputs        \* the context a run starts from: a value per parameter

-----------------------------------------------------------------------------
(* Responses. *)

\* A piece of an answer: one of two fences, prose, or a program.
PythonFence == [is |-> "python"]
Fence       == [is |-> "fence"]
Prose       == [is |-> "prose"]
Program(m)  == [is |-> "program", module |-> m]

\* The code in an answer: what is between ```python and the next fence, or
\* between the first two fences, or all of an answer without a fence.
extract_code_from_response(t) ==
    LET first(kinds, after) ==
            SelectInSeq([i \in DOMAIN t |-> i > after /\ t[i].is \in kinds], LAMBDA b : b)
        fences == {"python", "fence"}
        python == first({"python"}, 0)
        open   == IF python # 0 /\ first(fences, python) # 0 THEN python ELSE first(fences, 0)
        close  == IF open = 0 THEN 0 ELSE first(fences, open)
    IN  IF open # 0 /\ close # 0 THEN {SubSeq(t, open + 1, close - 1)}
        ELSE IF open = 0 /\ t # <<>> THEN {t} ELSE {}

\* The module a text is: none, unless it is a program and nothing else.
Garbage == <<[do |-> "garbage"]>>

Module(text) ==
    IF text = <<>> THEN <<>>
    ELSE IF Len(text) = 1 /\ text[1].is = "program" THEN text[1].module
    ELSE Garbage

-----------------------------------------------------------------------------
(* The pipeline. *)

\* transform: the first of the errors, if there are any.
TransformError(module) ==
    With(Sanitized(module), LAMBDA errors :
        IF errors # <<>> THEN errors[1]
        ELSE IF ~Transformable(module) THEN "module"
        ELSE IF Transformed(module).failed THEN "statement" ELSE None)

Report(kind, says) == [kind |-> kind, says |-> says]

\* check_code: what is wrong with a module.
check_code(module) ==
    With(TransformError(module), LAMBDA error :
        IF error # None THEN Report("transform", {error})
        ELSE With(Complaints(Transformed(module)), LAMBDA says :
                 IF says # {} THEN Report("validation", says) ELSE None))

\* The plan that codegen makes, and the one it is run from.
Plan(module)  == Lowered(Optimized(Transformed(module)))
Saved(module) == ReadBack(Optimized(Transformed(module)))

\* compile: what is wrong for codegen too.
compile(module) ==
    With(check_code(module), LAMBDA report :
        IF report # None THEN report
        ELSE IF Ordered(Optimized(Transformed(module))) THEN None ELSE Report("codegen", {}))

\* The module of a response.
ModuleOf(response) == Module(CHOOSE t \in extract_code_from_response(response) : TRUE)
Code               == ModuleOf(answer)

\* What a response is sent back with.
NoCode == Report("response", {})

ResponseFault(response) ==
    IF extract_code_from_response(response) = {} THEN NoCode
    ELSE compile(ModuleOf(response))

-----------------------------------------------------------------------------
(* A run of `return e`, of `if e: return True` and `return False`, and of   *)
(* `call(tool, k=e)`, whose value here is what the tool is handed.          *)

Text(e) == Folded(Format(e))

Returned(e) == Evaluate(Text(e), Inputs)

\* The CALC of the condition fails the run, the DECIDE reads it once more.
Branched(e) ==
    IF Evaluate(Text(e), Inputs) = Failed THEN Failed ELSE Truth(Decides(Format(e), Inputs))

\* The CALC of the argument fails the run, though the CALL reads the text itself.
Handed(e) == IF Returned(e) = Failed THEN Failed ELSE Passed(Format(e), Inputs)

Outcome(s) ==
    CASE s.do = "if"   -> Branched(s.expr)
      [] s.do = "call" -> Handed(s.expr)
      [] OTHER         -> Returned(s.expr)

\* The statement of a program that is about its expression.
Formula(module) == Head(Graphs(module)[1].body)
ResponseRuns(response)   == "expr" \in DOMAIN Formula(ModuleOf(response))
ResponseResult(response) == Outcome(Formula(ModuleOf(response)))

-----------------------------------------------------------------------------
(* Properties. *)

\* The sites of the statements of a block that a run may get to, all but `pass`
\* and the two blocks that have no node of their own.  The else of a loop is
\* passed over, and so is a call that an earlier branch of a PARALLEL makes too.
RECURSIVE Due(_)
Sited(s) == IF s.do \in {"pass", "group", "parallel"} THEN {} ELSE {s.site}

SameCall(s, t) ==
    s.do = "call" /\ t.do = "call" /\ <<s.tool, s.reads, s.var>> = <<t.tool, t.reads, t.var>>

Distinct(body) ==
    {i \in DOMAIN body : \A j \in 1..i - 1 : ~SameCall(body[j], body[i])}

DueOf(s) ==
    CASE s.do = "parallel" -> UNION {Due(<<s.body[i]>>) : i \in Distinct(s.body)}
      [] s.do = "for"      -> Sited(s) \cup Due(s.body)
      [] OTHER             -> Sited(s) \cup Due(s.then) \cup Due(s.else) \cup Due(s.body)
                              \cup UNION {Due(c.body) : c \in ToSet(s.cases)}

Due(body) ==
    UNION {DueOf(body[i]) : i \in {k \in DOMAIN body : \A j \in 1..k - 1 : ~Terminal(body[j])}}

Present(p) == UNION {p.nodes[n].marks \cup {p.nodes[n].site} : n \in DOMAIN p.nodes}

\* A program that is accepted runs whole: each statement that a run may get to
\* has a node in the plan that is read back from the store, each edge of which
\* leads from a node to a node, and no value is read there as another one (a
\* branch 0 is a branch, a group 0 a group).  A statement the transform cannot translate
\* notes an error that only the next statement looks for, and the last one's is
\* lost (transform_module returns Ok): the program is refused all the same, for
\* the edge to the node that was never made.
AcceptedIsTranslated ==
    stage = "accepted" =>
        With(Saved(Code), LAMBDA p :
            /\ Due(Head(Graphs(Code)).body) \subseteq Present(p)
            /\ ~Dangling(p)
            /\ p = Plan(Code))

\* A picture of a plan leads where the plan does: from a node that it shows to
\* the nodes that the plan's edges lead to, though nodes that only pass a value
\* on are hidden, and in the summary to their groups.
ViewLeadsWherePlanDoes ==
    stage = "accepted" =>
        With(Saved(Code), LAMBDA p : With(Projected(p), LAMBDA v :
            /\ \A n \in v.nodes : Led(p, n) \cap v.nodes = Shown(v, n)
            /\ LET s == Collapsed(p, v) IN
               \A n \in v.nodes : \A m \in Shown(v, n) :
                   Box(p, m) # Box(p, n) => Box(p, m) \in Shown(s, Box(p, n))))

\* What the editor's check says is what creation says: code that check_code has
\* nothing against compiles, although only compile goes on to codegen, which
\* needs an order of the nodes that the validator, for the edges back to a
\* loop, does not ask for.
ChecksAgree ==
    stage = "answered" /\ extract_code_from_response(answer) # {} =>
        (check_code(Code) = None) = (compile(Code) = None)

\* The expressions the VM reads the way they are written (README): one operator
\* on numbers, names, strings that hold no code, and what is read out of them.
Marks == {">=", "<=", "!=", "==", ">", "<", "+", "-", "*", "/", "not", "range", "len"}
         \cup DOMAIN Words

Inert(e) ==
    /\ e.form = "str"
    /\ ToSet(e.text) \cap (Marks \cup DOMAIN Inputs \cup {Quote}) = {}
    /\ Parsed(e.text) = {}

RECURSIVE IsRead(_)
IsRead(e) ==
    \/ e.form \in {"num", "name"}
    \/ e.form = "field" /\ e.of.form # "num" /\ IsRead(e.of)
    \/ e.form = "index" /\ e.of.form # "num" /\ IsRead(e.of) /\ (IsRead(e.key) \/ Inert(e.key))
    \/ e.form = "call" /\ e.name = "len" /\ IsRead(e.args[1])

IsTerm(op, e) == IsRead(e) \/ (op = "+" /\ Inert(e))

IsSum(e) ==
    \/ IsRead(e) \/ Inert(e) \/ e.form = "bool"
    \/ /\ e.form = "infix"
       /\ e.op \in {"+", "-", "*", "/"}
       /\ IsTerm(e.op, e.left)
       /\ IsTerm(e.op, e.right)

\* Not between quotes that belong to two strings.
Bare(e) == Head(Format(e)) # Quote \/ Last(Format(e)) # Quote

IsTest(e) ==
    /\ e.form = "infix"
    /\ e.op \in {"==", "!=", "<", ">", "<=", ">="}
    /\ IsSum(e.left) /\ IsSum(e.right) /\ Bare(e)
    /\ Meaning(e.left, Inputs).is \notin {"array", "object"}

RECURSIVE Plain(_)
Plain(e) ==
    CASE e.form = "prefix" -> e.op = "not" /\ Plain(e.of)
      [] e.form = "dict"   -> Plain(e.of)
      [] e.form = "index" /\ e.key.form = "infix" -> IsRead(e.of) /\ IsSum(e.key)
      [] OTHER -> IsSum(e) \/ IsTest(e)

\* Whether the DECIDE sees the condition whole: it takes quotes off both ends.
Whole(e) == Head(Format(e)) # Quote /\ Last(Format(e)) # Quote

\* A run returns what a plain expression means, takes the branch that a
\* plain condition means and hands a tool what a plain argument means: the text that
\* the compiler prints without parentheses and folds, and that the VM takes apart
\* again one operator after the other, has not become another expression on the
\* way.  A string argument of a run that goes through is always the string itself,
\* although there may be a variable of that name (resolve_arg_value).
MeansWhatItSays ==
    stage = "ran" =>
        LET s   == Formula(Code)
            val == Meaning(s.expr, Inputs)
        IN  /\ s.do \in {"return", "call"} /\ Plain(s.expr) /\ val # Failed => value = val
            /\ s.do = "call" /\ s.expr.form = "str" => value \in {val, Failed}
            /\ s.do = "if" /\ Plain(s.expr) /\ Whole(s.expr) /\ val # Failed =>
                   value = Truth(Truthy(val))

\* "`total + c.count` gibi attribute içeren toplamalar numerik olmalı (concat'e
\* düşmemeli)" (test_eval_expression_numeric_with_attr): a sum of numbers, an
\* attribute among them, is no string.
RECURSIVE Parcels(_)
Parcels(e) ==
    IF e.form = "infix" /\ e.op = "+" THEN Parcels(e.left) \cup Parcels(e.right) ELSE {e}

SumsAreNumbers ==
    stage = "ran" =>
        LET e == Formula(Code).expr
        IN  /\ e.form = "infix" /\ e.op = "+"
            /\ \E x \in Parcels(e) : x.form = "field"
            /\ \A x \in Parcels(e) : Meaning(x, Inputs).is = "int"
            => value.is # "str"
=============================================================================
