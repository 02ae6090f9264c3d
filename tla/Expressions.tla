------------------------------ MODULE Expressions ------------------------------
(***************************************************************************)
(* The expressions of a graph's code, from the compiler to the VM.  The    *)
(* compiler prints an expression as text (format_expr in tinypipe-compiler *)
(* /src/transform.rs), the optimizer folds and inlines texts               *)
(* (backend/optimize.rs), and the VM evaluates the text that is left       *)
(* (eval_expression in tinypipe-vm/src/compiled_executor.rs), with no      *)
(* grammar: it looks for one operator after the other, wherever it is.     *)
(*                                                                         *)
(* A text is a sequence of tokens (a word, a numeral, a mark); blanks are  *)
(* left out.  Floats, `$` before a name, single quotes and dots in names   *)
(* are not modelled.                                                       *)
(***************************************************************************)
EXTENDS Integers, Sequences, FiniteSets, SequencesExt, TLC

CONSTANTS
    MaxNumber,   \* i64::MAX
    MaxExact     \* 2^53, up to which an f64 is exact

ASSUME NumbersAssumption ==
    /\ MaxNumber \in Nat /\ MaxExact \in Nat
    /\ MaxExact <= MaxNumber /\ MaxNumber < 2 * MaxExact

Quote == "\""

-----------------------------------------------------------------------------
(* Values. *)

Number(n)  == [is |-> "int", n |-> n]
Truth(b)   == [is |-> "bool", b |-> b]
String(t)  == [is |-> "str", text |-> t]
Array(s)   == [is |-> "array", items |-> s]
Object(f)  == [is |-> "object", of |-> f]
Null       == [is |-> "null"]
Failed     == [is |-> "error"]

Fits(n) == -MaxNumber - 1 <= n /\ n <= MaxNumber

\* `n as f64 as i64`: beyond 2^53 the even neighbour, whose half is even on a
\* tie; the cast back stops at the greatest number.
Through(n) ==
    LET even == IF n % 2 = 0 THEN n ELSE IF (n \div 2) % 2 = 0 THEN n - 1 ELSE n + 1
    IN  IF n \in -MaxExact..MaxExact THEN n ELSE IF even > MaxNumber THEN MaxNumber ELSE even

Truthy(val) ==
    CASE val.is = "bool" -> val.b
      [] val.is = "null" -> FALSE
      [] val.is = "int"  -> val.n # 0
      [] val.is = "str"  -> val.text # <<>>
      [] OTHER           -> TRUE

\* values_equal
Same(a, b) == a.is = b.is /\ a.is \notin {"array", "object"} /\ a = b

\* compare_values: as floats, and FALSE for what is not a number.
Holds(op, a, b) ==
    CASE op = "==" -> Same(a, b)
      [] op = "!=" -> ~Same(a, b)
      [] OTHER -> /\ a.is = "int" /\ b.is = "int"
                  /\ LET x == Through(a.n)
                         y == Through(b.n)
                     IN  \/ op = ">"  /\ x > y
                         \/ op = "<"  /\ x < y
                         \/ op = ">=" /\ x >= y
                         \/ op = "<=" /\ x <= y

\* The quotient of i64, which drops the fraction.
Quotient(a, b) ==
    LET abs(n) == IF n < 0 THEN -n ELSE n
        q == abs(a) \div abs(b)
    IN  IF (a < 0) = (b < 0) THEN q ELSE -q

\* checked_add and the like: the result, or nothing.
Checked(op, a, b) ==
    LET all == CASE op = "+" -> {a + b}
                 [] op = "-" -> {a - b}
                 [] op = "*" -> {a * b}
                 [] op = "/" -> IF b = 0 THEN {} ELSE {Quotient(a, b)}
    IN  {n \in all : Fits(n)}

-----------------------------------------------------------------------------
(* Texts. *)

Opening == {"(", "[", "{"}
Closing == {")", "]", "}"}

Numeral(n) == IF n < 0 THEN <<"-", ToString(-n)>> ELSE <<ToString(n)>>

\* str::parse::<i64>: the numbers that are written so.
Parsed(t) ==
    IF Len(t) \in {1, 2} THEN {n \in (-MaxNumber - 1)..MaxNumber : Numeral(n) = t} ELSE {}

At(t, w)     == SelectInSeq(t, LAMBDA x : x = w)
Before(t, i) == SubSeq(t, 1, i - 1)
After(t, i)  == SubSeq(t, i + 1, Len(t))

\* find_matching_bracket: where the bracket at `open` is closed, or 0.
Matching(t, open) ==
    LET Step(s, i) ==
            IF s.at # 0 THEN s
            ELSE IF s.quoted THEN [s EXCEPT !.quoted = t[i] # Quote]
            ELSE CASE t[i] = Quote       -> [s EXCEPT !.quoted = TRUE]
                   [] t[i] \in Opening   -> [s EXCEPT !.depth = @ + 1]
                   [] t[i] \in Closing   -> [s EXCEPT !.depth = @ - 1,
                                                      !.at = IF s.depth = 1 THEN i ELSE 0]
                   [] OTHER              -> s
    IN  FoldLeft(Step, [at |-> 0, quoted |-> FALSE, depth |-> 1],
                 [k \in 1..Len(t) - open |-> open + k]).at

\* split_top_level_commas
Parts(t) ==
    LET Step(s, w) ==
            IF s.quoted THEN [s EXCEPT !.part = Append(@, w), !.quoted = w # Quote]
            ELSE IF w = "," /\ s.depth = 0 THEN [s EXCEPT !.parts = Append(@, s.part), !.part = <<>>]
            ELSE [s EXCEPT !.part = Append(@, w), !.quoted = w = Quote,
                           !.depth = CASE w \in Opening -> @ + 1
                                       [] w \in Closing -> @ - 1
                                       [] OTHER         -> @]
        end == FoldLeft(Step, [parts |-> <<>>, part |-> <<>>, depth |-> 0, quoted |-> FALSE], t)
    IN  IF end.part = <<>> THEN end.parts ELSE Append(end.parts, end.part)

\* is_concat_expr
IsConcat(t) == \E i \in 1..Len(t) - 1 : t[i] = Quote /\ t[i + 1] = "+"

\* trim_quotes
RECURSIVE Trimmed(_)
Trimmed(t) ==
    IF t = <<>> THEN t
    ELSE IF Head(t) = Quote THEN Trimmed(Tail(t))
    ELSE IF Last(t) = Quote THEN Trimmed(Front(t))
    ELSE t

\* A text in quotes, whatever is between them.
Quoted(t) ==
    /\ Len(t) >= 2 /\ Head(t) = Quote /\ Last(t) = Quote
    /\ IsConcat(t) => \A i \in 2..Len(t) - 1 : t[i] # Quote

\* concat_part
Printable(val) == val.is \in {"bool", "int", "str"}
Printed(val) ==
    CASE val.is = "int"  -> Numeral(val.n)
      [] val.is = "str"  -> val.text
      [] val.is = "bool" -> <<IF val.b THEN "true" ELSE "false">>
      [] OTHER           -> <<>>
-----------------------------------------------------------------------------
(* split_accessors: a base and the fields and indices read from it, one out *)
(* of the other.  What stands between two of them is passed over.           *)

NoAccessors == [base |-> <<>>, steps |-> <<>>]

Field(t) == [kind |-> "field", text |-> t]
Index(t) == [kind |-> "index", text |-> t]

\* Where the name after the dot at i ends.
NameEnd(t, i) ==
    LET stops == {j \in i + 1..Len(t) : t[j] \in {".", "["}}
    IN  IF stops = {} THEN Len(t) + 1 ELSE CHOOSE j \in stops : \A k \in stops : j <= k

\* `next` is the first token that no accessor has taken yet.
RECURSIVE Walked(_, _, _)
Walked(t, i, w) ==
    LET taken(step, j) ==
            Walked(t, j, [w EXCEPT !.steps = Append(@, step), !.next = j,
                                   !.base = IF w.steps = <<>> THEN Before(t, i) ELSE @])
        close == Matching(t, i)
        name  == NameEnd(t, i)
    IN  IF i > Len(t)
        THEN IF w.steps # <<>> /\ w.next > Len(t) THEN w ELSE NoAccessors
        ELSE IF w.quoted THEN Walked(t, i + 1, [w EXCEPT !.quoted = t[i] # Quote])
        ELSE IF t[i] = Quote THEN Walked(t, i + 1, [w EXCEPT !.quoted = TRUE])
        ELSE IF t[i] = "[" /\ w.depth = 0 /\ i > 1
        THEN IF close <= i + 1 THEN NoAccessors ELSE taken(Index(SubSeq(t, i + 1, close - 1)), close + 1)
        ELSE IF t[i] = "." /\ w.depth = 0 /\ i \in 2..Len(t) - 1
        THEN IF name = i + 1 THEN NoAccessors ELSE taken(Field(SubSeq(t, i + 1, name - 1)), name)
        ELSE Walked(t, i + 1, [w EXCEPT !.depth = CASE t[i] \in Opening -> @ + 1
                                                    [] t[i] \in Closing -> @ - 1
                                                    [] OTHER            -> @])

Accessors(t) == Walked(t, 1, [base |-> <<>>, steps |-> <<>>, next |-> 1, depth |-> 0, quoted |-> FALSE])

\* An element by its place, from the end if the place is negative.
Element(val, n) ==
    LET i == IF n < 0 THEN Len(val.items) + n ELSE n
    IN  IF i \in 0..Len(val.items) - 1 THEN val.items[i + 1] ELSE Failed

Member(val, name) == IF name \in DOMAIN val.of THEN val.of[name] ELSE Failed

\* val.name
ReadField(val, name) ==
    CASE val.is = "object" -> Member(val, name)
      [] val.is = "array" /\ \E n \in Parsed(name) : n >= 0 ->
             Element(val, CHOOSE n \in Parsed(name) : TRUE)
      [] OTHER -> Failed

\* val[key]
ReadIndex(val, key) ==
    CASE val.is = "array" /\ key.is = "int"  -> Element(val, key.n)
      [] val.is = "object" /\ key.is = "str" -> Member(val, key.text)
      [] val.is = "object" /\ key.is = "int" -> Member(val, Numeral(key.n))
      [] OTHER -> Failed

-----------------------------------------------------------------------------
(* eval_expression *)

\* Mutant: any bracket at the end is taken for the one that closes the first.
AppliedLoosely(t, name) ==
    Len(t) >= 3 /\ t[1] = name /\ t[2] = "(" /\ Last(t) = ")"

\* The word `name` and a bracket that is closed at the very end.
Applied(t, name) ==
    Len(t) >= 3 /\ t[1] = name /\ t[2] = "(" /\ Matching(t, 2) = Len(t)

\* How often range(...) runs a loop; the loop counts from 0 (run_loop).
Rounds(nums) ==
    CASE Len(nums) = 1 -> Number(nums[1])
      [] Len(nums) = 2 -> Number(nums[2] - nums[1])
      [] Len(nums) = 3 /\ nums[3] > 0 ->
             Number((IF nums[2] < nums[1] THEN 0 ELSE nums[2] - nums[1]) \div nums[3])
      [] OTHER -> Failed

Length(val) ==
    CASE val.is = "array"  -> Number(Len(val.items))
      [] val.is = "str"    -> Number(Len(val.text))
      [] val.is = "object" -> Number(Cardinality(DOMAIN val.of))
      [] OTHER -> Failed

Words == [w \in {"true", "True", "false", "False", "null", "None"} |->
             IF w \in {"true", "True"} THEN Truth(TRUE)
             ELSE IF w \in {"false", "False"} THEN Truth(FALSE) ELSE Null]

\* The first of the operators that has something on both of its sides.
Comparison(t) ==
    SelectInSeq(<<">=", "<=", "!=", "==", ">", "<">>,
                LAMBDA op : At(t, op) \in 2..Len(t) - 1)

Operator(i) == <<">=", "<=", "!=", "==", ">", "<">>[i]

RECURSIVE Evaluate(_, _)

\* resolve_numeric: the numbers an operand stands for, one or none.
Numeric(t, ctx) ==
    LET named == IF Len(t) = 1 /\ t[1] \in DOMAIN ctx THEN {ctx[t[1]]} ELSE {}
        read  == IF \E i \in DOMAIN t : t[i] \in {".", "[", "("} THEN {Evaluate(t, ctx)} ELSE {}
        ints(vals) == {Through(val.n) : val \in {x \in vals : x.is = "int"}}
    IN  IF Parsed(t) # {} THEN Parsed(t)
        ELSE IF ints(named) # {} THEN ints(named) ELSE ints(read)

\* What the first operator makes of the numbers on both its sides; `+` is
\* looked for before `-`, `*` and `/`.
Arithmetic(t, ctx) ==
    LET of(op) == IF At(t, op) \notin 2..Len(t) - 1 THEN {}
                  ELSE UNION {Checked(op, a, b) : a \in Numeric(Before(t, At(t, op)), ctx),
                                                  b \in Numeric(After(t, At(t, op)), ctx)}
        ops == SelectSeq(<<"+", "-", "*", "/">>, LAMBDA op : of(op) # {})
    IN  IF ops = <<>> THEN {} ELSE of(Head(ops))

\* The texts on both sides of the first `+`, joined.
Joined(t, ctx) ==
    LET plus == At(t, "+")
        a == Evaluate(Before(t, plus), ctx)
        b == Evaluate(After(t, plus), ctx)
    IN  IF plus \notin 2..Len(t) - 1 THEN {}
        ELSE IF a # Failed /\ b # Failed /\ (Printable(a) \/ Printable(b))
        THEN {String(Printed(a) \o Printed(b))} ELSE {}

\* The chain's value; an index that does not evaluate fails the whole text,
\* any other failure leaves a quoted text what it is.
Reached(t, quoted, ctx) ==
    LET chain == Accessors(t)
        else  == IF quoted THEN String(t) ELSE Failed
        Step(s, step) ==
            IF s.over THEN s
            ELSE LET key  == Evaluate(step.text, ctx)
                     next == IF step.kind = "field" THEN ReadField(s.val, step.text)
                             ELSE ReadIndex(s.val, key)
                 IN  IF step.kind = "index" /\ key = Failed THEN [over |-> TRUE, val |-> Failed]
                     ELSE IF next = Failed THEN [over |-> TRUE, val |-> else]
                     ELSE [over |-> FALSE, val |-> next]
        base == Evaluate(chain.base, ctx)
    IN  IF chain.steps = <<>> \/ base = Failed THEN else
        ELSE FoldLeft(Step, [over |-> FALSE, val |-> base], chain.steps).val

Dictionary(t, ctx) ==
    LET parts == Parts(SubSeq(t, 2, Len(t) - 1))
        key(p) == Trimmed(Before(p, At(p, ":")))
        val(p) == Evaluate(After(p, At(p, ":")), ctx)
        last(k) == val(parts[CHOOSE i \in DOMAIN parts :
                               /\ key(parts[i]) = k
                               /\ \A j \in DOMAIN parts : key(parts[j]) = k => j <= i])
    IN  IF \E p \in ToSet(parts) : At(p, ":") = 0 \/ key(p) = <<>> \/ val(p) = Failed THEN Failed
        ELSE Object([k \in {key(p) : p \in ToSet(parts)} |-> last(k)])

LoopCount(t, ctx) ==
    LET args == [i \in DOMAIN Parts(SubSeq(t, 3, Len(t) - 1)) |->
                    Evaluate(Parts(SubSeq(t, 3, Len(t) - 1))[i], ctx)]
    IN  IF \A a \in ToSet(args) : a.is = "int" THEN Rounds([i \in DOMAIN args |-> args[i].n])
        ELSE Failed

Compared(t, ctx) ==
    LET op == Operator(Comparison(t))
        a  == Evaluate(Before(t, At(t, op)), ctx)
        b  == Evaluate(After(t, At(t, op)), ctx)
    IN  IF a = Failed \/ b = Failed THEN Failed ELSE Truth(Holds(op, a, b))

Negated(val) == IF val = Failed THEN Failed ELSE Truth(~Truthy(val))

\* A text that is no number, name or operation on such.
Evaluate(text, ctx) ==
    LET quoted == Quoted(text)
        t == IF quoted THEN SubSeq(text, 2, Len(text) - 1) ELSE text
    IN  IF t = <<>> THEN Null
        ELSE IF Applied(t, "range") THEN LoopCount(t, ctx)
        ELSE IF ~quoted /\ Applied(t, "len") /\ Len(t) > 3
        THEN Length(Evaluate(SubSeq(t, 3, Len(t) - 1), ctx))
        ELSE IF Len(t) = 1 /\ t[1] \in DOMAIN Words THEN Words[t[1]]
        ELSE IF ~quoted /\ t[1] = "{" /\ Last(t) = "}" THEN Dictionary(t, ctx)
        ELSE IF t[1] = "not" /\ Len(t) > 1 THEN Negated(Evaluate(Tail(t), ctx))
        ELSE IF Comparison(t) # 0 THEN Compared(t, ctx)
        ELSE IF Parsed(t) # {} THEN Number(CHOOSE n \in Parsed(t) : TRUE)
        ELSE IF Len(t) = 1 /\ t[1] \in DOMAIN ctx THEN ctx[t[1]]
        ELSE IF Arithmetic(t, ctx) # {} THEN Number(CHOOSE n \in Arithmetic(t, ctx) : TRUE)
        ELSE IF Joined(t, ctx) # {} THEN CHOOSE val \in Joined(t, ctx) : TRUE
        ELSE Reached(t, quoted, ctx)

\* resolve_arg_value: what a tool is handed for the text of an argument.  A quoted
\* text is itself, whatever variables there are; a text that does not evaluate is
\* handed on as it is written.
Passed(text, ctx) ==
    LET clean == Trimmed(text)
        quoted == Head(text) = Quote /\ Last(text) = Quote
        val == Evaluate(text, ctx)
    IN  IF quoted /\ ~IsConcat(text) THEN String(clean)
        ELSE IF Len(clean) = 1 /\ clean[1] \in DOMAIN ctx THEN ctx[clean[1]]
        ELSE IF val # Failed /\ (IsConcat(text) \/ ~quoted) THEN val
        ELSE IF quoted THEN String(clean) ELSE String(text)

\* How the VM's DECIDE reads its condition: the text without the quotes at its
\* ends, and FALSE for a text that does not evaluate.
Decides(text, ctx) ==
    LET val == Evaluate(Trimmed(text), ctx) IN val # Failed /\ Truthy(val)

-----------------------------------------------------------------------------
(* Expressions, and their texts. *)

Num(n)            == [form |-> "num", n |-> n]
Bool(b)           == [form |-> "bool", b |-> b]
Str(t)            == [form |-> "str", text |-> t]
Name(x)           == [form |-> "name", x |-> x]
Infix(op, a, b)   == [form |-> "infix", op |-> op, left |-> a, right |-> b]
Prefix(op, a)     == [form |-> "prefix", op |-> op, of |-> a]
Attribute(a, x)   == [form |-> "field", of |-> a, name |-> x]
Subscript(a, key) == [form |-> "index", of |-> a, key |-> key]
CallOf(f, args)   == [form |-> "call", name |-> f, args |-> args]
Dict(k, a)        == [form |-> "dict", key |-> k, of |-> a]

\* format_expr: an operation is its parts with the operator between them, and
\* no parentheses.
RECURSIVE Format(_)
Format(e) ==
    CASE e.form = "num"    -> Numeral(e.n)
      [] e.form = "bool"   -> <<IF e.b THEN "true" ELSE "false">>
      [] e.form = "str"    -> <<Quote>> \o e.text \o <<Quote>>
      [] e.form = "name"   -> <<e.x>>
      [] e.form = "infix"  -> Format(e.left) \o <<e.op>> \o Format(e.right)
      [] e.form = "prefix" -> <<e.op>> \o Format(e.of)
      [] e.form = "field"  -> Format(e.of) \o <<".", e.name>>
      [] e.form = "index"  -> Format(e.of) \o <<"[">> \o Format(e.key) \o <<"]">>
      [] e.form = "call"   ->
             <<e.name, "(">>
             \o FlattenSeq([i \in DOMAIN e.args |->
                    (IF i = 1 THEN <<>> ELSE <<",">>) \o Format(e.args[i])])
             \o <<")">>
      [] e.form = "dict"   -> <<"{">> \o Format(e.key) \o <<":">> \o Format(e.of) \o <<"}">>

\* Tokens that no letter is in.
Signs == {Quote, ".", ",", ":", ">=", "<=", "!=", "==", ">", "<", "+", "-", "*", "/", "%"}
         \cup Opening \cup Closing \cup {ToString(n) : n \in 0..MaxNumber + 1}

\* eval_simple_int_expr
Simple(t) ==
    LET of(op) == IF At(t, op) \notin 2..Len(t) - 1 THEN {}
                  ELSE UNION {Checked(op, a, b) : a \in Parsed(Before(t, At(t, op))),
                                                  b \in Parsed(After(t, At(t, op)))}
        ops == SelectSeq(<<"+", "-", "*", "/">>, LAMBDA op : of(op) # {})
    IN  IF Parsed(t) # {} THEN Parsed(t) ELSE IF ops = <<>> THEN {} ELSE of(Head(ops))

\* constant_folding, of the text of one CALC.
Folded(t) ==
    IF ToSet(t) \subseteq Signs /\ Simple(t) # {}
    THEN Numeral(CHOOSE n \in Simple(t) : TRUE) ELSE t

-----------------------------------------------------------------------------
(* What an expression says. *)

Safe(n) == n \in -MaxExact..MaxExact

\* The result of an operation on two numbers, all exact as floats too.
Results(op, a, b) ==
    {n \in (CASE op = "+" -> {a + b}
              [] op = "-" -> {a - b}
              [] op = "*" -> {a * b}
              [] op = "/" -> IF b # 0 /\ Quotient(a, b) * b = a THEN {Quotient(a, b)} ELSE {}
              [] OTHER    -> {}) : Safe(a) /\ Safe(b) /\ Safe(n)}

Operation(op, a, b) ==
    CASE a = Failed \/ b = Failed -> Failed
      [] op \in {"==", "!="} -> Truth((op = "==") = (a = b))
      [] op = "+" /\ {a.is, b.is} \in {{"str"}, {"str", "int"}} -> String(Printed(a) \o Printed(b))
      [] a.is = "int" /\ b.is = "int" /\ op \in {">", "<", ">=", "<="} /\ Safe(a.n) /\ Safe(b.n) ->
             Truth(Holds(op, a, b))
      [] a.is = "int" /\ b.is = "int" /\ Results(op, a.n, b.n) # {} ->
             Number(CHOOSE n \in Results(op, a.n, b.n) : TRUE)
      [] OTHER -> Failed

\* The value of an expression in an environment: its parts first, whatever
\* their texts are.  A string and a number are joined (README.md, Quick start).
RECURSIVE Meaning(_, _)
Meaning(e, ctx) ==
    CASE e.form = "num"  -> Number(e.n)
      [] e.form = "bool" -> Truth(e.b)
      [] e.form = "str"  -> String(e.text)
      [] e.form = "name" -> IF e.x \in DOMAIN ctx THEN ctx[e.x] ELSE Failed
      [] e.form = "infix" /\ e.op \in {"and", "or"} ->
             LET a == Meaning(e.left, ctx) IN
             IF a = Failed \/ Truthy(a) = (e.op = "or") THEN a ELSE Meaning(e.right, ctx)
      [] e.form = "infix" /\ e.op \notin {"and", "or"} ->
             Operation(e.op, Meaning(e.left, ctx), Meaning(e.right, ctx))
      [] e.form = "prefix" /\ e.op = "not" -> Negated(Meaning(e.of, ctx))
      [] e.form = "prefix" /\ e.op = "-" ->
             Operation("-", Number(0), Meaning(e.of, ctx))
      [] e.form = "field" -> ReadField(Meaning(e.of, ctx), <<e.name>>)
      [] e.form = "index" -> ReadIndex(Meaning(e.of, ctx), Meaning(e.key, ctx))
      [] e.form = "call" /\ e.name = "len" -> Length(Meaning(e.args[1], ctx))
      [] e.form = "call" /\ e.name # "len" -> Failed
      [] e.form = "dict" ->
             LET val == Meaning(e.of, ctx)
             IN  IF val = Failed THEN Failed ELSE Object(e.key.text :> val)
=============================================================================
