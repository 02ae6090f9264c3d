------------------------------ MODULE Sanitizer ------------------------------
(***************************************************************************)
(* The rules of the code of a graph: `sanitize` of tinypipe-compiler/src   *)
(* /sanitizer.rs.  A module is a sequence of statements (Transform).  Of   *)
(* the expressions of a statement only what a rule is about is kept, as    *)
(* `uses`, in the order in which the parts of the expressions are visited. *)
(* The engine is a fold over the statements; an error names its rule.      *)
(***************************************************************************)
EXTENDS Transform

\* A part of an expression that a rule is about: a call, or another form.
Uses(form)                  == [form |-> form, callee |-> "none", name |-> "none", literal |-> FALSE]
Calls(callee, name, literal) == [form |-> "call", callee |-> callee, name |-> name, literal |-> literal]

ForbiddenForms ==
    {"lambda", "walrus", "yield", "await", "comprehension", "f-string", "slice", "starred"}

BLOCKED_BUILTINS ==
    {"eval", "exec", "__import__", "open", "compile", "globals", "locals", "vars", "dir", "input",
     "exit", "quit", "breakpoint", "getattr", "setattr", "delattr", "hasattr", "memoryview",
     "bytearray", "super", "staticmethod", "classmethod", "property"}
BLOCKED_METHODS == {"system", "popen", "Popen", "fork", "execve", "execvp", "execl", "spawn"}

Dunders  == {"__import__", "__init__"}    \* of the names that calls are made with
Reserved == {"META", "GROUP", "PARALLEL"}

\* check_call, for a function that is a name or an attribute, or neither.
Refuses(c) ==
    \/ c.callee = "dynamic"
    \/ c.name \in BLOCKED_BUILTINS \cup Dunders \cup Reserved
    \/ c.callee = "attribute" /\ c.name \in BLOCKED_METHODS
    \/ c.name \in {"call", "act"} /\ ~c.literal

Forbidden(u) == IF u.form = "call" THEN Refuses(u) ELSE u.form \in ForbiddenForms

ForbiddenStatements ==
    {"import", "class", "while", "try", "async", "global", "nonlocal", "del", "with", "type"}

\* The engine: its errors, the names assigned outside of PARALLEL, and how deep
\* it is in what.
Engine == [errors |-> <<>>, names |-> {}, function |-> 0, loop |-> 0, parallel |-> 0, group |-> 0]

Note(w, wrong, rule) == IF wrong THEN [w EXCEPT !.errors = Append(@, rule)] ELSE w

\* visit_expr, of all the expressions of a statement.
Expressed(w, s) ==
    FoldLeft(LAMBDA x, u : Note(x, Forbidden(u), u.form), w, s.uses)

\* record_assignment_target
Recorded(w, s) ==
    LET noted == Note(w, w.parallel > 0 /\ s.var \in w.names, "data race")
    IN  IF w.parallel = 0 THEN [noted EXCEPT !.names = @ \cup {s.var}] ELSE noted

Assigned(w, s) ==
    IF s.do \in Binding /\ s.var # None /\ s.target # "other" THEN Recorded(w, s) ELSE w

\* META(...): only outside of a function.
MetaRules(w, s) ==
    IF w.function > 0 THEN Note(w, TRUE, "meta in a function")
    ELSE Note(w, ~s.constant, "meta")

\* validate_group_item
Titled(w, s) ==
    Note(IF w.group > 0 THEN Note(w, TRUE, "nested group") ELSE w, ~s.constant, "group")

\* What is wrong with a statement itself.
Judged(w, s) ==
    CASE s.do \in ForbiddenStatements    -> Note(w, TRUE, s.do)
      [] s.do = "return"                 -> Note(w, w.function = 0, "return")
      [] s.do \in {"break", "continue"}  -> Note(w, w.loop = 0, s.do)
      [] OTHER                           -> Assigned(w, s)

\* A block, with a depth one more while it is visited.
RECURSIVE Visit(_, _)
Visited(w, body) == FoldLeft(LAMBDA x, s : Visit(x, s), w, body)

Grouping(w, s) ==
    [Visited([Titled(w, s) EXCEPT !.group = @ + 1], s.body) EXCEPT !.group = w.group]

Branching(w, s) == [Visited([w EXCEPT !.parallel = @ + 1], s.body) EXCEPT !.parallel = w.parallel]

\* The defaults and the annotations of the parameters are not visited.
Function(w, s) ==
    LET named == Note(w, w.function > 0 \/ s.var # "graph", "function")
        plain == Note(named, ~s.constant, "decorator")
    IN  [Visited(Expressed([plain EXCEPT !.function = @ + 1], s), s.body)
            EXCEPT !.function = w.function]

\* The parts of a match (its cases) and of a try (its handlers).
Cased(w, s) == FoldLeft(LAMBDA x, c : Visited(x, c.body), w, s.cases)

\* The blocks of the other statements: of an if and of a for both blocks.
Inside(w, s) == Cased(Visited(Visited(Visited(w, s.then), s.body), s.else), s)

Looping(w, s) ==
    [Inside(Expressed([w EXCEPT !.loop = @ + 1], s), s) EXCEPT !.loop = w.loop]

\* visit_stmt and walk_stmt_children
Visit(w, s) ==
    CASE s.do = "meta"     -> MetaRules(w, s)
      [] s.do = "group"    -> Grouping(w, s)
      [] s.do = "parallel" -> Branching(w, s)
      [] s.do = "def"      -> Function(w, s)
      [] s.do = "for"      -> Looping(w, s)
      [] OTHER             -> Inside(Expressed(Judged(w, s), s), s)

\* sanitize: the rules a module breaks, in the order in which they are found.
\* Code that is no module breaks one.
Sanitized(module) ==
    IF \E s \in ToSet(module) : s.do = "garbage" THEN <<"parse">>
    ELSE Visited(Engine, module).errors
=============================================================================
