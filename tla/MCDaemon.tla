------------------------------ MODULE MCDaemon ------------------------------
(* Finite instances of Daemon. *)
EXTENDS Daemon, TLC

CONSTANTS w1, w2, w3, a, m1, m2

\* Registration lists: one tool; a tool followed by a nameless one.
OneTool    == {<<a>>}
WithBlank  == {<<a>>, <<a, BlankTool>>}
SameMachine == [w \in Workers |-> m1]
OwnMachine  == [w \in Workers |-> IF w = w1 THEN m1 ELSE m2]

CallSymmetry == Permutations(Calls)
WorkerSymmetry == Permutations(Workers)
=============================================================================
