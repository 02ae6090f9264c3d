---------------------------- MODULE MCExecutions ----------------------------
(* Instances of Executions for TLC. *)
EXTENDS Executions, TLC

CONSTANTS g1, A, B, e1, e2, c1, c2, c3, server, cli

OneProcess   == [c \in Clients |-> server]
\* c1 is a request of the server, the others are CLI commands.
TwoProcesses == [c \in Clients |-> IF c = c1 THEN server ELSE cli]

\* Every client a process of its own.
OwnProcess == [c \in Clients |-> c]

ExecSymmetry == Permutations(Execs)
RunnerSymmetry == Permutations(Runners)
=============================================================================
