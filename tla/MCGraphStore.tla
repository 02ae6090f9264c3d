---------------------------- MODULE MCGraphStore ----------------------------
(* Instances of GraphStore for TLC. *)
EXTENDS GraphStore, TLC

CONSTANTS g1, A, B, c1, c2, c3, server, cli

\* c3 is a CLI command, the others are requests of the server.
ServerAndCommand == [c \in Clients |-> IF c = c3 THEN cli ELSE server]

StoreSymmetry == Permutations(Codes) \cup Permutations(Clients \ {c3})
=============================================================================
