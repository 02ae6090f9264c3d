---------------------------- MODULE ServerStore ----------------------------
(***************************************************************************)
(* The graph tables as the requests of one server process see them: its    *)
(* connection lock makes a storage function (tinypipe-storage/src/lib.rs)  *)
(* one step.  GraphStore is the same tables statement by statement.        *)
(*                                                                         *)
(* A plan is named by the code it was compiled from.                       *)
(***************************************************************************)
EXTENDS Naturals, FiniteSets

CONSTANTS
    Graphs,      \* graph ids
    Codes,       \* graph sources that compile
    NameOf,      \* the name each graph is created with; names may repeat
    MaxVersion,  \* bound on version numbers
    None         \* NULL

ASSUME ServerStoreAssumption ==
    /\ IsFiniteSet(Graphs) /\ DOMAIN NameOf = Graphs
    /\ MaxVersion \in Nat
    /\ None \notin Codes \cup Graphs

Versions == 1..MaxVersion
Source   == Codes \cup {None}

VARIABLES
    row,   \* graphs: one row per id (version 0: no such row)
    vers   \* graph_versions: per id and version (code None: no such row)

Row == [version : 0..MaxVersion, code : Source, plan : Source, made : Nat]
Snapshot == [code : Source, plan : Source]

NoRow     == [version |-> 0, code |-> None, plan |-> None, made |-> 0]
NoVersion == [code |-> None, plan |-> None]

TablesTypeOK ==
    /\ row \in [Graphs -> Row]
    /\ vers \in [Graphs -> [Versions -> Snapshot]]

EmptyTables ==
    /\ row = [g \in Graphs |-> NoRow]
    /\ vers = [g \in Graphs |-> [v \in Versions |-> NoVersion]]

Exists(g)    == row[g].version # 0
Existing     == {g \in Graphs : Exists(g)}
Stored(g, v) == v \in Versions /\ vers[g][v].code # None
Latest(g)    == CHOOSE n \in 0..MaxVersion :
                    /\ n # 0 => Stored(g, n)
                    /\ \A v \in Versions : Stored(g, v) => v <= n

-----------------------------------------------------------------------------
\* create_graph; made stands for created_at.
CreateGraph(g, code) ==
    /\ row' = [row EXCEPT ![g] = [NoRow EXCEPT !.version = 1, !.code = code,
                                               !.made = Cardinality(Existing) + 1]]
    /\ vers' = [vers EXCEPT ![g][1] = [code |-> code, plan |-> None]]

\* update_graph leaves the row's plan as it is.
UpdateGraph(g, code) ==
    LET v == row[g].version + 1 IN
    /\ row' = [row EXCEPT ![g].code = code, ![g].version = v]
    /\ vers' = [vers EXCEPT ![g][v] = [code |-> code, plan |-> None]]

\* Mutant: the plan goes to the row's version.
SavePlanOfRow(g, v, plan) ==
    /\ row' = [row EXCEPT ![g].plan = plan]
    /\ vers' = [vers EXCEPT ![g][row[g].version].plan = plan]

\* save_plan: the row's plan, whatever its version, and that of version v.
SavePlan(g, v, plan) ==
    /\ row' = [row EXCEPT ![g].plan = plan]
    /\ vers' = IF Stored(g, v) THEN [vers EXCEPT ![g][v].plan = plan] ELSE vers

\* deploy sets active_version, which nothing here reads (see GraphStore).
Deploy(g, v) == UNCHANGED <<row, vers>>

\* Mutant: the row keeps its plan.
RollbackKeepsPlan(g, v) ==
    LET n == Latest(g) + 1 IN
    /\ row' = [row EXCEPT ![g].code = vers[g][v].code, ![g].version = n]
    /\ vers' = [vers EXCEPT ![g][n] = vers[g][v]]

\* rollback: the old code and plan under a new version.
Rollback(g, v) ==
    LET old == vers[g][v]  n == Latest(g) + 1 IN
    /\ row' = [row EXCEPT ![g].code = old.code, ![g].version = n,
                          ![g].plan = IF old.plan # None THEN old.plan ELSE @]
    /\ vers' = [vers EXCEPT ![g][n] = old]

\* find_graph_by_name: the newest graph of that name.
FindByName(name) ==
    {g \in Existing : /\ NameOf[g] = name
                      /\ \A h \in Existing : NameOf[h] = name => row[h].made <= row[g].made}
=============================================================================
