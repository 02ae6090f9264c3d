----------------------------- MODULE GraphStore -----------------------------
(***************************************************************************)
(* The graph tables (tinypipe-storage/src/lib.rs) and the operations of    *)
(* the server and the CLI on them.  Each storage function holds its        *)
(* process's connection lock, but there is no transaction: every SQL       *)
(* statement commits on its own.  One action is one statement, so that     *)
(* another process, or a crash, comes between any two; clients of one      *)
(* process come between storage functions only.                            *)
(*                                                                         *)
(* Compilation is a function of the code: a plan is named by the code it   *)
(* was compiled from.  Code that does not compile never reaches a table.   *)
(***************************************************************************)
EXTENDS Naturals, FiniteSets

CONSTANTS
    Graphs,      \* graph ids
    Codes,       \* graph sources
    Clients,     \* requests and CLI commands in progress
    Processes,   \* the server and the CLI processes that share the file
    ProcessOf,   \* the process of each client
    Mortal,      \* the processes that may be killed
    Forked,      \* the graph ids that fork_graph may make
    MaxVersion,  \* bound on version numbers
    None         \* NULL

ASSUME GraphStoreAssumption ==
    /\ ProcessOf \in [Clients -> Processes]
    /\ Mortal \subseteq Processes /\ Forked \subseteq Graphs
    /\ MaxVersion \in Nat
    /\ None \notin Codes \cup Graphs

Versions == 1..MaxVersion
Source   == Codes \cup {None}

VARIABLES
    row,      \* graphs: one row per id (version 0: no such row)
    vers,     \* graph_versions: per id and version (code None: no such row)
    client,   \* the requests: where each is and its local variables
    trouble   \* history: what has happened that the code has no defence against

dataVars  == <<row, vers, client>>
storeVars == <<row, vers, client, trouble>>

Row == [version : 0..MaxVersion, code : Source, plan : Source, active : 0..MaxVersion]
Snapshot == [code : Source, plan : Source]

\* Positions inside a storage function, between two of its statements.
InStore == {"createVersion", "forkVersion", "updateHead", "updateInsert", "saveVersion",
            "deploySet", "rollbackMax", "rollbackHead", "rollbackInsert", "rollbackPlan",
            "rollbackActive", "rollbackSet"}
At == InStore \cup {"idle", "forkInsert", "save", "loadPlan", "loaded", "listVersions"}

Client == [at : At, then : {"idle", "loaded"}, g : Graphs \cup {None},
           version : 0..MaxVersion, code : Source, plan : Source]

\* A request at work on (version v of) a graph, with the code it was given or read.
Request(at, g, v, code) == [at |-> at, then |-> "idle", g |-> g, version |-> v,
                            code |-> code, plan |-> None]
Idle == Request("idle", None, 0, None)

\* A request's locals are set before they are used.
LocalsSet(r) ==
    /\ r.at # "idle" => r.g \in Graphs
    /\ r.at \in {"createVersion", "forkVersion", "updateHead", "updateInsert", "save",
                 "saveVersion", "rollbackHead", "rollbackInsert", "rollbackPlan", "loadPlan",
                 "loaded"} =>
         r.version \in Versions /\ r.code \in Codes
    /\ r.at \in {"deploySet", "listVersions", "rollbackActive", "rollbackSet"} =>
         r.version \in Versions
    /\ r.at = "rollbackMax" => r.code \in Codes
    /\ r.at = "loaded" => r.plan \in Codes

StoreTyped ==
    /\ row \in [Graphs -> Row]
    /\ vers \in [Graphs -> [Versions -> Snapshot]]
    /\ client \in [Clients -> Client]
    /\ \A c \in Clients : LocalsSet(client[c])

TypeOK == StoreTyped /\ trouble \subseteq {"killed", "processes"}

Init ==
    /\ row = [g \in Graphs |-> [version |-> 0, code |-> None, plan |-> None, active |-> 0]]
    /\ vers = [g \in Graphs |-> [v \in Versions |-> [code |-> None, plan |-> None]]]
    /\ client = [c \in Clients |-> Idle]
    /\ trouble = {}

-----------------------------------------------------------------------------
(* Helpers *)

Exists(g)     == row[g].version # 0
Stored(g, v)  == v \in Versions /\ vers[g][v].code # None
\* n is MAX(version), 0 when there is none.
LatestIs(g, n) == /\ n # 0 => Stored(g, n)
                  /\ \A v \in Versions : Stored(g, v) => v <= n

\* The connection lock: no other client of the process is inside a function.
Locked(c) == \E d \in Clients \ {c} :
                ProcessOf[d] = ProcessOf[c] /\ client[d].at \in InStore

Go(c, at)  == client' = [client EXCEPT ![c].at = at]
Return(c)  == client' = [client EXCEPT ![c] = Idle]

\* Mutant: INSERT OR REPLACE.
InsertOrReplace(c, plan, next) ==
    LET g == client[c].g  v == client[c].version IN
    /\ vers' = [vers EXCEPT ![g][v] = [code |-> client[c].code, plan |-> plan]]
    /\ IF next = "idle" THEN Return(c) ELSE Go(c, next)

\* INSERT INTO graph_versions; the primary key refuses a second row.
InsertVersion(c, plan, next) ==
    LET g == client[c].g  v == client[c].version IN
    IF Stored(g, v)
    THEN Return(c) /\ UNCHANGED vers
    ELSE /\ vers' = [vers EXCEPT ![g][v] = [code |-> client[c].code, plan |-> plan]]
         /\ IF next = "idle" THEN Return(c) ELSE Go(c, next)

-----------------------------------------------------------------------------
(* create_graph and create_fork_graph *)

\* Ids are fresh UUIDs: a graph is created once.
CreateRow(c, g, code, next) ==
    /\ ~Exists(g)
    /\ \A d \in Clients \ {c} : client[d].g # g
    /\ row' = [row EXCEPT ![g] = [version |-> 1, code |-> code, plan |-> None, active |-> 0]]
    /\ client' = [client EXCEPT ![c] = Request(next, g, 1, code)]
    /\ UNCHANGED vers

Create(c, g, code) ==
    /\ client[c].at = "idle" /\ ~Locked(c)
    /\ 1 <= MaxVersion
    /\ CreateRow(c, g, code, "createVersion")

CreateVersion(c) ==
    /\ client[c].at = "createVersion"
    /\ InsertVersion(c, None, "save")
    /\ UNCHANGED row

\* fork_graph stores no plan for the child.  (The parent, which need not be one of
\* Graphs, only gives it a name.)
Fork(c, g, code) ==
    /\ client[c].at = "idle" /\ ~Locked(c)
    /\ g \in Forked
    /\ 1 <= MaxVersion
    /\ CreateRow(c, g, code, "forkVersion")

ForkVersion(c) ==
    /\ client[c].at = "forkVersion"
    /\ InsertVersion(c, None, "idle")
    /\ UNCHANGED row

-----------------------------------------------------------------------------
(* update_graph, then save_plan *)

Update(c, g, code) ==
    /\ client[c].at = "idle" /\ ~Locked(c)
    /\ Exists(g)
    /\ row[g].version < MaxVersion
    /\ client' = [client EXCEPT ![c] = Request("updateHead", g, row[g].version + 1, code)]
    /\ UNCHANGED <<row, vers>>

\* Mutant: the row keeps its version number.
UpdateHeadCodeOnly(c) ==
    /\ client[c].at = "updateHead"
    /\ row' = [row EXCEPT ![client[c].g].code = client[c].code]
    /\ Go(c, "updateInsert")
    /\ UNCHANGED vers

UpdateHead(c) ==
    /\ client[c].at = "updateHead"
    /\ row' = [row EXCEPT ![client[c].g].code = client[c].code,
                          ![client[c].g].version = client[c].version]
    /\ Go(c, "updateInsert")
    /\ UNCHANGED vers

UpdateInsert(c) ==
    /\ client[c].at = "updateInsert"
    /\ InsertVersion(c, None, "save")
    /\ UNCHANGED row

\* save_plan, first statement: the row's plan, whatever version the row is at.
SavePlan(c) ==
    /\ client[c].at = "save" /\ ~Locked(c)
    /\ row' = [row EXCEPT ![client[c].g].plan = client[c].code]
    /\ Go(c, "saveVersion")
    /\ UNCHANGED vers

\* Mutant: the plan goes to the latest version instead of the given one.
SaveLatest(c) ==
    LET g == client[c].g  v == CHOOSE n \in 0..MaxVersion : LatestIs(g, n) IN
    /\ client[c].at = "saveVersion"
    /\ vers' = IF Stored(g, v) THEN [vers EXCEPT ![g][v].plan = client[c].code] ELSE vers
    /\ IF client[c].then = "idle" THEN Return(c)
       ELSE client' = [client EXCEPT ![c].at = "loaded", ![c].plan = client[c].code]
    /\ UNCHANGED row

\* ... second statement: an UPDATE, which does nothing to a missing row.
SaveVersion(c) ==
    LET g == client[c].g  v == client[c].version IN
    /\ client[c].at = "saveVersion"
    /\ vers' = IF Stored(g, v) THEN [vers EXCEPT ![g][v].plan = client[c].code] ELSE vers
    /\ IF client[c].then = "idle" THEN Return(c)
       ELSE client' = [client EXCEPT ![c].at = "loaded", ![c].plan = client[c].code]
    /\ UNCHANGED row

-----------------------------------------------------------------------------
(* deploy *)

\* Mutant: any version number can be deployed.
DeployUnchecked(c, g, v) ==
    /\ client[c].at = "idle" /\ ~Locked(c)
    /\ Exists(g)
    /\ client' = [client EXCEPT ![c] = Request("deploySet", g, v, None)]
    /\ UNCHANGED <<row, vers>>

Deploy(c, g, v) ==
    /\ client[c].at = "idle" /\ ~Locked(c)
    /\ Stored(g, v)
    /\ client' = [client EXCEPT ![c] = Request("deploySet", g, v, None)]
    /\ UNCHANGED <<row, vers>>

DeploySet(c) ==
    /\ client[c].at = "deploySet"
    /\ row' = [row EXCEPT ![client[c].g].active = client[c].version]
    /\ Return(c)
    /\ UNCHANGED vers

-----------------------------------------------------------------------------
(* rollback: old code under a new version number *)

Rollback(c, g, v) ==
    /\ client[c].at = "idle" /\ ~Locked(c)
    /\ Stored(g, v)
    /\ ~Stored(g, MaxVersion)
    /\ client' = [client EXCEPT ![c] = [Request("rollbackMax", g, 0, vers[g][v].code) EXCEPT
                                            !.plan = vers[g][v].plan]]
    /\ UNCHANGED <<row, vers>>

RollbackMax(c) ==
    /\ client[c].at = "rollbackMax"
    /\ \E n \in 0..(MaxVersion - 1) :
         /\ LatestIs(client[c].g, n)
         /\ client' = [client EXCEPT ![c].at = "rollbackHead", ![c].version = n + 1]
    /\ UNCHANGED <<row, vers>>

RollbackHead(c) ==
    /\ client[c].at = "rollbackHead"
    /\ row' = [row EXCEPT ![client[c].g].code = client[c].code,
                          ![client[c].g].version = client[c].version]
    /\ Go(c, "rollbackInsert")
    /\ UNCHANGED vers

RollbackInsert(c) ==
    /\ client[c].at = "rollbackInsert"
    /\ InsertVersion(c, client[c].plan, "rollbackPlan")
    /\ UNCHANGED row

\* Only a version that has a plan gives it to the row.
RollbackPlan(c) ==
    /\ client[c].at = "rollbackPlan"
    /\ row' = IF client[c].plan # None
              THEN [row EXCEPT ![client[c].g].plan = client[c].plan] ELSE row
    /\ Go(c, "rollbackActive")
    /\ UNCHANGED vers

\* A deployed graph has its active version moved (and its last_event set, which
\* is not modelled).
RollbackActive(c) ==
    /\ client[c].at = "rollbackActive"
    /\ IF row[client[c].g].active # 0 THEN Go(c, "rollbackSet") ELSE Return(c)
    /\ UNCHANGED <<row, vers>>

RollbackSet(c) ==
    /\ client[c].at = "rollbackSet"
    /\ row' = [row EXCEPT ![client[c].g].active = client[c].version]
    /\ Return(c)
    /\ UNCHANGED vers

-----------------------------------------------------------------------------
(* Loading a plan, with the self-heal of a missing one *)

\* resolve_graph: the row without its plan.
LoadGraph(c, g) ==
    /\ client[c].at = "idle" /\ ~Locked(c)
    /\ Exists(g)
    /\ client' = [client EXCEPT ![c] = [Request("loadPlan", g, row[g].version, row[g].code) EXCEPT
                                            !.then = "loaded"]]
    /\ UNCHANGED <<row, vers>>

\* load_plan; a missing plan is compiled from the code read before and saved
\* under the version read before.
LoadPlan(c) ==
    LET g == client[c].g IN
    /\ client[c].at = "loadPlan" /\ ~Locked(c)
    /\ IF row[g].plan # None
       THEN client' = [client EXCEPT ![c].at = "loaded", ![c].plan = row[g].plan]
       ELSE Go(c, "save")
    /\ UNCHANGED <<row, vers>>

\* What the client does with the plan is not the store's business.
Loaded(c) ==
    /\ client[c].at = "loaded"
    /\ Return(c)
    /\ UNCHANGED <<row, vers>>

\* The CLI's load_plan_version_self_heal finds no plan for the version ...
LoadVersion(c, g, v) ==
    /\ client[c].at = "idle" /\ ~Locked(c)
    /\ Stored(g, v)
    /\ vers[g][v].plan = None
    /\ client' = [client EXCEPT ![c] = Request("listVersions", g, v, None)]
    /\ UNCHANGED <<row, vers>>

\* ... reads that version's code, and goes on to compile and save it.
ListVersions(c) ==
    /\ client[c].at = "listVersions" /\ ~Locked(c)
    /\ client' = [client EXCEPT ![c].at = "save",
                      ![c].code = vers[client[c].g][client[c].version].code]
    /\ UNCHANGED <<row, vers>>

-----------------------------------------------------------------------------
\* A process is killed: what its statements wrote stays.
Crash(p) ==
    /\ p \in Mortal
    /\ \E c \in Clients : ProcessOf[c] = p /\ client[c].at # "idle"
    /\ client' = [c \in Clients |-> IF ProcessOf[c] = p THEN Idle ELSE client[c]]
    /\ UNCHANGED <<row, vers>>

Start(c) ==
    \E g \in Graphs :
        \/ \E code \in Codes : Create(c, g, code) \/ Fork(c, g, code) \/ Update(c, g, code)
        \/ \E v \in Versions : Deploy(c, g, v) \/ Rollback(c, g, v) \/ LoadVersion(c, g, v)
        \/ LoadGraph(c, g)

Continue(c) ==
    \/ CreateVersion(c) \/ ForkVersion(c) \/ UpdateHead(c) \/ UpdateInsert(c)
    \/ SavePlan(c) \/ SaveVersion(c) \/ DeploySet(c)
    \/ RollbackMax(c) \/ RollbackHead(c) \/ RollbackInsert(c) \/ RollbackPlan(c)
    \/ RollbackActive(c) \/ RollbackSet(c)
    \/ LoadPlan(c) \/ Loaded(c) \/ ListVersions(c)

\* Requests of two processes are working on one graph.
Crossed ==
    \E c, d \in Clients :
        /\ ProcessOf[c] # ProcessOf[d]
        /\ client[c].g # None /\ client[c].g = client[d].g

Next ==
    \/ /\ \E c \in Clients : Start(c) \/ Continue(c)
       /\ trouble' = trouble \cup (IF Crossed' THEN {"processes"} ELSE {})
    \/ /\ \E p \in Processes : Crash(p)
       /\ trouble' = trouble \cup {"killed"}

Spec == Init /\ [][Next]_storeVars

-----------------------------------------------------------------------------
(* Properties *)

Quiet(g) == \A c \in Clients : client[c].g # g

\* "nothing is ever overwritten or lost" (README.md:853): a row of graph_versions
\* keeps its code, and the number of an existing version is not used again,
\* whatever is killed and however many processes share the file.
VersionsKept ==
    [][\A g \in Graphs, v \in Versions :
          vers[g][v].code # None => vers'[g][v].code = vers[g][v].code]_storeVars

\* The deployed version exists, under the same conditions.
ActiveStored ==
    \A g \in Graphs : row[g].active # 0 => Stored(g, row[g].active)

\* A version's plan is the plan of that version's code, while one process works on
\* a graph and none was killed: what resume and subgraph calls load by version
\* is what the version says, though save_plan is a call of its own.
VersionPlanRight ==
    trouble = {} =>
        \A g \in Graphs, v \in Versions : vers[g][v].plan \in {None, vers[g][v].code}

\* Under the same conditions a graph's version only grows.
VersionGrows ==
    [][trouble' = {} => \A g \in Graphs : row'[g].version >= row[g].version]_storeVars

\* "Every update and rollback inserts a row into graph_versions" (README.md:853):
\* with no request on a graph in progress, its row is its latest version, unless
\* two processes worked on it at once or one was killed.
CurrentStored ==
    trouble = {} => \A g \in Graphs : (Quiet(g) /\ Exists(g)) =>
        /\ LatestIs(g, row[g].version)
        /\ vers[g][row[g].version].code = row[g].code

-----------------------------------------------------------------------------
(* The inductive invariant behind them *)

Relying == {"deploySet", "listVersions", "rollbackPlan", "rollbackActive", "rollbackSet"}

\* Rows that exist have code, and requests that rely on a version have seen it.
Written ==
    /\ \A g \in Graphs : Exists(g) => row[g].code # None
    /\ \A c \in Clients :
         client[c].at \in Relying => Stored(client[c].g, client[c].version)
    /\ ActiveStored

\* One client of a process is inside a storage function.
Mutex ==
    \A c, d \in Clients :
        (c # d /\ client[c].at \in InStore /\ client[d].at \in InStore) =>
            ProcessOf[c] # ProcessOf[d]

\* Clients whose function has moved the row, but not yet inserted the version.
Ahead(c) == client[c].at \in {"createVersion", "forkVersion", "updateInsert", "rollbackInsert"}

HeadIsLatest(g) ==
    /\ LatestIs(g, row[g].version)
    /\ Exists(g) => vers[g][row[g].version].code = row[g].code

\* What every position of a request implies about the tables.
Placed(c) ==
    LET r == client[c] IN
    /\ Ahead(c) => /\ row[r.g].version = r.version /\ row[r.g].code = r.code
                   /\ LatestIs(r.g, r.version - 1)
    /\ r.at \in {"updateHead", "rollbackHead"} => r.version = row[r.g].version + 1
    /\ r.at \in {"save", "saveVersion", "loadPlan"} =>
         Stored(r.g, r.version) /\ vers[r.g][r.version].code = r.code
    /\ r.at \in {"rollbackMax", "rollbackHead", "rollbackInsert"} => r.plan \in {None, r.code}

\* While one process works on a graph and none is killed.
Undisturbed ==
    /\ ~Crossed
    /\ \A c \in Clients : Placed(c)
    /\ \A g \in Graphs : (\A c \in Clients : client[c].g = g => ~Ahead(c)) => HeadIsLatest(g)
    /\ \A g \in Graphs, v \in Versions : vers[g][v].plan \in {None, vers[g][v].code}

\* Locals are set, the connection lock excludes, and while one process works on a
\* graph every request stands where its statements have left the tables.
StoreInv == TypeOK /\ Written /\ Mutex /\ (trouble = {} => Undisturbed)
=============================================================================
