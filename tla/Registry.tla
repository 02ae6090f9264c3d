------------------------------ MODULE Registry ------------------------------
(***************************************************************************)
(* Running a graph that calls other graphs (tinypipe-tools/src/registry.rs *)
(* and the subgraph CALL of the VM): names are resolved in the store, a    *)
(* plan comes from the registry's cache or by version from the store, and  *)
(* before the run the same walk checks the environment.                    *)
(*                                                                         *)
(* One action is what happens between two storage calls or between two     *)
(* uses of the cache's mutex.  Of a plan there is what it reads of the     *)
(* environment and the graphs it calls, in this order.                     *)
(***************************************************************************)
EXTENDS ServerStore, Sequences

CONSTANTS
    Callers,      \* requests to execute a graph
    CallsOf,      \* the names each code calls as subgraph:<name>, in plan order
    NeedsOf,      \* the variables each code reads by literal key, without default
    Environment,  \* the variables set: scopes, then key (SEED_URL is <<"SEED", "URL">>)
    MaxRecursion, \* metadata.max_recursion_depth of every plan
    MaxDepth      \* bound on nested calls

ASSUME RegistryAssumption ==
    /\ \A code \in Codes : CallsOf[code] \in Seq({NameOf[g] : g \in Graphs})
    /\ MaxRecursion \in Nat /\ MaxDepth \in Nat \ {0}
    /\ \A e \in Environment : e # <<>>

VARIABLES
    planCache,  \* SubgraphToolRegistry.plan_cache: graph id -> version and plan
    call,       \* the requests: the walk of the check, then the stack of executors
    changed     \* history: requests during which a graph was being changed

registryVars == <<planCache, call, changed>>

CallAt == {"idle", "walk", "lookup", "load", "heal", "insert", "fetched", "frame", "calls",
           "completed", "refused", "lacking", "failed"}

Nothing == [g |-> None, version |-> 0, code |-> None, plan |-> None]
IdleCall == [at |-> "idle", checked |-> FALSE, root |-> Nothing, names |-> <<>>,
             visited |-> {}, missing |-> {}, stack |-> <<>>, got |-> Nothing]

Names     == {NameOf[g] : g \in Graphs}
Fetched   == [g : Graphs \cup {None}, version : 0..MaxVersion, code : Source, plan : Source]
Executor  == [g : Graphs, version : Versions, plan : Codes, scopes : Seq(Names), calls : Seq(Names)]
Call      == [at : CallAt, checked : BOOLEAN, root : Fetched, names : Seq(Names),
              visited : SUBSET Graphs, missing : SUBSET UNION {NeedsOf[code] : code \in Codes},
              stack : Seq(Executor), got : Fetched]

Fetching == {"lookup", "load", "heal", "insert", "fetched"}

\* What is fetched is a version of a graph, for a name still to visit or for the CALL the
\* innermost executor is at; from "insert" on its plan is there.  Every other executor
\* is at a CALL too.
LocalsSet(r) ==
    /\ r.at \in Fetching =>
         /\ r.got.g \in Graphs /\ r.got.version \in Versions /\ r.got.code \in Codes
         /\ r.at \in {"insert", "fetched"} => r.got.plan \in Codes
         /\ r.checked \/ r.names # <<>>
    /\ r.at # "idle" => r.root.g \in Graphs /\ r.root.version \in Versions
                        /\ r.root.plan \in Codes
    /\ r.at \in {"frame", "calls"} => r.checked
    /\ r.checked => r.stack # <<>>
    /\ \A k \in 1..(Len(r.stack) - 1) : r.stack[k].calls # <<>>
    /\ r.checked /\ r.at \in Fetching \cup {"walk"} =>
         Len(r.stack) < MaxDepth /\ r.stack[Len(r.stack)].calls # <<>>

RegistryTypeOK ==
    /\ planCache \in [Graphs -> {None} \cup [version : Versions, plan : Codes]]
    /\ call \in [Callers -> Call]
    /\ changed \subseteq Callers
    /\ \A c \in Callers : LocalsSet(call[c]) /\ Len(call[c].stack) <= MaxDepth

RegistryInit ==
    /\ planCache = [g \in Graphs |-> None]
    /\ call = [c \in Callers |-> IdleCall]
    /\ changed = {}

Goes(c, at) == call' = [call EXCEPT ![c].at = at]

-----------------------------------------------------------------------------
(* Env::get with the scopes of nested calls *)

\* Mutant: only the whole chain of scopes is tried.
GetWholeChain(scopes, key) == scopes \o <<key>> \in Environment

\* From the innermost scope outwards: SEED_COMMENTS_URL, SEED_URL, URL.
Get(scopes, key) ==
    \E i \in 0..Len(scopes) : SubSeq(scopes, 1, i) \o <<key>> \in Environment

\* scan_plan_env_deps, and what of it is not set.
Lacks(scopes, code) == {key \in NeedsOf[code] : ~Get(scopes, key)}

-----------------------------------------------------------------------------
(* Fetching a plan: resolve_graph, then load_cached_plan *)

\* execute_graph has the root's row and plan; the check starts from its name.
\* (A root without a plan is healed first.)
Execute(c, g) ==
    /\ call[c].at = "idle"
    /\ Exists(g) /\ row[g].plan # None
    /\ call' = [call EXCEPT ![c] = [IdleCall EXCEPT
           !.at = "walk", !.names = <<NameOf[g]>>,
           !.root = [g |-> g, version |-> row[g].version, code |-> row[g].code,
                     plan |-> row[g].plan]]]
    /\ UNCHANGED <<row, vers, planCache>>

Top(c) == call[c].stack[Len(call[c].stack)]

\* The name the check is at, or that of the CALL the innermost executor is at.
Wanted(c) == IF call[c].checked THEN Head(Top(c).calls) ELSE Head(call[c].names)

\* A graph the check has visited is not visited again; an unknown name ends both.
Resolve(c) ==
    LET found == FindByName(Wanted(c)) IN
    /\ call[c].at = "walk"
    /\ call[c].checked \/ call[c].names # <<>>
    /\ IF found = {} THEN Goes(c, "failed")
       ELSE \E g \in found :
              IF ~call[c].checked /\ g \in call[c].visited
              THEN call' = [call EXCEPT ![c].names = Tail(@)]
              ELSE call' = [call EXCEPT ![c].at = "lookup",
                       ![c].got = [g |-> g, version |-> row[g].version,
                                   code |-> row[g].code, plan |-> None]]
    /\ UNCHANGED <<row, vers, planCache>>

\* Mutant: any version will do.
LookupAny(c) ==
    LET got == call[c].got  held == planCache[got.g] IN
    /\ call[c].at = "lookup"
    /\ IF held # None
       THEN call' = [call EXCEPT ![c].at = "fetched", ![c].got.plan = held.plan]
       ELSE Goes(c, "load")
    /\ UNCHANGED <<row, vers, planCache>>

Lookup(c) ==
    LET got == call[c].got  held == planCache[got.g] IN
    /\ call[c].at = "lookup"
    /\ IF held # None /\ held.version = got.version
       THEN call' = [call EXCEPT ![c].at = "fetched", ![c].got.plan = held.plan]
       ELSE Goes(c, "load")
    /\ UNCHANGED <<row, vers, planCache>>

\* Mutant: a version without a plan is not healed.
LoadVersionAsIs(c) ==
    LET got == call[c].got IN
    /\ call[c].at = "load"
    /\ call' = [call EXCEPT ![c].at = "insert",
                            ![c].got.plan = vers[got.g][got.version].plan]
    /\ UNCHANGED <<row, vers, planCache>>

\* load_plan_version
LoadVersion(c) ==
    LET got == call[c].got  plan == vers[got.g][got.version].plan IN
    /\ call[c].at = "load"
    /\ IF plan # None
       THEN call' = [call EXCEPT ![c].at = "insert", ![c].got.plan = plan]
       ELSE Goes(c, "heal")
    /\ UNCHANGED <<row, vers, planCache>>

\* The resolved code is compiled and saved under the resolved version.
HealVersion(c) ==
    LET got == call[c].got IN
    /\ call[c].at = "heal"
    /\ SavePlan(got.g, got.version, got.code)
    /\ call' = [call EXCEPT ![c].at = "insert", ![c].got.plan = got.code]
    /\ UNCHANGED planCache

InsertPlan(c) ==
    LET got == call[c].got IN
    /\ call[c].at = "insert"
    /\ planCache' = [planCache EXCEPT ![got.g] = [version |-> got.version,
                                                  plan |-> got.plan]]
    /\ Goes(c, "fetched")
    /\ UNCHANGED <<row, vers>>

-----------------------------------------------------------------------------
(* validate_env *)

\* Mutant: the graphs that the root calls are not checked.
VisitRootOnly(c) ==
    LET got == call[c].got IN
    /\ call[c].at = "fetched" /\ ~call[c].checked
    /\ call' = [call EXCEPT ![c].at = "walk", ![c].got = Nothing,
                    ![c].visited = @ \cup {got.g},
                    ![c].missing = @ \cup Lacks(<<>>, got.plan),
                    ![c].names = Tail(@)]
    /\ UNCHANGED <<row, vers, planCache>>

\* Depth first, with the environment of the root: no scopes.
VisitGraph(c) ==
    LET got == call[c].got IN
    /\ call[c].at = "fetched" /\ ~call[c].checked
    /\ call' = [call EXCEPT ![c].at = "walk", ![c].got = Nothing,
                    ![c].visited = @ \cup {got.g},
                    ![c].missing = @ \cup Lacks(<<>>, got.plan),
                    ![c].names = CallsOf[got.plan] \o Tail(@)]
    /\ UNCHANGED <<row, vers, planCache>>

Frame(got, scopes) ==
    [g |-> got.g, version |-> got.version, plan |-> got.plan, scopes |-> scopes,
     calls |-> CallsOf[got.plan]]

\* run_execution: refused with the report, or run.
Admit(c) ==
    /\ call[c].at = "walk" /\ ~call[c].checked /\ call[c].names = <<>>
    /\ IF call[c].missing # {} THEN Goes(c, "refused")
       ELSE call' = [call EXCEPT ![c].at = "frame", ![c].checked = TRUE, ![c].visited = {},
                         ![c].stack = <<Frame(call[c].root, <<>>)>>]
    /\ UNCHANGED <<row, vers, planCache>>

-----------------------------------------------------------------------------
(* The executors *)

\* The innermost executor reads its variables; env.get of one that is not set fails.
ReadEnvironment(c) ==
    /\ call[c].at = "frame"
    /\ Goes(c, IF Lacks(Top(c).scopes, Top(c).plan) # {} THEN "lacking" ELSE "calls")
    /\ UNCHANGED <<row, vers, planCache>>

\* A subgraph CALL.  recursion_depth is the calls of this executor that have not
\* returned: nodes run one after the other, so there is none.  (A request also ends
\* at the bound on nested calls.)
CallSubgraph(c) ==
    /\ call[c].at = "calls" /\ Top(c).calls # <<>>
    /\ Goes(c, IF 0 >= MaxRecursion \/ Len(call[c].stack) = MaxDepth THEN "failed" ELSE "walk")
    /\ UNCHANGED <<row, vers, planCache>>

\* run_subgraph: a new executor, with the environment scoped by the name called.
RunSubgraph(c) ==
    /\ call[c].at = "fetched" /\ call[c].checked
    /\ call' = [call EXCEPT ![c].at = "frame", ![c].got = Nothing,
          ![c].stack = Append(@, Frame(call[c].got, Append(Top(c).scopes, Wanted(c))))]
    /\ UNCHANGED <<row, vers, planCache>>

\* The innermost executor is done: its caller goes on behind the CALL.
Returned(stack) ==
    [k \in 1..(Len(stack) - 1) |->
        IF k = Len(stack) - 1 THEN [stack[k] EXCEPT !.calls = Tail(@)] ELSE stack[k]]

FinishFrame(c) ==
    /\ call[c].at = "calls" /\ Top(c).calls = <<>>
    /\ IF Len(call[c].stack) = 1 THEN Goes(c, "completed")
       ELSE call' = [call EXCEPT ![c].stack = Returned(@)]
    /\ UNCHANGED <<row, vers, planCache>>

EndCall(c) ==
    /\ call[c].at \in {"completed", "refused", "lacking", "failed"}
    /\ call' = [call EXCEPT ![c] = IdleCall]
    /\ UNCHANGED <<row, vers, planCache>>

CallStep(c) ==
    \/ Resolve(c) \/ Lookup(c) \/ LoadVersion(c) \/ HealVersion(c) \/ InsertPlan(c)
    \/ VisitGraph(c) \/ Admit(c) \/ ReadEnvironment(c) \/ CallSubgraph(c)
    \/ RunSubgraph(c) \/ FinishFrame(c) \/ EndCall(c)

\* The process ends, and the cache with it.
CallsLost ==
    /\ planCache' = [g \in Graphs |-> None]
    /\ call' = [c \in Callers |-> IdleCall]

Active(c) == call[c].at # "idle"

-----------------------------------------------------------------------------
(* Properties *)

\* "(name, version) ... updates stay right" (registry.rs:36): every executor runs the
\* plan of the version it resolved, and the cache holds none under a wrong version,
\* while graphs are updated and rolled back in between and plans healed.
RunsWhatItResolved ==
    /\ \A g \in Graphs : planCache[g] # None =>
         planCache[g].plan = vers[g][planCache[g].version].code
    /\ \A c \in Callers : \A k \in 2..Len(call[c].stack) :
         LET f == call[c].stack[k] IN f.plan = vers[f.g][f.version].code

\* Each name is the name of one graph.
NamesDiffer == \A g, h \in Existing : NameOf[g] = NameOf[h] => g = h
=============================================================================
