------------------------------- MODULE Server -------------------------------
(***************************************************************************)
(* One tinypipe-server: the published routes (Publish), the graphs that    *)
(* call graphs (Registry) over one store, and the code run without a graph *)
(* (DynamicPlans), in one process.                                         *)
(***************************************************************************)
EXTENDS Publish, Registry, DynamicPlans

serverVars == <<row, vers, server, plans, routes, cache, admin, visit, trouble,
                planCache, call, changed, dynPlans, running>>

ServerInit == PublishInit /\ RegistryInit /\ DynamicInit

\* Requests to change graphs and to published paths.
RouteStep ==
    /\ PublishNext
    /\ IF server' = "down" /\ server # "down" THEN CallsLost /\ DynamicLost
       ELSE UNCHANGED <<planCache, call, dynPlans, running>>

\* An execution saves the plan of a version that is no longer the graph's, or one that
\* no change in progress is about to save over a row that has another plan (which a
\* process that died half way left there).
StaleHeal ==
    \E c \in Callers : LET got == call[c].got  has == row[call[c].got.g] IN
        /\ call[c].at = "heal" /\ call'[c].at = "insert"
        /\ \/ got.version # has.version
           \/ has.plan \notin {None, got.code} /\ ~Saving(got.g)

\* Requests to execute a graph.
ExecuteStep ==
    /\ server = "serving"
    /\ \E c \in Callers : CallStep(c) \/ \E g \in Graphs : Execute(c, g)
    /\ trouble' = trouble \cup (IF StaleHeal THEN {"heal"} ELSE {})
    /\ UNCHANGED <<server, plans, routes, cache, admin, visit, dynPlans, running>>

\* Requests to run code.
RunStep ==
    /\ server = "serving"
    /\ DynamicStep
    /\ UNCHANGED <<row, vers, server, plans, routes, cache, admin, visit, trouble,
                   planCache, call>>

\* A request is between its first and its last write of a graph.
Changing == \E a \in Workers : admin[a].at \in {"create", "update", "rollback", "save"}

NoteChanges ==
    changed' = {c \in Callers : Active(c)' /\ (c \in changed \/ Changing \/ Changing')}

ServerNext == (RouteStep \/ ExecuteStep \/ RunStep) /\ NoteChanges

ServerSpec     == ServerInit /\ [][ServerNext]_serverVars
FairServerSpec == ServerSpec /\ PublishFairness

-----------------------------------------------------------------------------
(* Properties *)

\* Every table and request of the process is of its type; a plan that is kept or run
\* is some code's.
ServerTypeOK == PublishTypeOK /\ RegistryTypeOK /\ DynamicTypeOK

\* "if the version does not match the plan is loaded again (graph updates stay right)"
\* (registry.rs:36): with no change in progress a graph's stored plan is that of its
\* code, if no two changes overlapped and no update was killed half way.
StoredPlanCurrent ==
    (Idle /\ trouble \cap {"overlap", "killed"} = {}) =>
        \A g \in Graphs : row[g].plan = row[g].code

\* Missing variables are reported before the run (registry.rs:71): a run that passed
\* the check lacks none, however deep the call that reads it, unless a graph was being
\* changed meanwhile, a plan and its code were left apart (by two changes that overlapped,
\* a process that died, or a heal), or two graphs have one name.
CheckedRunLacksNothing ==
    \A c \in Callers : call[c].at = "lacking" =>
        \/ c \in changed \/ ~NamesDiffer
        \/ trouble \cap {"overlap", "killed", "heal"} # {}

-----------------------------------------------------------------------------
(* The inductive invariant behind ServerTypeOK, RunsWhatItResolved and             *)
(* DynamicPlansSound, whatever overlaps, fails or is killed                        *)

\* The versions of a graph are numbered without a gap, the row is the last of them, and
\* a plan stored with a version is that of its code.
StoreOrdered ==
    \A g \in Graphs :
        /\ \A v \in Versions : Stored(g, v) <=> v <= row[g].version
        /\ Exists(g) => row[g].code = vers[g][row[g].version].code
        /\ ~Exists(g) => row[g].code = None /\ row[g].plan = None
        /\ \A v \in Versions : vers[g][v].plan \in {None, vers[g][v].code}

\* What a version is, once it is stored, it stays.
Recorded(g, v, code) == v \in Versions /\ code \in Codes /\ vers[g][v].code = code

Changes == {"create", "update", "deploy", "rollback", "save"}

\* What a request that changes graphs knows at each of its positions.
AdminPlaced(a) ==
    LET r == admin[a] IN
    /\ r.at = "create" =>
         /\ r.g \in Graphs /\ ~Exists(r.g) /\ r.code \in Codes
         /\ r.version = 1 /\ 1 \in Versions
         /\ \A b \in Workers \ {a} : admin[b].g # r.g
    /\ r.at \in {"update", "deploy", "rollback", "save", "heal"} => r.g \in Graphs /\ Exists(r.g)
    /\ r.at = "update" => r.code \in Codes
    /\ r.at = "save" => Recorded(r.g, r.version, r.code)
    /\ r.at \in {"deploy", "rollback"} =>
         r.version \in Versions /\ vers[r.g][r.version].plan # None
    /\ r.at = "heal" => r.listed[r.g].version # 0
    /\ \A g \in Graphs : r.listed[g].version # 0 =>
         Recorded(g, r.listed[g].version, r.listed[g].code)
    /\ a = Boot => r.at \notin Changes

\* What a request to execute a graph has fetched is what it resolved.
FetchedRight(c) ==
    LET got == call[c].got IN
    call[c].at \in Fetching =>
        /\ Recorded(got.g, got.version, got.code)
        /\ call[c].at \in {"insert", "fetched"} => got.plan = got.code

HistoryInv ==
    /\ ServerTypeOK /\ StoreOrdered
    /\ \A a \in Workers : AdminPlaced(a)
    /\ \A c \in Callers : FetchedRight(c)
    /\ RunsWhatItResolved
    /\ DynamicPlansSound /\ EntriesRight

-----------------------------------------------------------------------------
(* The inductive invariant behind TablesAgree, RefreshNeverFails and CacheFresh    *)

\* The process's own refresh_all comes before any request.
Phases ==
    /\ server = "serving" => admin[Boot].at = "idle"
    /\ server = "starting" => \A a \in Admins : admin[a].at = "idle"
    /\ server \in {"down", "refused"} => \A a \in Workers : admin[a].at = "idle"

OneChange == "overlap" \notin trouble => ~Overlap

\* The codes whose plans a refresh_all that began now would install.
Served == [g \in Graphs |-> IF row[g].plan # None THEN row[g].plan ELSE row[g].code]

\* code can be published for g beside what the other graphs publish.
Compatible(served, g, code) ==
    /\ RouteOf(code) # Invalid
    /\ \A h \in Graphs \ {g} :
         (Publishes(code) /\ served[h] # None /\ Publishes(served[h])) =>
             KeyOf(code) # KeyOf(served[h])

Apart(served) == \A g \in Graphs : served[g] # None => Compatible(served, g, served[g])

\* The code a request that has passed its check is about to store or to save.
Proposed(a) == IF admin[a].at = "rollback" THEN vers[admin[a].g][admin[a].version].plan
               ELSE admin[a].code

ProposalFits(a) ==
    admin[a].at \in {"create", "update", "rollback", "save"} =>
        Compatible(Served, admin[a].g, Proposed(a))

RoutesApart ==
    trouble \cap {"overlap", "heal"} = {} => Apart(Served) /\ \A a \in Workers : ProposalFits(a)

\* A save is that of the row's version.
SavesRow(a)  == admin[a].at = "save" => admin[a].version = row[admin[a].g].version
SavesCurrent == "overlap" \notin trouble => \A a \in Workers : SavesRow(a)

\* A change is stored and not yet in the tables.
BehindAt == {"save", "list", "load", "heal", "routes", "clear"}
Behind   == \E a \in Workers : admin[a].at \in BehindAt

TablesServed ==
    (server = "serving" /\ ~Behind) => plans = Served /\ routes = BuiltRoutes(plans)

\* What refresh_all has built is what is stored, and the tables are what it has
\* installed of it.
Refreshing(a) ==
    LET r == admin[a] IN
    /\ r.at = "list" => r.built = Unbuilt
    /\ r.at \in {"load", "heal"} => \A g \in Graphs :
         /\ r.listed[g] = [version |-> row[g].version, code |-> row[g].code]
         /\ r.built[g] \in {None, Served[g]}
    /\ r.at = "heal" => Served[r.g] = row[r.g].code
    /\ r.at \in {"routes", "clear"} => plans = r.built /\ r.built = Served
    /\ r.at = "clear" => routes = BuiltRoutes(r.built)

InStep ==
    trouble \cap {"overlap", "heal"} = {} => TablesServed /\ \A a \in Workers : Refreshing(a)

\* Only a graph that is being saved has a plan that is not that of its code.
PlansCurrent ==
    trouble \cap {"overlap", "killed", "heal"} = {} =>
        \A g \in Graphs : row[g].plan = row[g].code \/ Saving(g)

\* A request being answered holds what the tables have, and so does the cache.
VisitsCurrent ==
    (/\ trouble \cap {"overlap", "late"} = {}
     /\ \A a \in Workers : admin[a].at \notin {"routes", "clear"}) =>
        /\ \A v \in Visitors : LET r == visit[v] IN
             /\ r.at # "idle" => routes[r.key] = r.entry
             /\ r.at \in {"lookup", "insert"} => Cached(r.entry.code)
             /\ r.at \in {"run", "insert"} => plans[r.entry.graph] = r.plan
        /\ \A k \in CacheKeys : cache[k] # None =>
             /\ cache[k].input = k[2]
             /\ plans[cache[k].graph] = cache[k].code
             /\ \E m \in Methods : LET e == routes[<<k[1], m>>] IN
                  e # None /\ e.graph = cache[k].graph /\ Cached(e.code)

TablesInv ==
    /\ Phases /\ OneChange /\ RoutesApart /\ SavesCurrent
    /\ InStep /\ PlansCurrent /\ VisitsCurrent

-----------------------------------------------------------------------------
(* The inductive invariant behind CheckedRunLacksNothing                           *)

\* A name is of a visited graph, or still to be visited.
Reached(name, visited, names) ==
    (\E g \in visited : NameOf[g] = name) \/ (\E i \in DOMAIN names : names[i] = name)

\* What visited graphs lack is reported, and what they call is reached.
Walked(visited, names, missing) ==
    \A g \in visited :
        /\ Exists(g)
        /\ Lacks(<<>>, row[g].code) \subseteq missing
        /\ \A i \in DOMAIN CallsOf[row[g].code] :
             Reached(CallsOf[row[g].code][i], visited, names)

\* An executor runs the code of a checked graph and has at most its calls before it.
Checked(f, safe) ==
    /\ f.g \in safe /\ f.plan = row[f.g].code
    /\ \A i \in DOMAIN f.calls : \E j \in DOMAIN CallsOf[f.plan] : f.calls[i] = CallsOf[f.plan][j]

\* The graphs the executors run are among those a check has visited and found to lack
\* nothing; until then the check has visited, or is to visit, all the root leads to.
CallSound(c) ==
    LET r == call[c] IN
    /\ r.at # "lacking"
    /\ Exists(r.root.g) /\ r.root.plan = row[r.root.g].code
    /\ r.at \in Fetching =>
         /\ Exists(r.got.g) /\ r.got.code = row[r.got.g].code
         /\ NameOf[r.got.g] = Wanted(c)
    /\ ~r.checked => /\ Walked(r.visited, r.names, r.missing)
                     /\ Reached(NameOf[r.root.g], r.visited, r.names)
    /\ r.checked => \E safe \in SUBSET Graphs :
         /\ Walked(safe, <<>>, {})
         /\ \A k \in DOMAIN r.stack : Checked(r.stack[k], safe)

\* Nothing has happened since request c began that its check could not know.
Undisturbed(c) ==
    /\ Active(c) /\ c \notin changed /\ NamesDiffer
    /\ trouble \cap {"overlap", "killed", "heal"} = {}

ChecksInv ==
    \A c \in Callers :
        /\ Active(c) /\ c \notin changed => ~Changing
        /\ Undisturbed(c) => CallSound(c)
=============================================================================
