------------------------------ MODULE Publish ------------------------------
(***************************************************************************)
(* The published routes of tinypipe-server: the in-memory tables of        *)
(* state.rs, refresh_all that rebuilds them from the store, the requests   *)
(* that change graphs (api.rs), the requests to published paths            *)
(* (routes.rs) with their response cache, and the process's start, end and *)
(* restart (main.rs).                                                      *)
(*                                                                         *)
(* One action is what a handler does between two awaits or between two     *)
(* storage calls.  What a graph computes is its code and its inputs.       *)
(***************************************************************************)
EXTENDS ServerStore, Integers

CONSTANTS
    MetaOf,    \* the META(...) of each code
    Paths,     \* paths requested or published
    Methods,   \* request methods in use, out of AllMethods
    Inputs,    \* query strings or bodies
    Admins,    \* requests to /api that change graphs
    Boot,      \* main's own refresh_all, before it listens
    Visitors   \* requests to published paths

AllMethods == {"GET", "POST", "PUT", "PATCH", "DELETE", "HEAD"}
HttpKeys   == {"http_route", "http_method", "http_public", "http_timeout_ms",
               "http_cache_ttl"}
Invalid    == [path |-> "invalid", method |-> "", cached |-> FALSE]

\* keys: the http_* keys present, "http_other" for any other of that prefix;
\* route and method: the values, "" when refused; ttl: negative when refused.
ASSUME PublishAssumption ==
    /\ \A code \in Codes :
         /\ MetaOf[code].keys \subseteq HttpKeys \cup {"http_other"}
         /\ MetaOf[code].route \in Paths \cup {""}
         /\ MetaOf[code].method \in Methods \cup {"OPTIONS", ""}
         /\ MetaOf[code].ttl \in Int
    /\ Methods \subseteq AllMethods
    /\ Boot \notin Admins /\ "invalid" \notin Paths /\ "" \notin Paths

Workers == Admins \cup {Boot}

VARIABLES
    server,  \* "down", "starting" (main's refresh_all), "serving", "refused" (exit)
    plans,   \* AppState.plans: graph id -> plan
    routes,  \* AppState.routes: path and method -> the graph and its route's code
    cache,   \* AppState.resp_cache: key -> a body that has not expired
    admin,   \* requests that change graphs, and main's refresh_all
    visit,   \* requests to published paths
    trouble  \* history: what has happened that the code has no defence against

tables == <<plans, routes, cache>>
publishVars == <<row, vers, server, plans, routes, cache, admin, visit, trouble>>

Keys  == Paths \X Methods
CacheKeys == Paths \X Inputs
Entry == [graph : Graphs, code : Codes]
Body  == [graph : Graphs, code : Codes, input : Inputs]

\* No entry is None.
ASSUME EntryAssumption == None \notin Entry

AdminAt == {"idle", "create", "update", "deploy", "rollback", "save", "list", "load",
            "heal", "plans", "routes", "clear"}
Admin == [at : AdminAt, g : Graphs \cup {None}, version : 0..MaxVersion, code : Source,
          listed : [Graphs -> [version : 0..MaxVersion, code : Source]],
          built : [Graphs -> Source]]

VisitAt == {"idle", "lookup", "plan", "run", "insert"}
Visit == [at : VisitAt, key : Keys \cup {None}, input : Inputs \cup {None},
          entry : Entry \cup {None}, plan : Source]

NothingCached == [k \in CacheKeys |-> None]
Unlisted == [g \in Graphs |-> [version |-> 0, code |-> None]]
Unbuilt  == [g \in Graphs |-> None]
IdleAdmin == [at |-> "idle", g |-> None, version |-> 0, code |-> None,
              listed |-> Unlisted, built |-> Unbuilt]
IdleVisit == [at |-> "idle", key |-> None, input |-> None, entry |-> None, plan |-> None]

PublishTypeOK ==
    /\ TablesTypeOK
    /\ server \in {"down", "starting", "serving", "refused"}
    /\ plans \in [Graphs -> Source]
    /\ routes \in [Keys -> Entry \cup {None}]
    /\ cache \in [CacheKeys -> Body \cup {None}]
    /\ admin \in [Workers -> Admin]
    /\ visit \in [Visitors -> Visit]
    /\ \A v \in Visitors : LET r == visit[v] IN
         /\ r.at # "idle" => r.key \in Keys /\ r.input \in Inputs /\ r.entry \in Entry
         /\ r.at \in {"run", "insert"} => r.plan \in Codes
    /\ trouble \subseteq {"overlap", "late", "killed", "heal"}

-----------------------------------------------------------------------------
(* META's http_* keys: all or nothing *)

\* parse_route_config.  Reserved, empty, too long and ill-formed routes, and numbers
\* that are none, are refused; so is OPTIONS.
ParseRoute(meta) ==
    IF meta.keys = {} THEN None
    ELSE IF \/ meta.keys # HttpKeys
            \/ meta.route = "" \/ meta.method \notin AllMethods \/ meta.ttl < 0
    THEN Invalid
    ELSE [path |-> meta.route, method |-> meta.method, cached |-> meta.ttl > 0]

RouteOf(code)   == ParseRoute(MetaOf[code])
Publishes(code) == RouteOf(code) \notin {None, Invalid}
Cached(code)    == RouteOf(code).cached
KeyOf(code)     == <<RouteOf(code).path, RouteOf(code).method>>

-----------------------------------------------------------------------------
(* Requests that change graphs *)

At(at, g, v, code) ==
    [IdleAdmin EXCEPT !.at = at, !.g = g, !.version = v, !.code = code]
Begin(a, at, g, v, code) == admin' = [admin EXCEPT ![a] = At(at, g, v, code)]
To(a, at)  == admin' = [admin EXCEPT ![a].at = at]
Refresh(a) == Begin(a, "list", None, 0, None)
End(a)     == admin' = [admin EXCEPT ![a] = IdleAdmin]

Unserved == UNCHANGED <<server, tables, visit>>

Owner(key) == IF routes[key] = None THEN None ELSE routes[key].graph

\* Mutant: only the META is looked at.
NoConflictUnchecked(g, code) == RouteOf(code) # Invalid

\* check_route_conflict: the route is free, or is g's own.  A create has no g yet.
NoConflict(g, code) ==
    /\ RouteOf(code) # Invalid
    /\ Publishes(code) => Owner(KeyOf(code)) \in {None, g}

\* Refusals (401, 404, 400, 409) change nothing and are left out.
StartCreate(a, g, code) ==
    /\ server = "serving" /\ admin[a].at = "idle"
    /\ ~Exists(g) /\ \A b \in Workers : admin[b].g # g    \* a fresh UUID
    /\ 1 <= MaxVersion
    /\ NoConflict(None, code)
    /\ Begin(a, "create", g, 1, code)
    /\ UNCHANGED <<row, vers>> /\ Unserved

StartUpdate(a, g, code) ==
    /\ server = "serving" /\ admin[a].at = "idle"
    /\ Exists(g)
    /\ NoConflict(g, code)
    /\ Begin(a, "update", g, 0, code)
    /\ UNCHANGED <<row, vers>> /\ Unserved

\* deploy and rollback check the route of the version's stored plan: load_plan_version
\* fails when there is none.
StartVersion(a, at, g, v) ==
    /\ server = "serving" /\ admin[a].at = "idle"
    /\ Stored(g, v) /\ vers[g][v].plan # None
    /\ NoConflict(g, vers[g][v].plan)
    /\ Begin(a, at, g, v, None)
    /\ UNCHANGED <<row, vers>> /\ Unserved

Create(a) ==
    /\ admin[a].at = "create"
    /\ CreateGraph(admin[a].g, admin[a].code)
    /\ To(a, "save")
    /\ Unserved

Update(a) ==
    LET g == admin[a].g IN
    /\ admin[a].at = "update"
    /\ row[g].version < MaxVersion
    /\ UpdateGraph(g, admin[a].code)
    /\ admin' = [admin EXCEPT ![a].at = "save", ![a].version = row[g].version + 1]
    /\ Unserved

\* At the bound on versions the request gives up, as on any storage error.
GiveUp(a) ==
    /\ \/ admin[a].at = "update" /\ row[admin[a].g].version = MaxVersion
       \/ admin[a].at = "rollback" /\ Latest(admin[a].g) = MaxVersion
    /\ End(a)
    /\ UNCHANGED <<row, vers>> /\ Unserved

\* Mutant: the tables are not built again.
SaveOnly(a) ==
    /\ admin[a].at = "save"
    /\ SavePlan(admin[a].g, admin[a].version, admin[a].code)
    /\ End(a)
    /\ Unserved

SaveCompiled(a) ==
    /\ admin[a].at = "save"
    /\ SavePlan(admin[a].g, admin[a].version, admin[a].code)
    /\ Refresh(a)
    /\ Unserved

DeployVersion(a) ==
    /\ admin[a].at = "deploy"
    /\ Deploy(admin[a].g, admin[a].version)
    /\ Refresh(a)
    /\ Unserved

RollBack(a) ==
    /\ admin[a].at = "rollback"
    /\ Latest(admin[a].g) < MaxVersion
    /\ Rollback(admin[a].g, admin[a].version)
    /\ Refresh(a)
    /\ Unserved

-----------------------------------------------------------------------------
(* refresh_all *)

\* list_all_graphs: ids, versions and codes, not plans.
ListGraphs(a) ==
    /\ admin[a].at = "list"
    /\ admin' = [admin EXCEPT ![a].at = "load",
                   ![a].listed = [g \in Graphs |-> [version |-> row[g].version,
                                                    code |-> row[g].code]]]
    /\ UNCHANGED <<row, vers>> /\ Unserved

Pending(a) == {g \in Graphs : admin[a].listed[g].version # 0 /\ admin[a].built[g] = None}

\* A graph already built has the route of code.
Duplicate(a, g, code) ==
    /\ Publishes(code)
    /\ \E h \in Graphs \ {g} : LET built == admin[a].built[h] IN
         built # None /\ Publishes(built) /\ KeyOf(built) = KeyOf(code)

\* The request fails; before serving, so does the process.
Fail(a) ==
    /\ End(a)
    /\ server' = IF a = Boot THEN "refused" ELSE server

\* One graph's plan goes into the new tables.  (The order of the list, newest
\* first, only decides which error is reported.)
Build(a, g, code) ==
    IF RouteOf(code) = Invalid \/ Duplicate(a, g, code)
    THEN Fail(a)
    ELSE admin' = [admin EXCEPT ![a].at = "load", ![a].built[g] = code] /\ UNCHANGED server

\* load_plan_self_heal: load_plan, which may find none ...
LoadStored(a, g) ==
    /\ admin[a].at = "load" /\ g \in Pending(a)
    /\ IF row[g].plan # None
       THEN Build(a, g, row[g].plan)
       ELSE /\ admin' = [admin EXCEPT ![a].at = "heal", ![a].g = g]
            /\ UNCHANGED server
    /\ UNCHANGED <<row, vers, tables, visit>>

\* ... and then the listed code is compiled and saved under the listed version.
Heal(a) ==
    LET g == admin[a].g  seen == admin[a].listed[g] IN
    /\ admin[a].at = "heal"
    /\ SavePlan(g, seen.version, seen.code)
    /\ Build(a, g, seen.code)
    /\ UNCHANGED <<tables, visit>>

InstallPlans(a) ==
    /\ admin[a].at = "load" /\ Pending(a) = {}
    /\ plans' = admin[a].built
    /\ To(a, "routes")
    /\ UNCHANGED <<row, vers, server, routes, cache, visit>>

BuiltRoutes(built) ==
    [k \in Keys |->
        LET owners == {g \in Graphs : built[g] # None /\ Publishes(built[g])
                                      /\ KeyOf(built[g]) = k} IN
        IF owners = {} THEN None
        ELSE LET g == CHOOSE g \in owners : TRUE IN [graph |-> g, code |-> built[g]]]

InstallRoutes(a) ==
    /\ admin[a].at = "routes"
    /\ routes' = BuiltRoutes(admin[a].built)
    /\ To(a, "clear")
    /\ UNCHANGED <<row, vers, server, plans, cache, visit>>

\* Mutant: the responses of the old plans stay.
ClearNothing(a) ==
    /\ admin[a].at = "clear"
    /\ End(a)
    /\ server' = IF a = Boot THEN "serving" ELSE server
    /\ UNCHANGED <<row, vers, plans, routes, cache, visit>>

\* The last of the three writes; main goes on to listen.
ClearCache(a) ==
    /\ admin[a].at = "clear"
    /\ cache' = NothingCached
    /\ End(a)
    /\ server' = IF a = Boot THEN "serving" ELSE server
    /\ UNCHANGED <<row, vers, plans, routes, visit>>

-----------------------------------------------------------------------------
(* Requests to published paths *)

Seen(v, at) == visit' = [visit EXCEPT ![v].at = at]
Answer(v)   == visit' = [visit EXCEPT ![v] = IdleVisit]
Serves      == UNCHANGED <<row, vers, server, plans, routes, admin>>

\* The routes table is read once.  (404 and 405, and OPTIONS, change nothing and are
\* left out.)
Request(v, p, m, i) ==
    LET e == routes[<<p, m>>] IN
    /\ server = "serving" /\ visit[v].at = "idle"
    /\ e # None
    /\ visit' = [visit EXCEPT ![v] = [IdleVisit EXCEPT !.key = <<p, m>>, !.input = i,
                     !.entry = e, !.at = IF Cached(e.code) THEN "lookup" ELSE "plan"]]
    /\ Serves /\ UNCHANGED cache

\* The key is the path and the inputs; it has no method.  (The code keeps its
\* 64-bit hash; two keys are taken to have two hashes.)
CacheKey(v) == <<visit[v].key[1], visit[v].input>>

LookUp(v) ==
    /\ visit[v].at = "lookup"
    /\ IF cache[CacheKey(v)] = None THEN Seen(v, "plan") ELSE Answer(v)
    /\ Serves /\ UNCHANGED cache

\* "plan not loaded for published graph"
TakePlan(v) ==
    LET plan == plans[visit[v].entry.graph] IN
    /\ visit[v].at = "plan"
    /\ IF plan = None THEN Answer(v)
       ELSE visit' = [visit EXCEPT ![v].at = "run", ![v].plan = plan]
    /\ Serves /\ UNCHANGED cache

\* run_execution on a blocking thread, with the route's timeout: a graph that pauses
\* or fails answers 202 or 422, and what is not to be kept is answered too.
RunGraph(v) ==
    /\ visit[v].at = "run"
    /\ \/ Cached(visit[v].entry.code) /\ Seen(v, "insert")
       \/ Answer(v)
    /\ Serves /\ UNCHANGED cache

\* Only a completed run is kept.
InsertBody(v) ==
    LET r == visit[v] IN
    /\ r.at = "insert"
    /\ cache' = [cache EXCEPT ![CacheKey(v)] =
                     [graph |-> r.entry.graph, code |-> r.plan, input |-> r.input]]
    /\ Answer(v)
    /\ Serves

\* http_cache_ttl seconds later: an expired entry is as good as none.
Expire(k) ==
    /\ cache[k] # None
    /\ cache' = [cache EXCEPT ![k] = None]
    /\ Serves /\ UNCHANGED visit

-----------------------------------------------------------------------------
(* The process *)

Fresh ==
    /\ plans = Unbuilt
    /\ routes = [k \in Keys |-> None]
    /\ cache = NothingCached
    /\ visit = [v \in Visitors |-> IdleVisit]

StartServer ==
    /\ server \in {"down", "refused"}
    /\ server' = "starting"
    /\ Begin(Boot, "list", None, 0, None)
    /\ UNCHANGED <<row, vers, tables, visit>>

\* What the storage calls wrote stays, the tables in memory do not.
KillServer ==
    /\ server \in {"starting", "serving"}
    /\ server' = "down"
    /\ admin' = [a \in Workers |-> IdleAdmin]
    /\ plans' = Unbuilt
    /\ routes' = [k \in Keys |-> None]
    /\ cache' = NothingCached
    /\ visit' = [v \in Visitors |-> IdleVisit]
    /\ UNCHANGED <<row, vers>>

PublishInit ==
    /\ EmptyTables
    /\ server = "down"
    /\ admin = [a \in Workers |-> IdleAdmin]
    /\ Fresh
    /\ trouble = {}

StartAdmin(a) ==
    \E g \in Graphs :
        \/ \E code \in Codes : StartCreate(a, g, code) \/ StartUpdate(a, g, code)
        \/ \E v \in Versions : \/ StartVersion(a, "deploy", g, v)
                               \/ StartVersion(a, "rollback", g, v)

AdminStep(a) ==
    \/ Create(a) \/ Update(a) \/ GiveUp(a) \/ SaveCompiled(a) \/ DeployVersion(a) \/ RollBack(a)
    \/ ListGraphs(a) \/ \E g \in Graphs : LoadStored(a, g)
    \/ Heal(a) \/ InstallPlans(a) \/ InstallRoutes(a)

VisitStep(v) ==
    \/ LookUp(v) \/ TakePlan(v) \/ RunGraph(v) \/ InsertBody(v)

\* Two requests that change graphs are in progress.
Overlap == \E a, b \in Workers : a # b /\ admin[a].at # "idle" /\ admin[b].at # "idle"

\* A request to a published path has read the routes and has not been answered.
InFlight == \E v \in Visitors : visit[v].at # "idle"

\* An update is stored, its plan is not.
Saving(g) == \E a \in Admins : admin[a].at = "save" /\ admin[a].g = g
HalfSaved == \E g \in Graphs : Saving(g)

PublishNext ==
    \/ /\ \/ \E a \in Admins : StartAdmin(a)
          \/ \E a \in Workers : AdminStep(a)
          \/ \E v \in Visitors : VisitStep(v)
          \/ \E v \in Visitors, p \in Paths, m \in Methods, i \in Inputs : Request(v, p, m, i)
          \/ \E k \in CacheKeys : Expire(k)
          \/ StartServer
       /\ trouble' = trouble \cup (IF Overlap' THEN {"overlap"} ELSE {})
    \/ /\ \E a \in Workers : ClearCache(a)
       /\ trouble' = trouble \cup (IF InFlight THEN {"late"} ELSE {})
    \/ /\ KillServer
       /\ trouble' = trouble \cup (IF HalfSaved THEN {"killed"} ELSE {})

PublishSpec == PublishInit /\ [][PublishNext]_publishVars

\* Handlers run on, and the process is started again whenever it has ended.
PublishFairness ==
    /\ \A a \in Workers : WF_admin(AdminStep(a) \/ ClearCache(a))
    /\ WF_server(StartServer)

FairPublishSpec == PublishSpec /\ PublishFairness

-----------------------------------------------------------------------------
(* Properties *)

\* "the same (path, method) pair can never be actively published twice", and a change
\* is refused before it is written or not at all (README.md:808, api.rs:366): once the
\* row is written its refresh_all does not fail, and neither does that of the next
\* start, wherever the process was killed; as long as no two changes overlap and no
\* execution heals the plan of a row that has another one.
RefreshNeverFails ==
    [][\A a \in Workers :
          (admin[a].at \in {"load", "heal"} /\ admin'[a].at = "idle") =>
              (server' = "down" \/ trouble' \cap {"overlap", "heal"} # {})]_publishVars

Idle == server = "serving" /\ \A a \in Workers : admin[a].at = "idle"

\* The tables refresh_all builds are the store's: with no change in progress every
\* stored graph's plan is in the table and is that of its code, and the routes are
\* those of the plans, after failures and restarts too, unless two changes overlapped,
\* the process died between the two storage calls of an update, or an execution
\* healed the plan of a row that has another one.
TablesAgree ==
    (Idle /\ trouble \cap {"overlap", "killed", "heal"} = {}) =>
        /\ \A g \in Graphs : plans[g] = row[g].plan /\ plans[g] = row[g].code
        /\ routes = BuiltRoutes(plans)

\* A cached body is one that its path's route, as published now, gives for these
\* inputs: refresh_all's clearing of the cache leaves nothing behind, unless a
\* request was being answered meanwhile.
CacheFresh ==
    (Idle /\ trouble \cap {"overlap", "late"} = {}) =>
        \A k \in CacheKeys : cache[k] # None =>
            /\ cache[k].input = k[2]
            /\ plans[cache[k].graph] = cache[k].code
            /\ \E m \in Methods : LET e == routes[<<k[1], m>>] IN
                 e # None /\ e.graph = cache[k].graph /\ Cached(e.code)

\* A stored change comes to be served, after a failure or a restart too: again and
\* again the server is idle and its plans are those stored, unless something of
\* that kind happened or the process is killed again and again.
ChangesServed ==
    \/ []<><<KillServer>>_server
    \/ []<>(trouble \cap {"overlap", "killed", "heal"} # {} \/ (Idle /\ \A g \in Graphs : plans[g] = row[g].plan))
=============================================================================
