---------------------------- MODULE TablesProofs ----------------------------
(***************************************************************************)
(* Machine-checked theorems about the tables of one server: that they are  *)
(* the store's, that refresh_all does not fail, that no cached body is     *)
(* stale and that a run that passed the check of the environment lacks no  *)
(* variable, for every instance of Server, as long as none of the troubles *)
(* the properties name has occurred.                                       *)
(*                                                                         *)
(* Without overlapping changes there is one request that changes graphs at *)
(* a time; every step is seen from that one request.  While no change is   *)
(* in progress no row changes, so what the check walked is what the        *)
(* executors run.                                                          *)
(***************************************************************************)
EXTENDS ServerProofs

-----------------------------------------------------------------------------
(* Routes that are apart *)

LEMMA ServedTyped ==
    ASSUME StoreOK
    PROVE  /\ Served \in [Graphs -> Source]
           /\ \A g \in Graphs : ~Exists(g) => Served[g] = None
BY StoreFields DEF Served, StoreOK, StoreOrdered

\* One graph comes to serve another code, which is compatible.
LEMMA ApartAfter ==
    ASSUME NEW served, NEW after, NEW g \in Graphs,
           \A h \in Graphs \ {g} : after[h] = served[h],
           Apart(served), after[g] # None => Compatible(served, g, after[g])
    PROVE  /\ Apart(after)
           /\ \A code : Compatible(served, g, code) => Compatible(after, g, code)
<1>1. \A code : Compatible(served, g, code) => Compatible(after, g, code)
  BY DEF Compatible
<1>2. ASSUME NEW h \in Graphs, after[h] # None PROVE Compatible(after, h, after[h])
  <2>1. CASE h = g BY <1>1, <1>2, <2>1
  <2>2. CASE h # g
    <3>1. Compatible(served, h, after[h]) BY <1>2, <2>2 DEF Apart
    <3>2. ASSUME Publishes(after[h]), after[g] # None, Publishes(after[g])
          PROVE  KeyOf(after[h]) # KeyOf(after[g])
      BY <1>2, <2>2, <3>2 DEF Compatible
    <3> QED BY <2>2, <3>1, <3>2 DEF Compatible
  <2> QED BY <2>1, <2>2
<1> QED BY <1>1, <1>2 DEF Apart

LEMMA KeyTyped ==
    ASSUME NEW code \in Codes, Publishes(code)
    PROVE  KeyOf(code) \in Keys
<1>1. /\ MetaOf[code].route \in Paths \cup {""} /\ "" \notin AllMethods
      /\ MetaOf[code].method \in Methods \cup {"OPTIONS", ""} /\ "OPTIONS" \notin AllMethods
  BY PublishAssumption DEF AllMethods
<1>2. /\ MetaOf[code].route # "" /\ MetaOf[code].method \in AllMethods
      /\ RouteOf(code).path = MetaOf[code].route /\ RouteOf(code).method = MetaOf[code].method
  BY DEF Publishes, RouteOf, ParseRoute
<1> QED BY <1>1, <1>2 DEF KeyOf, Keys

\* check_route_conflict against routes that are those of the served codes.
LEMMA NoConflictFits ==
    ASSUME NEW served \in [Graphs -> Source], Apart(served), routes = BuiltRoutes(served),
           NEW g \in Graphs, NEW owner \in {None, g}, NEW code \in Codes, NoConflict(owner, code)
    PROVE  Compatible(served, g, code)
<1>1. RouteOf(code) # Invalid BY DEF NoConflict
<1>2. SUFFICES ASSUME NEW h \in Graphs \ {g}, Publishes(code), served[h] # None,
                      Publishes(served[h]), KeyOf(code) = KeyOf(served[h])
               PROVE  FALSE
  BY <1>1 DEF Compatible
<1> PICK k \in Keys : k = KeyOf(code) BY <1>2, KeyTyped
<1> DEFINE owners == {o \in Graphs : served[o] # None /\ Publishes(served[o])
                                     /\ KeyOf(served[o]) = k}
<1>3. h \in owners BY <1>2
<1> PICK o \in owners : o = CHOOSE x \in owners : TRUE BY <1>3
<1>4. routes[k] = [graph |-> o, code |-> served[o]]
  BY <1>3 DEF BuiltRoutes
<1>5. routes[k] \in Entry /\ routes[k] # None
  BY <1>4, EntryAssumption DEF Entry, Source
<1>6. Owner(k) = o BY <1>4, <1>5 DEF Owner
<1>7. o = g BY <1>2, <1>6, IdleAdminType DEF NoConflict
<1>8. Compatible(served, g, served[g]) BY <1>7 DEF Apart
<1> QED BY <1>2, <1>7, <1>8 DEF Compatible

-----------------------------------------------------------------------------
(* One request at a time *)

Steady == "heal" \notin trouble => Apart(Served) /\ TablesServed
ChangeOK(a) == SavesRow(a) /\ ("heal" \notin trouble => ProposalFits(a) /\ Refreshing(a))
TablesMain == RoutesApart /\ SavesCurrent /\ InStep /\ PlansCurrent

\* A step of request a, without an overlap.
Alone(a) ==
    /\ PublishOK /\ TablesMain /\ Phases
    /\ trouble \subseteq trouble' /\ "overlap" \notin trouble'
    /\ \A b \in Workers \ {a} : admin[b].at = "idle" /\ admin'[b] = admin[b]

LEMMA AloneFacts ==
    ASSUME NEW a \in Workers, Alone(a)
    PROVE  /\ Steady /\ ChangeOK(a) /\ admin[a] \in Admin /\ AdminPlaced(a) /\ StoreOK
           /\ Served \in [Graphs -> Source]
           /\ \A g \in Graphs : Saving(g) <=> a \in Admins /\ admin[a].at = "save" /\ admin[a].g = g
           /\ Behind <=> admin[a].at \in BehindAt
           /\ admin \in [Workers -> Admin]
<1>1. "overlap" \notin trouble /\ ("heal" \notin trouble' => "heal" \notin trouble)
  BY DEF Alone
<1>2. admin[a] \in Admin /\ AdminPlaced(a) /\ StoreOK /\ admin \in [Workers -> Admin]
  BY AdminFields DEF Alone, PublishOK, PublishTypeOK
<1>3. \A g \in Graphs : Saving(g) <=> a \in Admins /\ admin[a].at = "save" /\ admin[a].g = g
  BY DEF Alone, Saving, Workers
<1>4. Behind <=> admin[a].at \in BehindAt
  BY DEF Alone, Behind, BehindAt
<1>5. Steady /\ ChangeOK(a)
  BY <1>1 DEF Alone, TablesMain, RoutesApart, SavesCurrent, InStep, Steady, ChangeOK
<1> QED BY <1>2, <1>3, <1>4, <1>5, ServedTyped

\* What is to be shown of a step of request a.
LEMMA MainAfter ==
    ASSUME NEW a \in Workers, Alone(a), Steady', ChangeOK(a)', PlansCurrent'
    PROVE  TablesMain'
<1>1. \A b \in Workers \ {a} : admin'[b].at = "idle" BY DEF Alone
<1>2. \A b \in Workers \ {a} : ProposalFits(b)' /\ Refreshing(b)' /\ SavesRow(b)'
  BY <1>1 DEF ProposalFits, Refreshing, SavesRow
<1> QED BY <1>2 DEF TablesMain, RoutesApart, SavesCurrent, InStep, Steady, ChangeOK


\* A step that stores nothing and leaves the tables alone.
LEMMA Unstored ==
    ASSUME NEW a \in Workers, Alone(a), UNCHANGED <<row, vers, plans, routes>>,
           admin[a].at # "save", ChangeOK(a)',
           ("heal" \notin trouble' /\ server' = "serving" /\ admin'[a].at \notin BehindAt) =>
               server = "serving" /\ admin[a].at \notin BehindAt
    PROVE  TablesMain'
<1>1. Served' = Served BY DEF Served
<1>2. /\ Steady /\ PlansCurrent /\ trouble \subseteq trouble'
      /\ \A g \in Graphs : ~Saving(g)
  BY AloneFacts DEF Alone, TablesMain
<1>3. Behind <=> admin[a].at \in BehindAt BY AloneFacts
<1>4. ~Behind' => admin'[a].at \notin BehindAt BY DEF Behind
<1>5. Steady'
  BY <1>1, <1>2, <1>3, <1>4 DEF Steady, TablesServed
<1>6. PlansCurrent' BY <1>2 DEF PlansCurrent
<1> QED BY <1>5, <1>6, MainAfter

\* The record of a request that is idle, or begins to refresh.
LEMMA IdleOK ==
    ASSUME NEW a \in Workers, admin \in [Workers -> Admin], End(a)
    PROVE  ChangeOK(a)' /\ admin'[a].at = "idle"
<1>1. admin'[a].at = "idle" BY DEF End, IdleAdmin
<1> QED BY <1>1 DEF ChangeOK, SavesRow, ProposalFits, Refreshing

LEMMA ListOK ==
    ASSUME NEW a \in Workers, admin \in [Workers -> Admin], Refresh(a)
    PROVE  ChangeOK(a)' /\ admin'[a].at = "list" /\ "list" \in BehindAt
<1> DEFINE r == At("list", None, 0, None)
<1>2. r.at = "list" /\ r.built = Unbuilt BY DEF At, IdleAdmin
<1>5. admin'[a] = r BY DEF Refresh, Begin
<1> HIDE DEF r
<1>3. admin'[a].at = "list" /\ admin'[a].built = Unbuilt BY <1>2, <1>5
<1>4. Refreshing(a)'
  <2>1. Unbuilt' = Unbuilt BY DEF Unbuilt
  <2> QED BY <1>3, <2>1 DEF Refreshing
<1> QED BY <1>3, <1>4 DEF ChangeOK, SavesRow, ProposalFits, BehindAt

LEMMA StartsMain ==
    ASSUME NEW a \in Admins, Alone(a), StartAdmin(a)
    PROVE  TablesMain'
<1> USE DEF Unserved, tables
<1> PICK g \in Graphs :
       \/ \E code \in Codes : StartCreate(a, g, code) \/ StartUpdate(a, g, code)
       \/ \E v \in Versions : \/ StartVersion(a, "deploy", g, v)
                              \/ StartVersion(a, "rollback", g, v)
  BY DEF StartAdmin
<1>1. a \in Workers BY DEF Workers
<1>2. /\ Steady /\ admin \in [Workers -> Admin] /\ StoreOK /\ Served \in [Graphs -> Source]
      /\ Behind <=> admin[a].at \in BehindAt
  BY <1>1, AloneFacts
<1>3. server = "serving" /\ admin[a].at = "idle" /\ UNCHANGED <<row, vers, server, plans, routes>>
  BY DEF StartCreate, StartUpdate, StartVersion
<1>4. ~Behind BY <1>2, <1>3 DEF BehindAt
<1>5. "heal" \notin trouble' => Apart(Served) /\ routes = BuiltRoutes(Served)
  BY <1>2, <1>3, <1>4 DEF Steady, TablesServed, Alone
<1>6. Served' = Served BY <1>3 DEF Served
<1>7. ASSUME NEW at \in {"create", "update", "deploy", "rollback"}, NEW code \in Codes,
             NEW owner \in {None, g}, NoConflict(owner, code),
             admin'[a].at = at, admin'[a].g = g,
             at # "deploy" => Proposed(a)' = code
      PROVE  TablesMain'
  <2>1. "heal" \notin trouble' => Compatible(Served, g, code)
    BY <1>2, <1>5, <1>7, NoConflictFits
  <2>2. ProposalFits(a)' \/ "heal" \in trouble'
    BY <1>6, <1>7, <2>1 DEF ProposalFits, Compatible
  <2>3. ChangeOK(a)'
    BY <1>7, <2>2 DEF ChangeOK, SavesRow, Refreshing
  <2> QED BY <1>1, <1>3, <2>3, Unstored DEF BehindAt
<1>8. ASSUME NEW at \in AdminAt, NEW v \in 0..MaxVersion, NEW code \in Source,
             Begin(a, at, g, v, code)
      PROVE  admin'[a].at = at /\ admin'[a].g = g /\ admin'[a].version = v /\ admin'[a].code = code
  <2>1. admin'[a] = At(at, g, v, code) BY <1>1, <1>2, <1>8 DEF Begin
  <2> QED BY <2>1, BeginType
<1>9. ASSUME NEW code \in Codes, StartCreate(a, g, code) PROVE TablesMain'
  <2>1. "create" \in AdminAt /\ 1 \in 0..MaxVersion /\ code \in Source
    BY <1>9, ServerStoreAssumption DEF StartCreate, AdminAt, Source
  <2>2. admin'[a].at = "create" /\ admin'[a].g = g /\ admin'[a].code = code
    BY <1>8, <1>9, <2>1 DEF StartCreate
  <2>3. Proposed(a)' = code BY <2>2 DEF Proposed
  <2> QED BY <1>7, <1>9, <2>2, <2>3 DEF StartCreate
<1>10. ASSUME NEW code \in Codes, StartUpdate(a, g, code) PROVE TablesMain'
  <2>1. "update" \in AdminAt /\ 0 \in 0..MaxVersion /\ code \in Source
    BY ServerStoreAssumption DEF AdminAt, Source
  <2>2. admin'[a].at = "update" /\ admin'[a].g = g /\ admin'[a].code = code
    BY <1>8, <1>10, <2>1 DEF StartUpdate
  <2>3. Proposed(a)' = code BY <2>2 DEF Proposed
  <2> QED BY <1>7, <1>10, <2>2, <2>3 DEF StartUpdate
<1>11. ASSUME NEW v \in Versions, NEW at \in {"deploy", "rollback"}, StartVersion(a, at, g, v)
       PROVE  TablesMain'
  <2> PICK code \in Codes : code = vers[g][v].plan
    BY <1>2, <1>11, StoreFields DEF StartVersion, StoreOK, Source
  <2>1. at \in AdminAt /\ v \in 0..MaxVersion /\ None \in Source
    BY ServerStoreAssumption DEF AdminAt, Versions, Source
  <2>2. admin'[a].at = at /\ admin'[a].g = g /\ admin'[a].version = v
    BY <1>8, <1>11, <2>1 DEF StartVersion
  <2>3. at # "deploy" => Proposed(a)' = code BY <1>3, <2>2 DEF Proposed
  <2> QED BY <1>7, <1>11, <2>2, <2>3 DEF StartVersion
<1> QED BY <1>9, <1>10, <1>11

LEMMA GiveUpMain ==
    ASSUME NEW a \in Workers, Alone(a), GiveUp(a)
    PROVE  TablesMain'
<1>1. /\ End(a) /\ UNCHANGED <<row, vers, server, plans, routes>>
      /\ admin[a].at \in {"update", "rollback"}
  BY DEF GiveUp, Unserved, tables
<1>2. ChangeOK(a)' BY <1>1, AloneFacts, IdleOK
<1> QED BY <1>1, <1>2, Unstored DEF BehindAt

LEMMA DeployMain ==
    ASSUME NEW a \in Workers, Alone(a), DeployVersion(a)
    PROVE  TablesMain'
<1>1. /\ Refresh(a) /\ UNCHANGED <<row, vers, server, plans, routes>>
      /\ admin[a].at = "deploy"
  BY DEF DeployVersion, Deploy, Unserved, tables
<1>2. ChangeOK(a)' /\ admin'[a].at \in BehindAt BY <1>1, AloneFacts, ListOK
<1> QED BY <1>1, <1>2, Unstored

LEMMA StartServerMain ==
    ASSUME Alone(Boot), StartServer
    PROVE  TablesMain'
<1>1. /\ Refresh(Boot) /\ UNCHANGED <<row, vers, plans, routes>> /\ server' = "starting"
      /\ Boot \in Workers /\ server \in {"down", "refused"}
  BY DEF StartServer, Refresh, tables, Workers
<1>2. admin[Boot].at = "idle" BY <1>1 DEF Alone, Phases
<1>3. ChangeOK(Boot)' /\ admin'[Boot].at \in BehindAt BY <1>1, AloneFacts, ListOK
<1> QED BY <1>1, <1>2, <1>3, Unstored

LEMMA ListGraphsMain ==
    ASSUME NEW a \in Workers, Alone(a), ListGraphs(a)
    PROVE  TablesMain'
<1>1. /\ UNCHANGED <<row, vers, server, plans, routes>> /\ admin[a].at = "list"
      /\ ChangeOK(a) /\ admin[a] \in Admin
  BY AloneFacts DEF ListGraphs, Unserved, tables
<1> DEFINE list == [g \in Graphs |-> [version |-> row[g].version, code |-> row[g].code]]
<1>2. /\ admin'[a].at = "load" /\ admin'[a].listed = list /\ admin'[a].built = admin[a].built
  BY AloneFacts DEF ListGraphs, Admin
<1>3. \A g \in Graphs : admin'[a].listed[g] = [version |-> row'[g].version, code |-> row'[g].code]
  BY <1>1, <1>2
<1>4. "heal" \notin trouble' => \A g \in Graphs : admin'[a].built[g] = None
  BY <1>1, <1>2 DEF Alone, ChangeOK, Refreshing, Unbuilt
<1>5. "heal" \notin trouble' => Refreshing(a)'
  BY <1>2, <1>3, <1>4 DEF Refreshing
<1>6. ChangeOK(a)' BY <1>2, <1>5 DEF ChangeOK, SavesRow, ProposalFits
<1> QED BY <1>1, <1>2, <1>6, Unstored DEF BehindAt


\* A plan that is what the store serves goes into the new tables: neither its META nor a
\* route built before refuses it.
LEMMA BuildGoesOn ==
    ASSUME NEW a \in Workers, Alone(a), "heal" \notin trouble',
           NEW g \in Graphs, NEW code \in Codes, code = Served[g],
           admin[a].at \in {"load", "heal"}, Build(a, g, code)
    PROVE  /\ admin' = [admin EXCEPT ![a].at = "load", ![a].built[g] = code]
           /\ UNCHANGED server
<1>1. /\ Apart(Served) /\ Refreshing(a) /\ None \notin Codes
  BY AloneFacts, IdleAdminType DEF Alone, Steady, ChangeOK
<1>2. Compatible(Served, g, code) BY <1>1 DEF Apart
<1>3. ~Duplicate(a, g, code)
  <2> SUFFICES ASSUME NEW h \in Graphs \ {g}, admin[a].built[h] # None, Publishes(code),
                      Publishes(admin[a].built[h]), KeyOf(admin[a].built[h]) = KeyOf(code)
               PROVE  FALSE
    BY DEF Duplicate
  <2>1. admin[a].built[h] = Served[h] BY <1>1 DEF Refreshing
  <2> QED BY <1>2, <2>1 DEF Compatible
<1> QED BY <1>2, <1>3 DEF Build, Compatible

LEMMA BuiltOK ==
    ASSUME NEW a \in Workers, Alone(a), NEW g \in Graphs, NEW code \in Codes, code = Served[g],
           admin[a].at \in {"load", "heal"}, Build(a, g, code),
           Served' = Served,
           \A h \in Graphs : row'[h].version = row[h].version /\ row'[h].code = row[h].code
    PROVE  /\ ChangeOK(a)'
           /\ "heal" \notin trouble' => admin'[a].at = "load" /\ admin'[a].at \in BehindAt
           /\ admin'[a].at \in {"load", "idle"}
<1>1. admin \in [Workers -> Admin] /\ ChangeOK(a) /\ admin[a] \in Admin BY AloneFacts
<1>2. CASE "heal" \in trouble'
  <2>1. admin'[a].at \in {"load", "idle"}
    BY <1>1 DEF Build, Fail, End, IdleAdmin, Admin
  <2> QED BY <1>2, <2>1 DEF ChangeOK, SavesRow
<1>3. CASE "heal" \notin trouble'
  <2>1. admin' = [admin EXCEPT ![a].at = "load", ![a].built[g] = code]
    BY <1>3, BuildGoesOn
  <2>2. /\ admin'[a].at = "load" /\ admin'[a].listed = admin[a].listed
        /\ \A h \in Graphs : admin'[a].built[h] = IF h = g THEN code ELSE admin[a].built[h]
    BY <1>1, <2>1 DEF Admin
  <2>3. Refreshing(a) BY <1>1, <1>3 DEF ChangeOK, Alone
  <2>4. \A h \in Graphs : /\ admin'[a].listed[h] = [version |-> row'[h].version, code |-> row'[h].code]
                          /\ admin'[a].built[h] \in {None, Served'[h]}
    BY <2>2, <2>3 DEF Refreshing
  <2>5. Refreshing(a)' BY <2>2, <2>4 DEF Refreshing
  <2> QED BY <2>2, <2>5 DEF ChangeOK, SavesRow, ProposalFits, BehindAt
<1> QED BY <1>2, <1>3

LEMMA LoadStoredMain ==
    ASSUME NEW a \in Workers, NEW g \in Graphs, Alone(a), LoadStored(a, g)
    PROVE  TablesMain'
<1>1. /\ UNCHANGED <<row, vers, plans, routes>> /\ admin[a].at = "load"
      /\ admin \in [Workers -> Admin] /\ ChangeOK(a) /\ admin[a] \in Admin /\ StoreOK
      /\ "load" \in BehindAt
  BY AloneFacts DEF LoadStored, tables, BehindAt
<1>2. Served' = Served BY <1>1 DEF Served
<1>3. CASE row[g].plan # None
  <2> PICK code \in Codes : code = row[g].plan
    BY <1>1, <1>3, StoreFields DEF StoreOK, Source
  <2>1. Build(a, g, code) /\ code = Served[g] BY <1>3 DEF LoadStored, Served
  <2>2. /\ ChangeOK(a)'
        /\ "heal" \notin trouble' => admin'[a].at \in BehindAt
    BY <1>1, <1>2, <2>1, BuiltOK
  <2> QED BY <1>1, <2>2, Unstored
<1>4. CASE /\ row[g].plan = None
           /\ admin' = [admin EXCEPT ![a].at = "heal", ![a].g = g]
           /\ UNCHANGED server
  <2>1. /\ admin'[a].at = "heal" /\ admin'[a].g = g /\ admin'[a].listed = admin[a].listed
        /\ admin'[a].built = admin[a].built
    BY <1>1, <1>4 DEF Admin
  <2>2. Served'[g] = row'[g].code BY <1>1, <1>4 DEF Served
  <2>3. "heal" \notin trouble' => Refreshing(a) BY <1>1 DEF ChangeOK, Alone
  <2>4. "heal" \notin trouble' => \A h \in Graphs :
          /\ admin'[a].listed[h] = [version |-> row'[h].version, code |-> row'[h].code]
          /\ admin'[a].built[h] \in {None, Served'[h]}
    BY <1>1, <1>2, <2>1, <2>3 DEF Refreshing
  <2>5. ChangeOK(a)'
    BY <2>1, <2>2, <2>4 DEF ChangeOK, SavesRow, ProposalFits, Refreshing
  <2>6. admin'[a].at \in BehindAt BY <2>1 DEF BehindAt
  <2> QED BY <1>1, <2>5, <2>6, Unstored
<1> QED BY <1>3, <1>4 DEF LoadStored

\* A graph's row changes: what is to be shown when its served code was proposed.
LEMMA StoredMain ==
    ASSUME NEW a \in Workers, Alone(a), NEW g \in Graphs, NEW code,
           \A h \in Graphs \ {g} : row'[h] = row[h],
           Served'[g] \in {Served[g], code},
           "heal" \notin trouble' => Compatible(Served, g, code),
           admin'[a].at \in {"save", "list"}, ChangeOK(a)' \/ admin'[a].at = "save",
           admin'[a].at = "save" =>
               /\ SavesRow(a)' /\ a \in Admins /\ admin'[a].g = g /\ admin'[a].code = code,
           admin[a].at = "save" => admin[a].g = g,
           row'[g].plan = row'[g].code \/ admin'[a].at = "save"
    PROVE  TablesMain'
<1>1. /\ Steady /\ Served \in [Graphs -> Source]
      /\ \A h \in Graphs : Saving(h) <=> a \in Admins /\ admin[a].at = "save" /\ admin[a].g = h
      /\ PlansCurrent /\ trouble \subseteq trouble'
  BY AloneFacts DEF Alone, TablesMain
<1>2. \A h \in Graphs \ {g} : Served'[h] = Served[h] BY DEF Served
<1>3. ASSUME "heal" \notin trouble'
      PROVE  Apart(Served)' /\ Compatible(Served', g, code)
  <2>1. Apart(Served) BY <1>1, <1>3 DEF Steady
  <2>2. Served'[g] # None => Compatible(Served, g, Served'[g])
    BY <1>3, <2>1 DEF Apart
  <2>3. Apart(Served') /\ Compatible(Served', g, code)
    BY <1>2, <1>3, <2>1, <2>2, ApartAfter
  <2>4. Apart(Served)'
    BY <2>3 DEF Apart, Compatible
  <2> QED BY <2>3, <2>4
<1>4. Behind' BY DEF Behind, BehindAt
<1>5. Steady' BY <1>3, <1>4 DEF Steady, TablesServed
<1>6. PlansCurrent'
  <2> SUFFICES ASSUME trouble' \cap {"overlap", "killed", "heal"} = {}, NEW h \in Graphs
               PROVE  row'[h].plan = row'[h].code \/ Saving(h)'
    BY DEF PlansCurrent
  <2>1. CASE h = g BY <2>1 DEF Saving
  <2>2. CASE h # g BY <1>1, <2>2 DEF PlansCurrent
  <2> QED BY <2>1, <2>2
<1>7. ChangeOK(a)'
  <2>1. CASE admin'[a].at = "save"
    <3>1. Refreshing(a)' BY <2>1 DEF Refreshing
    <3>2. Proposed(a)' = code BY <2>1 DEF Proposed
    <3>3. "heal" \notin trouble' => ProposalFits(a)'
      BY <1>3, <2>1, <3>2 DEF ProposalFits, Compatible
    <3> QED BY <2>1, <3>1, <3>3 DEF ChangeOK
  <2> QED BY <2>1
<1> QED BY <1>5, <1>6, <1>7, MainAfter

LEMMA CreateMain ==
    ASSUME NEW a \in Workers, Alone(a), Create(a)
    PROVE  TablesMain'
<1>1. /\ StoreOK /\ AdminPlaced(a) /\ ChangeOK(a) /\ admin[a] \in Admin
      /\ admin \in [Workers -> Admin] /\ admin[a].at = "create"
  BY AloneFacts DEF Create
<1> PICK g \in Graphs, code \in Codes : g = admin[a].g /\ code = admin[a].code
  BY <1>1 DEF AdminPlaced
<1>2. /\ ~Exists(g) /\ admin[a].version = 1 /\ 1 \in Versions /\ a # Boot /\ a \in Admins
      /\ CreateGraph(g, code)
  BY <1>1 DEF AdminPlaced, Changes, Workers, Create
<1>3. /\ row'[g].version = 1 /\ row'[g].code = code /\ row'[g].plan = None
      /\ \A h \in Graphs \ {g} : row'[h] = row[h]
  BY <1>1, <1>2, CreateKeeps
<1>4. Served'[g] = code BY <1>3 DEF Served
<1>5. "heal" \notin trouble' => Compatible(Served, g, code)
  BY <1>1 DEF ChangeOK, Alone, ProposalFits, Proposed
<1>6. /\ admin'[a].at = "save" /\ admin'[a].g = g /\ admin'[a].code = code
      /\ admin'[a].version = 1
  BY <1>1, <1>2 DEF Create, To, Admin
<1>7. SavesRow(a)' BY <1>3, <1>6 DEF SavesRow
<1> QED BY <1>1, <1>2, <1>3, <1>4, <1>5, <1>6, <1>7, StoredMain

LEMMA UpdateMain ==
    ASSUME NEW a \in Workers, Alone(a), Update(a)
    PROVE  TablesMain'
<1>1. /\ StoreOK /\ AdminPlaced(a) /\ ChangeOK(a) /\ admin[a] \in Admin
      /\ admin \in [Workers -> Admin] /\ admin[a].at = "update"
  BY AloneFacts DEF Update
<1> PICK g \in Graphs, code \in Codes : g = admin[a].g /\ code = admin[a].code
  BY <1>1 DEF AdminPlaced
<1>2. /\ Exists(g) /\ a # Boot /\ a \in Admins /\ row[g].version < MaxVersion
      /\ UpdateGraph(g, code) /\ row[g] \in Row
  BY <1>1, StoreFields DEF AdminPlaced, Changes, Workers, Update, StoreOK
<1>3. /\ row'[g] = [row[g] EXCEPT !.code = code, !.version = row[g].version + 1]
      /\ \A h \in Graphs \ {g} : row'[h] = row[h]
  BY <1>1, <1>2, UpdateKeeps
<1>4. /\ row'[g].code = code /\ row'[g].version = row[g].version + 1
      /\ row'[g].plan = row[g].plan
  BY <1>2, <1>3 DEF Row
<1>5. Served'[g] \in {Served[g], code} BY <1>4 DEF Served
<1>6. "heal" \notin trouble' => Compatible(Served, g, code)
  BY <1>1 DEF ChangeOK, Alone, ProposalFits, Proposed
<1>7. /\ admin'[a].at = "save" /\ admin'[a].g = g /\ admin'[a].code = code
      /\ admin'[a].version = row[g].version + 1
  BY <1>1 DEF Update, Admin
<1>8. SavesRow(a)' BY <1>4, <1>7 DEF SavesRow
<1> QED BY <1>1, <1>2, <1>3, <1>5, <1>6, <1>7, <1>8, StoredMain

LEMMA SaveCompiledMain ==
    ASSUME NEW a \in Workers, Alone(a), SaveCompiled(a)
    PROVE  TablesMain'
<1>1. /\ StoreOK /\ AdminPlaced(a) /\ ChangeOK(a) /\ admin[a] \in Admin
      /\ admin \in [Workers -> Admin] /\ admin[a].at = "save"
  BY AloneFacts DEF SaveCompiled
<1> PICK g \in Graphs, v \in Versions, code \in Codes :
       g = admin[a].g /\ v = admin[a].version /\ code = admin[a].code
  BY <1>1 DEF AdminPlaced, Recorded
<1>2. Exists(g) /\ Recorded(g, v, code) /\ SavePlan(g, v, code) /\ Refresh(a)
  BY <1>1 DEF AdminPlaced, SaveCompiled
<1>3. /\ row'[g] = [row[g] EXCEPT !.plan = code]
      /\ \A h \in Graphs \ {g} : row'[h] = row[h]
  <2>1. StoreOK BY <1>1
  <2>2. Exists(g) /\ Recorded(g, v, code) /\ SavePlan(g, v, code) BY <1>2
  <2> QED BY ONLY <2>1, <2>2, g \in Graphs, SaveKeeps
<1>4. row[g].code = code
  BY <1>1, <1>2 DEF ChangeOK, SavesRow, StoreOK, StoreOrdered, Recorded
<1>5. row'[g].plan = code /\ row'[g].code = code
  BY <1>1, <1>3, <1>4, StoreFields DEF StoreOK, Row
<1>6. Served'[g] \in {Served[g], code} BY <1>2, <1>5, IdleAdminType DEF Served
<1>7. "heal" \notin trouble' => Compatible(Served, g, code)
  BY <1>1 DEF ChangeOK, Alone, ProposalFits, Proposed
<1>8. ChangeOK(a)' /\ admin'[a].at = "list" BY <1>1, <1>2, ListOK
<1> QED BY <1>1, <1>3, <1>5, <1>6, <1>7, <1>8, StoredMain

LEMMA RollBackMain ==
    ASSUME NEW a \in Workers, Alone(a), RollBack(a)
    PROVE  TablesMain'
<1>1. /\ StoreOK /\ AdminPlaced(a) /\ ChangeOK(a) /\ admin[a] \in Admin
      /\ admin \in [Workers -> Admin] /\ admin[a].at = "rollback"
  BY AloneFacts DEF RollBack
<1> PICK g \in Graphs, v \in Versions : g = admin[a].g /\ v = admin[a].version
  BY <1>1 DEF AdminPlaced
<1>2. /\ Exists(g) /\ vers[g][v].plan # None /\ Latest(g) < MaxVersion
      /\ Rollback(g, v) /\ Refresh(a)
  BY <1>1 DEF AdminPlaced, RollBack
<1> PICK code \in Codes : code = vers[g][v].plan
  BY <1>1, <1>2, StoreFields DEF StoreOK, Source
<1>3. /\ row'[g].plan = code /\ row'[g].code = code
      /\ \A h \in Graphs \ {g} : row'[h] = row[h]
  BY <1>1, <1>2, RollbackKeeps
<1>4. Served'[g] \in {Served[g], code} BY <1>3, IdleAdminType DEF Served
<1>5. "heal" \notin trouble' => Compatible(Served, g, code)
  BY <1>1 DEF ChangeOK, Alone, ProposalFits, Proposed
<1>6. ChangeOK(a)' /\ admin'[a].at = "list" BY <1>1, <1>2, ListOK
<1> QED BY <1>1, <1>3, <1>4, <1>5, <1>6, StoredMain

LEMMA BuildMoves ==
    ASSUME NEW a \in Workers, admin \in [Workers -> Admin], NEW g \in Graphs, NEW code,
           Build(a, g, code)
    PROVE  admin'[a].at \in {"load", "idle"}
BY DEF Build, Fail, End, IdleAdmin, Admin

LEMMA HealMain ==
    ASSUME NEW a \in Workers, Alone(a), Heal(a)
    PROVE  TablesMain'
<1>1. /\ StoreOK /\ AdminPlaced(a) /\ ChangeOK(a) /\ admin[a] \in Admin /\ Steady
      /\ admin \in [Workers -> Admin] /\ admin[a].at = "heal"
  BY AloneFacts DEF Heal
<1> PICK g \in Graphs : g = admin[a].g
  BY <1>1 DEF AdminPlaced
<1>2. admin[a].listed[g].version # 0 BY <1>1 DEF AdminPlaced
<1> PICK v \in Versions, code \in Codes :
       v = admin[a].listed[g].version /\ code = admin[a].listed[g].code
  BY <1>1, <1>2 DEF AdminPlaced, Recorded
<1>3. /\ Exists(g) /\ Recorded(g, v, code) /\ SavePlan(g, v, code) /\ Build(a, g, code)
      /\ UNCHANGED <<plans, routes>>
  BY <1>1, <1>2 DEF AdminPlaced, Heal, tables
<1>4. /\ row'[g] = [row[g] EXCEPT !.plan = code]
      /\ \A h \in Graphs \ {g} : row'[h] = row[h]
  <2>1. StoreOK BY <1>1
  <2>2. Exists(g) /\ Recorded(g, v, code) /\ SavePlan(g, v, code) BY <1>3
  <2> QED BY ONLY <2>1, <2>2, g \in Graphs, SaveKeeps
<1>5. /\ row'[g].plan = code /\ row'[g].code = row[g].code /\ row'[g].version = row[g].version
  BY <1>1, <1>4, StoreFields DEF StoreOK, Row
<1>6. admin'[a].at \in {"load", "idle"} BY <1>1, <1>3, BuildMoves
<1>7. CASE "heal" \in trouble'
  <2>1. ChangeOK(a)' BY <1>6, <1>7 DEF ChangeOK, SavesRow
  <2>2. Steady' /\ PlansCurrent' BY <1>7 DEF Steady, PlansCurrent
  <2> QED BY <2>1, <2>2, MainAfter
<1>8. CASE "heal" \notin trouble'
  <2>1. Refreshing(a) /\ Apart(Served) BY <1>1, <1>8 DEF ChangeOK, Steady, Alone
  <2>9. /\ admin[a].listed[g] = [version |-> row[g].version, code |-> row[g].code]
        /\ Served[g] = row[g].code
    BY <1>1, <2>1 DEF Refreshing
  <2>2. code = row[g].code /\ code = Served[g] BY <2>9
  <2>3. Served' = Served
    <3>1. \A h \in Graphs : Served'[h] = Served[h]
      BY <1>4, <1>5, <2>2, IdleAdminType DEF Served
    <3> QED BY <3>1 DEF Served
  <2>4. \A h \in Graphs : row'[h].version = row[h].version /\ row'[h].code = row[h].code
    BY <1>4, <1>5
  <2>5. ChangeOK(a)' /\ admin'[a].at \in BehindAt
    BY <1>1, <1>3, <1>8, <2>2, <2>3, <2>4, BuiltOK
  <2>6. Behind' BY <2>5 DEF Behind
  <2>7. Steady' BY <2>1, <2>3, <2>6 DEF Steady, TablesServed
  <2>8. PlansCurrent'
    <3> SUFFICES ASSUME trouble' \cap {"overlap", "killed", "heal"} = {}, NEW h \in Graphs
                 PROVE  row'[h].plan = row'[h].code
      BY DEF PlansCurrent
    <3>1. CASE h = g BY <1>5, <2>2, <3>1
    <3>2. CASE h # g
      <4>1. PlansCurrent /\ trouble \subseteq trouble' BY DEF Alone, TablesMain
      <4>2. ~Saving(h) BY <1>1, AloneFacts
      <4> QED BY <1>4, <3>2, <4>1, <4>2 DEF PlansCurrent
    <3> QED BY <3>1, <3>2
  <2> QED BY <2>5, <2>7, <2>8, MainAfter
<1> QED BY <1>7, <1>8

LEMMA InstallPlansMain ==
    ASSUME NEW a \in Workers, Alone(a), InstallPlans(a)
    PROVE  TablesMain'
<1>1. /\ StoreOK /\ ChangeOK(a) /\ admin[a] \in Admin /\ Steady /\ Served \in [Graphs -> Source]
      /\ admin \in [Workers -> Admin] /\ admin[a].at = "load"
      /\ UNCHANGED <<row, vers>>
  BY AloneFacts DEF InstallPlans
<1>2. /\ admin'[a].at = "routes" /\ admin'[a].built = admin[a].built /\ plans' = admin[a].built
      /\ Pending(a) = {}
  BY <1>1 DEF InstallPlans, To, Admin
<1>3. Served' = Served BY <1>1 DEF Served
<1>4. ASSUME "heal" \notin trouble' PROVE admin[a].built = Served
  <2>1. Refreshing(a) BY <1>1, <1>4 DEF ChangeOK, Alone
  <2>2. \A g \in Graphs : admin[a].built[g] = Served[g]
    <3> TAKE g \in Graphs
    <3>1. /\ admin[a].listed[g] = [version |-> row[g].version, code |-> row[g].code]
          /\ admin[a].built[g] \in {None, Served[g]}
      BY <1>1, <2>1 DEF Refreshing
    <3>2. CASE row[g].version = 0
      BY <1>1, <3>1, <3>2, ServedTyped DEF Exists
    <3>3. CASE row[g].version # 0
      <4>1. admin[a].listed[g].version # 0 BY <3>1, <3>3
      <4> QED BY <1>2, <3>1, <4>1 DEF Pending
    <3> QED BY <3>2, <3>3
  <2>3. admin[a].built \in [Graphs -> Source] BY <1>1 DEF Admin
  <2> QED BY <1>1, <2>2, <2>3
<1>5. ChangeOK(a)'
  BY <1>2, <1>3, <1>4 DEF ChangeOK, SavesRow, ProposalFits, Refreshing
<1>6. Behind' BY <1>2 DEF Behind, BehindAt
<1>7. Steady' BY <1>1, <1>3, <1>6 DEF Steady, TablesServed, Alone
<1>8. PlansCurrent'
  <2>1. \A g \in Graphs : ~Saving(g) BY <1>1, AloneFacts
  <2> QED BY <1>1, <2>1 DEF PlansCurrent, Alone, TablesMain
<1> QED BY <1>5, <1>7, <1>8, MainAfter

LEMMA InstallRoutesMain ==
    ASSUME NEW a \in Workers, Alone(a), InstallRoutes(a)
    PROVE  TablesMain'
<1>1. /\ ChangeOK(a) /\ admin[a] \in Admin /\ Steady
      /\ admin \in [Workers -> Admin] /\ admin[a].at = "routes"
      /\ UNCHANGED <<row, vers, plans>>
  BY AloneFacts DEF InstallRoutes
<1>2. /\ admin'[a].at = "clear" /\ admin'[a].built = admin[a].built
      /\ routes' = BuiltRoutes(admin[a].built)
  BY <1>1 DEF InstallRoutes, To, Admin
<1>3. Served' = Served BY <1>1 DEF Served
<1>4. "heal" \notin trouble' => plans' = admin'[a].built /\ admin'[a].built = Served'
  BY <1>1, <1>2, <1>3 DEF ChangeOK, Alone, Refreshing
<1>5. routes' = BuiltRoutes(admin[a].built)' BY <1>2 DEF BuiltRoutes
<1>6. ChangeOK(a)'
  BY <1>2, <1>4, <1>5 DEF ChangeOK, SavesRow, ProposalFits, Refreshing
<1>7. Behind' BY <1>2 DEF Behind, BehindAt
<1>8. Steady' BY <1>1, <1>3, <1>7 DEF Steady, TablesServed, Alone
<1>9. PlansCurrent'
  <2>1. \A g \in Graphs : ~Saving(g) BY <1>1, AloneFacts
  <2> QED BY <1>1, <2>1 DEF PlansCurrent, Alone, TablesMain
<1> QED BY <1>6, <1>8, <1>9, MainAfter

LEMMA ClearCacheMain ==
    ASSUME NEW a \in Workers, Alone(a), ClearCache(a)
    PROVE  TablesMain'
<1>1. /\ ChangeOK(a) /\ admin[a] \in Admin /\ Steady
      /\ admin \in [Workers -> Admin] /\ admin[a].at = "clear"
      /\ UNCHANGED <<row, vers, plans, routes>> /\ End(a)
  BY AloneFacts DEF ClearCache
<1>2. ChangeOK(a)' BY <1>1, IdleOK
<1>3. Served' = Served BY <1>1 DEF Served
<1>4. "heal" \notin trouble' => plans' = Served' /\ routes' = BuiltRoutes(plans')
  BY <1>1, <1>3 DEF ChangeOK, Alone, Refreshing
<1>5. Steady' BY <1>1, <1>3, <1>4 DEF Steady, TablesServed, Alone
<1>6. PlansCurrent'
  <2>1. \A g \in Graphs : ~Saving(g) BY <1>1, AloneFacts
  <2> QED BY <1>1, <2>1 DEF PlansCurrent, Alone, TablesMain
<1> QED BY <1>2, <1>5, <1>6, MainAfter

-----------------------------------------------------------------------------
(* The steps that are no request's that changes graphs *)

LEMMA QuietMain ==
    ASSUME TablesMain, UNCHANGED <<row, vers, server, plans, routes, admin>>,
           trouble \subseteq trouble'
    PROVE  TablesMain'
<1>1. Served' = Served BY DEF Served
<1>2. RoutesApart'
  BY <1>1 DEF TablesMain, RoutesApart, ProposalFits, Proposed, Apart, Compatible
<1>3. SavesCurrent' BY DEF TablesMain, SavesCurrent, SavesRow
<1>4. InStep'
  <2>1. TablesServed => TablesServed' BY <1>1 DEF TablesServed, Behind, BuiltRoutes
  <2>2. \A a \in Workers : Refreshing(a) => Refreshing(a)'
    BY <1>1 DEF Refreshing, BuiltRoutes, Unbuilt
  <2> QED BY <2>1, <2>2 DEF TablesMain, InStep
<1>5. PlansCurrent' BY DEF TablesMain, PlansCurrent, Saving
<1> QED BY <1>2, <1>3, <1>4, <1>5 DEF TablesMain

\* The end of the process: what it leaves in the store is what was being changed.
LEMMA KillMain ==
    ASSUME TablesMain, KillServer, trouble' = trouble \cup (IF HalfSaved THEN {"killed"} ELSE {})
    PROVE  TablesMain'
<1>1. /\ UNCHANGED <<row, vers>> /\ server' = "down"
      /\ \A a \in Workers : admin'[a].at = "idle"
  BY DEF KillServer, IdleAdmin
<1>2. Served' = Served BY <1>1 DEF Served
<1>3. \A a \in Workers : ProposalFits(a)' /\ SavesRow(a)' /\ Refreshing(a)'
  BY <1>1 DEF ProposalFits, SavesRow, Refreshing
<1>4. RoutesApart'
  BY <1>2, <1>3 DEF TablesMain, RoutesApart, Apart, Compatible
<1>5. SavesCurrent' BY <1>3 DEF SavesCurrent
<1>6. InStep' BY <1>1, <1>3 DEF InStep, TablesServed
<1>7. PlansCurrent'
  <2> SUFFICES ASSUME trouble' \cap {"overlap", "killed", "heal"} = {}, NEW g \in Graphs
               PROVE  row'[g].plan = row'[g].code
    BY DEF PlansCurrent
  <2>1. ~Saving(g) BY DEF HalfSaved
  <2> QED BY <1>1, <2>1 DEF PlansCurrent, TablesMain
<1> QED BY <1>4, <1>5, <1>6, <1>7 DEF TablesMain

\* Without an overlap some request is the only one that can be under way.
LEMMA OneIsAlone ==
    ASSUME PublishOK, TablesMain, Phases, OneChange, trouble \subseteq trouble',
           "overlap" \notin trouble', UNCHANGED admin
    PROVE  \E a \in Workers : Alone(a)
<1>1. ~Overlap BY DEF OneChange
<1>2. CASE \A b \in Workers : admin[b].at = "idle"
  <2>1. Boot \in Workers BY DEF Workers
  <2> QED BY <1>2, <2>1 DEF Alone
<1>3. CASE \E a \in Workers : admin[a].at # "idle"
  <2> PICK a \in Workers : admin[a].at # "idle" BY <1>3
  <2>1. \A b \in Workers \ {a} : admin[b].at = "idle" BY <1>1 DEF Overlap
  <2> QED BY <2>1 DEF Alone
<1> QED BY <1>2, <1>3

\* An execution heals a version's plan: that of the row's version, or it is recorded.
LEMMA HealVersionMain ==
    ASSUME PublishOK, TablesMain, Phases, OneChange, CallsOK, NEW c \in Callers, HealVersion(c),
           UNCHANGED <<server, plans, routes, admin>>,
           trouble' = trouble \cup (IF StaleHeal THEN {"heal"} ELSE {})
    PROVE  TablesMain'
<1>1. /\ call[c].at = "heal" /\ call[c] \in Call /\ LocalsSet(call[c]) /\ FetchedRight(c)
      /\ StoreOK /\ PublishTypeOK
  BY CallFields DEF HealVersion, CallsOK, PublishOK, StoreOK, PublishTypeOK
<1> PICK g \in Graphs, v \in Versions, code \in Codes :
       g = call[c].got.g /\ v = call[c].got.version /\ code = call[c].got.code
  BY <1>1 DEF LocalsSet, Fetching
<1>2. Recorded(g, v, code) /\ SavePlan(g, v, code) /\ call'[c].at = "insert"
  BY <1>1 DEF FetchedRight, Fetching, HealVersion, CallsOK, RegistryTypeOK
<1>3. Exists(g)
  <2>1. v <= row[g].version BY <1>1, <1>2, StoreFields DEF StoreOK, StoreOrdered, Stored, Recorded
  <2> QED BY <1>1, <2>1, StoreFields DEF Exists, StoreOK, Versions
<1>4. /\ StoreOK' /\ Kept /\ row'[g] = [row[g] EXCEPT !.plan = code]
      /\ \A h \in Graphs \ {g} : row'[h] = row[h]
  BY <1>1, <1>2, <1>3, SaveKeeps
<1>5. /\ row'[g].plan = code /\ row'[g].code = row[g].code /\ row'[g].version = row[g].version
  BY <1>1, <1>4, StoreFields DEF StoreOK, Row
<1>6. \A h \in Graphs : row'[h].version = row[h].version /\ row'[h].code = row[h].code
  BY <1>4, <1>5
<1>7. CASE "overlap" \in trouble
  BY <1>7 DEF TablesMain, RoutesApart, SavesCurrent, InStep, PlansCurrent
<1>8. CASE "overlap" \notin trouble
  <2>1. trouble \subseteq trouble' /\ "overlap" \notin trouble' BY <1>8
  <2> PICK a \in Workers : Alone(a) BY <2>1, OneIsAlone
  <2>2. /\ Steady /\ ChangeOK(a) /\ admin[a] \in Admin /\ AdminPlaced(a)
        /\ \A h \in Graphs : Saving(h) <=> a \in Admins /\ admin[a].at = "save" /\ admin[a].g = h
        /\ Behind <=> admin[a].at \in BehindAt
    BY AloneFacts
  <2>3. SavesRow(a)'
    BY <1>6, <2>2 DEF ChangeOK, SavesRow, AdminPlaced
  <2>4. CASE StaleHeal
    <3>1. ChangeOK(a)' /\ Steady' /\ PlansCurrent'
      BY <2>3, <2>4 DEF ChangeOK, Steady, PlansCurrent
    <3> QED BY <3>1, MainAfter
  <2>5. CASE ~StaleHeal
    <3>1. /\ v = row[g].version
          /\ row[g].plan \in {None, code} \/ Saving(g)
      BY <1>1, <1>2, <2>5 DEF StaleHeal
    <3>2. row[g].code = code
      BY <1>1, <1>2, <1>3, <3>1 DEF StoreOK, StoreOrdered, Recorded
    <3>3. CASE row[g].plan \in {None, code}
      <4>1. Served' = Served
        <5>1. \A h \in Graphs : Served'[h] = Served[h]
          BY <1>4, <1>5, <3>2, <3>3, IdleAdminType DEF Served
        <5> QED BY <5>1 DEF Served
      <4>2. "heal" \notin trouble' => ProposalFits(a)'
        <5> SUFFICES ASSUME "heal" \notin trouble', admin[a].at \in {"create", "update", "rollback", "save"}
                     PROVE  Compatible(Served, admin[a].g, Proposed(a)')
          BY <4>1 DEF ProposalFits, Compatible
        <5>1. Compatible(Served, admin[a].g, Proposed(a))
          BY <2>1, <2>2 DEF ChangeOK, ProposalFits
        <5>2. Proposed(a)' = Proposed(a)
          <6>1. CASE admin[a].at # "rollback" BY <6>1 DEF Proposed
          <6>2. CASE admin[a].at = "rollback"
            <7> PICK h \in Graphs, u \in Versions : h = admin[a].g /\ u = admin[a].version
              BY <2>2, <6>2 DEF AdminPlaced
            <7>1. vers[h][u].plan # None BY <2>2, <6>2 DEF AdminPlaced
            <7>2. vers[h][u].plan = vers[h][u].code /\ vers[h][u].code # None
              BY <1>1, <7>1, StoreFields DEF StoreOK, StoreOrdered, Source
            <7>3. vers'[h][u].plan # None /\ vers'[h][u].code = vers[h][u].code
              BY <1>4, <7>1, <7>2 DEF Kept
            <7>4. vers'[h][u].plan \in {None, vers'[h][u].code}
              BY <1>4 DEF StoreOK, StoreOrdered
            <7> QED BY <6>2, <7>2, <7>3, <7>4 DEF Proposed
          <6> QED BY <6>1, <6>2
        <5> QED BY <5>1, <5>2
      <4>3. "heal" \notin trouble' => Refreshing(a)'
        <5> SUFFICES ASSUME Refreshing(a) PROVE Refreshing(a)'
          BY <2>1, <2>2 DEF ChangeOK
        <5>1. admin[a].at = "heal" => admin[a].g \in Graphs BY <2>2 DEF AdminPlaced
        <5> QED BY <1>6, <4>1, <5>1 DEF Refreshing, BuiltRoutes, Unbuilt
      <4>4. Steady'
        BY <2>1, <2>2, <4>1 DEF Steady, TablesServed, Apart, Compatible, Behind, BuiltRoutes
      <4>5. PlansCurrent'
        <5> SUFFICES ASSUME trouble' \cap {"overlap", "killed", "heal"} = {}, NEW h \in Graphs
                     PROVE  row'[h].plan = row'[h].code \/ Saving(h)'
          BY DEF PlansCurrent
        <5>1. CASE h = g BY <1>5, <3>2, <5>1
        <5>2. CASE h # g
          BY <1>4, <2>1, <5>2 DEF TablesMain, PlansCurrent, Saving
        <5> QED BY <5>1, <5>2
      <4> QED BY <2>3, <4>2, <4>3, <4>4, <4>5, MainAfter DEF ChangeOK
    <3>4. CASE Saving(g)
      <4>1. a \in Admins /\ admin[a].at = "save" /\ admin[a].g = g BY <2>2, <3>4
      <4>2. admin[a].version = row[g].version /\ Recorded(g, admin[a].version, admin[a].code)
        BY <2>2, <4>1 DEF ChangeOK, SavesRow, AdminPlaced
      <4>3. admin[a].code = code BY <1>2, <3>1, <4>2 DEF Recorded
      <4>4. "heal" \notin trouble' => Compatible(Served, g, code)
        BY <2>1, <2>2, <4>1, <4>3 DEF ChangeOK, ProposalFits, Proposed
      <4>5. Served'[g] \in {Served[g], code} BY <1>5, IdleAdminType DEF Served
      <4>6. admin' = admin OBVIOUS
      <4> QED BY <1>4, <2>3, <4>1, <4>3, <4>4, <4>5, <4>6, StoredMain
    <3> QED BY <3>1, <3>3, <3>4
  <2> QED BY <2>4, <2>5
<1> QED BY <1>7, <1>8

-----------------------------------------------------------------------------
(* Every step *)

LEMMA OthersStay ==
    ASSUME admin \in [Workers -> Admin], NEW a \in Workers,
           (a \in Admins /\ StartAdmin(a)) \/ AdminStep(a) \/ ClearCache(a)
    PROVE  \A b \in Workers \ {a} : admin'[b] = admin[b]
<1>1. ASSUME NEW r, admin' = [admin EXCEPT ![a] = r]
      PROVE  \A b \in Workers \ {a} : admin'[b] = admin[b]
  BY <1>1
<1> USE DEF Begin, To, End, Refresh
<1>2. CASE StartAdmin(a)
  BY <1>2 DEF StartAdmin, StartCreate, StartUpdate, StartVersion
<1>3. CASE ClearCache(a) BY <1>3 DEF ClearCache
<1>4. CASE Create(a) \/ Update(a) \/ GiveUp(a) \/ SaveCompiled(a)
  BY <1>4 DEF Create, Update, GiveUp, SaveCompiled
<1>5. CASE DeployVersion(a) \/ RollBack(a) \/ ListGraphs(a) \/ InstallPlans(a) \/ InstallRoutes(a)
  BY <1>5 DEF DeployVersion, RollBack, ListGraphs, InstallPlans, InstallRoutes
<1>6. ASSUME NEW g, NEW code, Build(a, g, code)
      PROVE  \A b \in Workers \ {a} : admin'[b] = admin[b]
  BY <1>6 DEF Build, Fail
<1>7. CASE \E g \in Graphs : LoadStored(a, g)
  BY <1>6, <1>7 DEF LoadStored
<1>8. CASE Heal(a) BY <1>6, <1>8 DEF Heal
<1> QED BY <1>2, <1>3, <1>4, <1>5, <1>7, <1>8 DEF AdminStep

\* A request takes a step only where it is under way.
LEMMA UnderWay ==
    ASSUME NEW a \in Workers, AdminStep(a) \/ ClearCache(a)
    PROVE  admin[a].at # "idle"
BY DEF AdminStep, ClearCache, Create, Update, GiveUp, SaveCompiled, DeployVersion, RollBack,
       ListGraphs, LoadStored, Heal, InstallPlans, InstallRoutes

LEMMA StartsAt ==
    ASSUME PublishOK, NEW a \in Admins, StartAdmin(a)
    PROVE  /\ admin'[a].at \in {"create", "update", "deploy", "rollback"}
           /\ admin[a].at = "idle" /\ server = "serving"
           /\ UNCHANGED <<server, plans, routes, cache, visit>>
<1>1. ASSUME NEW at \in AdminAt, NEW g \in Graphs, NEW v \in 0..MaxVersion, NEW code \in Source,
             Begin(a, at, g, v, code)
      PROVE  admin'[a].at = at
  <2>1. admin'[a] = At(at, g, v, code)
    BY <1>1 DEF Begin, PublishOK, PublishTypeOK, Workers
  <2> QED BY <2>1, BeginType
<1>2. \A v \in Versions : v \in 0..MaxVersion BY ServerStoreAssumption DEF Versions
<1>3. ASSUME NEW g \in Graphs, NEW code \in Codes, StartCreate(a, g, code)
      PROVE  admin'[a].at = "create"
  BY <1>1, <1>3, ServerStoreAssumption DEF StartCreate, AdminAt, Source
<1>4. ASSUME NEW g \in Graphs, NEW code \in Codes, StartUpdate(a, g, code)
      PROVE  admin'[a].at = "update"
  BY <1>1, <1>4, ServerStoreAssumption DEF StartUpdate, AdminAt, Source
<1>5. ASSUME NEW g \in Graphs, NEW v \in Versions, NEW at \in {"deploy", "rollback"},
             StartVersion(a, at, g, v)
      PROVE  admin'[a].at = at
  BY <1>1, <1>2, <1>5 DEF StartVersion, AdminAt, Source
<1>6. admin'[a].at \in {"create", "update", "deploy", "rollback"}
  BY <1>3, <1>4, <1>5 DEF StartAdmin
<1>7. /\ admin[a].at = "idle" /\ server = "serving"
      /\ UNCHANGED <<server, plans, routes, cache, visit>>
  BY DEF StartAdmin, StartCreate, StartUpdate, StartVersion, Unserved, tables
<1> QED BY <1>6, <1>7

\* The one request that takes a step is alone, as long as no two have overlapped.
LEMMA StepsAlone ==
    ASSUME PublishOK, TablesMain, Phases, OneChange, trouble \subseteq trouble',
           "overlap" \notin trouble', NEW a \in Workers,
           \/ a \in Admins /\ StartAdmin(a) /\ ~Overlap'
           \/ AdminStep(a) \/ ClearCache(a)
    PROVE  Alone(a)
<1>1. \A b \in Workers \ {a} : admin'[b] = admin[b]
  BY OthersStay DEF PublishOK, PublishTypeOK
<1>2. \A b \in Workers \ {a} : admin[b].at = "idle"
  <2>1. CASE AdminStep(a) \/ ClearCache(a)
    BY <2>1, UnderWay DEF OneChange, Overlap
  <2>2. CASE a \in Admins /\ StartAdmin(a) /\ ~Overlap'
    <3>1. admin'[a].at # "idle" BY <2>2, StartsAt
    <3>2. \A b \in Workers \ {a} : admin'[b].at = "idle" BY <2>2, <3>1 DEF Overlap
    <3> QED BY <1>1, <3>2
  <2> QED BY <2>1, <2>2
<1> QED BY <1>1, <1>2 DEF Alone

LEMMA AdminStepMain ==
    ASSUME NEW a \in Workers, Alone(a), AdminStep(a) \/ ClearCache(a)
    PROVE  TablesMain'
BY CreateMain, UpdateMain, GiveUpMain, SaveCompiledMain, DeployMain, RollBackMain,
   ListGraphsMain, LoadStoredMain, HealMain, InstallPlansMain, InstallRoutesMain,
   ClearCacheMain DEF AdminStep

LEMMA OverlapFrees == ASSUME "overlap" \in trouble' PROVE TablesMain' /\ OneChange'
BY DEF TablesMain, RoutesApart, SavesCurrent, InStep, PlansCurrent, OneChange

LEMMA StartsServerAlone ==
    ASSUME PublishOK, TablesMain, Phases, trouble \subseteq trouble', "overlap" \notin trouble',
           StartServer
    PROVE  Alone(Boot)
<1>1. \A b \in Workers \ {Boot} : admin'[b] = admin[b]
  BY DEF StartServer, Begin, PublishOK, PublishTypeOK, Workers
<1> QED BY <1>1 DEF Alone, StartServer, Phases, Workers

\* The phases of the process.
LEMMA PhasesStay == ASSUME Phases, UNCHANGED <<server, admin>> PROVE Phases'
BY DEF Phases

LEMMA BuildServer ==
    ASSUME NEW a \in Workers, NEW g, NEW code, Build(a, g, code), admin \in [Workers -> Admin]
    PROVE  \/ UNCHANGED server
           \/ server' = "refused" /\ a = Boot /\ admin'[a].at = "idle"
BY DEF Build, Fail, End, IdleAdmin

LEMMA AdminServer ==
    ASSUME NEW a \in Workers, AdminStep(a), admin \in [Workers -> Admin]
    PROVE  \/ UNCHANGED server
           \/ server' = "refused" /\ a = Boot /\ admin'[a].at = "idle"
<1>1. CASE \E g \in Graphs : LoadStored(a, g)
  BY <1>1, BuildServer DEF LoadStored
<1>2. CASE Heal(a)
  BY <1>2, BuildServer DEF Heal
<1> QED BY <1>1, <1>2
        DEF AdminStep, Create, Update, GiveUp, SaveCompiled, DeployVersion, RollBack,
            ListGraphs, InstallPlans, InstallRoutes, Unserved

LEMMA PhasesAfter ==
    ASSUME PublishOK, Phases, NEW a \in Workers,
           (a \in Admins /\ StartAdmin(a)) \/ AdminStep(a) \/ ClearCache(a)
    PROVE  Phases'
<1>1. /\ \A b \in Workers \ {a} : admin'[b] = admin[b]
      /\ admin \in [Workers -> Admin] /\ server \in ServerAt
      /\ Workers = Admins \cup {Boot} /\ Boot \notin Admins
  BY OthersStay, PublishAssumption DEF PublishOK, PublishTypeOK, Workers, ServerAt
<1>2. CASE a \in Admins /\ StartAdmin(a)
  BY <1>1, <1>2, StartsAt DEF Phases
<1>3. CASE AdminStep(a) \/ ClearCache(a)
  <2>1. admin[a].at # "idle" BY <1>3, UnderWay
  <2>2. \/ a \in Admins /\ server = "serving"
        \/ a = Boot /\ server = "starting"
    BY <1>1, <2>1 DEF Phases, ServerAt
  <2>3. CASE AdminStep(a)
    BY <1>1, <2>2, <2>3, AdminServer DEF Phases
  <2>4. CASE ClearCache(a)
    <3>1. admin'[a].at = "idle" /\ server' = IF a = Boot THEN "serving" ELSE server
      BY <1>1, <2>4 DEF ClearCache, End, IdleAdmin
    <3> QED BY <1>1, <2>2, <3>1 DEF Phases
  <2> QED BY <1>3, <2>3, <2>4
<1> QED BY <1>2, <1>3

\* What is to be shown of a step, but for the requests to published paths.
AdminsInv == TablesMain /\ Phases /\ OneChange

LEMMA PublishMain ==
    ASSUME PublishOK, AdminsInv, PublishNext
    PROVE  AdminsInv' /\ trouble \subseteq trouble'
<1> USE DEF AdminsInv
<1>1. trouble \subseteq trouble' BY DEF PublishNext
<1>2. ASSUME NEW a \in Workers, (a \in Admins /\ StartAdmin(a)) \/ AdminStep(a),
             trouble' = trouble \cup (IF Overlap' THEN {"overlap"} ELSE {})
      PROVE  AdminsInv'
  <2>1. Phases' BY <1>2, PhasesAfter
  <2>2. CASE "overlap" \in trouble' BY <2>1, <2>2, OverlapFrees
  <2>3. CASE "overlap" \notin trouble'
    <3>1. ~Overlap' BY <1>2, <2>3
    <3>2. Alone(a) BY <1>1, <1>2, <2>3, <3>1, StepsAlone
    <3>3. TablesMain' BY <1>2, <3>2, StartsMain, AdminStepMain
    <3> QED BY <2>1, <3>1, <3>3 DEF OneChange
  <2> QED BY <2>2, <2>3
<1>3. ASSUME NEW a \in Workers, ClearCache(a) PROVE AdminsInv'
  <2>1. Phases' BY <1>3, PhasesAfter
  <2>2. CASE "overlap" \in trouble' BY <2>1, <2>2, OverlapFrees
  <2>3. CASE "overlap" \notin trouble'
    <3>1. Alone(a) BY <1>1, <1>3, <2>3, StepsAlone
    <3>2. TablesMain' BY <1>3, <3>1, AdminStepMain
    <3>3. \A b \in Workers \ {a} : admin'[b].at = "idle" BY <3>1 DEF Alone
    <3>4. ~Overlap' BY <3>3 DEF Overlap
    <3> QED BY <2>1, <3>2, <3>4 DEF OneChange
  <2> QED BY <2>2, <2>3
<1>4. ASSUME UNCHANGED <<row, vers, server, plans, routes, admin>> PROVE AdminsInv'
  <2>1. TablesMain' /\ Phases' BY <1>1, <1>4, QuietMain, PhasesStay
  <2>2. OneChange' BY <1>1, <1>4 DEF OneChange, Overlap
  <2> QED BY <2>1, <2>2
<1>5. ASSUME StartServer, trouble' = trouble \cup (IF Overlap' THEN {"overlap"} ELSE {})
      PROVE  AdminsInv'
  <2>1. Phases'
    <3>1. \A b \in Workers \ {Boot} : admin'[b] = admin[b]
      BY <1>5 DEF StartServer, Begin, PublishOK, PublishTypeOK, Workers
    <3> QED BY <1>5, <3>1, PublishAssumption DEF StartServer, Phases, Workers
  <2>2. CASE "overlap" \in trouble' BY <2>1, <2>2, OverlapFrees
  <2>3. CASE "overlap" \notin trouble'
    <3>1. Alone(Boot) BY <1>1, <1>5, <2>3, StartsServerAlone
    <3> QED BY <1>5, <2>1, <2>3, <3>1, StartServerMain DEF OneChange
  <2> QED BY <2>2, <2>3
<1>6. ASSUME KillServer, trouble' = trouble \cup (IF HalfSaved THEN {"killed"} ELSE {})
      PROVE  AdminsInv'
  <2>1. \A a \in Workers : admin'[a].at = "idle" BY <1>6 DEF KillServer, IdleAdmin
  <2>2. Phases' BY <1>6, <2>1 DEF KillServer, Phases, Workers
  <2>3. OneChange' BY <2>1 DEF OneChange, Overlap
  <2> QED BY <1>6, <2>2, <2>3, KillMain
<1>7. Admins \subseteq Workers BY DEF Workers
<1>8. CASE \/ \E v \in Visitors : VisitStep(v)
           \/ \E v \in Visitors, p \in Paths, m \in Methods, i \in Inputs : Request(v, p, m, i)
           \/ \E k \in CacheKeys : Expire(k)
  <2>1. UNCHANGED <<row, vers, server, plans, routes, admin>>
    BY <1>8 DEF VisitStep, LookUp, TakePlan, RunGraph, InsertBody, Request, Expire, Serves
  <2> QED BY <1>1, <1>4, <2>1
<1>9. CASE /\ \/ \E a \in Admins : StartAdmin(a)
              \/ \E a \in Workers : AdminStep(a)
              \/ \E v \in Visitors : VisitStep(v)
              \/ \E v \in Visitors, p \in Paths, m \in Methods, i \in Inputs : Request(v, p, m, i)
              \/ \E k \in CacheKeys : Expire(k)
              \/ StartServer
           /\ trouble' = trouble \cup (IF Overlap' THEN {"overlap"} ELSE {})
  BY <1>1, <1>2, <1>5, <1>7, <1>8, <1>9
<1> QED BY <1>1, <1>3, <1>6, <1>9 DEF PublishNext

-----------------------------------------------------------------------------
(* Requests to published paths and the cache *)

InstallAt == {"routes", "clear"}

VisitRight(r) ==
    /\ r.at # "idle" => routes[r.key] = r.entry
    /\ r.at \in {"lookup", "insert"} => Cached(r.entry.code)
    /\ r.at \in {"run", "insert"} => plans[r.entry.graph] = r.plan

BodyRight(k, body) ==
    body # None =>
        /\ body.input = k[2] /\ plans[body.graph] = body.code
        /\ \E m \in Methods : LET e == routes[<<k[1], m>>] IN
             e # None /\ e.graph = body.graph /\ Cached(e.code)

LEMMA VisitsParts ==
    VisitsCurrent <=>
        ((trouble \cap {"overlap", "late"} = {} /\ \A a \in Workers : admin[a].at \notin InstallAt) =>
            /\ \A v \in Visitors : VisitRight(visit[v])
            /\ \A k \in CacheKeys : BodyRight(k, cache[k]))
BY DEF VisitsCurrent, VisitRight, BodyRight, InstallAt

\* The tables stay, and so does what was read of them.
LEMMA VisitsStay ==
    ASSUME VisitsCurrent, UNCHANGED <<plans, routes, cache, visit>>, trouble \subseteq trouble',
           (\A a \in Workers : admin'[a].at \notin InstallAt) =>
               \A a \in Workers : admin[a].at \notin InstallAt
    PROVE  VisitsCurrent'
BY DEF VisitsCurrent, InstallAt

\* Nothing is being answered, nothing is cached.
LEMMA VisitsNone ==
    ASSUME \A v \in Visitors : visit'[v].at = "idle", cache' = NothingCached
    PROVE  VisitsCurrent'
BY DEF VisitsCurrent, NothingCached

\* One request, or one body, changes.
LEMMA VisitsMove ==
    ASSUME PublishOK, VisitsCurrent, UNCHANGED <<plans, routes, admin>>, trouble \subseteq trouble',
           NEW v \in Visitors, NEW r, visit' = [visit EXCEPT ![v] = r],
           VisitRight(visit[v]) => VisitRight(r),
           \A k \in CacheKeys : BodyRight(k, cache[k]) /\ VisitRight(visit[v]) => BodyRight(k, cache'[k])
    PROVE  VisitsCurrent'
<1> SUFFICES ASSUME trouble' \cap {"overlap", "late"} = {},
                    \A a \in Workers : admin'[a].at \notin {"routes", "clear"}
             PROVE  /\ \A u \in Visitors : VisitRight(visit'[u])
                    /\ \A k \in CacheKeys : BodyRight(k, cache'[k])
  BY DEF VisitsCurrent, VisitRight, BodyRight
<1>1. /\ \A u \in Visitors : VisitRight(visit[u])
      /\ \A k \in CacheKeys : BodyRight(k, cache[k])
  BY VisitsParts DEF InstallAt
<1>2. \A u \in Visitors : visit'[u] = IF u = v THEN r ELSE visit[u]
  BY DEF PublishOK, PublishTypeOK
<1> QED BY <1>1, <1>2

LEMMA VisitStepCurrent ==
    ASSUME PublishOK, VisitsCurrent, trouble \subseteq trouble', NEW v \in Visitors, VisitStep(v)
    PROVE  VisitsCurrent'
<1>1. UNCHANGED <<plans, routes, admin>>
  BY DEF VisitStep, LookUp, TakePlan, RunGraph, InsertBody, Serves
<1>2. visit[v] \in Visit /\ visit \in [Visitors -> Visit]
  BY DEF PublishOK, PublishTypeOK
<1>3. ASSUME NEW r, visit' = [visit EXCEPT ![v] = r], UNCHANGED cache,
             VisitRight(visit[v]) => VisitRight(r)
      PROVE  VisitsCurrent'
  BY <1>1, <1>3, VisitsMove
<1>4. VisitRight(IdleVisit) BY DEF VisitRight, IdleVisit
<1>5. CASE LookUp(v)
  <2>1. CASE Answer(v) BY <1>3, <1>4, <1>5, <2>1 DEF LookUp, Answer
  <2>2. CASE Seen(v, "plan")
    <3> DEFINE r == [visit[v] EXCEPT !.at = "plan"]
    <3>1. visit' = [visit EXCEPT ![v] = r] /\ UNCHANGED cache /\ visit[v].at = "lookup"
      BY <1>2, <1>5, <2>2 DEF LookUp, Seen
    <3>2. r.at = "plan" /\ r.key = visit[v].key /\ r.entry = visit[v].entry
      BY <1>2 DEF Visit
    <3> HIDE DEF r
    <3>3. VisitRight(visit[v]) => VisitRight(r) BY <3>1, <3>2 DEF VisitRight
    <3> QED BY <1>3, <3>1, <3>3
  <2> QED BY <1>5, <2>1, <2>2 DEF LookUp
<1>6. CASE TakePlan(v)
  <2>1. CASE Answer(v) BY <1>3, <1>4, <1>6, <2>1 DEF TakePlan, Answer
  <2>2. CASE ~Answer(v)
    <3> DEFINE r == [visit[v] EXCEPT !.at = "run", !.plan = plans[visit[v].entry.graph]]
    <3>1. visit' = [visit EXCEPT ![v] = r] /\ UNCHANGED cache /\ visit[v].at = "plan"
      BY <1>2, <1>6, <2>2 DEF TakePlan
    <3>2. /\ r.at = "run" /\ r.key = visit[v].key /\ r.entry = visit[v].entry
          /\ r.plan = plans[visit[v].entry.graph]
      BY <1>2 DEF Visit
    <3> HIDE DEF r
    <3>3. VisitRight(visit[v]) => VisitRight(r) BY <3>1, <3>2 DEF VisitRight
    <3> QED BY <1>3, <3>1, <3>3
  <2> QED BY <2>1, <2>2
<1>7. CASE RunGraph(v)
  <2>1. CASE Answer(v) BY <1>3, <1>4, <1>7, <2>1 DEF RunGraph, Answer
  <2>2. CASE Cached(visit[v].entry.code) /\ Seen(v, "insert")
    <3> DEFINE r == [visit[v] EXCEPT !.at = "insert"]
    <3>1. visit' = [visit EXCEPT ![v] = r] /\ UNCHANGED cache /\ visit[v].at = "run"
      BY <1>2, <1>7, <2>2 DEF RunGraph, Seen
    <3>2. /\ r.at = "insert" /\ r.key = visit[v].key /\ r.entry = visit[v].entry
          /\ r.plan = visit[v].plan
      BY <1>2 DEF Visit
    <3> HIDE DEF r
    <3>3. VisitRight(visit[v]) => VisitRight(r) BY <2>2, <3>1, <3>2 DEF VisitRight
    <3> QED BY <1>3, <3>1, <3>3
  <2> QED BY <1>7, <2>1, <2>2 DEF RunGraph
<1>8. CASE InsertBody(v)
  <2> DEFINE r == visit[v]
             body == [graph |-> r.entry.graph, code |-> r.plan, input |-> r.input]
  <2>1. /\ r.at = "insert" /\ r.key \in Keys /\ r.input \in Inputs /\ r.entry \in Entry
        /\ visit' = [visit EXCEPT ![v] = IdleVisit]
        /\ cache' = [cache EXCEPT ![<<r.key[1], r.input>>] = body]
        /\ cache \in [CacheKeys -> Body \cup {None}]
    BY <1>8 DEF InsertBody, Answer, CacheKey, PublishOK, PublishTypeOK
  <2> PICK p \in Paths, m \in Methods : r.key = <<p, m>>
    BY <2>1 DEF Keys
  <2> PICK i \in Inputs : i = r.input BY <2>1
  <2>2. \A k \in CacheKeys : cache'[k] = IF k = <<p, i>> THEN body ELSE cache[k]
    BY <2>1
  <2>3. VisitRight(r) => BodyRight(<<p, i>>, body)
    <3> SUFFICES ASSUME VisitRight(r) PROVE BodyRight(<<p, i>>, body)
      OBVIOUS
    <3>1. routes[<<p, m>>] = r.entry /\ Cached(r.entry.code) /\ plans[r.entry.graph] = r.plan
      BY <2>1 DEF VisitRight
    <3>2. r.entry # None BY <2>1, EntryAssumption
    <3>3. body.graph = r.entry.graph /\ body.code = r.plan /\ body.input = i
      OBVIOUS
    <3> HIDE DEF body
    <3>4. <<p, i>>[1] = p /\ <<p, i>>[2] = i OBVIOUS
    <3> QED BY <3>1, <3>2, <3>3, <3>4 DEF BodyRight
  <2> HIDE DEF body
  <2>4. \A k \in CacheKeys : BodyRight(k, cache[k]) /\ VisitRight(visit[v]) => BodyRight(k, cache'[k])
    BY <2>2, <2>3
  <2> QED BY <1>1, <1>4, <2>1, <2>4, VisitsMove
<1> QED BY <1>5, <1>6, <1>7, <1>8 DEF VisitStep

LEMMA RequestCurrent ==
    ASSUME PublishOK, VisitsCurrent, trouble \subseteq trouble',
           NEW v \in Visitors, NEW p \in Paths, NEW m \in Methods, NEW i \in Inputs,
           Request(v, p, m, i)
    PROVE  VisitsCurrent'
<1> DEFINE e == routes[<<p, m>>]
           at == IF Cached(e.code) THEN "lookup" ELSE "plan"
           r == [IdleVisit EXCEPT !.key = <<p, m>>, !.input = i, !.entry = e, !.at = at]
<1>1. /\ visit' = [visit EXCEPT ![v] = r]
      /\ UNCHANGED <<plans, routes, admin, cache>>
  BY DEF Request, Serves
<1>2. r.at = at /\ r.key = <<p, m>> /\ r.entry = e BY DEF IdleVisit
<1> HIDE DEF r
<1>3. VisitRight(r) BY <1>2 DEF VisitRight
<1> QED BY <1>1, <1>3, VisitsMove

LEMMA ExpireCurrent ==
    ASSUME PublishOK, VisitsCurrent, trouble \subseteq trouble', NEW k \in CacheKeys, Expire(k)
    PROVE  VisitsCurrent'
<1>1. /\ UNCHANGED <<plans, routes, admin, visit>>
      /\ \A j \in CacheKeys : cache'[j] \in {None, cache[j]}
  BY DEF Expire, Serves, PublishOK, PublishTypeOK
<1> QED BY <1>1, SMTT(60) DEF VisitsCurrent

\* Only InstallPlans and InstallRoutes change a table, and the request then is at an install.
LEMMA AdminLeavesTables ==
    ASSUME PublishOK, NEW a \in Workers, AdminStep(a)
    PROVE  \/ UNCHANGED <<plans, routes, cache, visit>> /\ admin[a].at \notin InstallAt
           \/ admin'[a].at \in InstallAt
<1> USE DEF InstallAt, Unserved, tables
<1>1. CASE InstallPlans(a) \/ InstallRoutes(a)
  BY <1>1 DEF InstallPlans, InstallRoutes, To, PublishOK, PublishTypeOK, Admin
<1>2. CASE Create(a) \/ Update(a) \/ GiveUp(a) \/ SaveCompiled(a)
  BY <1>2 DEF Create, Update, GiveUp, SaveCompiled
<1>3. CASE \/ DeployVersion(a) \/ RollBack(a) \/ ListGraphs(a) \/ Heal(a)
           \/ \E g \in Graphs : LoadStored(a, g)
  BY <1>3 DEF DeployVersion, RollBack, ListGraphs, Heal, LoadStored
<1> QED BY <1>1, <1>2, <1>3 DEF AdminStep

LEMMA PublishCurrent ==
    ASSUME PublishOK, Phases, VisitsCurrent, PublishNext
    PROVE  VisitsCurrent'
<1>1. trouble \subseteq trouble' /\ admin \in [Workers -> Admin] /\ Admins \subseteq Workers
  BY DEF PublishNext, PublishOK, PublishTypeOK, Workers
<1>2. ASSUME NEW a \in Admins, StartAdmin(a) PROVE VisitsCurrent'
  <2>1. \A b \in Workers \ {a} : admin'[b] = admin[b] BY <1>1, <1>2, OthersStay
  <2>2. UNCHANGED <<plans, routes, cache, visit>> /\ admin[a].at \notin InstallAt
    BY <1>2, StartsAt DEF InstallAt
  <2> QED BY <1>1, <2>1, <2>2, VisitsStay
<1>3. ASSUME NEW a \in Workers, AdminStep(a) PROVE VisitsCurrent'
  <2>1. \A b \in Workers \ {a} : admin'[b] = admin[b] BY <1>1, <1>3, OthersStay
  <2>2. CASE UNCHANGED <<plans, routes, cache, visit>> /\ admin[a].at \notin InstallAt
    BY <1>1, <2>1, <2>2, VisitsStay
  <2>3. CASE admin'[a].at \in InstallAt BY <2>3 DEF VisitsCurrent, InstallAt
  <2> QED BY <1>3, <2>2, <2>3, AdminLeavesTables
<1>4. CASE StartServer
  <2>1. /\ \A b \in Workers \ {Boot} : admin'[b] = admin[b]
        /\ admin[Boot].at \notin InstallAt
        /\ UNCHANGED <<plans, routes, cache, visit>>
    BY <1>1, <1>4 DEF StartServer, Begin, tables, Phases, InstallAt, Workers
  <2> QED BY <1>1, <2>1, VisitsStay
<1>5. ASSUME NEW a \in Workers, ClearCache(a),
             trouble' = trouble \cup (IF InFlight THEN {"late"} ELSE {})
      PROVE  VisitsCurrent'
  <2>1. CASE InFlight
    <3>1. "late" \in trouble' BY <1>5, <2>1
    <3> QED BY <3>1 DEF VisitsCurrent
  <2>2. CASE ~InFlight BY <1>5, <2>2, VisitsNone DEF ClearCache, InFlight
  <2> QED BY <2>1, <2>2
<1>6. CASE KillServer
  <2>1. \A v \in Visitors : visit'[v].at = "idle" BY <1>6 DEF KillServer, IdleVisit
  <2> QED BY <1>6, <2>1, VisitsNone DEF KillServer
<1> QED BY <1>1, <1>2, <1>3, <1>4, <1>5, <1>6, VisitStepCurrent, RequestCurrent, ExpireCurrent
        DEF PublishNext

-----------------------------------------------------------------------------
(* The theorems *)

LEMMA TablesParts == TablesInv <=> AdminsInv /\ VisitsCurrent
BY DEF TablesInv, AdminsInv, TablesMain

LEMMA TablesInit == ServerInit => TablesInv
<1> SUFFICES ASSUME ServerInit PROVE TablesInv
  OBVIOUS
<1>1. /\ server = "down" /\ \A a \in Workers : admin[a].at = "idle"
      /\ \A g \in Graphs : row[g].plan = None /\ row[g].code = None
      /\ \A v \in Visitors : visit[v].at = "idle"
      /\ \A k \in CacheKeys : cache[k] = None
  BY DEF ServerInit, PublishInit, EmptyTables, NoRow, IdleAdmin, Fresh, NothingCached, IdleVisit
<1>2. \A g \in Graphs : Served[g] = None BY <1>1 DEF Served
<1>3. Phases /\ OneChange BY <1>1 DEF Phases, OneChange, Overlap, Workers
<1>4. RoutesApart /\ SavesCurrent
  BY <1>1, <1>2 DEF RoutesApart, Apart, ProposalFits, SavesCurrent, SavesRow
<1>5. InStep /\ PlansCurrent
  BY <1>1 DEF InStep, TablesServed, Refreshing, PlansCurrent
<1>6. VisitsCurrent BY <1>1 DEF VisitsCurrent
<1> QED BY <1>3, <1>4, <1>5, <1>6 DEF TablesInv

\* A request to execute a graph stores nothing, or heals.
LEMMA CallStores ==
    ASSUME NEW c \in Callers, CallStep(c) \/ \E g \in Graphs : Execute(c, g)
    PROVE  HealVersion(c) \/ UNCHANGED <<row, vers>>
BY DEF CallStep, Resolve, Lookup, LoadVersion, InsertPlan, VisitGraph, Admit, ReadEnvironment,
       CallSubgraph, RunSubgraph, FinishFrame, EndCall, Execute

LEMMA TablesStep == HistoryInv /\ TablesInv /\ [ServerNext]_serverVars => TablesInv'
<1> SUFFICES ASSUME PublishOK, CallsOK, AdminsInv, VisitsCurrent, [ServerNext]_serverVars
             PROVE  AdminsInv' /\ VisitsCurrent'
  BY HistoryParts, TablesParts DEF TablesInv, AdminsInv, TablesMain
<1>1. ASSUME UNCHANGED <<row, vers, server, plans, routes, admin, cache, visit>>,
             trouble \subseteq trouble'
      PROVE  AdminsInv' /\ VisitsCurrent'
  <2>1. TablesMain' /\ Phases' BY <1>1, QuietMain, PhasesStay DEF AdminsInv
  <2>2. OneChange' BY <1>1 DEF AdminsInv, OneChange, Overlap
  <2>3. VisitsCurrent' BY <1>1, VisitsStay
  <2> QED BY <2>1, <2>2, <2>3 DEF AdminsInv
<1>2. CASE RouteStep
  BY <1>2, PublishMain, PublishCurrent DEF RouteStep, AdminsInv
<1>3. CASE ExecuteStep
  <2> PICK c \in Callers : CallStep(c) \/ \E g \in Graphs : Execute(c, g)
    BY <1>3 DEF ExecuteStep
  <2>1. /\ UNCHANGED <<server, plans, routes, cache, admin, visit>>
        /\ trouble' = trouble \cup (IF StaleHeal THEN {"heal"} ELSE {})
    BY <1>3 DEF ExecuteStep
  <2>2. CASE HealVersion(c)
    <3>1. TablesMain' BY <2>1, <2>2, HealVersionMain DEF AdminsInv
    <3>2. Phases' /\ VisitsCurrent' BY <2>1, PhasesStay, VisitsStay DEF AdminsInv
    <3>3. OneChange' BY <2>1 DEF AdminsInv, OneChange, Overlap
    <3> QED BY <3>1, <3>2, <3>3 DEF AdminsInv
  <2>3. CASE UNCHANGED <<row, vers>> BY <1>1, <2>1, <2>3
  <2> QED BY <2>2, <2>3, CallStores
<1>4. CASE RunStep BY <1>1, <1>4 DEF RunStep
<1>5. CASE UNCHANGED serverVars BY <1>1, <1>5 DEF serverVars
<1> QED BY <1>2, <1>3, <1>4, <1>5 DEF ServerNext

\* The inductive invariant: until changes overlap, what is stored can be published side by
\* side, and the tables are as far as the one refresh_all under way has come.
THEOREM ServerTables == ServerSpec => []TablesInv
<1>1. HistoryInv /\ HistoryInv' /\ TablesInv /\ [ServerNext]_serverVars => TablesInv'
  BY TablesStep
<1> QED BY <1>1, TablesInit, ServerHistory, PTL DEF ServerSpec

\* The in-memory tables are the store's whenever no change is in progress (refresh_all,
\* api.rs; main.rs's start), after failures and restarts too.
THEOREM ServerTablesAgree == ServerSpec => []TablesAgree
<1>1. TablesInv => TablesAgree
  <2> SUFFICES ASSUME TablesInv, Idle, trouble \cap {"overlap", "killed", "heal"} = {}
               PROVE  /\ \A g \in Graphs : plans[g] = row[g].plan /\ plans[g] = row[g].code
                      /\ routes = BuiltRoutes(plans)
    BY DEF TablesAgree
  <2>1. ~Behind /\ \A g \in Graphs : ~Saving(g)
    BY DEF Idle, Behind, BehindAt, Saving, Workers
  <2>2. plans = Served /\ routes = BuiltRoutes(plans)
    BY <2>1 DEF TablesInv, InStep, TablesServed, Idle
  <2>3. \A g \in Graphs : row[g].plan = row[g].code
    BY <2>1 DEF TablesInv, PlansCurrent
  <2> QED BY <2>2, <2>3 DEF Served
<1> QED BY <1>1, ServerTables, PTL

\* resp_cache never keeps the answer of a graph or route that has been replaced (clearing
\* in refresh_all), unless a request was being answered meanwhile.
THEOREM ServerCacheFresh == ServerSpec => []CacheFresh
<1>1. TablesInv => CacheFresh
  BY DEF TablesInv, VisitsCurrent, CacheFresh, Idle
<1> QED BY <1>1, ServerTables, PTL

\* What check_route_conflict let pass, refresh_all accepts: one path and method is never
\* published twice (README.md:808), and the process can start again.
THEOREM ServerRefreshNeverFails == ServerSpec => RefreshNeverFails
<1> DEFINE Step == \A a \in Workers :
              (admin[a].at \in {"load", "heal"} /\ admin'[a].at = "idle") =>
                  (server' = "down" \/ trouble' \cap {"overlap", "heal"} # {})
<1>1. HistoryInv /\ TablesInv /\ [ServerNext]_serverVars => [Step]_publishVars
  <2> SUFFICES ASSUME PublishOK, AdminsInv, [ServerNext]_serverVars, NEW a \in Workers,
                      admin[a].at \in {"load", "heal"}, admin'[a].at = "idle",
                      server' # "down", trouble' \cap {"overlap", "heal"} = {}
               PROVE  FALSE
    BY HistoryParts, TablesParts
  <2>1. admin \in [Workers -> Admin] BY DEF PublishOK, PublishTypeOK
  <2>2. RouteStep
    BY DEF ServerNext, ExecuteStep, RunStep, serverVars
  <2>3. trouble \subseteq trouble' BY <2>2, PublishMain DEF RouteStep
  <2>4. ASSUME NEW b \in Workers, (b \in Admins /\ StartAdmin(b)) \/ AdminStep(b) \/ ClearCache(b)
        PROVE  b = a
    BY <2>1, <2>4, OthersStay
  <2>5. AdminStep(a)
    <3>1. ~ClearCache(a) BY DEF ClearCache
    <3>2. a \in Admins => ~StartAdmin(a) BY StartsAt
    <3>3. ~KillServer BY DEF KillServer
    <3>4. ~StartServer BY DEF StartServer, AdminsInv, Phases
    <3>5. admin' # admin OBVIOUS
    <3>6. Admins \subseteq Workers BY DEF Workers
    <3> QED BY <2>2, <2>4, <3>1, <3>2, <3>3, <3>4, <3>5, <3>6
            DEF RouteStep, PublishNext, VisitStep, LookUp, TakePlan, RunGraph, InsertBody,
                Request, Expire, Serves
  <2>6. Alone(a) BY <2>3, <2>5, StepsAlone DEF AdminsInv
  <2>7. /\ StoreOK /\ AdminPlaced(a) /\ Refreshing(a) /\ admin[a] \in Admin
    BY <2>6, AloneFacts DEF ChangeOK, Alone
  <2>8. \/ \E g \in Graphs : LoadStored(a, g)
        \/ Heal(a) \/ InstallPlans(a)
    BY <2>5 DEF AdminStep, Create, Update, GiveUp, SaveCompiled, DeployVersion, RollBack,
                ListGraphs, InstallRoutes
  <2>9. ~InstallPlans(a) BY <2>1 DEF InstallPlans, To, Admin
  <2>10. ASSUME NEW g \in Graphs, NEW code \in Codes, code = Served[g], Build(a, g, code)
         PROVE  FALSE
    <3>1. admin' = [admin EXCEPT ![a].at = "load", ![a].built[g] = code]
      BY <2>6, <2>10, BuildGoesOn
    <3> QED BY <2>7, <3>1, <2>1 DEF Admin
  <2>11. ASSUME NEW g \in Graphs, LoadStored(a, g) PROVE FALSE
    <3>1. row[g].plan # None BY <2>1, <2>7, <2>11 DEF LoadStored, Admin
    <3> PICK code \in Codes : code = row[g].plan
      BY <2>7, <3>1, StoreFields DEF StoreOK, Source
    <3>2. Build(a, g, code) /\ code = Served[g] BY <2>11, <3>1 DEF LoadStored, Served
    <3> QED BY <2>10, <3>2
  <2>12. ASSUME Heal(a) PROVE FALSE
    <3>1. admin[a].at = "heal" BY <2>12 DEF Heal
    <3> PICK g \in Graphs : g = admin[a].g BY <2>7, <3>1 DEF AdminPlaced
    <3>2. /\ admin[a].listed[g] = [version |-> row[g].version, code |-> row[g].code]
          /\ Served[g] = row[g].code
      BY <2>7, <3>1 DEF Refreshing
    <3>3. admin[a].listed[g].version # 0 BY <2>7, <3>1 DEF AdminPlaced
    <3> PICK code \in Codes : code = admin[a].listed[g].code
      BY <2>7, <3>3 DEF AdminPlaced, Recorded
    <3>4. Build(a, g, code) /\ code = Served[g] BY <2>12, <3>2 DEF Heal
    <3> QED BY <2>10, <3>4
  <2> QED BY <2>8, <2>9, <2>11, <2>12
<1>2. RefreshNeverFails <=> [][Step]_publishVars BY DEF RefreshNeverFails
<1> QED BY <1>1, <1>2, ServerTables, ServerHistory, PTL DEF ServerSpec

-----------------------------------------------------------------------------
(* What a request knows, as a fact about its record *)

WantedOf(r) == IF r.checked THEN Head(r.stack[Len(r.stack)].calls) ELSE Head(r.names)

Safe(r, safe) ==
    /\ Walked(safe, <<>>, {})
    /\ \A k \in DOMAIN r.stack : Checked(r.stack[k], safe)

Sound(r) ==
    /\ r.at # "lacking"
    /\ Exists(r.root.g) /\ r.root.plan = row[r.root.g].code
    /\ r.at \in Fetching =>
         /\ Exists(r.got.g) /\ r.got.code = row[r.got.g].code
         /\ NameOf[r.got.g] = WantedOf(r)
    /\ ~r.checked => /\ Walked(r.visited, r.names, r.missing)
                     /\ Reached(NameOf[r.root.g], r.visited, r.names)
    /\ r.checked => \E safe \in SUBSET Graphs : Safe(r, safe)

LEMMA SoundIs == ASSUME NEW c \in Callers PROVE CallSound(c) <=> Sound(call[c])
BY DEF CallSound, Sound, WantedOf, Safe, Wanted, Top

LEMMA SoundAfter ==
    ASSUME UNCHANGED row, NEW c \in Callers, Sound(call'[c])
    PROVE  CallSound(c)'
<1>1. /\ \A g : Exists(g)' <=> Exists(g)
      /\ \A f, safe : Checked(f, safe)' <=> Checked(f, safe)
  BY DEF Exists, Checked
<1> DEFINE r == call'[c]
<1>2. \A visited, names, missing : Walked(visited, names, missing)' <=> Walked(visited, names, missing)
  BY DEF Walked, Exists, Lacks, Reached, Get
<1> QED BY <1>1, <1>2 DEF CallSound, Sound, WantedOf, Safe, Wanted, Top, Exists, Reached

\* The record moves on, and what its positions tell stays.
LEMMA SoundKept ==
    ASSUME NEW r, NEW s, Sound(r), s.at # "lacking",
           s.at \in Fetching => r.at \in Fetching /\ s.got.g = r.got.g /\ s.got.code = r.got.code,
           s.checked = r.checked, s.root = r.root, s.names = r.names, s.visited = r.visited,
           s.missing = r.missing, s.stack = r.stack
    PROVE  Sound(s)
BY DEF Sound, WantedOf, Safe

LEMMA GoesSound ==
    ASSUME CallsOK, NEW c \in Callers, NEW at, Goes(c, at), Sound(call[c]), at # "lacking",
           at \in Fetching => call[c].at \in Fetching
    PROVE  Sound(call'[c])
<1>1. call[c] \in Call /\ call \in [Callers -> Call] BY CallFields
<1>2. call'[c] = [call[c] EXCEPT !.at = at] BY <1>1 DEF Goes
<1> DEFINE s == call'[c]
<1>3. /\ s.at = at /\ s.checked = call[c].checked /\ s.root = call[c].root
      /\ s.names = call[c].names /\ s.visited = call[c].visited
      /\ s.missing = call[c].missing /\ s.stack = call[c].stack /\ s.got = call[c].got
  BY <1>1, <1>2 DEF Call
<1> QED BY <1>3, SoundKept

\* A plan has been found for what is being fetched.
LEMMA TakenSound ==
    ASSUME CallsOK, NEW c \in Callers, NEW at, NEW plan, Sound(call[c]),
           at \in Fetching, call[c].at \in Fetching,
           call' = [call EXCEPT ![c].at = at, ![c].got.plan = plan]
    PROVE  Sound(call'[c])
<1>1. call[c] \in Call /\ call \in [Callers -> Call] /\ call[c].got \in Fetched
  BY CallFields DEF Call
<1>2. call'[c] = [call[c] EXCEPT !.at = at, !.got = [call[c].got EXCEPT !.plan = plan]]
  BY <1>1 DEF Call
<1> DEFINE s == call'[c]
<1>3. /\ s.at = at /\ s.checked = call[c].checked /\ s.root = call[c].root
      /\ s.names = call[c].names /\ s.visited = call[c].visited
      /\ s.missing = call[c].missing /\ s.stack = call[c].stack
      /\ s.got = [call[c].got EXCEPT !.plan = plan]
  BY <1>1, <1>2 DEF Call
<1>4. s.got.g = call[c].got.g /\ s.got.code = call[c].got.code
  BY <1>1, <1>3 DEF Fetched
<1>5. at # "lacking" BY DEF Fetching
<1> QED BY <1>3, <1>4, <1>5, SoundKept

-----------------------------------------------------------------------------
(* Lemmas about scopes, names and stacks *)

\* What is set for the root is set for every nested call.
LEMMA GetOutermost ==
    ASSUME NEW scopes \in Seq(Names), NEW key, Get(<<>>, key)
    PROVE  Get(scopes, key)
<1>1. Len(<<>>) = 0 /\ 0 \in 0..Len(scopes) /\ <<>> \in Seq(Names)
  BY EmptySeq, LenProperties
<1>2. \A s \in Seq(Names) : SubSeq(s, 1, 0) = <<>>
  OBVIOUS
<1>3. SubSeq(<<>>, 1, 0) \o <<key>> \in Environment
  BY <1>1 DEF Get
<1>4. SubSeq(scopes, 1, 0) \o <<key>> \in Environment
  BY <1>1, <1>2, <1>3
<1> QED BY <1>1, <1>4 DEF Get

LEMMA ScopesLackLess ==
    ASSUME NEW scopes \in Seq(Names), NEW code
    PROVE  Lacks(scopes, code) \subseteq Lacks(<<>>, code)
BY GetOutermost DEF Lacks

\* A name that was still to be visited is the one just visited, or still to be.
StillThere(names, rest) ==
    \A i \in DOMAIN names :
        names[i] = Head(names) \/ \E k \in DOMAIN rest : rest[k] = names[i]

LEMMA TailNames ==
    ASSUME NEW names \in Seq(Names), names # <<>>
    PROVE  StillThere(names, Tail(names))
<1> PICK n \in Nat \ {0} : n = Len(names) OBVIOUS
<1>1. DOMAIN names = 1..n /\ DOMAIN Tail(names) = 1..(n - 1)
  OBVIOUS
<1>2. \A k \in 1..(n - 1) : Tail(names)[k] = names[k + 1]
  OBVIOUS
<1>3. Head(names) = names[1] OBVIOUS
<1>4. ASSUME NEW i \in 1..n, i # 1 PROVE \E k \in 1..(n - 1) : Tail(names)[k] = names[i]
  <2> PICK k \in 1..(n - 1) : k = i - 1 BY <1>4
  <2> QED BY <1>2
<1> QED BY <1>1, <1>3, <1>4 DEF StillThere

LEMMA PutBefore ==
    ASSUME NEW names \in Seq(Names), names # <<>>, NEW more \in Seq(Names)
    PROVE  /\ StillThere(names, more \o Tail(names))
           /\ \A i \in DOMAIN more : \E k \in DOMAIN (more \o Tail(names)) :
                (more \o Tail(names))[k] = more[i]
<1> DEFINE rest == Tail(names)  all == more \o rest
<1>1. rest \in Seq(Names) OBVIOUS
<1> HIDE DEF rest
<1> PICK n \in Nat, m \in Nat : n = Len(more) /\ m = Len(rest) BY <1>1
<1>2. /\ DOMAIN more = 1..n /\ DOMAIN rest = 1..m /\ DOMAIN all = 1..(n + m)
      /\ \A k \in 1..n : all[k] = more[k]
      /\ \A k \in 1..m : all[n + k] = rest[k]
  BY <1>1
<1> HIDE DEF all
<1>3. \A i \in DOMAIN more : \E k \in DOMAIN all : all[k] = more[i]
  BY <1>2
<1>4. \A i \in DOMAIN rest : \E k \in DOMAIN all : all[k] = rest[i]
  <2>1. ASSUME NEW i \in 1..m PROVE \E k \in 1..(n + m) : all[k] = rest[i]
    <3>1. n + i \in 1..(n + m) OBVIOUS
    <3> QED BY <1>2, <3>1
  <2> QED BY <1>2, <2>1
<1>5. StillThere(names, rest) BY TailNames DEF rest
<1>6. StillThere(names, all) BY <1>4, <1>5 DEF StillThere
<1> QED BY <1>3, <1>6 DEF all, rest

LEMMA ReachedStill ==
    ASSUME NEW names, NEW rest, StillThere(names, rest), NEW visited, NEW after, NEW g,
           visited \subseteq after, g \in after, NameOf[g] = Head(names),
           NEW name, Reached(name, visited, names)
    PROVE  Reached(name, after, rest)
BY DEF Reached, StillThere

WalkedOne(g, visited, names, missing) ==
    /\ Exists(g)
    /\ Lacks(<<>>, row[g].code) \subseteq missing
    /\ \A i \in DOMAIN CallsOf[row[g].code] :
         Reached(CallsOf[row[g].code][i], visited, names)

\* One graph is visited, or found visited: the others are walked as they were.
LEMMA WalkedStill ==
    ASSUME NEW names, NEW rest, StillThere(names, rest), NEW visited, NEW after, NEW g,
           visited \subseteq after, g \in after, NameOf[g] = Head(names),
           NEW missing, NEW more, missing \subseteq more, Walked(visited, names, missing),
           NEW h \in visited
    PROVE  WalkedOne(h, after, rest, more)
BY ReachedStill DEF Walked, WalkedOne

LEMMA WalkedAlready ==
    ASSUME NEW names, NEW rest, StillThere(names, rest), NEW visited,
           NEW g \in visited, NameOf[g] = Head(names),
           NEW missing, Walked(visited, names, missing)
    PROVE  Walked(visited, rest, missing)
<1>1. visited \subseteq visited /\ missing \subseteq missing OBVIOUS
<1> SUFFICES ASSUME NEW h \in visited
             PROVE  WalkedOne(h, visited, rest, missing)
  BY DEF Walked, WalkedOne
<1> QED BY <1>1, WalkedStill

-----------------------------------------------------------------------------
(* The steps of a request to execute a graph *)

LEMMA NamesOne ==
    ASSUME NamesDiffer, NEW g \in Graphs, NEW h \in Graphs, Exists(g), Exists(h),
           NameOf[g] = NameOf[h]
    PROVE  g = h
BY DEF NamesDiffer, Existing

LEMMA ExecuteSound ==
    ASSUME CallsOK, NEW c \in Callers, NEW g \in Graphs, Execute(c, g), row[g].plan = row[g].code
    PROVE  Sound(call'[c])
<1> DEFINE root == [g |-> g, version |-> row[g].version, code |-> row[g].code,
                    plan |-> row[g].plan]
           r == call'[c]
<1>1. r = [IdleCall EXCEPT !.at = "walk", !.names = <<NameOf[g]>>, !.root = root]
  BY CallFields DEF Execute
<1>2. /\ r.at = "walk" /\ r.names = <<NameOf[g]>> /\ r.root = root /\ ~r.checked
      /\ r.visited = {} /\ r.missing = {}
  BY <1>1 DEF IdleCall
<1>3. Exists(g) /\ root.g = g /\ root.plan = row[g].code BY DEF Execute
<1> HIDE DEF root, r
<1>4. Walked(r.visited, r.names, r.missing) BY <1>2 DEF Walked
<1>5. Reached(NameOf[r.root.g], r.visited, r.names)
  <2>1. 1 \in DOMAIN <<NameOf[g]>> /\ <<NameOf[g]>>[1] = NameOf[g] OBVIOUS
  <2> QED BY <1>2, <1>3, <2>1 DEF Reached
<1>6. Sound(r) BY <1>2, <1>3, <1>4, <1>5 DEF Sound, Fetching
<1> QED BY <1>6 DEF r

LEMMA ResolveSound ==
    ASSUME CallsOK, NEW c \in Callers, Resolve(c), Sound(call[c])
    PROVE  Sound(call'[c])
<1>1. /\ call[c] \in Call /\ LocalsSet(call[c]) /\ call \in [Callers -> Call]
      /\ call[c].at = "walk"
      /\ call[c].checked \/ call[c].names # <<>>
  BY CallFields DEF Resolve
<1>2. CASE Goes(c, "failed") BY <1>2, GoesSound DEF Fetching
<1>3. Wanted(c) = WantedOf(call[c]) BY DEF Wanted, WantedOf, Top
<1>4. ASSUME NEW g \in FindByName(Wanted(c)), ~call[c].checked, g \in call[c].visited,
             call' = [call EXCEPT ![c].names = Tail(@)]
      PROVE  Sound(call'[c])
  <2> DEFINE r == call[c]  s == call'[c]
  <2>1. /\ s.at = r.at /\ s.checked = r.checked /\ s.root = r.root /\ s.names = Tail(r.names)
        /\ s.visited = r.visited /\ s.missing = r.missing
    BY <1>1, <1>4 DEF Call
  <2>2. /\ r.names \in Seq(Names) /\ r.names # <<>> /\ StillThere(r.names, Tail(r.names))
    BY <1>1, <1>4, TailNames DEF Call
  <2>3. NameOf[g] = Head(r.names) /\ g \in r.visited
    BY <1>4 DEF FindByName, Wanted
  <2>4. /\ Walked(r.visited, r.names, r.missing) /\ Reached(NameOf[r.root.g], r.visited, r.names)
        /\ Exists(r.root.g) /\ r.root.plan = row[r.root.g].code
    BY <1>4 DEF Sound
  <2> HIDE DEF s
  <2>5. Walked(r.visited, Tail(r.names), r.missing)
    BY <2>2, <2>3, <2>4, WalkedAlready
  <2>6. Reached(NameOf[r.root.g], r.visited, Tail(r.names))
    <3>1. r.visited \subseteq r.visited OBVIOUS
    <3> QED BY <2>2, <2>3, <2>4, <3>1, ReachedStill
  <2>7. r.at = "walk" /\ ~r.checked BY <1>4 DEF Resolve
  <2> HIDE DEF r
  <2>8. Sound(s) BY <2>1, <2>4, <2>5, <2>6, <2>7 DEF Sound, Fetching
  <2> QED BY <2>8 DEF s
<1>5. ASSUME NEW g \in FindByName(Wanted(c)),
             call' = [call EXCEPT ![c].at = "lookup",
                       ![c].got = [g |-> g, version |-> row[g].version,
                                   code |-> row[g].code, plan |-> None]]
      PROVE  Sound(call'[c])
  <2> DEFINE r == call[c]  s == call'[c]
  <2>1. /\ s.at = "lookup" /\ s.checked = r.checked /\ s.root = r.root /\ s.names = r.names
        /\ s.visited = r.visited /\ s.missing = r.missing /\ s.stack = r.stack
        /\ s.got = [g |-> g, version |-> row[g].version, code |-> row[g].code, plan |-> None]
    BY <1>1, <1>5 DEF Call
  <2>2. /\ s.got.g = g /\ s.got.code = row[g].code BY <2>1
  <2>3. Exists(g) /\ NameOf[g] = WantedOf(r) BY <1>3, <1>5 DEF FindByName, Existing
  <2> HIDE DEF s
  <2>4. WantedOf(s) = WantedOf(r) BY <2>1 DEF WantedOf
  <2>5. Sound(s) BY <2>1, <2>2, <2>3, <2>4 DEF Sound, Safe
  <2> QED BY <2>5 DEF s
<1> QED BY <1>2, <1>4, <1>5 DEF Resolve

LEMMA VisitGraphSound ==
    ASSUME CallsOK, NEW c \in Callers, VisitGraph(c), Sound(call[c])
    PROVE  Sound(call'[c])
<1> DEFINE r == call[c]  s == call'[c]  g == r.got.g  plan == r.got.plan
           names == CallsOf[plan] \o Tail(r.names)
           visited == r.visited \cup {g}
           missing == r.missing \cup Lacks(<<>>, plan)
<1>1. /\ r \in Call /\ LocalsSet(r) /\ call \in [Callers -> Call]
      /\ r.at = "fetched" /\ ~r.checked /\ FetchOK(r, vers)
  BY CallFields DEF VisitGraph
<1>2. /\ r.names \in Seq(Names) /\ r.names # <<>> /\ plan \in Codes
      /\ CallsOf[plan] \in Seq(Names)
  BY <1>1, CallsTyped DEF Call, LocalsSet, Fetching
<1>3. /\ plan = row[g].code /\ Exists(g) /\ NameOf[g] = Head(r.names)
  BY <1>1 DEF FetchOK, Fetching, Sound, WantedOf
<1>4. /\ Walked(r.visited, r.names, r.missing) /\ Reached(NameOf[r.root.g], r.visited, r.names)
      /\ Exists(r.root.g) /\ r.root.plan = row[r.root.g].code
  BY <1>1 DEF Sound
<1>5. /\ s.at = "walk" /\ ~s.checked /\ s.root = r.root /\ s.names = names
      /\ s.visited = visited /\ s.missing = missing
  BY <1>1 DEF VisitGraph, Call
<1>6. /\ StillThere(r.names, names)
      /\ \A i \in DOMAIN CallsOf[plan] : \E k \in DOMAIN names : names[k] = CallsOf[plan][i]
  BY <1>2, PutBefore
<1>7. g \in visited /\ r.visited \subseteq visited /\ r.missing \subseteq missing
      /\ Lacks(<<>>, plan) \subseteq missing /\ visited = r.visited \cup {g}
  OBVIOUS
<1> HIDE DEF s, names, visited, missing, g, plan
<1>8. Walked(visited, names, missing)
  <2> SUFFICES ASSUME NEW h \in visited
               PROVE  WalkedOne(h, visited, names, missing)
    BY DEF Walked, WalkedOne
  <2>1. CASE h = g BY <1>3, <1>6, <1>7, <2>1 DEF Reached, WalkedOne
  <2>2. CASE h \in r.visited
    <3>1. /\ StillThere(r.names, names) /\ r.visited \subseteq visited /\ g \in visited
          /\ NameOf[g] = Head(r.names) /\ r.missing \subseteq missing
          /\ Walked(r.visited, r.names, r.missing) /\ h \in r.visited
      BY <1>3, <1>4, <1>6, <1>7, <2>2
    <3> QED BY <3>1, WalkedStill
  <2> QED BY <1>7, <2>1, <2>2
<1>9. Reached(NameOf[r.root.g], visited, names)
  BY <1>3, <1>4, <1>6, <1>7, ReachedStill
<1>10. Sound(s) BY <1>4, <1>5, <1>8, <1>9 DEF Sound, Fetching
<1> QED BY <1>10 DEF s

LEMMA AdmitSound ==
    ASSUME CallsOK, NamesDiffer, NEW c \in Callers, Admit(c), Sound(call[c])
    PROVE  Sound(call'[c])
<1> DEFINE r == call[c]  s == call'[c]  frame == Frame(r.root, <<>>)
<1>1. /\ r \in Call /\ LocalsSet(r) /\ call \in [Callers -> Call]
      /\ r.at = "walk" /\ ~r.checked /\ r.names = <<>>
  BY CallFields DEF Admit
<1>2. CASE Goes(c, "refused") BY <1>2, GoesSound DEF Fetching
<1>3. CASE r.missing = {} /\ ~Goes(c, "refused")
  <2>1. /\ s.at = "frame" /\ s.checked /\ s.root = r.root /\ s.stack = <<frame>>
    BY <1>1, <1>3 DEF Admit, Call
  <2>2. /\ frame.g = r.root.g /\ frame.plan = r.root.plan /\ frame.calls = CallsOf[r.root.plan]
    BY DEF Frame
  <2>3. /\ Walked(r.visited, <<>>, {}) /\ Reached(NameOf[r.root.g], r.visited, <<>>)
        /\ Exists(r.root.g) /\ r.root.plan = row[r.root.g].code
    BY <1>1, <1>3 DEF Sound
  <2>4. r.root.g \in r.visited
    <3>1. DOMAIN <<>> = {} OBVIOUS
    <3>2. PICK h \in r.visited : NameOf[h] = NameOf[r.root.g] BY <2>3, <3>1 DEF Reached
    <3>3. Exists(h) /\ h \in Graphs /\ r.root.g \in Graphs
      BY <1>1, <2>3 DEF Walked, Call, LocalsSet
    <3> QED BY <2>3, <3>2, <3>3, NamesOne
  <2> HIDE DEF frame, s
  <2>5. Checked(frame, r.visited) BY <2>2, <2>3, <2>4 DEF Checked
  <2>6. \A k \in DOMAIN <<frame>> : <<frame>>[k] = frame OBVIOUS
  <2>7. Safe(s, r.visited) BY <2>1, <2>3, <2>5, <2>6 DEF Safe
  <2>8. r.visited \in SUBSET Graphs BY <1>1 DEF Call
  <2>9. Sound(s) BY <2>1, <2>3, <2>7, <2>8 DEF Sound, Fetching
  <2> QED BY <2>9 DEF s
<1> QED BY <1>2, <1>3 DEF Admit

\* The innermost executor runs the code of a graph that lacks nothing.
LEMMA ReadEnvironmentSound ==
    ASSUME CallsOK, NEW c \in Callers, ReadEnvironment(c), Sound(call[c])
    PROVE  Sound(call'[c])
<1> DEFINE r == call[c]
<1>1. /\ r \in Call /\ LocalsSet(r) /\ r.at = "frame" /\ r.checked /\ r.stack # <<>>
      /\ r.stack \in Seq(Executor)
  BY CallFields DEF ReadEnvironment, LocalsSet, Call
<1> PICK safe \in SUBSET Graphs : Safe(r, safe) BY <1>1 DEF Sound
<1>2. Len(r.stack) \in DOMAIN r.stack /\ Top(c) \in Executor BY <1>1 DEF Top
<1>3. Checked(Top(c), safe) BY <1>2 DEF Safe, Top
<1>4. Lacks(<<>>, Top(c).plan) \subseteq {} BY <1>3 DEF Safe, Walked, Checked
<1>5. Lacks(Top(c).scopes, Top(c).plan) = {}
  BY <1>2, <1>4, ScopesLackLess DEF Executor
<1>6. Goes(c, "calls") BY <1>5 DEF ReadEnvironment
<1> QED BY <1>6, GoesSound DEF Fetching

LEMMA RunSubgraphSound ==
    ASSUME CallsOK, NamesDiffer, NEW c \in Callers, RunSubgraph(c), Sound(call[c])
    PROVE  Sound(call'[c])
<1> DEFINE r == call[c]  s == call'[c]  got == r.got
           top == r.stack[Len(r.stack)]
           frame == Frame(got, Append(top.scopes, Head(top.calls)))
           more == Append(r.stack, frame)
<1>1. /\ r \in Call /\ LocalsSet(r) /\ call \in [Callers -> Call]
      /\ r.at = "fetched" /\ r.checked /\ FetchOK(r, vers)
  BY CallFields DEF RunSubgraph
<1>2. /\ r.stack \in Seq(Executor) /\ r.stack # <<>> /\ top.calls # <<>>
      /\ got.g \in Graphs /\ got.plan \in Codes
  BY <1>1 DEF LocalsSet, Fetching, Call
<1>3. /\ s.at = "frame" /\ s.checked /\ s.root = r.root /\ s.stack = more
  BY <1>1 DEF RunSubgraph, Wanted, Top, Call
<1>4. /\ Exists(got.g) /\ got.plan = row[got.g].code /\ NameOf[got.g] = Head(top.calls)
      /\ Exists(r.root.g) /\ r.root.plan = row[r.root.g].code
  BY <1>1 DEF FetchOK, Fetching, Sound, WantedOf
<1> PICK safe \in SUBSET Graphs : Safe(r, safe) BY <1>1 DEF Sound
<1>5. top \in Executor /\ Len(r.stack) \in DOMAIN r.stack BY <1>2
<1>6. Checked(top, safe) BY <1>5 DEF Safe
<1>7. frame.g = got.g /\ frame.plan = got.plan /\ frame.calls = CallsOf[got.plan]
  BY DEF Frame
<1> HIDE DEF frame, top, s
<1>8. 1 \in DOMAIN top.calls /\ Head(top.calls) = top.calls[1]
  BY <1>2, <1>5 DEF Executor
<1>9. got.g \in safe
  <2> PICK j \in DOMAIN CallsOf[top.plan] : top.calls[1] = CallsOf[top.plan][j]
    BY <1>6, <1>8 DEF Checked
  <2>1. Reached(CallsOf[row[top.g].code][j], safe, <<>>)
    BY <1>6 DEF Safe, Walked, Checked
  <2>2. DOMAIN <<>> = {} OBVIOUS
  <2> PICK h \in safe : NameOf[h] = CallsOf[row[top.g].code][j]
    BY <2>1, <2>2 DEF Reached
  <2>3. NameOf[h] = NameOf[got.g] BY <1>4, <1>6, <1>8 DEF Checked
  <2>4. Exists(h) BY DEF Safe, Walked
  <2> QED BY <1>2, <1>4, <2>3, <2>4, NamesOne
<1>10. Checked(frame, safe) BY <1>4, <1>7, <1>9 DEF Checked
<1>11. \A k \in DOMAIN more : more[k] = frame \/ (k \in DOMAIN r.stack /\ more[k] = r.stack[k])
  BY <1>2
<1> HIDE DEF more
<1>12. Safe(s, safe)
  BY <1>3, <1>10, <1>11 DEF Safe
<1>13. Sound(s) BY <1>3, <1>4, <1>12 DEF Sound, Fetching
<1> QED BY <1>13 DEF s
LEMMA TailOf ==
    ASSUME NEW names \in Seq(Names), names # <<>>, NEW i \in DOMAIN Tail(names)
    PROVE  i + 1 \in DOMAIN names /\ Tail(names)[i] = names[i + 1]
OBVIOUS

\* What a caller has before it when its CALL returns was before it.
LEMMA ReturnedChecked ==
    ASSUME NEW stack \in Seq(Executor), NEW safe,
           \A k \in 1..(Len(stack) - 1) : stack[k].calls # <<>>,
           \A k \in DOMAIN stack : Checked(stack[k], safe),
           NEW k \in DOMAIN Returned(stack)
    PROVE  Checked(Returned(stack)[k], safe)
<1> PICK n \in Nat : n = Len(stack) OBVIOUS
<1> DEFINE f == stack[k]  e == Returned(stack)[k]
<1>1. k \in 1..(n - 1) /\ e = IF k = n - 1 THEN [f EXCEPT !.calls = Tail(@)] ELSE f
  BY DEF Returned
<1>2. k \in DOMAIN stack /\ f \in Executor /\ Checked(f, safe) /\ f.calls # <<>>
  BY <1>1
<1>3. CASE e = f BY <1>2, <1>3
<1>4. CASE e = [f EXCEPT !.calls = Tail(@)]
  <2>1. /\ e.g = f.g /\ e.plan = f.plan /\ e.calls = Tail(f.calls)
        /\ f.calls \in Seq(Names)
    BY <1>2, <1>4 DEF Executor
  <2> HIDE DEF e, f
  <2>2. \A i \in DOMAIN Tail(f.calls) : i + 1 \in DOMAIN f.calls /\ Tail(f.calls)[i] = f.calls[i + 1]
    BY <1>2, <2>1, TailOf
  <2>3. f.g \in safe /\ f.plan = row[f.g].code BY <1>2 DEF Checked
  <2>4. \A i \in DOMAIN e.calls : \E j \in DOMAIN CallsOf[f.plan] : e.calls[i] = CallsOf[f.plan][j]
    BY <1>2, <2>1, <2>2 DEF Checked
  <2>5. Checked(e, safe) BY <2>1, <2>3, <2>4 DEF Checked
  <2> QED BY <2>5 DEF e
<1> QED BY <1>1, <1>3, <1>4

LEMMA FinishFrameSound ==
    ASSUME CallsOK, NEW c \in Callers, FinishFrame(c), Sound(call[c])
    PROVE  Sound(call'[c])
<1> DEFINE r == call[c]  s == call'[c]
<1>1. /\ r \in Call /\ LocalsSet(r) /\ call \in [Callers -> Call]
      /\ r.at = "calls" /\ r.checked
  BY CallFields DEF FinishFrame, LocalsSet, Call
<1>2. CASE Goes(c, "completed") BY <1>2, GoesSound DEF Fetching
<1>3. CASE call' = [call EXCEPT ![c].stack = Returned(@)]
  <2>1. /\ s.at = "calls" /\ s.checked /\ s.root = r.root /\ s.stack = Returned(r.stack)
    BY <1>1, <1>3 DEF Call
  <2>2. r.stack \in Seq(Executor) /\ \A k \in 1..(Len(r.stack) - 1) : r.stack[k].calls # <<>>
    BY <1>1 DEF LocalsSet, Call
  <2>3. Exists(r.root.g) /\ r.root.plan = row[r.root.g].code BY DEF Sound
  <2> PICK safe \in SUBSET Graphs : Safe(r, safe) BY <1>1 DEF Sound
  <2> HIDE DEF s, r
  <2>4. \A k \in DOMAIN s.stack : Checked(s.stack[k], safe)
    BY <2>1, <2>2, ReturnedChecked DEF Safe
  <2>5. Safe(s, safe) BY <2>4 DEF Safe
  <2>6. Sound(s) BY <2>1, <2>3, <2>5 DEF Sound, Fetching
  <2> QED BY <2>6 DEF s
<1> QED BY <1>2, <1>3 DEF FinishFrame

LEMMA LookupSound ==
    ASSUME CallsOK, NEW c \in Callers, Lookup(c), Sound(call[c])
    PROVE  Sound(call'[c])
<1>1. CASE Goes(c, "load") BY <1>1, GoesSound DEF Lookup, Fetching
<1>2. CASE call' = [call EXCEPT ![c].at = "fetched", ![c].got.plan = planCache[call[c].got.g].plan]
  BY <1>2, TakenSound DEF Lookup, Fetching
<1> QED BY <1>1, <1>2 DEF Lookup

LEMMA LoadVersionSound ==
    ASSUME CallsOK, NEW c \in Callers, LoadVersion(c), Sound(call[c])
    PROVE  Sound(call'[c])
<1> DEFINE plan == vers[call[c].got.g][call[c].got.version].plan
<1>1. CASE Goes(c, "heal") BY <1>1, GoesSound DEF LoadVersion, Fetching
<1>2. CASE call' = [call EXCEPT ![c].at = "insert", ![c].got.plan = plan]
  BY <1>2, TakenSound DEF LoadVersion, Fetching
<1> QED BY <1>1, <1>2 DEF LoadVersion

\* Every step of a request that goes on keeps what its check has found.
LEMMA CallStepSound ==
    ASSUME CallsOK, NamesDiffer, NEW c \in Callers, CallStep(c), Sound(call[c]),
           call'[c].at # "idle"
    PROVE  Sound(call'[c])
<1>1. CASE Resolve(c)         BY <1>1, ResolveSound
<1>2. CASE Lookup(c)          BY <1>2, LookupSound
<1>3. CASE LoadVersion(c)     BY <1>3, LoadVersionSound
<1>4. CASE HealVersion(c)     BY <1>4, TakenSound DEF HealVersion, Fetching
<1>5. CASE InsertPlan(c)      BY <1>5, GoesSound DEF InsertPlan, Fetching
<1>6. CASE VisitGraph(c)      BY <1>6, VisitGraphSound
<1>7. CASE Admit(c)           BY <1>7, AdmitSound
<1>8. CASE ReadEnvironment(c) BY <1>8, ReadEnvironmentSound
<1>9. CASE CallSubgraph(c)
  <2>1. Goes(c, "failed") \/ Goes(c, "walk") BY <1>9 DEF CallSubgraph
  <2> QED BY <2>1, GoesSound DEF Fetching
<1>10. CASE RunSubgraph(c)    BY <1>10, RunSubgraphSound
<1>11. CASE FinishFrame(c)    BY <1>11, FinishFrameSound
<1>12. CASE EndCall(c)        BY <1>12, CallFields DEF EndCall, IdleCall
<1> QED BY <1>1, <1>2, <1>3, <1>4, <1>5, <1>6, <1>7, <1>8, <1>9, <1>10, <1>11, <1>12
        DEF CallStep

-----------------------------------------------------------------------------
(* While no change is in progress no row changes *)

Unhurt == trouble \cap {"overlap", "killed", "heal"} = {}

\* A plan saved again is the one that was there.
LEMMA SaveChangesNothing ==
    ASSUME StoreOK, NEW g \in Graphs, NEW v, NEW code, Exists(g), Recorded(g, v, code),
           SavePlan(g, v, code), row[g].plan = code
    PROVE  UNCHANGED row
<1>1. /\ row'[g] = [row[g] EXCEPT !.plan = code] /\ row[g] \in Row
      /\ \A h \in Graphs \ {g} : row'[h] = row[h]
  BY SaveKeeps, StoreFields DEF StoreOK
<1>2. row'[g] = row[g] BY <1>1 DEF Row
<1>3. row \in [Graphs -> Row] /\ row' \in [Graphs -> Row]
  BY SaveKeeps DEF StoreOK, TablesTypeOK
<1>4. \A h \in Graphs : row'[h] = row[h] BY <1>1, <1>2
<1> QED BY <1>3, <1>4

LEMMA RowIsCurrent ==
    ASSUME AdminsInv, ~Changing, Unhurt, NEW g \in Graphs
    PROVE  row[g].plan = row[g].code
BY DEF AdminsInv, TablesMain, PlansCurrent, Unhurt, Changing, Saving, Workers

LEMMA AdminKeepsRows ==
    ASSUME PublishOK, AdminsInv, ~Changing, trouble \subseteq trouble', Unhurt',
           NEW a \in Workers, AdminStep(a)
    PROVE  UNCHANGED row
<1>1. Alone(a) BY StepsAlone DEF AdminsInv, Unhurt
<1>2. Unhurt BY DEF Unhurt
<1>3. ~(Create(a) \/ Update(a) \/ SaveCompiled(a) \/ RollBack(a))
  BY DEF Changing, Create, Update, SaveCompiled, RollBack
<1>4. CASE Heal(a)
  <2>1. /\ StoreOK /\ AdminPlaced(a) /\ ChangeOK(a) /\ admin[a].at = "heal"
    BY <1>1, <1>4, AloneFacts DEF Heal
  <2> PICK g \in Graphs : g = admin[a].g BY <2>1 DEF AdminPlaced
  <2>2. /\ Exists(g) /\ Recorded(g, admin[a].listed[g].version, admin[a].listed[g].code)
        /\ SavePlan(g, admin[a].listed[g].version, admin[a].listed[g].code)
    BY <1>4, <2>1 DEF AdminPlaced, Heal
  <2>3. admin[a].listed[g] = [version |-> row[g].version, code |-> row[g].code]
    BY <1>2, <2>1 DEF ChangeOK, Refreshing, Unhurt
  <2>4. row[g].plan = admin[a].listed[g].code BY <1>2, <2>3, RowIsCurrent
  <2> QED BY <2>1, <2>2, <2>4, SaveChangesNothing
<1>5. ASSUME NEW g \in Graphs, LoadStored(a, g) PROVE UNCHANGED row
  BY <1>5 DEF LoadStored
<1> QED BY <1>3, <1>4, <1>5
        DEF AdminStep, GiveUp, DeployVersion, Deploy, ListGraphs, InstallPlans, InstallRoutes

LEMMA RouteKeepsRows ==
    ASSUME PublishOK, AdminsInv, ~Changing, PublishNext, Unhurt'
    PROVE  UNCHANGED row
<1>1. trouble \subseteq trouble' BY PublishMain
<1>2. ASSUME NEW a \in Workers, AdminStep(a) PROVE UNCHANGED row
  BY <1>1, <1>2, AdminKeepsRows
<1>3. ASSUME NEW a \in Admins, StartAdmin(a) PROVE UNCHANGED row
  BY <1>3 DEF StartAdmin, StartCreate, StartUpdate, StartVersion
<1> QED BY <1>2, <1>3
        DEF PublishNext, VisitStep, LookUp, TakePlan, RunGraph, InsertBody, Request, Expire,
            Serves, StartServer, ClearCache, KillServer

LEMMA HealKeepsRows ==
    ASSUME PublishOK, CallsOK, AdminsInv, ~Changing, NEW c \in Callers, HealVersion(c),
           trouble' = trouble \cup (IF StaleHeal THEN {"heal"} ELSE {}), Unhurt'
    PROVE  UNCHANGED row
<1>1. /\ call[c].at = "heal" /\ call[c] \in Call /\ LocalsSet(call[c]) /\ FetchedRight(c)
      /\ StoreOK
  BY CallFields DEF HealVersion, CallsOK, PublishOK, StoreOK, PublishTypeOK
<1> PICK g \in Graphs, v \in Versions, code \in Codes :
       g = call[c].got.g /\ v = call[c].got.version /\ code = call[c].got.code
  BY <1>1 DEF LocalsSet, Fetching
<1>2. Recorded(g, v, code) /\ SavePlan(g, v, code) /\ call'[c].at = "insert"
  BY <1>1 DEF FetchedRight, Fetching, HealVersion, CallsOK, RegistryTypeOK
<1>3. ~StaleHeal /\ Unhurt BY DEF Unhurt
<1>4. v = row[g].version BY <1>1, <1>2, <1>3 DEF StaleHeal
<1>5. Exists(g) BY <1>4, ServerStoreAssumption DEF Exists, Versions
<1>6. row[g].code = code BY <1>1, <1>2, <1>4, <1>5 DEF StoreOK, StoreOrdered, Recorded
<1>7. row[g].plan = code BY <1>3, <1>6, RowIsCurrent
<1> QED BY <1>1, <1>2, <1>5, <1>7, SaveChangesNothing

-----------------------------------------------------------------------------
(* The theorems *)

LEMMA OtherCallsStay ==
    ASSUME CallsOK, NEW d \in Callers, CallStep(d) \/ \E g \in Graphs : Execute(d, g)
    PROVE  \A c \in Callers \ {d} : call'[c] = call[c]
<1>1. call \in [Callers -> Call] BY CallFields
<1>2. ASSUME NEW r, call' = [call EXCEPT ![d] = r]
      PROVE  \A c \in Callers \ {d} : call'[c] = call[c]
  BY <1>1, <1>2
<1> USE DEF Goes
<1>3. CASE Resolve(d) \/ Lookup(d) \/ LoadVersion(d) \/ HealVersion(d)
  BY <1>1, <1>3 DEF Resolve, Lookup, LoadVersion, HealVersion
<1>4. CASE InsertPlan(d) \/ VisitGraph(d) \/ Admit(d) \/ ReadEnvironment(d)
  BY <1>1, <1>4 DEF InsertPlan, VisitGraph, Admit, ReadEnvironment
<1>5. CASE CallSubgraph(d) \/ RunSubgraph(d) \/ FinishFrame(d) \/ EndCall(d)
  BY <1>1, <1>5 DEF CallSubgraph, RunSubgraph, FinishFrame, EndCall
<1>6. CASE \E g \in Graphs : Execute(d, g)
  BY <1>1, <1>6 DEF Execute
<1> QED BY <1>3, <1>4, <1>5, <1>6 DEF CallStep

\* Only a request that has begun takes a step.
LEMMA CallUnderWay ==
    ASSUME NEW c \in Callers, CallStep(c)
    PROVE  Active(c)
BY DEF CallStep, Resolve, Lookup, LoadVersion, HealVersion, InsertPlan, VisitGraph, Admit,
       ReadEnvironment, CallSubgraph, RunSubgraph, FinishFrame, EndCall, Active

\* No row changes while a request is undisturbed.
LEMMA RowsKept ==
    ASSUME PublishOK, CallsOK, AdminsInv, [ServerNext]_serverVars, ~Changing, Unhurt'
    PROVE  UNCHANGED row
<1>1. CASE RouteStep BY <1>1, RouteKeepsRows DEF RouteStep
<1>2. CASE ExecuteStep
  BY <1>2, CallStores, HealKeepsRows DEF ExecuteStep
<1> QED BY <1>1, <1>2 DEF ServerNext, RunStep, serverVars

LEMMA TroubleStays ==
    ASSUME PublishOK, AdminsInv, [ServerNext]_serverVars
    PROVE  trouble \subseteq trouble'
BY PublishMain DEF ServerNext, RouteStep, ExecuteStep, RunStep, serverVars

\* What a request that goes on has done: a step of its own, or it has begun, or nothing.
Begins(c)  == \E g \in Graphs : Execute(c, g)
Rests(c)   == call'[c] = call[c]

LEMMA CallerMoves ==
    ASSUME CallsOK, [ServerNext]_serverVars, NEW c \in Callers, call'[c].at # "idle"
    PROVE  CallStep(c) \/ Begins(c) \/ Rests(c)
<1>1. ASSUME RouteStep PROVE Rests(c)
  <2>1. CallsLost => call'[c].at = "idle" BY DEF CallsLost, IdleCall
  <2> QED BY <1>1, <2>1 DEF RouteStep, Rests
<1>2. ASSUME ExecuteStep PROVE CallStep(c) \/ Begins(c) \/ Rests(c)
  <2> PICK d \in Callers : CallStep(d) \/ \E g \in Graphs : Execute(d, g)
    BY <1>2 DEF ExecuteStep
  <2> QED BY OtherCallsStay DEF Begins, Rests
<1>3. ASSUME RunStep PROVE Rests(c) BY <1>3 DEF RunStep, Rests
<1>4. ASSUME UNCHANGED serverVars PROVE Rests(c) BY <1>4 DEF serverVars, Rests
<1>5. RouteStep \/ ExecuteStep \/ RunStep \/ UNCHANGED serverVars BY DEF ServerNext
<1> QED BY <1>1, <1>2, <1>3, <1>4, <1>5

LEMMA ChecksStep ==
    HistoryInv /\ TablesInv /\ ChecksInv /\ [ServerNext]_serverVars => ChecksInv'
<1> SUFFICES ASSUME PublishOK, CallsOK, AdminsInv, ChecksInv, [ServerNext]_serverVars,
                    NEW c \in Callers, Active(c)', c \notin changed'
             PROVE  ~Changing' /\ (NamesDiffer' /\ Unhurt' => CallSound(c)')
  BY HistoryParts, TablesParts DEF ChecksInv, Undisturbed, Unhurt
<1>1. c \notin changed /\ ~Changing /\ ~Changing'
  <2>1. CASE NoteChanges BY <2>1 DEF NoteChanges
  <2>2. CASE UNCHANGED serverVars
    BY <2>2 DEF serverVars, ChecksInv, Changing, Active
  <2> QED BY <2>1, <2>2 DEF ServerNext
<1>2. ASSUME NamesDiffer', Unhurt' PROVE CallSound(c)'
  <2>1. UNCHANGED row BY <1>1, <1>2, RowsKept
  <2>2. NamesDiffer /\ Unhurt
    BY <1>2, <2>1, TroubleStays DEF NamesDiffer, Existing, Exists, Unhurt
  <2>3. ASSUME Active(c) PROVE Sound(call[c])
    BY <1>1, <2>2, <2>3, SoundIs DEF ChecksInv, Undisturbed, Unhurt
  <2>4. call'[c].at # "idle" BY DEF Active
  <2>5. CASE call'[c] = call[c]
    <3>1. Active(c) BY <2>4, <2>5 DEF Active
    <3>2. Sound(call'[c]) BY <2>3, <2>5, <3>1
    <3> QED BY <2>1, <3>2, SoundAfter
  <2>6. CASE CallStep(c)
    <3>1. Sound(call'[c]) BY <2>2, <2>3, <2>4, <2>6, CallUnderWay, CallStepSound
    <3> QED BY <2>1, <3>1, SoundAfter
  <2>7. ASSUME NEW g \in Graphs, Execute(c, g) PROVE CallSound(c)'
    <3>1. row[g].plan = row[g].code BY <1>1, <2>2, RowIsCurrent
    <3>2. Sound(call'[c]) BY <2>7, <3>1, ExecuteSound
    <3> QED BY <2>1, <3>2, SoundAfter
  <2> QED BY <2>4, <2>5, <2>6, <2>7, CallerMoves DEF Rests, Begins
<1> QED BY <1>1, <1>2

LEMMA ChecksInit == ServerInit => ChecksInv
BY DEF ServerInit, RegistryInit, IdleCall, ChecksInv, Undisturbed, Active

\* The inductive invariant: what a request has checked, or is still to check, is what its
\* executors are to run (validate_env, then run_execution with its subgraphs), as long as
\* nothing happens that the check could not know.
THEOREM ServerChecks == ServerSpec => []ChecksInv
<1>1. HistoryInv /\ TablesInv /\ ChecksInv /\ [ServerNext]_serverVars => ChecksInv'
  BY ChecksStep
<1> QED BY <1>1, ChecksInit, ServerHistory, ServerTables, PTL DEF ServerSpec

\* Missing variables are reported before the run (registry.rs:71): env.get never fails in a
\* run that passed the check, however deep the nested call.
THEOREM ServerCheckedRunLacksNothing == ServerSpec => []CheckedRunLacksNothing
<1>1. ChecksInv => CheckedRunLacksNothing
  BY DEF ChecksInv, CheckedRunLacksNothing, Undisturbed, Active, CallSound
<1> QED BY <1>1, ServerChecks, PTL
=============================================================================
