-------------------------- MODULE GraphStoreProofs --------------------------
(***************************************************************************)
(* Machine-checked theorems about GraphStore, for every set of graphs,     *)
(* codes, clients and processes and every bound on versions.               *)
(***************************************************************************)
EXTENDS GraphStore, TLAPS

\* The part of the invariant that holds whatever happens.
Basics == StoreTyped /\ Written

-----------------------------------------------------------------------------
(* Type correctness, and what requests have seen *)

LEMMA BasicsInit == Init => Basics
BY GraphStoreAssumption
DEF Init, Basics, StoreTyped, LocalsSet, Written, ActiveStored, Stored, Exists, Row, Snapshot,
    Versions, Source, Client, At, InStore, Idle, Request, Relying

\* A step that replaces the locals of one client and forgets no version.
LEMMA BasicsFrame ==
    ASSUME Basics, NEW c \in Clients, NEW r \in Client, LocalsSet(r),
           client' = [client EXCEPT ![c] = r],
           row' \in [Graphs -> Row], vers' \in [Graphs -> [Versions -> Snapshot]],
           \A g \in Graphs : row'[g].version # 0 => row'[g].code # None,
           \A g \in Graphs, v \in Versions : vers[g][v].code # None => vers'[g][v].code # None,
           \A g \in Graphs : row'[g].active # 0 =>
               row'[g].active \in Versions /\ vers'[g][row'[g].active].code # None,
           r.at \in Relying => r.version \in Versions /\ vers'[r.g][r.version].code # None
    PROVE  Basics'
<1>1. StoreTyped' BY DEF Basics, StoreTyped, LocalsSet
<1>2. \A d \in Clients : client'[d].at \in Relying =>
        client'[d].version \in Versions /\ vers'[client'[d].g][client'[d].version].code # None
  BY DEF Basics, StoreTyped, Written, LocalsSet, Relying, Stored
<1> QED BY <1>1, <1>2 DEF Basics, Written, Stored, Exists, ActiveStored

LEMMA BasicsCreate ==
    ASSUME Basics, NEW c \in Clients, NEW g \in Graphs, NEW code \in Codes,
           Create(c, g, code) \/ Fork(c, g, code)
    PROVE  Basics'
<1>1. PICK next \in {"createVersion", "forkVersion"} : CreateRow(c, g, code, next) /\ 1 <= MaxVersion
  BY DEF Create, Fork
<1> DEFINE r == Request(next, g, 1, code)
<1>2. r \in Client /\ LocalsSet(r) /\ r.at \notin Relying
  BY <1>1, GraphStoreAssumption
  DEF Client, LocalsSet, Request, At, InStore, Versions, Source, Relying
<1>3. row' \in [Graphs -> Row]
  BY <1>1, GraphStoreAssumption DEF CreateRow, Basics, StoreTyped, Row, Source
<1> QED BY <1>1, <1>2, <1>3, BasicsFrame, GraphStoreAssumption
        DEF CreateRow, Basics, StoreTyped, Written, ActiveStored, Stored, Exists

\* A step that changes nothing but the locals of one client.
LEMMA BasicsLocal ==
    ASSUME Basics, NEW c \in Clients, NEW r \in Client, LocalsSet(r),
           client' = [client EXCEPT ![c] = r], UNCHANGED <<row, vers>>,
           r.at \in Relying => Stored(r.g, r.version)
    PROVE  Basics'
<1>1. \A g \in Graphs : row[g].active # 0 =>
         row[g].active \in Versions /\ vers[g][row[g].active].code # None
  BY DEF Basics, Written, ActiveStored, Stored
<1>2. \A g \in Graphs : row[g].version # 0 => row[g].code # None
  BY DEF Basics, Written, Exists
<1>3. row' \in [Graphs -> Row] /\ vers' \in [Graphs -> [Versions -> Snapshot]]
  BY DEF Basics, StoreTyped
<1> QED BY <1>1, <1>2, <1>3, BasicsFrame DEF Stored

LEMMA BasicsStart ==
    ASSUME Basics, NEW c \in Clients, NEW g \in Graphs,
           \/ \E code \in Codes : Update(c, g, code)
           \/ \E v \in Versions : Deploy(c, g, v) \/ Rollback(c, g, v) \/ LoadVersion(c, g, v)
           \/ LoadGraph(c, g)
    PROVE  Basics'
<1> USE GraphStoreAssumption
    DEF Request, Client, At, InStore, Source, Versions, LocalsSet, Relying
<1>0. /\ row[g].version \in 0..MaxVersion /\ row[g].code \in Source
      /\ Exists(g) => row[g].code \in Codes
      /\ \A v \in Versions : vers[g][v].code \in Source /\ vers[g][v].plan \in Source
  BY DEF Basics, StoreTyped, Row, Snapshot, Written
<1>1. ASSUME NEW code \in Codes, Update(c, g, code) PROVE Basics'
  <2> DEFINE r == Request("updateHead", g, row[g].version + 1, code)
  <2>1. r \in Client /\ LocalsSet(r) /\ r.at \notin Relying
    BY <1>0, <1>1 DEF Update, Exists
  <2> QED BY <1>1, <2>1, BasicsLocal DEF Update
<1>2. ASSUME NEW v \in Versions, Deploy(c, g, v) PROVE Basics'
  <2> DEFINE r == Request("deploySet", g, v, None)
  <2>1. r \in Client /\ LocalsSet(r) /\ Stored(r.g, r.version)
    BY <1>2 DEF Deploy
  <2> QED BY <1>2, <2>1, BasicsLocal DEF Deploy
<1>3. ASSUME NEW v \in Versions, Rollback(c, g, v) PROVE Basics'
  <2> DEFINE r == [Request("rollbackMax", g, 0, vers[g][v].code) EXCEPT !.plan = vers[g][v].plan]
  <2>1. r = [at |-> "rollbackMax", then |-> "idle", g |-> g, version |-> 0,
             code |-> vers[g][v].code, plan |-> vers[g][v].plan]
    OBVIOUS
  <2>2. r \in Client /\ LocalsSet(r) /\ r.at \notin Relying
    BY <1>0, <1>3, <2>1 DEF Rollback, Stored
  <2> QED BY <1>3, <2>2, BasicsLocal DEF Rollback
<1>4. ASSUME NEW v \in Versions, LoadVersion(c, g, v) PROVE Basics'
  <2> DEFINE r == Request("listVersions", g, v, None)
  <2>1. r \in Client /\ LocalsSet(r) /\ Stored(r.g, r.version)
    BY <1>4 DEF LoadVersion
  <2> QED BY <1>4, <2>1, BasicsLocal DEF LoadVersion
<1>5. ASSUME LoadGraph(c, g) PROVE Basics'
  <2> DEFINE r == [Request("loadPlan", g, row[g].version, row[g].code) EXCEPT !.then = "loaded"]
  <2>1. r = [at |-> "loadPlan", then |-> "loaded", g |-> g, version |-> row[g].version,
             code |-> row[g].code, plan |-> None]
    OBVIOUS
  <2>2. r \in Client /\ LocalsSet(r) /\ r.at \notin Relying
    BY <1>0, <1>5, <2>1 DEF LoadGraph, Exists
  <2> QED BY <1>5, <2>2, BasicsLocal DEF LoadGraph
<1> QED BY <1>1, <1>2, <1>3, <1>4, <1>5

\* What the locals of a client that is at work are.
LEMMA ClientFacts ==
    ASSUME Basics, NEW c \in Clients, client[c].at # "idle"
    PROVE  /\ client[c] \in Client /\ LocalsSet(client[c])
           /\ client[c].g \in Graphs
           /\ client[c].at \in Relying => Stored(client[c].g, client[c].version)
           /\ client[c] = [at |-> client[c].at, then |-> client[c].then, g |-> client[c].g,
                           version |-> client[c].version, code |-> client[c].code,
                           plan |-> client[c].plan]
BY DEF Basics, StoreTyped, Written, LocalsSet, Client

LEMMA ClientsType ==
    ASSUME Basics
    PROVE  client \in [Clients -> Client] /\ row \in [Graphs -> Row]
BY DEF Basics, StoreTyped

\* Assigning one field of a client's locals, or of a row, replaces the record.
LEMMA FieldsOfClient ==
    ASSUME Basics, NEW c \in Clients, client[c].at # "idle", NEW x
    PROVE  LET k == client[c] IN
           [client EXCEPT ![c].at = x] =
             [client EXCEPT ![c] = [at |-> x, then |-> k.then, g |-> k.g,
                 version |-> k.version, code |-> k.code, plan |-> k.plan]]
<1> DEFINE k == client[c]
<1>1. [k EXCEPT !.at = x] = [at |-> x, then |-> k.then, g |-> k.g, version |-> k.version,
                             code |-> k.code, plan |-> k.plan]
  BY ClientsType DEF Client
<1>2. [client EXCEPT ![c].at = x] = [client EXCEPT ![c] = [k EXCEPT !.at = x]]
  BY ClientsType
<1> QED BY <1>1, <1>2

LEMMA FieldsOfRow ==
    ASSUME Basics, NEW g \in Graphs, NEW x
    PROVE  LET w == row[g] IN
           /\ [row EXCEPT ![g].plan = x] =
                [row EXCEPT ![g] = [version |-> w.version, code |-> w.code, plan |-> x,
                                    active |-> w.active]]
           /\ [row EXCEPT ![g].active = x] =
                [row EXCEPT ![g] = [version |-> w.version, code |-> w.code, plan |-> w.plan,
                                    active |-> x]]
<1> DEFINE w == row[g]
<1>1. /\ [w EXCEPT !.plan = x] =
            [version |-> w.version, code |-> w.code, plan |-> x, active |-> w.active]
      /\ [w EXCEPT !.active = x] =
            [version |-> w.version, code |-> w.code, plan |-> w.plan, active |-> x]
  BY ClientsType DEF Row
<1>2. /\ [row EXCEPT ![g].plan = x] = [row EXCEPT ![g] = [w EXCEPT !.plan = x]]
      /\ [row EXCEPT ![g].active = x] = [row EXCEPT ![g] = [w EXCEPT !.active = x]]
  BY ClientsType
<1> QED BY <1>1, <1>2

\* The version rows an INSERT leaves, and where its client goes.
LEMMA InsertFacts ==
    ASSUME Basics, NEW c \in Clients, client[c].at # "idle", client[c].version \in Versions,
           client[c].code \in Codes, NEW plan \in Source, NEW next, InsertVersion(c, plan, next)
    PROVE  /\ vers' \in [Graphs -> [Versions -> Snapshot]]
           /\ \A g \in Graphs, v \in Versions :
                vers[g][v].code # None => vers'[g][v] = vers[g][v]
           /\ \/ client' = [client EXCEPT ![c] = Idle]
              \/ /\ client' = [client EXCEPT ![c].at = next]
                 /\ vers'[client[c].g][client[c].version] = [code |-> client[c].code, plan |-> plan]
<1>1. client[c].g \in Graphs BY ClientFacts
<1>2. vers \in [Graphs -> [Versions -> Snapshot]] BY DEF Basics, StoreTyped
<1>3. CASE Stored(client[c].g, client[c].version)
  BY <1>2, <1>3 DEF InsertVersion, Return
<1>4. CASE ~Stored(client[c].g, client[c].version)
  <2> DEFINE s == [code |-> client[c].code, plan |-> plan]
  <2>1. s \in Snapshot BY DEF Snapshot, Source
  <2>2. vers' = [vers EXCEPT ![client[c].g][client[c].version] = s]
    BY <1>4 DEF InsertVersion
  <2>3. client' = [client EXCEPT ![c] = Idle] \/ client' = [client EXCEPT ![c].at = next]
    BY <1>4 DEF InsertVersion, Return, Go
  <2>4. vers[client[c].g][client[c].version].code = None
    BY <1>4 DEF Stored
  <2> QED BY <1>1, <1>2, <2>1, <2>2, <2>3, <2>4
<1> QED BY <1>3, <1>4

LEMMA BasicsIdle == Idle \in Client /\ LocalsSet(Idle) /\ Idle.at \notin Relying
BY GraphStoreAssumption
DEF Idle, Request, Client, LocalsSet, At, InStore, Source, Relying

\* A step of one client that moves it on, or lets it return, after an INSERT.
LEMMA BasicsInsert ==
    ASSUME Basics, NEW c \in Clients, client[c].at # "idle", client[c].version \in Versions,
           client[c].code \in Codes, NEW plan \in Source,
           NEW next \in {"idle", "save", "rollbackPlan"}, InsertVersion(c, plan, next),
           UNCHANGED row
    PROVE  Basics'
<1>1. /\ vers' \in [Graphs -> [Versions -> Snapshot]]
      /\ \A g \in Graphs, v \in Versions : vers[g][v].code # None => vers'[g][v] = vers[g][v]
      /\ \/ client' = [client EXCEPT ![c] = Idle]
         \/ /\ client' = [client EXCEPT ![c].at = next]
            /\ vers'[client[c].g][client[c].version] = [code |-> client[c].code, plan |-> plan]
  BY InsertFacts
<1>2. /\ row' \in [Graphs -> Row]
      /\ \A g \in Graphs : row'[g].version # 0 => row'[g].code # None
      /\ \A g \in Graphs : row'[g].active # 0 =>
           row'[g].active \in Versions /\ vers'[g][row'[g].active].code # None
      /\ \A g \in Graphs, v \in Versions : vers[g][v].code # None => vers'[g][v].code # None
  BY <1>1 DEF Basics, StoreTyped, Written, Exists, ActiveStored, Stored
<1>3. CASE client' = [client EXCEPT ![c] = Idle]
  BY <1>1, <1>2, <1>3, BasicsIdle, BasicsFrame
<1>4. CASE /\ client' = [client EXCEPT ![c].at = next]
           /\ vers'[client[c].g][client[c].version] = [code |-> client[c].code, plan |-> plan]
  <2> DEFINE r == [client[c] EXCEPT !.at = next]
  <2>1. r = [at |-> next, then |-> client[c].then, g |-> client[c].g,
             version |-> client[c].version, code |-> client[c].code, plan |-> client[c].plan]
    <3>1. client[c] = [at |-> client[c].at, then |-> client[c].then, g |-> client[c].g,
                       version |-> client[c].version, code |-> client[c].code,
                       plan |-> client[c].plan]
      BY ClientFacts
    <3> QED BY <3>1
  <2>2. client[c] \in Client /\ client[c].g \in Graphs BY ClientFacts
  <2>3. r \in Client /\ LocalsSet(r)
    BY <2>1, <2>2 DEF Client, LocalsSet, At, InStore
  <2>4. vers'[r.g][r.version].code # None
    BY <1>4, <2>1, GraphStoreAssumption
  <2>5. client' = [client EXCEPT ![c] = r] BY <1>4
  <2>6. r.version \in Versions BY <2>1
  <2> HIDE DEF r
  <2> QED BY <1>1, <1>2, <2>3, <2>4, <2>5, <2>6, BasicsFrame
<1> QED BY <1>1, <1>3, <1>4

LEMMA BasicsInserts ==
    ASSUME Basics, NEW c \in Clients,
           CreateVersion(c) \/ ForkVersion(c) \/ UpdateInsert(c) \/ RollbackInsert(c)
    PROVE  Basics'
<1>1. client[c].at \in {"createVersion", "forkVersion", "updateInsert", "rollbackInsert"}
  BY DEF CreateVersion, ForkVersion, UpdateInsert, RollbackInsert
<1>2. /\ client[c] \in Client /\ client[c].version \in Versions /\ client[c].code \in Codes
      /\ client[c].at # "idle"
  BY <1>1, ClientFacts DEF LocalsSet
<1>3. None \in Source /\ client[c].plan \in Source BY <1>2 DEF Source, Client
<1> QED BY <1>2, <1>3, BasicsInsert
        DEF CreateVersion, ForkVersion, UpdateInsert, RollbackInsert

\* A step that changes one row and moves its client to r.
LEMMA BasicsRow ==
    ASSUME Basics, NEW c \in Clients, NEW g \in Graphs, NEW r \in Client, LocalsSet(r),
           NEW h \in Row, row' = [row EXCEPT ![g] = h], client' = [client EXCEPT ![c] = r],
           h.version # 0 => h.code # None, h.active # 0 => Stored(g, h.active),
           r.at \in Relying => Stored(r.g, r.version),
           UNCHANGED vers
    PROVE  Basics'
<1>1. row' \in [Graphs -> Row] /\ vers' \in [Graphs -> [Versions -> Snapshot]]
  BY DEF Basics, StoreTyped
<1>2. \A x \in Graphs : row'[x].version # 0 => row'[x].code # None
  BY DEF Basics, StoreTyped, Written, Exists
<1>3. \A x \in Graphs : row'[x].active # 0 =>
        row'[x].active \in Versions /\ vers'[x][row'[x].active].code # None
  BY DEF Basics, StoreTyped, Written, ActiveStored, Stored
<1> QED BY <1>1, <1>2, <1>3, BasicsFrame DEF Stored

LEMMA BasicsRows ==
    ASSUME Basics, NEW c \in Clients,
           UpdateHead(c) \/ RollbackHead(c) \/ SavePlan(c) \/ DeploySet(c)
           \/ RollbackPlan(c) \/ RollbackSet(c)
    PROVE  Basics'
<1> DEFINE g == client[c].g
           w == row[g]
           k == client[c]
<1>1. /\ k \in Client /\ g \in Graphs /\ LocalsSet(k) /\ k.at # "idle"
      /\ k.at \in Relying => Stored(g, k.version)
      /\ k = [at |-> k.at, then |-> k.then, g |-> k.g, version |-> k.version,
              code |-> k.code, plan |-> k.plan]
  <2>1. k.at # "idle"
    BY DEF UpdateHead, RollbackHead, SavePlan, DeploySet, RollbackPlan, RollbackSet
  <2> QED BY <2>1, ClientFacts
<1>2. /\ w \in Row
      /\ w = [version |-> w.version, code |-> w.code, plan |-> w.plan, active |-> w.active]
      /\ w.version # 0 => w.code # None
      /\ w.active # 0 => Stored(g, w.active)
      /\ w.version \in 0..MaxVersion /\ w.code \in Source /\ w.plan \in Source
      /\ w.active \in 0..MaxVersion
  BY <1>1 DEF Basics, StoreTyped, Row, Written, Exists, ActiveStored
<1>3. k.code \in Source /\ k.plan \in Source BY <1>1 DEF Client
<1> USE GraphStoreAssumption
<1>4. CASE UpdateHead(c) \/ RollbackHead(c)
  <2> DEFINE h == [version |-> k.version, code |-> k.code, plan |-> w.plan, active |-> w.active]
             next == IF k.at = "updateHead" THEN "updateInsert" ELSE "rollbackInsert"
             r == [at |-> next, then |-> k.then, g |-> g, version |-> k.version,
                   code |-> k.code, plan |-> k.plan]
  <2>1. k.version \in Versions /\ k.code \in Codes
    BY <1>1, <1>4 DEF UpdateHead, RollbackHead, LocalsSet
  <2>2. row' = [row EXCEPT ![g] = h]
    <3> DEFINE m == [w EXCEPT !.code = k.code]
    <3>1. row' = [row EXCEPT ![g] = [m EXCEPT !.version = k.version]]
      BY <1>4, ClientsType DEF UpdateHead, RollbackHead
    <3>2. m = [version |-> w.version, code |-> k.code, plan |-> w.plan, active |-> w.active]
      BY <1>2 DEF Row
    <3> HIDE DEF m
    <3>3. [m EXCEPT !.version = k.version] = h BY <3>2
    <3> QED BY <3>1, <3>3
  <2>3. client' = [client EXCEPT ![c] = r]
    BY <1>1, <1>4, FieldsOfClient DEF UpdateHead, RollbackHead, Go
  <2>4. h \in Row BY <1>2, <2>1 DEF Row, Versions, Source
  <2>5. r \in Client /\ LocalsSet(r) /\ r.at \notin Relying
    BY <1>1, <2>1 DEF Client, LocalsSet, At, InStore, Relying
  <2>6. h.version # 0 => h.code # None BY <2>1
  <2>7. h.active # 0 => Stored(g, h.active) BY <1>2
  <2>8. UNCHANGED vers BY <1>4 DEF UpdateHead, RollbackHead
  <2> HIDE DEF h, r, next
  <2> QED BY <1>1, <2>2, <2>3, <2>4, <2>5, <2>6, <2>7, <2>8, BasicsRow
<1>5. CASE SavePlan(c)
  <2> DEFINE h == [version |-> w.version, code |-> w.code, plan |-> k.code, active |-> w.active]
             r == [at |-> "saveVersion", then |-> k.then, g |-> g, version |-> k.version,
                   code |-> k.code, plan |-> k.plan]
  <2>1. k.at = "save" BY <1>5 DEF SavePlan
  <2>2. row' = [row EXCEPT ![g] = h] BY <1>1, <1>5, FieldsOfRow DEF SavePlan
  <2>3. client' = [client EXCEPT ![c] = r] BY <1>1, <1>5, FieldsOfClient DEF SavePlan, Go
  <2>4. h \in Row BY <1>2, <1>3 DEF Row
  <2>5. r \in Client /\ LocalsSet(r) /\ r.at \notin Relying
    BY <1>1, <2>1 DEF Client, LocalsSet, At, InStore, Relying
  <2>6. (h.version # 0 => h.code # None) /\ (h.active # 0 => Stored(g, h.active)) BY <1>2
  <2>7. UNCHANGED vers BY <1>5 DEF SavePlan
  <2> HIDE DEF h, r
  <2> QED BY <1>1, <2>2, <2>3, <2>4, <2>5, <2>6, <2>7, BasicsRow
<1>6. CASE DeploySet(c) \/ RollbackSet(c)
  <2> DEFINE h == [version |-> w.version, code |-> w.code, plan |-> w.plan, active |-> k.version]
  <2>1. k.at \in Relying BY <1>6 DEF DeploySet, RollbackSet, Relying
  <2>2. Stored(g, k.version) /\ k.version \in 0..MaxVersion
    BY <1>1, <2>1 DEF Client
  <2>3. row' = [row EXCEPT ![g] = h] BY <1>1, <1>6, FieldsOfRow DEF DeploySet, RollbackSet
  <2>4. client' = [client EXCEPT ![c] = Idle] BY <1>6 DEF DeploySet, RollbackSet, Return
  <2>5. h \in Row BY <1>2, <2>2 DEF Row
  <2>6. (h.version # 0 => h.code # None) /\ (h.active # 0 => Stored(g, h.active))
    BY <1>2, <2>2
  <2>7. UNCHANGED vers BY <1>6 DEF DeploySet, RollbackSet
  <2> HIDE DEF h
  <2> QED BY <1>1, <2>3, <2>4, <2>5, <2>6, <2>7, BasicsIdle, BasicsRow
<1>7. CASE RollbackPlan(c)
  <2> DEFINE h == IF k.plan # None
                  THEN [version |-> w.version, code |-> w.code, plan |-> k.plan,
                        active |-> w.active]
                  ELSE w
             r == [at |-> "rollbackActive", then |-> k.then, g |-> g, version |-> k.version,
                   code |-> k.code, plan |-> k.plan]
  <2>1. k.at = "rollbackPlan" BY <1>7 DEF RollbackPlan
  <2>2. row' = [row EXCEPT ![g] = h]
    <3>1. CASE k.plan # None BY <1>1, <1>7, <3>1, FieldsOfRow DEF RollbackPlan
    <3>2. CASE k.plan = None BY <1>1, <1>7, <3>2 DEF RollbackPlan, Basics, StoreTyped
    <3> QED BY <3>1, <3>2
  <2>3. client' = [client EXCEPT ![c] = r] BY <1>1, <1>7, FieldsOfClient DEF RollbackPlan, Go
  <2>4. h \in Row BY <1>2, <1>3 DEF Row
  <2>5. r \in Client /\ LocalsSet(r) /\ Stored(r.g, r.version)
    BY <1>1, <2>1 DEF Client, LocalsSet, At, InStore, Relying
  <2>6. (h.version # 0 => h.code # None) /\ (h.active # 0 => Stored(g, h.active)) BY <1>2
  <2>7. UNCHANGED vers BY <1>7 DEF RollbackPlan
  <2> HIDE DEF h, r
  <2> QED BY <1>1, <2>2, <2>3, <2>4, <2>5, <2>6, <2>7, BasicsRow
<1> QED BY <1>4, <1>5, <1>6, <1>7

\* Steps that read, and move their client only.
LEMMA BasicsReads ==
    ASSUME Basics, NEW c \in Clients,
           RollbackMax(c) \/ RollbackActive(c) \/ LoadPlan(c) \/ Loaded(c) \/ ListVersions(c)
    PROVE  Basics'
<1> DEFINE g == client[c].g
           k == client[c]
<1>1. /\ k \in Client /\ g \in Graphs /\ LocalsSet(k) /\ k.at # "idle"
      /\ k.at \in Relying => Stored(g, k.version)
      /\ k = [at |-> k.at, then |-> k.then, g |-> k.g, version |-> k.version,
              code |-> k.code, plan |-> k.plan]
  <2>1. k.at # "idle"
    BY DEF RollbackMax, RollbackActive, LoadPlan, Loaded, ListVersions
  <2> QED BY <2>1, ClientFacts
<1>2. UNCHANGED <<row, vers>>
  BY DEF RollbackMax, RollbackActive, LoadPlan, Loaded, ListVersions
<1> USE GraphStoreAssumption
<1>3. CASE RollbackMax(c)
  <2>1. PICK n \in 0..(MaxVersion - 1) :
          client' = [client EXCEPT ![c].at = "rollbackHead", ![c].version = n + 1]
    BY <1>3 DEF RollbackMax
  <2> DEFINE r == [at |-> "rollbackHead", then |-> k.then, g |-> g, version |-> n + 1,
                   code |-> k.code, plan |-> k.plan]
  <2>2. client' = [client EXCEPT ![c] = r]
    <3> DEFINE m == [k EXCEPT !.at = "rollbackHead"]
    <3>1. client' = [client EXCEPT ![c] = [m EXCEPT !.version = n + 1]]
      BY <2>1, ClientsType
    <3>2. m = [at |-> "rollbackHead", then |-> k.then, g |-> k.g, version |-> k.version,
               code |-> k.code, plan |-> k.plan]
      BY <1>1 DEF Client
    <3> HIDE DEF m
    <3>3. [m EXCEPT !.version = n + 1] = r BY <3>2
    <3> QED BY <3>1, <3>3
  <2>3. r \in Client /\ LocalsSet(r) /\ r.at \notin Relying
    BY <1>1, <1>3 DEF RollbackMax, Client, LocalsSet, At, InStore, Relying, Versions
  <2> HIDE DEF r
  <2> QED BY <1>2, <2>2, <2>3, BasicsLocal
<1>4. CASE RollbackActive(c)
  <2> DEFINE r == [at |-> "rollbackSet", then |-> k.then, g |-> g, version |-> k.version,
                   code |-> k.code, plan |-> k.plan]
  <2>1. k.at \in Relying BY <1>4 DEF RollbackActive, Relying
  <2>2. r \in Client /\ LocalsSet(r) /\ Stored(r.g, r.version)
    BY <1>1, <1>4, <2>1 DEF RollbackActive, Client, LocalsSet, At, InStore
  <2>3. client' = [client EXCEPT ![c] = r] \/ client' = [client EXCEPT ![c] = Idle]
    BY <1>1, <1>4, FieldsOfClient DEF RollbackActive, Go, Return
  <2> HIDE DEF r
  <2> QED BY <1>2, <2>2, <2>3, BasicsIdle, BasicsLocal
<1>5. CASE LoadPlan(c)
  <2> DEFINE s == [at |-> "save", then |-> k.then, g |-> g, version |-> k.version,
                   code |-> k.code, plan |-> k.plan]
             l == [at |-> "loaded", then |-> k.then, g |-> g, version |-> k.version,
                   code |-> k.code, plan |-> row[g].plan]
  <2>1. row[g].plan \in Source BY <1>1 DEF Basics, StoreTyped, Row
  <2>2. s \in Client /\ LocalsSet(s) /\ s.at \notin Relying
    BY <1>1, <1>5 DEF LoadPlan, Client, LocalsSet, At, InStore, Relying
  <2>3. CASE row[g].plan # None
    <3>1. l \in Client /\ LocalsSet(l) /\ l.at \notin Relying
      BY <1>1, <1>5, <2>1, <2>3 DEF LoadPlan, Client, LocalsSet, At, InStore, Relying, Source
    <3>2. client' = [client EXCEPT ![c] = l] BY <1>1, <1>5, <2>3, FieldsOfClient DEF LoadPlan
    <3> HIDE DEF l
    <3> QED BY <1>2, <3>1, <3>2, BasicsLocal
  <2>4. CASE row[g].plan = None
    <3>1. client' = [client EXCEPT ![c] = s] BY <1>1, <1>5, <2>4, FieldsOfClient DEF LoadPlan, Go
    <3> HIDE DEF s
    <3> QED BY <1>2, <2>2, <3>1, BasicsLocal
  <2> QED BY <2>3, <2>4
<1>6. CASE Loaded(c)
  BY <1>2, <1>6, BasicsIdle, BasicsLocal DEF Loaded, Return
<1>7. CASE ListVersions(c)
  <2> DEFINE r == [at |-> "save", then |-> k.then, g |-> g, version |-> k.version,
                   code |-> vers[g][k.version].code, plan |-> k.plan]
  <2>1. Stored(g, k.version) BY <1>1, <1>7 DEF ListVersions, Relying
  <2>2. vers[g][k.version].code \in Codes /\ k.version \in Versions
    BY <1>1, <2>1 DEF Stored, Basics, StoreTyped, Snapshot, Source
  <2>3. r \in Client /\ LocalsSet(r) /\ r.at \notin Relying
    BY <1>1, <2>2 DEF Client, LocalsSet, At, InStore, Relying, Source
  <2>4. client' = [client EXCEPT ![c] = r]
    <3> DEFINE m == [k EXCEPT !.at = "save"]
    <3>1. client' = [client EXCEPT ![c] = [m EXCEPT !.code = vers[g][k.version].code]]
      BY <1>7, ClientsType DEF ListVersions
    <3>2. m = [at |-> "save", then |-> k.then, g |-> k.g, version |-> k.version,
               code |-> k.code, plan |-> k.plan]
      BY <1>1 DEF Client
    <3> HIDE DEF m
    <3>3. [m EXCEPT !.code = vers[g][k.version].code] = r BY <3>2
    <3> QED BY <3>1, <3>3
  <2> HIDE DEF r
  <2> QED BY <1>2, <2>3, <2>4, BasicsLocal
<1> QED BY <1>3, <1>4, <1>5, <1>6, <1>7

\* save_plan's second statement: a plan changes, no code does.
LEMMA SaveFacts ==
    ASSUME Basics, NEW c \in Clients, SaveVersion(c)
    PROVE  /\ client[c].version \in Versions /\ client[c].code \in Codes
           /\ client[c].g \in Graphs /\ UNCHANGED row
           /\ vers' \in [Graphs -> [Versions -> Snapshot]]
           /\ \A g \in Graphs, v \in Versions :
                /\ vers'[g][v].code = vers[g][v].code
                /\ \/ vers'[g][v].plan = vers[g][v].plan
                   \/ /\ g = client[c].g /\ v = client[c].version
                      /\ vers'[g][v].plan = client[c].code
           /\ \/ client' = [client EXCEPT ![c] = Idle]
              \/ client' = [client EXCEPT ![c] = [at |-> "loaded", then |-> client[c].then,
                     g |-> client[c].g, version |-> client[c].version,
                     code |-> client[c].code, plan |-> client[c].code]]
<1> DEFINE k == client[c]
           l == [at |-> "loaded", then |-> k.then, g |-> k.g, version |-> k.version,
                 code |-> k.code, plan |-> k.code]
<1>1. k \in Client /\ k.version \in Versions /\ k.code \in Codes /\ k.g \in Graphs
  BY ClientFacts DEF SaveVersion, LocalsSet
<1>2. vers \in [Graphs -> [Versions -> Snapshot]] /\ UNCHANGED row
  BY DEF Basics, StoreTyped, SaveVersion
<1>3. k.code \in Source BY <1>1 DEF Source
<1>4. /\ vers' \in [Graphs -> [Versions -> Snapshot]]
      /\ \A g \in Graphs, v \in Versions :
            /\ vers'[g][v].code = vers[g][v].code
            /\ \/ vers'[g][v].plan = vers[g][v].plan
               \/ g = k.g /\ v = k.version /\ vers'[g][v].plan = k.code
  <2>1. CASE Stored(k.g, k.version)
    <3> DEFINE s == [vers[k.g][k.version] EXCEPT !.plan = k.code]
    <3>1. vers' = [vers EXCEPT ![k.g] = [vers[k.g] EXCEPT ![k.version] = s]]
      BY <1>2, <2>1 DEF SaveVersion
    <3>2. s \in Snapshot /\ s.code = vers[k.g][k.version].code /\ s.plan = k.code
      BY <1>1, <1>2, <1>3 DEF Snapshot
    <3> HIDE DEF s
    <3> QED BY <1>1, <1>2, <3>1, <3>2
  <2>2. CASE ~Stored(k.g, k.version)
    BY <1>2, <2>2 DEF SaveVersion
  <2> QED BY <2>1, <2>2
<1>5. client' = [client EXCEPT ![c] = Idle] \/ client' = [client EXCEPT ![c] = l]
  <2>1. CASE k.then = "idle" BY <2>1 DEF SaveVersion, Return
  <2>2. CASE k.then # "idle"
    <3> DEFINE m == [k EXCEPT !.at = "loaded"]
    <3>1. client' = [client EXCEPT ![c] = [m EXCEPT !.plan = k.code]]
      BY <2>2, ClientsType DEF SaveVersion
    <3>2. m = [at |-> "loaded", then |-> k.then, g |-> k.g, version |-> k.version,
               code |-> k.code, plan |-> k.plan]
      BY <1>1 DEF Client
    <3> HIDE DEF m
    <3>3. [m EXCEPT !.plan = k.code] = l BY <3>2
    <3> QED BY <3>1, <3>3
  <2> QED BY <2>1, <2>2
<1> QED BY <1>1, <1>2, <1>4, <1>5

LEMMA BasicsSave ==
    ASSUME Basics, NEW c \in Clients, SaveVersion(c)
    PROVE  Basics'
<1> DEFINE k == client[c]
           l == [at |-> "loaded", then |-> k.then, g |-> k.g, version |-> k.version,
                 code |-> k.code, plan |-> k.code]
<1>1. k \in Client /\ k.version \in Versions /\ k.code \in Codes /\ k.g \in Graphs
  BY SaveFacts, ClientFacts DEF SaveVersion
<1>2. l \in Client /\ LocalsSet(l) /\ l.at \notin Relying
  BY <1>1 DEF Client, LocalsSet, At, InStore, Relying, Source
<1>3. client' = [client EXCEPT ![c] = Idle] \/ client' = [client EXCEPT ![c] = l]
  BY SaveFacts
<1>4. /\ UNCHANGED row /\ vers' \in [Graphs -> [Versions -> Snapshot]]
      /\ \A g \in Graphs, v \in Versions : vers'[g][v].code = vers[g][v].code
  BY SaveFacts
<1>5. /\ row' \in [Graphs -> Row]
      /\ \A g \in Graphs : row'[g].version # 0 => row'[g].code # None
      /\ \A g \in Graphs : row'[g].active # 0 =>
           row'[g].active \in Versions /\ vers'[g][row'[g].active].code # None
      /\ \A g \in Graphs, v \in Versions : vers[g][v].code # None => vers'[g][v].code # None
  BY <1>4 DEF Basics, StoreTyped, Written, Exists, ActiveStored, Stored
<1> HIDE DEF l
<1> QED BY <1>2, <1>3, <1>4, <1>5, BasicsIdle, BasicsFrame

LEMMA BasicsCrash ==
    ASSUME Basics, NEW p \in Processes, UNCHANGED <<row, vers>>,
           client' = [c \in Clients |-> IF ProcessOf[c] = p THEN Idle ELSE client[c]]
    PROVE  Basics'
<1>1. \A d \in Clients : client'[d] \in {Idle, client[d]}
  OBVIOUS
<1>2. client' \in [Clients -> Client]
  BY BasicsIdle DEF Basics, StoreTyped
<1>3. \A d \in Clients : LocalsSet(client'[d])
  BY <1>1, BasicsIdle DEF Basics, StoreTyped
<1>4. \A d \in Clients : client'[d].at \in Relying =>
        Stored(client'[d].g, client'[d].version)
  BY <1>1, BasicsIdle DEF Basics, Written
<1> QED BY <1>2, <1>3, <1>4
        DEF Basics, StoreTyped, LocalsSet, Written, Stored, Exists, ActiveStored

LEMMA BasicsClient ==
    ASSUME Basics, NEW c \in Clients, Start(c) \/ Continue(c)
    PROVE  Basics'
<1>1. CASE Start(c)
  <2>1. PICK g \in Graphs :
           \/ \E code \in Codes : Create(c, g, code) \/ Fork(c, g, code) \/ Update(c, g, code)
           \/ \E v \in Versions : Deploy(c, g, v) \/ Rollback(c, g, v) \/ LoadVersion(c, g, v)
           \/ LoadGraph(c, g)
    BY <1>1 DEF Start
  <2>2. ASSUME NEW code \in Codes, Create(c, g, code) \/ Fork(c, g, code) PROVE Basics'
    BY <2>2, BasicsCreate
  <2> QED BY <2>1, <2>2, BasicsStart
<1>2. CASE Continue(c)
  BY <1>2, BasicsInserts, BasicsRows, BasicsReads, BasicsSave DEF Continue
<1> QED BY <1>1, <1>2

LEMMA BasicsStutter == ASSUME Basics, UNCHANGED <<row, vers, client>> PROVE Basics'
BY DEF Basics, StoreTyped, LocalsSet, Written, Stored, Exists, ActiveStored

LEMMA BasicsNext == Basics /\ [Next]_storeVars => Basics'
<1> SUFFICES ASSUME Basics, [Next]_storeVars PROVE Basics'
  OBVIOUS
<1>1. CASE UNCHANGED storeVars
  BY <1>1, BasicsStutter DEF storeVars
<1>2. ASSUME NEW p \in Processes, Crash(p) PROVE Basics'
  BY <1>2, BasicsCrash DEF Crash
<1> QED BY <1>1, <1>2, BasicsClient DEF Next

\* What is told apart of the troubles here.
Recorded == trouble \subseteq {"killed", "processes"}

LEMMA RecordedNext == Recorded /\ [Next]_storeVars => Recorded'
BY DEF Recorded, Next, storeVars

\* Types, and what rows and requests have seen, hold in every reachable state.
THEOREM StoreBasics == Spec => []Basics
BY BasicsInit, BasicsNext, PTL DEF Spec

\* Type correctness of the graph tables and of the requests on them.
THEOREM StoreTyping == Spec => []TypeOK
<1>1. Basics /\ Recorded => TypeOK BY DEF Basics, TypeOK, Recorded
<1>2. Init => Recorded BY DEF Init, Recorded
<1> QED BY <1>1, <1>2, RecordedNext, StoreBasics, PTL DEF Spec

\* The active version of a deployed graph exists, whatever is killed and however
\* many processes deploy, update and roll back.
THEOREM DeployedExists == Spec => []ActiveStored
<1>1. Basics => ActiveStored BY DEF Basics, Written
<1> QED BY <1>1, StoreBasics, PTL

\* A step of a client keeps the code of every version there is.
LEMMA CodesKept ==
    ASSUME Basics, NEW c \in Clients, Start(c) \/ Continue(c)
    PROVE  \A g \in Graphs, v \in Versions :
               vers[g][v].code # None => vers'[g][v].code = vers[g][v].code
<1> DEFINE Kept == \A g \in Graphs, v \in Versions :
                       vers[g][v].code # None => vers'[g][v].code = vers[g][v].code
<1> SUFFICES Kept
  OBVIOUS
<1>1. CASE UNCHANGED vers BY <1>1
<1>2. CASE CreateVersion(c) \/ ForkVersion(c) \/ UpdateInsert(c) \/ RollbackInsert(c)
  <2>1. client[c].at \in {"createVersion", "forkVersion", "updateInsert", "rollbackInsert"}
    BY <1>2 DEF CreateVersion, ForkVersion, UpdateInsert, RollbackInsert
  <2>2. /\ client[c].at # "idle" /\ client[c].version \in Versions
        /\ client[c].code \in Codes /\ client[c].plan \in Source /\ None \in Source
    BY <2>1, ClientFacts DEF LocalsSet, Client, Source
  <2> QED BY <1>2, <2>2, InsertFacts
          DEF CreateVersion, ForkVersion, UpdateInsert, RollbackInsert
<1>3. CASE SaveVersion(c) BY <1>3, SaveFacts
<1>4. Start(c) => UNCHANGED vers
  BY DEF Start, Create, Fork, CreateRow, Update, Deploy, Rollback, LoadVersion, LoadGraph
<1>5. UpdateHead(c) \/ SavePlan(c) \/ DeploySet(c) \/ RollbackMax(c) \/ RollbackHead(c)
      \/ RollbackPlan(c) \/ RollbackActive(c) \/ RollbackSet(c) \/ LoadPlan(c)
      \/ Loaded(c) \/ ListVersions(c) => UNCHANGED vers
  BY DEF UpdateHead, SavePlan, DeploySet, RollbackMax, RollbackHead, RollbackPlan,
         RollbackActive, RollbackSet, LoadPlan, Loaded, ListVersions
<1> HIDE DEF Kept
<1> QED BY <1>1, <1>2, <1>3, <1>4, <1>5, Zenon DEF Continue

\* Rows of graph_versions are never overwritten or lost.
THEOREM VersionsAreKept == Spec => VersionsKept
<1> DEFINE Kept == \A g \in Graphs, v \in Versions :
                       vers[g][v].code # None => vers'[g][v].code = vers[g][v].code
<1>1. Basics /\ [Next]_storeVars => [Kept]_storeVars
  <2> SUFFICES ASSUME Basics, Next PROVE Kept
    OBVIOUS
  <2>1. ASSUME NEW p \in Processes, Crash(p) PROVE Kept
    BY <2>1 DEF Crash
  <2> QED BY <2>1, CodesKept DEF Next
<1> QED BY <1>1, StoreBasics, PTL DEF Spec, VersionsKept

-----------------------------------------------------------------------------
(* The connection lock *)

LEMMA OthersKeep ==
    ASSUME Basics, NEW c \in Clients, Start(c) \/ Continue(c)
    PROVE  \A d \in Clients : d # c => client'[d] = client[d]
<1>1. client \in [Clients -> Client] BY ClientsType
<1>2. CASE Start(c)
  BY <1>1, <1>2
  DEF Start, Create, Fork, CreateRow, Update, Deploy, Rollback, LoadVersion, LoadGraph
<1>3. CASE CreateVersion(c) \/ ForkVersion(c) \/ UpdateInsert(c) \/ RollbackInsert(c)
  BY <1>1, <1>3
  DEF CreateVersion, ForkVersion, UpdateInsert, RollbackInsert, InsertVersion, Go, Return
<1>4. CASE UpdateHead(c) \/ SavePlan(c) \/ SaveVersion(c) \/ DeploySet(c) \/ RollbackHead(c)
           \/ RollbackPlan(c) \/ RollbackActive(c) \/ RollbackSet(c)
  BY <1>1, <1>4
  DEF UpdateHead, SavePlan, SaveVersion, DeploySet, RollbackHead, RollbackPlan,
      RollbackActive, RollbackSet, Go, Return
<1>5. CASE RollbackMax(c) \/ LoadPlan(c) \/ Loaded(c) \/ ListVersions(c)
  BY <1>1, <1>5 DEF RollbackMax, LoadPlan, Loaded, ListVersions, Go, Return
<1> QED BY <1>2, <1>3, <1>4, <1>5 DEF Continue

\* Whoever enters a storage function has found the connection free.
LEMMA Enters ==
    ASSUME Basics, NEW c \in Clients, Start(c) \/ Continue(c), client'[c].at \in InStore
    PROVE  client[c].at \in InStore \/ ~Locked(c)
<1>1. client \in [Clients -> Client] BY ClientsType
<1>2. CASE Start(c)
  BY <1>2 DEF Start, Create, Fork, Update, Deploy, Rollback, LoadVersion, LoadGraph
<1>3. CASE Continue(c)
  <2>1. client[c].at \in InStore \/ SavePlan(c) \/ LoadPlan(c) \/ Loaded(c) \/ ListVersions(c)
    BY <1>3
    DEF Continue, CreateVersion, ForkVersion, UpdateHead, UpdateInsert, SaveVersion, DeploySet,
        RollbackMax, RollbackHead, RollbackInsert, RollbackPlan, RollbackActive, RollbackSet,
        InStore
  <2>2. ASSUME Loaded(c) PROVE client'[c].at \notin InStore
    BY <1>1, <2>2 DEF Loaded, Return, Idle, Request, InStore
  <2> QED BY <2>1, <2>2 DEF SavePlan, LoadPlan, ListVersions
<1> QED BY <1>2, <1>3

LEMMA MutexClient ==
    ASSUME Basics, Mutex, NEW c \in Clients, Start(c) \/ Continue(c)
    PROVE  Mutex'
<1>1. \A d \in Clients : d # c => client'[d] = client[d] BY OthersKeep
<1>2. client'[c].at \in InStore => client[c].at \in InStore \/ ~Locked(c) BY Enters
<1> QED BY <1>1, <1>2 DEF Mutex, Locked

LEMMA MutexCrash ==
    ASSUME Mutex, \A d \in Clients : client'[d] \in {Idle, client[d]}
    PROVE  Mutex'
<1>1. Idle.at \notin InStore BY DEF Idle, Request, InStore
<1> QED BY <1>1 DEF Mutex

LEMMA MutexNext == Basics /\ Mutex /\ [Next]_storeVars => Mutex'
<1> SUFFICES ASSUME Basics, Mutex, [Next]_storeVars PROVE Mutex'
  OBVIOUS
<1>1. CASE UNCHANGED storeVars
  BY <1>1 DEF storeVars, Mutex
<1>2. ASSUME NEW p \in Processes, Crash(p) PROVE Mutex'
  BY <1>2, MutexCrash DEF Crash
<1> QED BY <1>1, <1>2, MutexClient DEF Next

-----------------------------------------------------------------------------
(* One process at a time, none killed *)

LEMMA LatestUnique ==
    ASSUME NEW g, NEW m \in 0..MaxVersion, NEW n \in 0..MaxVersion,
           LatestIs(g, m), LatestIs(g, n)
    PROVE  m = n
BY GraphStoreAssumption DEF LatestIs, Stored, Versions

\* A client inside a storage function is the only one there on its graph.
LEMMA Alone ==
    ASSUME Basics, Mutex, ~Crossed, NEW c \in Clients, client[c].at \in InStore
    PROVE  \A d \in Clients : (d # c /\ client[d].g = client[c].g) => client[d].at \notin InStore
<1>1. client[c].g # None
  BY GraphStoreAssumption, ClientFacts DEF InStore
<1> QED BY <1>1 DEF Mutex, Crossed

\* A step that moves no head and inserts no version: only the plans of rows and of
\* versions, deployments and the locals of its client may change.
LEMMA StillFrame ==
    ASSUME Basics, Basics', Undisturbed, NEW c \in Clients,
           \A d \in Clients : d # c => client'[d] = client[d],
           \A g \in Graphs : row'[g].version = row[g].version /\ row'[g].code = row[g].code,
           \A g \in Graphs, v \in Versions :
               /\ vers'[g][v].code = vers[g][v].code
               /\ vers'[g][v].plan \in {None, vers[g][v].code},
           ~Ahead(c), ~Ahead(c)', Placed(c)', ~Crossed'
    PROVE  Undisturbed'
<1>1. \A g \in Graphs, n \in 0..MaxVersion :
        /\ Stored(g, n)' <=> Stored(g, n)
        /\ LatestIs(g, n)' <=> LatestIs(g, n)
  BY DEF Stored, LatestIs
<1>2. ASSUME NEW d \in Clients, d # c PROVE Placed(d)'
  <2>1. client'[d] = client[d] /\ Placed(d) BY <1>2 DEF Undisturbed
  <2>2. CASE client[d].at = "idle"
    BY <2>1, <2>2 DEF Placed, Ahead
  <2>3. CASE client[d].at # "idle"
    <3>1. /\ client[d].g \in Graphs /\ client[d].version \in 0..MaxVersion
          /\ LocalsSet(client[d])
      BY <2>3, ClientFacts DEF Client
    <3>2. Ahead(d) => client[d].version - 1 \in 0..MaxVersion
      BY <3>1, GraphStoreAssumption DEF Ahead, LocalsSet, Versions
    <3>3. client[d].at \in {"save", "saveVersion", "loadPlan"} => client[d].version \in Versions
      BY <3>1 DEF LocalsSet
    <3> QED BY <1>1, <2>1, <3>1, <3>2, <3>3 DEF Placed, Ahead
  <2> QED BY <2>2, <2>3
<1>3. ASSUME NEW g \in Graphs, \A d \in Clients : client'[d].g = g => ~Ahead(d)'
      PROVE  HeadIsLatest(g)'
  <2>1. \A d \in Clients : client[d].g = g => ~Ahead(d)
    BY <1>3 DEF Ahead
  <2>2. HeadIsLatest(g) BY <2>1 DEF Undisturbed
  <2>3. row[g].version \in 0..MaxVersion /\ (Exists(g) => row[g].version \in Versions)
    BY GraphStoreAssumption DEF Basics, StoreTyped, Row, Exists, Versions
  <2> QED BY <1>1, <2>2, <2>3 DEF HeadIsLatest, Exists
<1>4. \A g \in Graphs, v \in Versions : vers'[g][v].plan \in {None, vers'[g][v].code}
  OBVIOUS
<1> QED BY <1>2, <1>3, <1>4 DEF Undisturbed

\* Nobody is ahead on the graph of a client that has just taken, or that holds,
\* its process's connection.
LEMMA HeadStands ==
    ASSUME Basics, Mutex, Undisturbed, NEW c \in Clients, client[c].at \in InStore, ~Ahead(c)
    PROVE  HeadIsLatest(client[c].g)
<1>1. client[c].g \in Graphs BY ClientFacts DEF InStore
<1>2. \A d \in Clients : client[d].g = client[c].g => ~Ahead(d)
  BY Alone DEF Ahead, InStore, Undisturbed
<1> QED BY <1>1, <1>2 DEF Undisturbed

LEMMA StillStarts ==
    ASSUME Basics, Basics', Undisturbed, NEW c \in Clients, NEW g \in Graphs, ~Crossed',
           \A d \in Clients : d # c => client'[d] = client[d],
           \/ \E code \in Codes : Update(c, g, code)
           \/ \E v \in Versions : Deploy(c, g, v) \/ Rollback(c, g, v) \/ LoadVersion(c, g, v)
           \/ LoadGraph(c, g)
    PROVE  Undisturbed'
<1>0. /\ client \in [Clients -> Client] /\ row \in [Graphs -> Row]
      /\ UNCHANGED <<row, vers>>
      /\ client[c].at = "idle" /\ ~Locked(c) /\ ~Ahead(c)
  BY ClientsType DEF Update, Deploy, Rollback, LoadVersion, LoadGraph, Ahead
<1>1. ASSUME NEW code \in Codes, Update(c, g, code) PROVE Placed(c)' /\ ~Ahead(c)'
  <2>1. client'[c] = Request("updateHead", g, row[g].version + 1, code)
    BY <1>0, <1>1 DEF Update
  <2> QED BY <1>0, <2>1 DEF Request, Placed, Ahead
<1>2. ASSUME NEW v \in Versions, Deploy(c, g, v) PROVE Placed(c)' /\ ~Ahead(c)'
  <2>1. client'[c] = Request("deploySet", g, v, None)
    BY <1>0, <1>2 DEF Deploy
  <2> QED BY <1>0, <2>1 DEF Request, Placed, Ahead
<1>3. ASSUME NEW v \in Versions, LoadVersion(c, g, v) PROVE Placed(c)' /\ ~Ahead(c)'
  <2>1. client'[c] = Request("listVersions", g, v, None)
    BY <1>0, <1>3 DEF LoadVersion
  <2> QED BY <1>0, <2>1 DEF Request, Placed, Ahead
<1>4. ASSUME NEW v \in Versions, Rollback(c, g, v) PROVE Placed(c)' /\ ~Ahead(c)'
  <2>1. client'[c] = [Request("rollbackMax", g, 0, vers[g][v].code) EXCEPT !.plan = vers[g][v].plan]
    BY <1>0, <1>4 DEF Rollback
  <2>2. client'[c] = [at |-> "rollbackMax", then |-> "idle", g |-> g, version |-> 0,
                      code |-> vers[g][v].code, plan |-> vers[g][v].plan]
    BY <2>1 DEF Request
  <2>3. vers[g][v].plan \in {None, vers[g][v].code} BY DEF Undisturbed
  <2> QED BY <1>0, <2>2, <2>3 DEF Placed, Ahead
<1>5. ASSUME LoadGraph(c, g) PROVE Placed(c)' /\ ~Ahead(c)'
  <2>1. client'[c] = [Request("loadPlan", g, row[g].version, row[g].code) EXCEPT !.then = "loaded"]
    BY <1>0, <1>5 DEF LoadGraph
  <2>2. client'[c] = [at |-> "loadPlan", then |-> "loaded", g |-> g, version |-> row[g].version,
                      code |-> row[g].code, plan |-> None]
    BY <2>1 DEF Request
  <2>3. g # None BY GraphStoreAssumption
  <2>4. \A d \in Clients : client[d].g = g => ~Ahead(d)
    BY <1>0, <2>2, <2>3 DEF Crossed, Locked, Ahead, InStore
  <2>5. HeadIsLatest(g) /\ Exists(g) BY <1>5, <2>4 DEF Undisturbed, LoadGraph
  <2> QED BY <1>0, <2>2, <2>5 DEF Placed, Ahead, HeadIsLatest, LatestIs, Exists, Stored
<1>6. Placed(c)' /\ ~Ahead(c)' BY <1>1, <1>2, <1>3, <1>4, <1>5
<1>7. \A x \in Graphs, v \in Versions : vers[x][v].plan \in {None, vers[x][v].code}
  BY DEF Undisturbed
<1> QED BY <1>0, <1>6, <1>7, StillFrame

\* A client that is done, or has only a row's plan or active version left to write,
\* promises nothing.
LEMMA PlacedFree ==
    ASSUME NEW c \in Clients,
           client'[c].at \in {"idle", "loaded", "rollbackPlan", "rollbackActive", "rollbackSet"}
    PROVE  Placed(c)' /\ ~Ahead(c)'
BY DEF Placed, Ahead

LEMMA StillContinues ==
    ASSUME Basics, Basics', Mutex, Undisturbed, NEW c \in Clients, ~Crossed',
           \A d \in Clients : d # c => client'[d] = client[d],
           \/ SavePlan(c) \/ SaveVersion(c) \/ DeploySet(c) \/ RollbackMax(c) \/ RollbackPlan(c)
           \/ RollbackActive(c) \/ RollbackSet(c) \/ LoadPlan(c) \/ Loaded(c) \/ ListVersions(c)
    PROVE  Undisturbed'
<1> DEFINE k == client[c]
           g == client[c].g
<1>1. client \in [Clients -> Client] /\ row \in [Graphs -> Row] BY ClientsType
<1>2. k.at # "idle" /\ ~Ahead(c)
  BY DEF SavePlan, SaveVersion, DeploySet, RollbackMax, RollbackPlan, RollbackActive,
         RollbackSet, LoadPlan, Loaded, ListVersions, Ahead
<1>3. /\ g \in Graphs /\ LocalsSet(k) /\ Placed(c) /\ k \in Client
      /\ k.at \in Relying => Stored(g, k.version)
  BY <1>2, ClientFacts DEF Undisturbed
<1>4. \A x \in Graphs : row'[x].version = row[x].version /\ row'[x].code = row[x].code
  BY <1>1
  DEF Row, SavePlan, SaveVersion, DeploySet, RollbackMax, RollbackPlan, RollbackActive,
      RollbackSet, LoadPlan, Loaded, ListVersions
<1>5. \A x \in Graphs, v \in Versions :
        /\ vers'[x][v].code = vers[x][v].code
        /\ vers'[x][v].plan \in {None, vers[x][v].code}
  <2>1. CASE UNCHANGED vers BY <2>1 DEF Undisturbed
  <2>2. CASE SaveVersion(c)
    <3>1. vers[g][k.version].code = k.code
      BY <1>3, <2>2 DEF SaveVersion, Placed
    <3> QED BY <2>2, <3>1, SaveFacts DEF Undisturbed
  <2> QED BY <2>1, <2>2
      DEF SavePlan, DeploySet, RollbackMax, RollbackPlan, RollbackActive, RollbackSet,
          LoadPlan, Loaded, ListVersions
<1>6. ASSUME SavePlan(c) \/ (LoadPlan(c) /\ client'[c].at # "loaded")
      PROVE  Placed(c)' /\ ~Ahead(c)'
  <2>1. /\ client'[c] = [k EXCEPT !.at = IF SavePlan(c) THEN "saveVersion" ELSE "save"]
        /\ k.at \in {"save", "loadPlan"} /\ UNCHANGED vers
    BY <1>1, <1>6 DEF SavePlan, LoadPlan, Go, Client
  <2>2. /\ client'[c].at \in {"save", "saveVersion"} /\ client'[c].g = g
        /\ client'[c].version = k.version /\ client'[c].code = k.code
    BY <1>3, <2>1 DEF Client
  <2> QED BY <1>3, <2>1, <2>2 DEF Placed, Ahead, Stored
<1>7. ASSUME RollbackMax(c) PROVE Placed(c)' /\ ~Ahead(c)'
  <2>1. PICK n \in 0..(MaxVersion - 1) :
           LatestIs(g, n) /\ client' = [client EXCEPT ![c].at = "rollbackHead", ![c].version = n + 1]
    BY <1>7 DEF RollbackMax
  <2>2. HeadIsLatest(g) BY <1>2, <1>7, HeadStands DEF RollbackMax, InStore
  <2>3. row[g].version \in 0..MaxVersion /\ n \in 0..MaxVersion
    BY <1>1, <1>3, GraphStoreAssumption DEF Row
  <2>4. n = row[g].version BY <2>1, <2>2, <2>3, LatestUnique DEF HeadIsLatest
  <2> DEFINE m == [k EXCEPT !.at = "rollbackHead"]
  <2>5. client'[c] = [m EXCEPT !.version = n + 1] BY <1>1, <2>1
  <2>6. m.at = "rollbackHead" /\ m.code = k.code /\ m.plan = k.plan /\ m.g = g
        /\ m \in [at : At, then : {"idle", "loaded"}, g : Graphs \cup {None},
                  version : 0..MaxVersion, code : Source, plan : Source]
    BY <1>3 DEF Client, At, InStore
  <2> HIDE DEF m
  <2>7. /\ client'[c].at = "rollbackHead" /\ client'[c].version = n + 1
        /\ client'[c].code = k.code /\ client'[c].plan = k.plan /\ client'[c].g = g
    BY <2>5, <2>6
  <2>8. k.plan \in {None, k.code} BY <1>3, <1>7 DEF RollbackMax, Placed
  <2> QED BY <1>3, <1>4, <2>4, <2>7, <2>8 DEF Placed, Ahead
<1>8. ASSUME ListVersions(c) PROVE Placed(c)' /\ ~Ahead(c)'
  <2> DEFINE m == [k EXCEPT !.at = "save"]
             x == vers[g][k.version].code
  <2>1. client'[c] = [m EXCEPT !.code = x] /\ UNCHANGED vers
    BY <1>1, <1>8 DEF ListVersions
  <2>2. /\ m.at = "save" /\ m.version = k.version /\ m.g = g
        /\ m \in [at : At, then : {"idle", "loaded"}, g : Graphs \cup {None},
                  version : 0..MaxVersion, code : Source, plan : Source]
    BY <1>3 DEF Client, At, InStore
  <2> HIDE DEF m
  <2>3. client'[c].at = "save" /\ client'[c].version = k.version /\ client'[c].g = g
        /\ client'[c].code = x
    BY <2>1, <2>2
  <2>4. Stored(g, k.version) BY <1>3, <1>8 DEF ListVersions, Relying
  <2> QED BY <2>1, <2>3, <2>4 DEF Placed, Ahead, Stored
<1>9. Placed(c)' /\ ~Ahead(c)'
  <2>1. CASE SaveVersion(c)
    <3>1. client'[c].at \in {"idle", "loaded"}
      BY <1>1, <2>1, SaveFacts DEF Idle, Request
    <3> QED BY <3>1, PlacedFree
  <2>2. CASE DeploySet(c) \/ RollbackPlan(c) \/ RollbackActive(c) \/ RollbackSet(c) \/ Loaded(c)
    <3>1. client'[c].at \in {"idle", "rollbackActive", "rollbackSet"}
      BY <1>1, <2>2
      DEF DeploySet, RollbackPlan, RollbackActive, RollbackSet, Loaded, Go, Return, Idle,
          Request, Client
    <3> QED BY <3>1, PlacedFree
  <2>3. CASE LoadPlan(c) /\ client'[c].at = "loaded" BY <2>3, PlacedFree
  <2> QED BY <1>6, <1>7, <1>8, <2>1, <2>2, <2>3
<1> QED BY <1>2, <1>4, <1>5, <1>9, StillFrame

\* A step that moves the head of one graph, by a client that no other client of the
\* graph shares a function with, and leaves that client ahead.
LEMMA HeadFrame ==
    ASSUME Basics, Basics', Undisturbed, NEW c \in Clients, NEW g \in Graphs,
           \A d \in Clients : d # c => client'[d] = client[d],
           \A x \in Graphs \ {g} : row'[x] = row[x],
           UNCHANGED vers, client'[c].g = g, Ahead(c)', Placed(c)', ~Ahead(c), ~Crossed',
           \A d \in Clients : (d # c /\ client[d].g = g) => client[d].at \notin InStore
    PROVE  Undisturbed'
<1>1. \A x, n : /\ Stored(x, n)' <=> Stored(x, n)
                /\ LatestIs(x, n)' <=> LatestIs(x, n)
  BY DEF Stored, LatestIs
<1>2. ASSUME NEW d \in Clients, d # c PROVE Placed(d)'
  <2>1. client'[d] = client[d] /\ Placed(d) BY <1>2 DEF Undisturbed
  <2>2. CASE client[d].at = "idle" BY <2>1, <2>2 DEF Placed, Ahead
  <2>3. CASE client[d].at # "idle" /\ client[d].g = g
    BY <1>1, <1>2, <2>1, <2>3 DEF Placed, Ahead, InStore
  <2>4. CASE client[d].at # "idle" /\ client[d].g # g
    <3>1. client[d].g \in Graphs \ {g} BY <2>4, ClientFacts
    <3> QED BY <1>1, <2>1, <3>1 DEF Placed, Ahead
  <2> QED BY <2>2, <2>3, <2>4
<1>3. ASSUME NEW x \in Graphs, \A d \in Clients : client'[d].g = x => ~Ahead(d)'
      PROVE  HeadIsLatest(x)'
  <2>1. x # g BY <1>3
  <2>2. \A d \in Clients : client[d].g = x => ~Ahead(d) BY <1>3 DEF Ahead
  <2>3. HeadIsLatest(x) BY <2>2 DEF Undisturbed
  <2> QED BY <1>1, <2>1, <2>3 DEF HeadIsLatest, Exists
<1>4. \A x \in Graphs, v \in Versions : vers'[x][v].plan \in {None, vers'[x][v].code}
  BY DEF Undisturbed
<1> QED BY <1>2, <1>3, <1>4 DEF Undisturbed

LEMMA HeadCreates ==
    ASSUME Basics, Basics', Undisturbed, NEW c \in Clients, NEW g \in Graphs, NEW code \in Codes,
           \A d \in Clients : d # c => client'[d] = client[d],
           Create(c, g, code) \/ Fork(c, g, code), ~Crossed'
    PROVE  Undisturbed'
<1>1. PICK next \in {"createVersion", "forkVersion"} : CreateRow(c, g, code, next)
  BY DEF Create, Fork
<1>2. client[c].at = "idle" /\ ~Ahead(c) BY DEF Create, Fork, Ahead
<1>3. /\ client'[c] = Request(next, g, 1, code)
      /\ row'[g] = [version |-> 1, code |-> code, plan |-> None, active |-> 0]
      /\ \A x \in Graphs \ {g} : row'[x] = row[x]
      /\ UNCHANGED vers
  BY <1>1, ClientsType DEF CreateRow
<1>4. LatestIs(g, 0)
  <2>1. \A d \in Clients : client[d].g = g => ~Ahead(d) BY <1>1, <1>2 DEF CreateRow
  <2>2. row[g].version = 0 BY <1>1 DEF CreateRow, Exists
  <2> QED BY <2>1, <2>2 DEF Undisturbed, HeadIsLatest
<1>5. /\ client'[c].at = next /\ client'[c].g = g /\ client'[c].version = 1
      /\ client'[c].code = code /\ client'[c].plan = None
  BY <1>3 DEF Request
<1>6. LatestIs(g, 0)' BY <1>3, <1>4 DEF LatestIs, Stored
<1>7. Ahead(c)' /\ Placed(c)' BY <1>3, <1>5, <1>6 DEF Ahead, Placed
<1>8. \A d \in Clients : (d # c /\ client[d].g = g) => client[d].at \notin InStore
  BY <1>1 DEF CreateRow
<1> QED BY <1>2, <1>3, <1>5, <1>7, <1>8, HeadFrame

LEMMA HeadMoves ==
    ASSUME Basics, Basics', Mutex, Undisturbed, NEW c \in Clients,
           \A d \in Clients : d # c => client'[d] = client[d],
           UpdateHead(c) \/ RollbackHead(c), ~Crossed'
    PROVE  Undisturbed' /\ row'[client[c].g].version = row[client[c].g].version + 1
<1> DEFINE k == client[c]
           g == client[c].g
           w == row[g]
           n == IF k.at = "updateHead" THEN "updateInsert" ELSE "rollbackInsert"
<1>1. k.at \in {"updateHead", "rollbackHead"} /\ ~Ahead(c) /\ k.at \in InStore
  BY DEF UpdateHead, RollbackHead, Ahead, InStore
<1>2. g \in Graphs /\ Placed(c) /\ k \in Client BY <1>1, ClientFacts DEF Undisturbed
<1>3. w.version \in 0..MaxVersion /\ w \in Row BY <1>2, ClientsType DEF Row
<1>4. k.version = w.version + 1 BY <1>1, <1>2 DEF Placed
<1>5. /\ row'[g].version = k.version /\ row'[g].code = k.code
      /\ \A x \in Graphs \ {g} : row'[x] = row[x]
  <2> DEFINE m == [w EXCEPT !.code = k.code]
  <2>1. row' = [row EXCEPT ![g] = [m EXCEPT !.version = k.version]]
    BY ClientsType DEF UpdateHead, RollbackHead
  <2>2. m = [version |-> w.version, code |-> k.code, plan |-> w.plan, active |-> w.active]
    BY <1>3 DEF Row
  <2> HIDE DEF m
  <2>3. [m EXCEPT !.version = k.version] =
           [version |-> k.version, code |-> k.code, plan |-> w.plan, active |-> w.active]
    BY <2>2
  <2> QED BY <1>2, <2>1, <2>3, ClientsType
<1>6. /\ client'[c].at = n /\ client'[c].g = g /\ client'[c].version = k.version
      /\ client'[c].code = k.code /\ client'[c].plan = k.plan
  <2>1. client' = [client EXCEPT ![c].at = n] BY DEF UpdateHead, RollbackHead, Go
  <2> QED BY <1>2, <2>1, ClientsType DEF Client
<1>7. LatestIs(g, w.version) /\ UNCHANGED vers
  BY <1>1, HeadStands DEF HeadIsLatest, UpdateHead, RollbackHead
<1>8. Ahead(c)' /\ Placed(c)'
  <2>1. Ahead(c)' BY <1>6 DEF Ahead
  <2>2. k.at = "rollbackHead" => k.plan \in {None, k.code} BY <1>2 DEF Placed
  <2>3. client'[c].at = "rollbackInsert" => k.at = "rollbackHead" BY <1>1, <1>6
  <2>4. client'[c].at \in {"updateInsert", "rollbackInsert"} BY <1>6
  <2>5. vers' = vers /\ LatestIs(g, k.version - 1) BY <1>3, <1>4, <1>7
  <2> QED BY <1>5, <1>6, <2>1, <2>2, <2>3, <2>4, <2>5 DEF Placed, LatestIs, Stored
<1>9. \A d \in Clients : (d # c /\ client[d].g = g) => client[d].at \notin InStore
  BY <1>1, Alone DEF Undisturbed
<1> QED BY <1>1, <1>2, <1>4, <1>5, <1>6, <1>7, <1>8, <1>9, HeadFrame

\* The INSERT of the version a client is ahead with: it is the first of its number.
LEMMA HeadInserts ==
    ASSUME Basics, Basics', Mutex, Undisturbed, NEW c \in Clients,
           \A d \in Clients : d # c => client'[d] = client[d],
           CreateVersion(c) \/ ForkVersion(c) \/ UpdateInsert(c) \/ RollbackInsert(c), ~Crossed',
           NEW k, k = client[c]
    PROVE  Undisturbed'
<1> DEFINE g == k.g
           v == k.version
           plan == IF k.at = "rollbackInsert" THEN k.plan ELSE None
           next == IF k.at = "forkVersion" THEN "idle"
                   ELSE IF k.at = "rollbackInsert" THEN "rollbackPlan" ELSE "save"
<1>1. Ahead(c) /\ k.at \in InStore /\ k.at # "idle"
  BY DEF CreateVersion, ForkVersion, UpdateInsert, RollbackInsert, Ahead, InStore
<1>2. /\ g \in Graphs /\ Placed(c) /\ k \in Client /\ v \in Versions /\ k.code \in Codes
      /\ vers \in [Graphs -> [Versions -> Snapshot]]
  BY <1>1, ClientFacts DEF Undisturbed, Ahead, LocalsSet, Basics, StoreTyped
<1>3. InsertVersion(c, plan, next) /\ UNCHANGED row
  BY DEF CreateVersion, ForkVersion, UpdateInsert, RollbackInsert
<1>4. row[g].version = v /\ row[g].code = k.code /\ LatestIs(g, v - 1)
  BY <1>1, <1>2 DEF Placed
<1>5. plan \in {None, k.code} BY <1>2 DEF Placed
<1>6. ~Stored(g, v)
  BY <1>2, <1>4, GraphStoreAssumption DEF LatestIs, Versions
<1>7. /\ vers'[g][v] = [code |-> k.code, plan |-> plan]
      /\ \A x \in Graphs, n \in Versions : (x # g \/ n # v) => vers'[x][n] = vers[x][n]
      /\ client'[c] = IF next = "idle" THEN Idle ELSE [k EXCEPT !.at = next]
  <2> DEFINE s == [code |-> k.code, plan |-> plan]
  <2>1. vers' = [vers EXCEPT ![g][v] = s] BY <1>3, <1>6 DEF InsertVersion
  <2>2. client'[c] = IF next = "idle" THEN Idle ELSE [k EXCEPT !.at = next]
    <3> HIDE DEF next
    <3> QED BY <1>3, <1>6, ClientsType DEF InsertVersion, Go, Return
  <2> HIDE DEF s
  <2>3. /\ vers'[g][v] = s
        /\ \A x \in Graphs, n \in Versions : (x # g \/ n # v) => vers'[x][n] = vers[x][n]
    BY <1>2, <2>1
  <2> QED BY <2>2, <2>3 DEF s
<1>8. k.code # None BY <1>2, GraphStoreAssumption
<1>9. /\ \A x \in Graphs : \A n : Stored(x, n) => Stored(x, n)' /\ vers'[x][n] = vers[x][n]
      /\ \A x \in Graphs \ {g} : \A n : /\ Stored(x, n)' <=> Stored(x, n)
                                        /\ LatestIs(x, n)' <=> LatestIs(x, n)
  BY <1>6, <1>7 DEF Stored, LatestIs
<1>10. Stored(g, v)' /\ LatestIs(g, v)'
  <2>1. v \in Nat /\ Versions \subseteq Nat BY <1>2, GraphStoreAssumption DEF Versions
  <2>2. \A n \in Versions : n # v => (vers'[g][n].code # None => n <= v - 1)
    BY <1>2, <1>4, <1>7 DEF LatestIs, Stored
  <2>3. \A n \in Versions : vers'[g][n].code # None => n <= v
    BY <2>1, <2>2
  <2>4. vers'[g][v].code # None BY <1>7, <1>8
  <2> QED BY <1>2, <2>3, <2>4 DEF Stored, LatestIs
<1>11. ASSUME NEW d \in Clients, d # c PROVE Placed(d)'
  <2>1. client'[d] = client[d] /\ Placed(d) BY <1>11 DEF Undisturbed
  <2>2. CASE client[d].at = "idle" BY <2>1, <2>2 DEF Placed, Ahead
  <2>3. CASE client[d].at # "idle" /\ client[d].g = g
    <3>1. client[d].at \notin InStore
      BY <1>1, <1>11, <2>3, Alone DEF Undisturbed
    <3> QED BY <1>2, <1>9, <2>1, <2>3, <3>1 DEF Placed, Ahead, InStore
  <2>4. CASE client[d].at # "idle" /\ client[d].g # g
    <3>1. client[d].g \in Graphs \ {g} BY <2>4, ClientFacts
    <3> QED BY <1>3, <1>9, <2>1, <3>1 DEF Placed, Ahead
  <2> QED BY <2>2, <2>3, <2>4
<1>12. Placed(c)' /\ ~Ahead(c)'
  <2>1. CASE next = "save"
    <3>1. client'[c].at = "save" /\ client'[c].g = g /\ client'[c].version = v
          /\ client'[c].code = k.code
      <4> HIDE DEF next
      <4> QED BY <1>2, <1>7, <2>1 DEF Client
    <3> QED BY <1>7, <1>10, <3>1 DEF Placed, Ahead, Stored
  <2>2. CASE next # "save"
    <3>1. client'[c].at \in {"idle", "rollbackPlan"}
      BY <1>2, <1>7, <2>2 DEF Client, Idle, Request
    <3> QED BY <3>1, PlacedFree
  <2> QED BY <2>1, <2>2
<1>13. ASSUME NEW x \in Graphs, \A d \in Clients : client'[d].g = x => ~Ahead(d)'
       PROVE  HeadIsLatest(x)'
  <2>1. CASE x = g
    BY <1>3, <1>4, <1>7, <1>10, <2>1 DEF HeadIsLatest
  <2>2. CASE x # g
    <3>1. \A d \in Clients : client[d].g = x => ~Ahead(d) BY <1>13, <2>2 DEF Ahead
    <3>2. HeadIsLatest(x) BY <3>1 DEF Undisturbed
    <3>3. row[x].version \in 0..MaxVersion /\ (Exists(x) => row[x].version \in Versions)
      BY GraphStoreAssumption DEF Basics, StoreTyped, Row, Exists, Versions
    <3> QED BY <1>3, <1>7, <1>9, <2>2, <3>2, <3>3 DEF HeadIsLatest, Exists
  <2> QED BY <2>1, <2>2
<1>14. ASSUME NEW x \in Graphs, NEW n \in Versions
       PROVE  vers'[x][n].plan \in {None, vers'[x][n].code}
  BY <1>5, <1>7 DEF Undisturbed
<1> QED BY <1>11, <1>12, <1>13, <1>14 DEF Undisturbed

-----------------------------------------------------------------------------
(* What the store promises while one process works on a graph *)

Order == trouble = {} => Undisturbed

LEMMA StoreInvParts == StoreInv <=> Basics /\ Recorded /\ Mutex /\ Order
BY DEF StoreInv, Basics, TypeOK, Recorded, Order

LEMMA InvInit == Init => StoreInv
<1> SUFFICES ASSUME Init PROVE StoreInv
  OBVIOUS
<1>1. Basics BY BasicsInit
<1>2. \A c \in Clients : client[c].at = "idle" /\ client[c].g = None
  BY DEF Init, Idle, Request
<1>3. Mutex /\ Recorded BY <1>2 DEF Mutex, InStore, Init, Recorded
<1>4. Undisturbed
  <2>1. ~Crossed BY <1>2 DEF Crossed
  <2>2. \A c \in Clients : Placed(c) BY <1>2 DEF Placed, Ahead
  <2>3. \A g \in Graphs : HeadIsLatest(g)
    BY GraphStoreAssumption DEF Init, HeadIsLatest, LatestIs, Stored, Exists, Versions
  <2>4. \A g \in Graphs, v \in Versions : vers[g][v].plan = None BY DEF Init
  <2> QED BY <2>1, <2>2, <2>3, <2>4 DEF Undisturbed
<1> QED BY <1>1, <1>3, <1>4, StoreInvParts DEF Order

\* A step of one client, while two processes do not meet.
LEMMA OrderClient ==
    ASSUME Basics, Basics', Mutex, Undisturbed, ~Crossed', NEW c \in Clients,
           Start(c) \/ Continue(c)
    PROVE  Undisturbed'
<1>1. \A d \in Clients : d # c => client'[d] = client[d] BY OthersKeep
<1>2. CASE Start(c)
  <2>1. PICK g \in Graphs :
           \/ \E code \in Codes : Create(c, g, code) \/ Fork(c, g, code) \/ Update(c, g, code)
           \/ \E v \in Versions : Deploy(c, g, v) \/ Rollback(c, g, v) \/ LoadVersion(c, g, v)
           \/ LoadGraph(c, g)
    BY <1>2 DEF Start
  <2>2. ASSUME NEW code \in Codes, Create(c, g, code) \/ Fork(c, g, code) PROVE Undisturbed'
    BY <1>1, <2>2, HeadCreates
  <2> QED BY <1>1, <2>1, <2>2, StillStarts
<1>3. CASE Continue(c)
  <2>1. CASE UpdateHead(c) \/ RollbackHead(c)
    BY <1>1, <2>1, HeadMoves
  <2>2. CASE CreateVersion(c) \/ ForkVersion(c) \/ UpdateInsert(c) \/ RollbackInsert(c)
    BY <1>1, <2>2, HeadInserts
  <2> QED BY <1>1, <1>3, <2>1, <2>2, StillContinues DEF Continue
<1> QED BY <1>2, <1>3

LEMMA OrderStutter ==
    ASSUME Undisturbed, UNCHANGED <<row, vers, client>>
    PROVE  Undisturbed'
BY DEF Undisturbed, Crossed, Placed, Ahead, HeadIsLatest, LatestIs, Stored, Exists

\* Without trouble, a step is one of a client, and two processes do not meet.
LEMMA Untroubled ==
    ASSUME Next, trouble' = {}
    PROVE  /\ trouble = {} /\ ~Crossed'
           /\ \E c \in Clients : Start(c) \/ Continue(c)
BY DEF Next

LEMMA OrderNext == StoreInv /\ [Next]_storeVars => StoreInv'
<1> SUFFICES ASSUME StoreInv, [Next]_storeVars PROVE StoreInv'
  OBVIOUS
<1>1. Basics /\ Recorded /\ Mutex /\ Order BY StoreInvParts
<1>2. Basics' /\ Recorded' /\ Mutex' BY <1>1, BasicsNext, RecordedNext, MutexNext
<1>3. CASE UNCHANGED storeVars
  <2>1. Order' BY <1>1, <1>3, OrderStutter DEF Order, storeVars
  <2> QED BY <1>2, <2>1 DEF StoreInv, Basics, TypeOK, Recorded, Order
<1>4. ASSUME Next, trouble' = {} PROVE Undisturbed'
  BY <1>1, <1>2, <1>4, Untroubled, OrderClient DEF Order
<1> QED BY <1>2, <1>3, <1>4 DEF StoreInv, Basics, TypeOK, Recorded

\* The invariant of the store: locals are set and have seen what they rely on, the
\* connection lock excludes, and while one process works on a graph every request
\* is placed where its statements left the tables.
THEOREM StoreOrder == Spec => []StoreInv
BY InvInit, OrderNext, PTL DEF Spec

\* What resume and subgraph calls load by version is the plan of that version.
THEOREM VersionPlans == Spec => []VersionPlanRight
<1>1. StoreInv => VersionPlanRight BY DEF StoreInv, Undisturbed, VersionPlanRight
<1> QED BY <1>1, StoreOrder, PTL

\* A graph nobody is working on is at its latest version, with its code.
THEOREM CurrentIsStored == Spec => []CurrentStored
<1>1. StoreInv => CurrentStored
  <2> SUFFICES ASSUME StoreInv, trouble = {}, NEW g \in Graphs, Quiet(g), Exists(g)
               PROVE  LatestIs(g, row[g].version) /\ vers[g][row[g].version].code = row[g].code
    BY DEF CurrentStored
  <2>1. \A c \in Clients : client[c].g = g => ~Ahead(c) BY DEF Quiet
  <2> QED BY <2>1 DEF StoreInv, Undisturbed, HeadIsLatest
<1> QED BY <1>1, StoreOrder, PTL

\* A graph's version number never goes back.
THEOREM VersionsGrow == Spec => VersionGrows
<1> DEFINE Grows == trouble' = {} => \A g \in Graphs : row'[g].version >= row[g].version
<1>1. StoreInv /\ StoreInv' /\ [Next]_storeVars => [Grows]_storeVars
  <2> SUFFICES ASSUME StoreInv, StoreInv', Next, trouble' = {}, NEW g \in Graphs
               PROVE  row'[g].version >= row[g].version
    OBVIOUS
  <2>1. PICK c \in Clients : Start(c) \/ Continue(c) BY Untroubled
  <2>2. /\ Basics /\ Basics' /\ Mutex /\ Undisturbed /\ ~Crossed'
        /\ \A d \in Clients : d # c => client'[d] = client[d]
    BY <2>1, Untroubled, OthersKeep DEF StoreInv, Basics, TypeOK
  <2>3. row \in [Graphs -> Row] /\ row[g].version \in Nat
    BY <2>2, ClientsType, GraphStoreAssumption DEF Row
  <2>4. CASE UpdateHead(c) \/ RollbackHead(c)
    <3>1. row'[client[c].g].version = row[client[c].g].version + 1
      BY <2>2, <2>4, HeadMoves
    <3>2. client[c].g # g => row'[g] = row[g]
      BY <2>3, <2>4 DEF UpdateHead, RollbackHead
    <3> QED BY <2>3, <3>1, <3>2
  <2>5. CASE Start(c)
    <3>1. row' = row \/ \E x \in Graphs, code \in Codes :
              /\ ~Exists(x)
              /\ row' = [row EXCEPT ![x] =
                            [version |-> 1, code |-> code, plan |-> None, active |-> 0]]
      BY <2>5
      DEF Start, Create, Fork, CreateRow, Update, Deploy, Rollback, LoadVersion, LoadGraph
    <3> QED BY <2>3, <3>1 DEF Exists
  <2>6. CASE Continue(c) /\ ~(UpdateHead(c) \/ RollbackHead(c))
    <3>1. row'[g].version = row[g].version
      <4>1. CASE SavePlan(c) \/ RollbackPlan(c)
        <5>1. row' = row \/ \E x, plan : row' = [row EXCEPT ![x].plan = plan]
          BY <4>1 DEF SavePlan, RollbackPlan
        <5> QED BY <2>3, <5>1 DEF Row
      <4>2. CASE SaveVersion(c) BY <4>2 DEF SaveVersion
      <4>3. CASE DeploySet(c) \/ RollbackSet(c)
        <5>1. PICK x, v : row' = [row EXCEPT ![x].active = v] BY <4>3 DEF DeploySet, RollbackSet
        <5> QED BY <2>3, <5>1 DEF Row
      <4>4. CASE CreateVersion(c) \/ ForkVersion(c) \/ UpdateInsert(c) \/ RollbackInsert(c)
        <5>1. CreateVersion(c) => row' = row BY DEF CreateVersion
        <5>2. ForkVersion(c) => row' = row BY DEF ForkVersion
        <5>3. UpdateInsert(c) => row' = row BY DEF UpdateInsert
        <5>4. RollbackInsert(c) => row' = row BY DEF RollbackInsert
        <5> QED BY <4>4, <5>1, <5>2, <5>3, <5>4
      <4>5. CASE \/ RollbackMax(c) \/ RollbackActive(c)
                 \/ LoadPlan(c) \/ Loaded(c) \/ ListVersions(c)
        <5>1. RollbackMax(c) => row' = row BY DEF RollbackMax
        <5>2. RollbackActive(c) => row' = row BY DEF RollbackActive
        <5>3. LoadPlan(c) \/ Loaded(c) \/ ListVersions(c) => row' = row
          BY DEF LoadPlan, Loaded, ListVersions
        <5> QED BY <4>5, <5>1, <5>2, <5>3
      <4> QED BY <2>6, <4>1, <4>2, <4>3, <4>4, <4>5 DEF Continue
    <3> QED BY <2>3, <3>1
  <2> QED BY <2>1, <2>4, <2>5, <2>6
<1> QED BY <1>1, StoreOrder, PTL DEF Spec, VersionGrows
=============================================================================
