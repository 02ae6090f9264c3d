---------------------------- MODULE ServerProofs ----------------------------
(***************************************************************************)
(* Machine-checked theorems about Server, for every set of graphs, codes,  *)
(* requests of each kind, names, calls, routes and environments, and every *)
(* bound.  They hold whatever requests overlap, fail or are killed.        *)
(***************************************************************************)
EXTENDS Server, TLAPS, FiniteSetTheorems, SequenceTheorems

\* What is stored is kept: a graph goes on to exist, and a version keeps its code and
\* the plan it has.
Kept ==
    \A g \in Graphs :
        /\ Exists(g) => Exists(g)'
        /\ \A v \in Versions :
             /\ vers[g][v].code # None => vers'[g][v].code = vers[g][v].code
             /\ vers[g][v].plan # None => vers'[g][v].plan # None

StoreOK == TablesTypeOK /\ StoreOrdered

LEMMA StoreFields ==
    ASSUME TablesTypeOK
    PROVE  /\ \A g \in Graphs :
                /\ row[g] \in Row
                /\ row[g].version \in 0..MaxVersion /\ row[g].version \in Nat
                /\ row[g].code \in Source /\ row[g].plan \in Source /\ row[g].made \in Nat
                /\ \A v \in Versions :
                     /\ vers[g][v] \in Snapshot
                     /\ vers[g][v].code \in Source /\ vers[g][v].plan \in Source
           /\ MaxVersion \in Nat /\ None \notin Codes /\ None \notin Graphs
BY ServerStoreAssumption DEF TablesTypeOK, Row, Snapshot

LEMMA UnchangedKept ==
    ASSUME UNCHANGED <<row, vers>>
    PROVE  Kept /\ (StoreOK => StoreOK')
BY DEF Kept, StoreOK, TablesTypeOK, StoreOrdered, Stored, Exists

\* create_graph of an id that is free.
LEMMA CreateKeeps ==
    ASSUME StoreOK, NEW g \in Graphs, NEW code \in Codes,
           ~Exists(g), 1 \in Versions, CreateGraph(g, code)
    PROVE  /\ StoreOK' /\ Kept
           /\ Recorded(g, 1, code)' /\ Exists(g)'
           /\ row'[g].version = 1 /\ row'[g].code = code /\ row'[g].plan = None
           /\ \A h \in Graphs \ {g} : row'[h] = row[h]
<1> USE DEF StoreOK
<1>1. /\ row[g].version = 0
      /\ \A v \in Versions : vers[g][v].code = None
      /\ \A v \in Versions : vers[g][v].plan = None
  <2>1. row[g].version = 0 BY DEF Exists
  <2>2. \A v \in Versions : ~ (v <= row[g].version)
    BY <2>1, ServerStoreAssumption DEF Versions
  <2> QED BY <2>1, <2>2, StoreFields DEF StoreOrdered, Stored
<1>2. PICK n \in Nat : n = Cardinality(Existing) + 1
  <2>1. IsFiniteSet(Existing)
    BY ServerStoreAssumption, FS_Subset DEF Existing
  <2> QED BY <2>1, FS_CardinalityType
<1> DEFINE r == [NoRow EXCEPT !.version = 1, !.code = code, !.made = n]
           s == [code |-> code, plan |-> None]
<1>3. /\ row' = [row EXCEPT ![g] = r]
      /\ vers' = [vers EXCEPT ![g][1] = s]
  BY <1>2 DEF CreateGraph
<1>4. /\ r \in Row /\ r.version = 1 /\ r.code = code /\ r.plan = None
      /\ s \in Snapshot
  <2>1. 1 \in 0..MaxVersion BY ServerStoreAssumption DEF Versions
  <2>2. r \in Row BY <2>1, ServerStoreAssumption DEF NoRow, Row, Source
  <2>3. r.version = 1 /\ r.code = code /\ r.plan = None BY DEF NoRow
  <2> QED BY <2>2, <2>3 DEF Snapshot, Source
<1> HIDE DEF r, s
<1>5. /\ row' \in [Graphs -> Row] /\ vers' \in [Graphs -> [Versions -> Snapshot]]
      /\ row'[g] = r /\ \A h \in Graphs \ {g} : row'[h] = row[h] /\ vers'[h] = vers[h]
      /\ vers'[g][1] = s /\ \A v \in Versions \ {1} : vers'[g][v] = vers[g][v]
  BY <1>3, <1>4 DEF TablesTypeOK
<1>6. s.code = code /\ s.plan = None BY DEF s
<1>7. StoreOrdered'
  <2> SUFFICES ASSUME NEW h \in Graphs
               PROVE  (/\ \A v \in Versions : Stored(h, v) <=> v <= row[h].version
                       /\ Exists(h) => row[h].code = vers[h][row[h].version].code
                       /\ ~Exists(h) => row[h].code = None /\ row[h].plan = None
                       /\ \A v \in Versions : vers[h][v].plan \in {None, vers[h][v].code})'
    BY DEF StoreOrdered
  <2>1. CASE h # g
    BY <2>1, <1>5 DEF StoreOrdered, Stored, Exists
  <2>2. CASE h = g
    <3>1. \A v \in Versions : Stored(g, v)' <=> v <= row'[g].version
      BY <1>1, <1>4, <1>5, <1>6, ServerStoreAssumption DEF Stored, Versions
    <3> QED BY <2>2, <3>1, <1>1, <1>4, <1>5, <1>6 DEF Exists
  <2> QED BY <2>1, <2>2
<1>8. Kept
  BY <1>1, <1>4, <1>5 DEF Kept, Exists
<1> QED BY <1>4, <1>5, <1>6, <1>7, <1>8 DEF TablesTypeOK, Recorded, Exists

\* One version more, at the end.
LEMMA AddKeeps ==
    ASSUME StoreOK, NEW g \in Graphs, NEW r \in Row, NEW s \in Snapshot,
           Exists(g), row[g].version + 1 \in Versions,
           r.version = row[g].version + 1, r.code = s.code,
           s.code \in Codes, s.plan \in {None, s.code},
           row' = [row EXCEPT ![g] = r],
           vers' = [vers EXCEPT ![g][row[g].version + 1] = s]
    PROVE  /\ StoreOK' /\ Kept
           /\ vers'[g][r.version].code = r.code /\ Exists(g)'
           /\ row'[g] = r /\ \A h \in Graphs \ {g} : row'[h] = row[h]
<1> USE DEF StoreOK
<1> DEFINE n == row[g].version + 1
<1>1. /\ row[g].version \in Nat /\ n \in Versions /\ n # 0
      /\ vers[g][n].code = None /\ vers[g][n].plan = None
  <2>1. row[g].version \in Nat /\ n \in Versions /\ n # 0 /\ ~(n <= row[g].version)
    BY StoreFields
  <2>2. vers[g][n].code = None BY <2>1 DEF StoreOrdered, Stored
  <2> QED BY <2>1, <2>2 DEF StoreOrdered
<1>2. /\ row' \in [Graphs -> Row] /\ vers' \in [Graphs -> [Versions -> Snapshot]]
      /\ row'[g] = r /\ \A h \in Graphs \ {g} : row'[h] = row[h] /\ vers'[h] = vers[h]
      /\ vers'[g][n] = s /\ \A v \in Versions \ {n} : vers'[g][v] = vers[g][v]
  BY <1>1 DEF TablesTypeOK
<1>3. None \notin Codes BY StoreFields
<1>4. StoreOrdered'
  <2> SUFFICES ASSUME NEW h \in Graphs
               PROVE  (/\ \A v \in Versions : Stored(h, v) <=> v <= row[h].version
                       /\ Exists(h) => row[h].code = vers[h][row[h].version].code
                       /\ ~Exists(h) => row[h].code = None /\ row[h].plan = None
                       /\ \A v \in Versions : vers[h][v].plan \in {None, vers[h][v].code})'
    BY DEF StoreOrdered
  <2>1. CASE h # g
    BY <2>1, <1>2 DEF StoreOrdered, Stored, Exists
  <2>2. CASE h = g
    <3>1. \A v \in Versions : Stored(g, v)' <=> v <= row'[g].version
      BY <1>1, <1>2, <1>3, ServerStoreAssumption DEF Stored, Versions, StoreOrdered
    <3>2. \A v \in Versions : vers'[g][v].plan \in {None, vers'[g][v].code}
      BY <1>1, <1>2 DEF StoreOrdered
    <3> QED BY <2>2, <3>1, <3>2, <1>1, <1>2 DEF Exists
  <2> QED BY <2>1, <2>2
<1>5. Kept
  BY <1>1, <1>2 DEF Kept, Exists
<1> QED BY <1>1, <1>2, <1>4, <1>5 DEF TablesTypeOK, Exists

\* update_graph
LEMMA UpdateKeeps ==
    ASSUME StoreOK, NEW g \in Graphs, NEW code \in Codes,
           Exists(g), row[g].version < MaxVersion, UpdateGraph(g, code)
    PROVE  /\ StoreOK' /\ Kept
           /\ row[g].version + 1 \in Versions
           /\ vers'[g][row[g].version + 1].code = code /\ Exists(g)'
           /\ row'[g] = [row[g] EXCEPT !.code = code, !.version = row[g].version + 1]
           /\ \A h \in Graphs \ {g} : row'[h] = row[h]
<1> DEFINE r == [row[g] EXCEPT !.code = code, !.version = row[g].version + 1]
           s == [code |-> code, plan |-> None]
<1>1. row[g].version + 1 \in Versions
  BY StoreFields DEF StoreOK, Versions
<1>2. row' = [row EXCEPT ![g] = r] /\ vers' = [vers EXCEPT ![g][row[g].version + 1] = s]
  BY StoreFields DEF UpdateGraph, StoreOK, TablesTypeOK
<1>3. /\ r \in Row /\ r.version = row[g].version + 1 /\ r.code = code
      /\ s \in Snapshot /\ s.code = code /\ s.plan = None
  <2>1. row[g] \in Row /\ row[g].version + 1 \in 0..MaxVersion
    BY <1>1, StoreFields DEF StoreOK, Versions
  <2>2. r \in Row BY <2>1 DEF Row, Source
  <2>3. r.version = row[g].version + 1 /\ r.code = code BY <2>1 DEF Row
  <2> QED BY <2>2, <2>3 DEF Snapshot, Source
<1>5. r.code = s.code /\ s.code \in Codes /\ s.plan \in {None, s.code} BY <1>3
<1> HIDE DEF r, s
<1>4. /\ StoreOK' /\ Kept /\ vers'[g][r.version].code = r.code /\ Exists(g)'
      /\ row'[g] = r /\ \A h \in Graphs \ {g} : row'[h] = row[h]
  BY <1>1, <1>2, <1>3, <1>5, AddKeeps
<1> QED BY <1>3, <1>1, <1>4 DEF r

LEMMA LatestIsRow ==
    ASSUME StoreOK, NEW g \in Graphs
    PROVE  Latest(g) = row[g].version
<1>1. /\ row[g].version \in 0..MaxVersion /\ row[g].version \in Nat
      /\ \A v \in Versions : Stored(g, v) <=> v <= row[g].version
  BY StoreFields DEF StoreOK, StoreOrdered
<1> DEFINE Last(n) == /\ n # 0 => Stored(g, n)
                      /\ \A v \in Versions : Stored(g, v) => v <= n
<1>2. Last(row[g].version)
  BY <1>1, ServerStoreAssumption DEF Versions
<1>3. ASSUME NEW n \in 0..MaxVersion, Last(n) PROVE n = row[g].version
  BY <1>1, <1>3, ServerStoreAssumption DEF Versions
<1> HIDE DEF Last
<1>4. (CHOOSE n \in 0..MaxVersion : Last(n)) = row[g].version
  BY <1>1, <1>2, <1>3
<1> QED BY <1>4 DEF Last, Latest

\* rollback to a version that has a plan.
LEMMA RollbackKeeps ==
    ASSUME StoreOK, NEW g \in Graphs, NEW v \in Versions,
           Exists(g), vers[g][v].plan # None, Latest(g) < MaxVersion, Rollback(g, v)
    PROVE  /\ StoreOK' /\ Kept
           /\ vers[g][v].plan = vers[g][v].code /\ vers[g][v].code \in Codes
           /\ Exists(g)'
           /\ row'[g].plan = vers[g][v].plan /\ row'[g].code = vers[g][v].code
           /\ row'[g].version = row[g].version + 1
           /\ \A h \in Graphs \ {g} : row'[h] = row[h]
<1> DEFINE old == vers[g][v]
           r == [row[g] EXCEPT !.code = old.code, !.version = row[g].version + 1,
                               !.plan = old.plan]
<1>1. Latest(g) = row[g].version BY LatestIsRow
<1>2. row[g].version + 1 \in Versions
  BY <1>1, StoreFields DEF StoreOK, Versions
<1>3. /\ old \in Snapshot /\ old.plan = old.code /\ old.code \in Codes
  BY StoreFields DEF StoreOK, StoreOrdered, Source
<1>4. row' = [row EXCEPT ![g] = r] /\ vers' = [vers EXCEPT ![g][row[g].version + 1] = old]
  BY <1>1, StoreFields DEF Rollback, StoreOK, TablesTypeOK
<1>5. /\ r \in Row /\ r.version = row[g].version + 1 /\ r.code = old.code /\ r.plan = old.plan
  <2>1. row[g] \in Row /\ row[g].version + 1 \in 0..MaxVersion
    BY <1>2, StoreFields DEF StoreOK, Versions
  <2>2. r \in Row BY <2>1, <1>3 DEF Row, Source, Snapshot
  <2> QED BY <2>1, <2>2 DEF Row
<1>7. old.plan \in {None, old.code} BY <1>3
<1> HIDE DEF r, old
<1>6. /\ StoreOK' /\ Kept /\ vers'[g][r.version].code = r.code /\ Exists(g)'
      /\ row'[g] = r /\ \A h \in Graphs \ {g} : row'[h] = row[h]
  BY <1>2, <1>3, <1>4, <1>5, <1>7, AddKeeps
<1> QED BY <1>3, <1>5, <1>6 DEF old

\* save_plan of the plan of a version's own code.
LEMMA SaveKeeps ==
    ASSUME StoreOK, NEW g \in Graphs, NEW v, NEW code,
           Exists(g), Recorded(g, v, code), SavePlan(g, v, code)
    PROVE  /\ StoreOK' /\ Kept /\ Exists(g)'
           /\ row'[g] = [row[g] EXCEPT !.plan = code]
           /\ \A h \in Graphs \ {g} : row'[h] = row[h]
<1> USE DEF StoreOK, Recorded
<1> DEFINE r == [row[g] EXCEPT !.plan = code]
           s == [vers[g][v] EXCEPT !.plan = code]
<1>1. Stored(g, v) BY StoreFields DEF Stored
<1>2. row' = [row EXCEPT ![g] = r] /\ vers' = [vers EXCEPT ![g][v] = s]
  BY <1>1 DEF SavePlan, TablesTypeOK
<1>3. /\ r \in Row /\ r.version = row[g].version /\ r.code = row[g].code
      /\ s \in Snapshot /\ s.code = code /\ s.plan = code
  BY StoreFields DEF Row, Snapshot, Source
<1> HIDE DEF r, s
<1>4. /\ row' \in [Graphs -> Row] /\ vers' \in [Graphs -> [Versions -> Snapshot]]
      /\ row'[g] = r /\ \A h \in Graphs \ {g} : row'[h] = row[h] /\ vers'[h] = vers[h]
      /\ vers'[g][v] = s /\ \A u \in Versions \ {v} : vers'[g][u] = vers[g][u]
  BY <1>2, <1>3 DEF TablesTypeOK
<1>5. \A h \in Graphs, u \in Versions : vers'[h][u].code = vers[h][u].code
  BY <1>3, <1>4
<1>6. row[g].version \in Versions /\ None \notin Codes
  BY StoreFields DEF Exists, Versions
<1>7. StoreOrdered'
  <2> SUFFICES ASSUME NEW h \in Graphs
               PROVE  (/\ \A u \in Versions : Stored(h, u) <=> u <= row[h].version
                       /\ Exists(h) => row[h].code = vers[h][row[h].version].code
                       /\ ~Exists(h) => row[h].code = None /\ row[h].plan = None
                       /\ \A u \in Versions : vers[h][u].plan \in {None, vers[h][u].code})'
    BY DEF StoreOrdered
  <2>1. CASE h # g
    BY <2>1, <1>4 DEF StoreOrdered, Stored, Exists
  <2>2. CASE h = g
    <3>1. \A u \in Versions : Stored(g, u)' <=> u <= row'[g].version
      BY <1>3, <1>4, <1>5 DEF StoreOrdered, Stored
    <3>2. \A u \in Versions : vers'[g][u].plan \in {None, vers'[g][u].code}
      BY <1>3, <1>4 DEF StoreOrdered
    <3>3. Exists(g)' /\ row'[g].code = vers'[g][row'[g].version].code
      BY <1>3, <1>4, <1>5, <1>6 DEF StoreOrdered, Exists
    <3> QED BY <2>2, <3>1, <3>2, <3>3 DEF Exists
  <2> QED BY <2>1, <2>2
<1>8. Kept
  BY <1>3, <1>4, <1>5, <1>6, ZenonT(60) DEF Kept, Exists
<1> QED BY <1>3, <1>4, <1>7, <1>8 DEF TablesTypeOK, Exists, r

-----------------------------------------------------------------------------
(* Requests that change graphs *)

PublishOK == PublishTypeOK /\ StoreOrdered /\ \A a \in Workers : AdminPlaced(a)

Troubles == {"overlap", "late", "killed", "heal"}
ServerAt == {"down", "starting", "serving", "refused"}

LEMMA AdminFields ==
    ASSUME PublishOK, NEW a \in Workers
    PROVE  /\ admin[a] \in Admin /\ admin[a].at \in AdminAt
           /\ admin[a].g \in Graphs \cup {None} /\ admin[a].version \in 0..MaxVersion
           /\ admin[a].code \in Source
           /\ admin[a].built \in [Graphs -> Source]
           /\ \A g \in Graphs : /\ admin[a].listed[g].version \in 0..MaxVersion
                                /\ admin[a].listed[g].code \in Source
           /\ AdminPlaced(a) /\ StoreOK
BY DEF PublishOK, PublishTypeOK, Admin, StoreOK

LEMMA IdleAdminType == IdleAdmin \in Admin /\ None \notin Graphs /\ None \notin Codes
BY ServerStoreAssumption DEF IdleAdmin, Admin, AdminAt, Unlisted, Unbuilt, Source

\* Only the graph a request is creating comes to exist.
OnlyCreates(a) ==
    \A h \in Graphs : ~Exists(h) =>
        ~Exists(h)' \/ (admin[a].at = "create" /\ admin[a].g = h)

\* The graph of a request's new record is the one it had, a stored one, or nobody's.
NotInCreation(a, r) ==
    \/ r.g \in {admin[a].g, None}
    \/ r.g \in Graphs /\ Exists(r.g)
    \/ \A b \in Workers : admin[b].g # r.g

RestTyped ==
    /\ server' \in ServerAt /\ plans' \in [Graphs -> Source]
    /\ routes' \in [Keys -> Entry \cup {None}]
    /\ cache' \in [CacheKeys -> Body \cup {None}]
    /\ visit' = visit /\ trouble' \subseteq Troubles

\* The record of one request changes, and what is stored is kept: the others are still
\* where they were placed.
LEMMA OthersPlaced ==
    ASSUME PublishOK, Kept, NEW a \in Workers, NEW r \in Admin,
           admin' = [admin EXCEPT ![a] = r],
           OnlyCreates(a), NotInCreation(a, r)
    PROVE  /\ admin' \in [Workers -> Admin] /\ admin'[a] = r
           /\ \A b \in Workers \ {a} : admin'[b] = admin[b] /\ AdminPlaced(b)'
<1>1. /\ admin' \in [Workers -> Admin] /\ admin'[a] = r
      /\ \A b \in Workers \ {a} : admin'[b] = admin[b]
  BY DEF PublishOK, PublishTypeOK
<1>2. SUFFICES ASSUME NEW b \in Workers \ {a} PROVE AdminPlaced(b)'
  BY <1>1
<1>3. /\ AdminPlaced(b) /\ AdminPlaced(a) /\ admin'[b] = admin[b]
      /\ admin[b].g \in Graphs \cup {None} /\ None \notin Graphs /\ None \notin Codes
      /\ admin[b].version \in 0..MaxVersion
  BY <1>1, AdminFields, IdleAdminType
<1>4. admin[b].at = "create" =>
        /\ ~Exists(admin[b].g)'
        /\ \A c \in Workers \ {b} : admin'[c].g # admin[b].g
  BY <1>1, <1>3 DEF AdminPlaced, OnlyCreates, NotInCreation
<1>5. \A g \in Graphs : \A v, code : Recorded(g, v, code) => Recorded(g, v, code)'
  BY <1>3 DEF Kept, Recorded
<1>6. ASSUME admin[b].at \in {"deploy", "rollback"}
      PROVE  vers'[admin[b].g][admin[b].version].plan # None
  BY <1>3, <1>6 DEF Kept, AdminPlaced
<1> QED BY <1>3, <1>4, <1>5, <1>6 DEF AdminPlaced, Kept

LEMMA AdminMoves ==
    ASSUME PublishOK, Kept, StoreOK', NEW a \in Workers, NEW r \in Admin,
           admin' = [admin EXCEPT ![a] = r],
           OnlyCreates(a), NotInCreation(a, r),
           AdminPlaced(a)', RestTyped
    PROVE  PublishOK'
<1>1. /\ admin' \in [Workers -> Admin]
      /\ \A b \in Workers \ {a} : AdminPlaced(b)'
  BY OthersPlaced
<1>2. PublishTypeOK'
  BY <1>1 DEF PublishOK, PublishTypeOK, StoreOK, Troubles, ServerAt, RestTyped
<1>3. \A b \in Workers : AdminPlaced(b)'
  BY <1>1
<1> QED BY <1>2, <1>3 DEF PublishOK, StoreOK

\* A request that has been handed its first position, or has ended.
LEMMA BeginType ==
    ASSUME NEW at \in AdminAt, NEW g \in Graphs \cup {None}, NEW v \in 0..MaxVersion,
           NEW code \in Source
    PROVE  LET r == At(at, g, v, code) IN
           /\ r \in Admin /\ r.at = at /\ r.g = g /\ r.version = v /\ r.code = code
           /\ r.listed = Unlisted /\ r.built = Unbuilt
BY IdleAdminType DEF IdleAdmin, Admin, At

LEMMA StartsOK ==
    ASSUME PublishOK, NEW a \in Admins, StartAdmin(a), trouble' \subseteq Troubles
    PROVE  PublishOK'
<1> USE DEF Unserved, tables
<1> PICK g \in Graphs :
       \/ \E code \in Codes : StartCreate(a, g, code) \/ StartUpdate(a, g, code)
       \/ \E v \in Versions : \/ StartVersion(a, "deploy", g, v)
                              \/ StartVersion(a, "rollback", g, v)
  BY DEF StartAdmin
<1>1. a \in Workers /\ a # Boot /\ PublishTypeOK /\ StoreOK
  BY PublishAssumption DEF Workers, PublishOK, StoreOK, PublishTypeOK
<1>2. \A v \in Versions : v \in 0..MaxVersion
  BY ServerStoreAssumption DEF Versions
<1>3. ASSUME NEW at \in AdminAt, NEW v \in 0..MaxVersion, NEW code \in Source,
             Begin(a, at, g, v, code), UNCHANGED <<row, vers>>, Unserved,
             Exists(g) \/ \A b \in Workers : admin[b].g # g,
             admin'[a].at = at /\ admin'[a].g = g /\ admin'[a].version = v
               /\ admin'[a].code = code /\ admin'[a].listed = Unlisted => AdminPlaced(a)'
      PROVE  PublishOK'
  <2> DEFINE r == At(at, g, v, code)
  <2>1. /\ r \in Admin /\ r.at = at /\ r.g = g /\ r.version = v /\ r.code = code
        /\ r.listed = Unlisted
    BY <1>3, BeginType
  <2>2. admin' = [admin EXCEPT ![a] = r] BY <1>3 DEF Begin
  <2> HIDE DEF r
  <2>3. admin'[a] = r BY <1>1, <2>2 DEF PublishTypeOK
  <2>4. AdminPlaced(a)' BY <1>3, <2>1, <2>3
  <2>5. Kept /\ StoreOK' BY <1>1, <1>3, UnchangedKept
  <2>6. OnlyCreates(a) BY <1>3 DEF Exists, OnlyCreates
  <2>8. NotInCreation(a, r) BY <1>3, <2>1 DEF NotInCreation
  <2>7. RestTyped BY <1>1, <1>3 DEF PublishTypeOK, ServerAt, RestTyped
  <2> QED BY <1>1, <1>3, <2>1, <2>2, <2>4, <2>5, <2>6, <2>7, <2>8, AdminMoves
<1>4. \A h \in Graphs : Unlisted[h].version = 0 BY DEF Unlisted
<1>5. ASSUME NEW code \in Codes, StartCreate(a, g, code) PROVE PublishOK'
  <2>1. /\ ~Exists(g) /\ 1 <= MaxVersion /\ \A b \in Workers : admin[b].g # g
        /\ Begin(a, "create", g, 1, code) /\ UNCHANGED <<row, vers>> /\ Unserved
    BY <1>5 DEF StartCreate
  <2>2. 1 \in Versions /\ 1 \in 0..MaxVersion /\ code \in Source /\ "create" \in AdminAt
    BY <2>1, ServerStoreAssumption DEF Versions, Source, AdminAt
  <2>3. ~Exists(g)' /\ \A b \in Workers \ {a} : admin'[b].g # g
    BY <1>1, <2>1 DEF Exists, Begin, PublishTypeOK
  <2>4. admin'[a].at = "create" /\ admin'[a].g = g /\ admin'[a].version = 1
          /\ admin'[a].code = code /\ admin'[a].listed = Unlisted => AdminPlaced(a)'
    BY <1>1, <1>4, <2>2, <2>3 DEF AdminPlaced
  <2> QED BY <1>3, <2>1, <2>2, <2>4
<1>6. ASSUME NEW code \in Codes, StartUpdate(a, g, code) PROVE PublishOK'
  <2>1. /\ Exists(g) /\ Begin(a, "update", g, 0, code) /\ UNCHANGED <<row, vers>> /\ Unserved
    BY <1>6 DEF StartUpdate
  <2>2. 0 \in 0..MaxVersion /\ code \in Source /\ "update" \in AdminAt
    BY ServerStoreAssumption DEF Source, AdminAt
  <2>4. admin'[a].at = "update" /\ admin'[a].g = g /\ admin'[a].version = 0
          /\ admin'[a].code = code /\ admin'[a].listed = Unlisted => AdminPlaced(a)'
    BY <1>1, <1>4, <2>1 DEF AdminPlaced, Exists
  <2> QED BY <1>3, <2>1, <2>2, <2>4
<1>7. ASSUME NEW v \in Versions, NEW at \in {"deploy", "rollback"}, StartVersion(a, at, g, v)
      PROVE  PublishOK'
  <2>1. /\ vers[g][v].plan # None /\ Stored(g, v)
        /\ Begin(a, at, g, v, None) /\ UNCHANGED <<row, vers>> /\ Unserved
    BY <1>7 DEF StartVersion
  <2>2. v \in 0..MaxVersion /\ None \in Source /\ at \in AdminAt
    BY <1>2 DEF Source, AdminAt
  <2>3. Exists(g)
    <3>1. v <= row[g].version BY <1>1, <2>1 DEF StoreOK, StoreOrdered
    <3> QED BY <1>1, <3>1, StoreFields DEF Exists, StoreOK, Versions
  <2>4. admin'[a].at = at /\ admin'[a].g = g /\ admin'[a].version = v
          /\ admin'[a].code = None /\ admin'[a].listed = Unlisted => AdminPlaced(a)'
    BY <1>1, <1>4, <2>1, <2>3 DEF AdminPlaced, Exists
  <2> QED BY <1>3, <2>1, <2>2, <2>3, <2>4
<1> QED BY <1>5, <1>6, <1>7

\* A request ends.
LEMMA Ends ==
    ASSUME PublishOK, Kept, StoreOK', NEW a \in Workers, OnlyCreates(a), RestTyped, End(a)
    PROVE  PublishOK'
<1>1. IdleAdmin \in Admin /\ admin'[a] = IdleAdmin
  BY IdleAdminType DEF End, PublishOK, PublishTypeOK
<1>2. NotInCreation(a, IdleAdmin) BY DEF NotInCreation, IdleAdmin
<1>3. AdminPlaced(a)' BY <1>1 DEF AdminPlaced, IdleAdmin, Unlisted, Changes
<1>4. admin' = [admin EXCEPT ![a] = IdleAdmin] BY DEF End
<1> QED BY <1>1, <1>2, <1>3, <1>4, AdminMoves

\* A request begins to refresh.
LEMMA Refreshes ==
    ASSUME PublishOK, Kept, StoreOK', NEW a \in Workers, OnlyCreates(a), RestTyped, Refresh(a)
    PROVE  PublishOK'
<1> DEFINE r == At("list", None, 0, None)
<1>1. /\ r \in Admin /\ r.at = "list" /\ r.g = None /\ r.listed = Unlisted
  <2>1. /\ None \in Graphs \cup {None} /\ None \in Source /\ 0 \in 0..MaxVersion
        /\ "list" \in AdminAt
    BY ServerStoreAssumption DEF Source, AdminAt
  <2> QED BY <2>1, BeginType
<1>2. admin' = [admin EXCEPT ![a] = r] BY DEF Refresh, Begin
<1> HIDE DEF r
<1>3. admin'[a] = r BY <1>2 DEF PublishOK, PublishTypeOK
<1>4. NotInCreation(a, r) BY <1>1 DEF NotInCreation
<1>5. AdminPlaced(a)' BY <1>1, <1>3 DEF AdminPlaced, Unlisted, Changes
<1> QED BY <1>1, <1>2, <1>4, <1>5, AdminMoves

\* A request goes on: only its position changes.
LEMMA MovesOn ==
    ASSUME PublishOK, Kept, StoreOK', NEW a \in Workers, OnlyCreates(a), RestTyped,
           NEW at \in {"save", "load", "routes", "clear"}, To(a, at),
           at = "save" => /\ admin[a].g \in Graphs /\ row'[admin[a].g].version # 0 /\ a # Boot
                          /\ admin[a].version \in Versions /\ admin[a].code \in Codes
                          /\ vers'[admin[a].g][admin[a].version].code = admin[a].code
    PROVE  PublishOK'
<1>0. AdminPlaced(a) /\ admin[a] \in Admin /\ admin \in [Workers -> Admin]
  BY AdminFields DEF PublishOK, PublishTypeOK
<1>1. \A g \in Graphs, v \in Versions, code \in Codes :
        vers[g][v].code = code => vers'[g][v].code = code
  BY IdleAdminType DEF Kept
<1> DEFINE r == [admin[a] EXCEPT !.at = at]
<1>2. r \in Admin /\ r.at = at /\ r.g = admin[a].g /\ r.version = admin[a].version
      /\ r.code = admin[a].code /\ r.listed = admin[a].listed
  BY <1>0 DEF Admin, AdminAt
<1>3. admin' = [admin EXCEPT ![a] = r] BY <1>0 DEF To
<1> HIDE DEF r
<1>4. admin'[a] = r BY <1>0, <1>3
<1>5. \A g \in Graphs : admin'[a].listed[g].version # 0 =>
        Recorded(g, admin[a].listed[g].version, admin[a].listed[g].code)
  BY <1>0, <1>2, <1>4 DEF AdminPlaced
<1>6. \A g \in Graphs : admin'[a].listed[g].version # 0 =>
        Recorded(g, admin[a].listed[g].version, admin[a].listed[g].code)'
  BY <1>1, <1>2, <1>4, <1>5 DEF Recorded
<1>7. AdminPlaced(a)'
  BY <1>2, <1>4, <1>6 DEF AdminPlaced, Changes, Recorded, Exists
<1>8. NotInCreation(a, r) BY <1>2 DEF NotInCreation
<1> QED BY <1>2, <1>3, <1>7, <1>8, AdminMoves


LEMMA UnservedTyped ==
    ASSUME PublishOK, Unserved, trouble' \subseteq Troubles
    PROVE  RestTyped
BY DEF PublishOK, PublishTypeOK, Unserved, tables, RestTyped, ServerAt

LEMMA UnchangedCreates ==
    ASSUME NEW a, UNCHANGED row
    PROVE  OnlyCreates(a)
BY DEF OnlyCreates, Exists

LEMMA CreateOK ==
    ASSUME PublishOK, NEW a \in Workers, Create(a), trouble' \subseteq Troubles
    PROVE  Kept /\ PublishOK'
<1>0. AdminPlaced(a) /\ StoreOK /\ admin[a].at = "create"
  BY AdminFields DEF Create
<1> PICK g \in Graphs, code \in Codes : g = admin[a].g /\ code = admin[a].code
  BY <1>0 DEF AdminPlaced
<1>1. CreateGraph(g, code) /\ To(a, "save") /\ Unserved
  BY DEF Create
<1>2. ~Exists(g) /\ admin[a].version = 1 /\ 1 \in Versions /\ a # Boot
  BY <1>0 DEF AdminPlaced, Changes
<1>3. /\ StoreOK' /\ Kept
      /\ Recorded(g, 1, code)' /\ Exists(g)'
      /\ \A h \in Graphs \ {g} : row'[h] = row[h]
  BY <1>0, <1>1, <1>2, CreateKeeps
<1>4. OnlyCreates(a)
  BY <1>0, <1>3 DEF OnlyCreates, Exists
<1>5. /\ admin[a].g \in Graphs /\ row'[admin[a].g].version # 0 /\ a # Boot
      /\ admin[a].version \in Versions /\ admin[a].code \in Codes
      /\ vers'[admin[a].g][admin[a].version].code = admin[a].code
  BY <1>2, <1>3 DEF Recorded, Exists
<1> QED BY <1>1, <1>3, <1>4, <1>5, UnservedTyped, MovesOn

LEMMA GiveUpOK ==
    ASSUME PublishOK, NEW a \in Workers, GiveUp(a), trouble' \subseteq Troubles
    PROVE  Kept /\ PublishOK'
<1>1. End(a) /\ Unserved /\ UNCHANGED <<row, vers>> BY DEF GiveUp
<1>2. StoreOK' /\ Kept BY <1>1, UnchangedKept DEF PublishOK, PublishTypeOK, StoreOK
<1> QED BY <1>1, <1>2, UnservedTyped, UnchangedCreates, Ends

LEMMA SaveCompiledOK ==
    ASSUME PublishOK, NEW a \in Workers, SaveCompiled(a), trouble' \subseteq Troubles
    PROVE  Kept /\ PublishOK'
<1>0. AdminPlaced(a) /\ StoreOK /\ admin[a].at = "save"
  BY AdminFields DEF SaveCompiled
<1> PICK g \in Graphs, v \in Versions, code \in Codes :
       g = admin[a].g /\ v = admin[a].version /\ code = admin[a].code
  BY <1>0 DEF AdminPlaced, Recorded
<1>1. SavePlan(g, v, code) /\ Refresh(a) /\ Unserved BY DEF SaveCompiled
<1>2. Exists(g) /\ Recorded(g, v, code) BY <1>0 DEF AdminPlaced
<1>3. StoreOK' /\ Kept /\ Exists(g)' /\ \A h \in Graphs \ {g} : row'[h] = row[h]
  BY <1>0, <1>1, <1>2, SaveKeeps
<1>4. OnlyCreates(a) BY <1>2, <1>3 DEF OnlyCreates, Exists
<1> QED BY <1>1, <1>3, <1>4, UnservedTyped, Refreshes

LEMMA DeployOK ==
    ASSUME PublishOK, NEW a \in Workers, DeployVersion(a), trouble' \subseteq Troubles
    PROVE  Kept /\ PublishOK'
<1>1. Refresh(a) /\ Unserved /\ UNCHANGED <<row, vers>> BY DEF DeployVersion, Deploy
<1>2. StoreOK' /\ Kept BY <1>1, UnchangedKept DEF PublishOK, PublishTypeOK, StoreOK
<1> QED BY <1>1, <1>2, UnservedTyped, UnchangedCreates, Refreshes

LEMMA RollBackOK ==
    ASSUME PublishOK, NEW a \in Workers, RollBack(a), trouble' \subseteq Troubles
    PROVE  Kept /\ PublishOK'
<1>0. AdminPlaced(a) /\ StoreOK /\ admin[a].at = "rollback"
  BY AdminFields DEF RollBack
<1> PICK g \in Graphs, v \in Versions : g = admin[a].g /\ v = admin[a].version
  BY <1>0 DEF AdminPlaced
<1>1. Latest(g) < MaxVersion /\ Rollback(g, v) /\ Refresh(a) /\ Unserved BY DEF RollBack
<1>2. Exists(g) /\ vers[g][v].plan # None BY <1>0 DEF AdminPlaced
<1>3. StoreOK' /\ Kept /\ Exists(g)' /\ \A h \in Graphs \ {g} : row'[h] = row[h]
  BY <1>0, <1>1, <1>2, RollbackKeeps
<1>4. OnlyCreates(a) BY <1>2, <1>3 DEF OnlyCreates, Exists
<1> QED BY <1>1, <1>3, <1>4, UnservedTyped, Refreshes

LEMMA InstallsOK ==
    ASSUME PublishOK, NEW a \in Workers, InstallPlans(a) \/ InstallRoutes(a) \/ ClearCache(a),
           trouble' \subseteq Troubles
    PROVE  Kept /\ PublishOK'
<1>1. UNCHANGED <<row, vers, visit>>
  BY DEF InstallPlans, InstallRoutes, ClearCache
<1>2. StoreOK' /\ Kept BY <1>1, UnchangedKept DEF PublishOK, PublishTypeOK, StoreOK
<1>3. OnlyCreates(a) BY <1>1, UnchangedCreates
<1>4. CASE InstallPlans(a)
  <2>1. admin[a].built \in [Graphs -> Source] BY AdminFields
  <2>2. RestTyped
    BY <1>4, <2>1 DEF InstallPlans, RestTyped, PublishOK, PublishTypeOK, ServerAt
  <2> QED BY <1>2, <1>3, <1>4, <2>2, MovesOn DEF InstallPlans
<1>5. CASE InstallRoutes(a)
  <2>1. BuiltRoutes(admin[a].built) \in [Keys -> Entry \cup {None}]
    <3> DEFINE built == admin[a].built
    <3>1. built \in [Graphs -> Source] BY AdminFields
    <3> HIDE DEF built
    <3> DEFINE Owners(k) == {g \in Graphs : built[g] # None /\ Publishes(built[g])
                                            /\ KeyOf(built[g]) = k}
    <3>2. \A k \in Keys : \A g \in Owners(k) : [graph |-> g, code |-> built[g]] \in Entry
      BY <3>1 DEF Entry, Source
    <3>3. \A k \in Keys : Owners(k) # {} => (CHOOSE g \in Owners(k) : TRUE) \in Owners(k)
      OBVIOUS
    <3>4. BuiltRoutes(built) \in [Keys -> Entry \cup {None}]
      BY <3>2, <3>3 DEF BuiltRoutes
    <3> QED BY <3>4 DEF built
  <2>2. RestTyped
    BY <1>5, <2>1 DEF InstallRoutes, RestTyped, PublishOK, PublishTypeOK, ServerAt
  <2> QED BY <1>2, <1>3, <1>5, <2>2, MovesOn DEF InstallRoutes
<1>6. CASE ClearCache(a)
  <2>1. NothingCached \in [CacheKeys -> Body \cup {None}] BY DEF NothingCached
  <2>2. RestTyped
    BY <1>6, <2>1 DEF ClearCache, RestTyped, PublishOK, PublishTypeOK, ServerAt
  <2> QED BY <1>2, <1>3, <1>6, <2>2, Ends DEF ClearCache
<1> QED BY <1>4, <1>5, <1>6


LEMMA UpdateOK ==
    ASSUME PublishOK, NEW a \in Workers, Update(a), trouble' \subseteq Troubles
    PROVE  Kept /\ PublishOK'
<1>0. /\ AdminPlaced(a) /\ StoreOK /\ admin[a].at = "update" /\ admin[a] \in Admin
      /\ admin \in [Workers -> Admin]
  BY AdminFields DEF Update, PublishOK, PublishTypeOK
<1> PICK g \in Graphs, code \in Codes : g = admin[a].g /\ code = admin[a].code
  BY <1>0 DEF AdminPlaced
<1> PICK n \in Nat : n = row[g].version + 1
  BY <1>0, StoreFields DEF StoreOK
<1>1. /\ Exists(g) /\ row[g].version < MaxVersion /\ UpdateGraph(g, code) /\ Unserved
      /\ admin' = [admin EXCEPT ![a].at = "save", ![a].version = n]
      /\ a # Boot
  BY <1>0 DEF Update, AdminPlaced, Changes
<1>2. /\ StoreOK' /\ Kept /\ n \in Versions /\ vers'[g][n].code = code /\ Exists(g)'
      /\ \A h \in Graphs \ {g} : row'[h] = row[h]
  BY <1>0, <1>1, UpdateKeeps
<1> DEFINE r == [admin[a] EXCEPT !.at = "save", !.version = n]
<1>3. /\ r \in Admin /\ r.at = "save" /\ r.version = n /\ r.g = g /\ r.code = code
      /\ r.listed = admin[a].listed
  <2>1. n \in 0..MaxVersion BY <1>2, ServerStoreAssumption DEF Versions
  <2>2. "save" \in AdminAt BY DEF AdminAt
  <2> QED BY <1>0, <2>1, <2>2 DEF Admin
<1>4. admin' = [admin EXCEPT ![a] = r] BY <1>0, <1>1
<1> HIDE DEF r
<1>5. admin'[a] = r BY <1>0, <1>4
<1>6. \A h \in Graphs : admin'[a].listed[h].version # 0 =>
        Recorded(h, admin[a].listed[h].version, admin[a].listed[h].code)'
  <2>1. \A h \in Graphs : admin'[a].listed[h].version # 0 =>
          Recorded(h, admin[a].listed[h].version, admin[a].listed[h].code)
    BY <1>0, <1>3, <1>5 DEF AdminPlaced
  <2> SUFFICES ASSUME NEW h \in Graphs, admin'[a].listed[h].version # 0
               PROVE  Recorded(h, admin[a].listed[h].version, admin[a].listed[h].code)'
    OBVIOUS
  <2>2. Recorded(h, admin[a].listed[h].version, admin[a].listed[h].code) BY <2>1
  <2> DEFINE m == admin[a].listed[h].version
             c == admin[a].listed[h].code
  <2>3. admin'[a].listed[h].version = m /\ admin'[a].listed[h].code = c BY <1>3, <1>5
  <2> HIDE DEF m, c
  <2>4. m \in Versions /\ c \in Codes /\ vers[h][m].code = c BY <2>2 DEF m, c, Recorded
  <2>5. c # None BY <2>4, ServerStoreAssumption
  <2>6. vers'[h][m].code = c BY <1>2, <2>4, <2>5 DEF Kept
  <2> QED BY <2>3, <2>4, <2>6 DEF Recorded
<1>7. AdminPlaced(a)'
  BY <1>1, <1>2, <1>3, <1>5, <1>6 DEF AdminPlaced, Recorded, Exists
<1>8. NotInCreation(a, r) BY <1>3 DEF NotInCreation
<1>9. OnlyCreates(a) BY <1>1, <1>2 DEF OnlyCreates, Exists
<1> QED BY <1>1, <1>2, <1>3, <1>4, <1>7, <1>8, <1>9, UnservedTyped, AdminMoves

LEMMA ListGraphsOK ==
    ASSUME PublishOK, NEW a \in Workers, ListGraphs(a), trouble' \subseteq Troubles
    PROVE  Kept /\ PublishOK'
<1>0. /\ admin[a] \in Admin /\ admin \in [Workers -> Admin] /\ StoreOK
  BY AdminFields DEF PublishOK, PublishTypeOK
<1> DEFINE list == [g \in Graphs |-> [version |-> row[g].version, code |-> row[g].code]]
           r == [admin[a] EXCEPT !.at = "load", !.listed = list]
<1>1. /\ admin' = [admin EXCEPT ![a].at = "load", ![a].listed = list]
      /\ Unserved /\ UNCHANGED <<row, vers>>
  BY DEF ListGraphs
<1>2. StoreOK' /\ Kept BY <1>0, <1>1, UnchangedKept
<1>3. list \in [Graphs -> [version : 0..MaxVersion, code : Source]]
  BY <1>0, StoreFields DEF StoreOK
<1>4. \A g \in Graphs : list[g].version # 0 => Recorded(g, list[g].version, list[g].code)
  <2> SUFFICES ASSUME NEW g \in Graphs, row[g].version # 0
               PROVE  Recorded(g, row[g].version, row[g].code)
    OBVIOUS
  <2>1. row[g].version \in Versions
    BY <1>0, StoreFields DEF StoreOK, Versions
  <2>2. vers[g][row[g].version].code = row[g].code /\ row[g].code \in Codes
    BY <1>0, <2>1, StoreFields DEF StoreOK, StoreOrdered, Stored, Exists, Source
  <2> QED BY <2>1, <2>2 DEF Recorded
<1> HIDE DEF list
<1>5. r \in Admin /\ r.at = "load" /\ r.g = admin[a].g /\ r.listed = list
  <2>1. "load" \in AdminAt BY DEF AdminAt
  <2> QED BY <1>0, <1>3, <2>1 DEF Admin
<1>6. admin' = [admin EXCEPT ![a] = r] BY <1>0, <1>1
<1> HIDE DEF r
<1>7. admin'[a] = r BY <1>0, <1>6
<1>8. \A g \in Graphs : admin'[a].listed[g].version # 0 =>
         /\ admin'[a].listed[g].version \in Versions /\ admin'[a].listed[g].code \in Codes
         /\ vers'[g][admin'[a].listed[g].version].code = admin'[a].listed[g].code
  BY <1>1, <1>4, <1>5, <1>7 DEF Recorded
<1>9. AdminPlaced(a)' BY <1>5, <1>7, <1>8 DEF AdminPlaced, Recorded, Changes
<1>10. NotInCreation(a, r) BY <1>5 DEF NotInCreation
<1> QED BY <1>1, <1>2, <1>5, <1>6, <1>9, <1>10, UnservedTyped, UnchangedCreates, AdminMoves

\* What a request has listed stays recorded.
LEMMA ListedKept ==
    ASSUME PublishOK, Kept, NEW a \in Workers, NEW g \in Graphs
    PROVE  LET l == admin[a].listed[g] IN
           l.version # 0 => /\ l.version \in Versions /\ l.code \in Codes
                            /\ vers[g][l.version].code = l.code
                            /\ vers'[g][l.version].code = l.code
BY AdminFields, IdleAdminType DEF AdminPlaced, Recorded, Kept

LEMMA BuildOK ==
    ASSUME PublishOK, Kept, StoreOK', NEW a \in Workers, OnlyCreates(a),
           NEW g \in Graphs, NEW code \in Codes, Build(a, g, code),
           UNCHANGED <<tables, visit>>, trouble' \subseteq Troubles
    PROVE  PublishOK'
<1>1. RestTyped
  BY DEF Build, Fail, RestTyped, tables, PublishOK, PublishTypeOK, ServerAt
<1>2. CASE End(a) BY <1>1, <1>2, Ends
<1>3. CASE admin' = [admin EXCEPT ![a].at = "load", ![a].built[g] = code]
  <2>0. admin[a] \in Admin /\ admin \in [Workers -> Admin]
    BY AdminFields DEF PublishOK, PublishTypeOK
  <2> DEFINE b == [admin[a].built EXCEPT ![g] = code]
             r == [admin[a] EXCEPT !.at = "load", !.built = b]
  <2>1. admin' = [admin EXCEPT ![a] = r] BY <1>3, <2>0 DEF Admin
  <2>2. b \in [Graphs -> Source] BY <2>0 DEF Admin, Source
  <2> HIDE DEF b
  <2>3. r \in Admin /\ r.at = "load" /\ r.g = admin[a].g /\ r.listed = admin[a].listed
    <3>1. "load" \in AdminAt BY DEF AdminAt
    <3> QED BY <2>0, <2>2, <3>1 DEF Admin
  <2> HIDE DEF r
  <2>4. admin'[a] = r BY <2>0, <2>1
  <2>5. \A h \in Graphs : admin'[a].listed[h].version # 0 =>
           /\ admin'[a].listed[h].version \in Versions /\ admin'[a].listed[h].code \in Codes
           /\ vers'[h][admin'[a].listed[h].version].code = admin'[a].listed[h].code
    BY <2>3, <2>4, ListedKept
  <2>6. AdminPlaced(a)' BY <2>3, <2>4, <2>5 DEF AdminPlaced, Recorded, Changes
  <2>7. NotInCreation(a, r) BY <2>3 DEF NotInCreation
  <2> QED BY <1>1, <2>1, <2>3, <2>6, <2>7, AdminMoves
<1> QED BY <1>2, <1>3 DEF Build, Fail


LEMMA LoadStoredOK ==
    ASSUME PublishOK, NEW a \in Workers, NEW g \in Graphs, LoadStored(a, g),
           trouble' \subseteq Troubles
    PROVE  Kept /\ PublishOK'
<1>0. /\ admin[a] \in Admin /\ admin \in [Workers -> Admin] /\ StoreOK
      /\ UNCHANGED <<row, vers, tables, visit>> /\ g \in Pending(a)
  BY AdminFields DEF PublishOK, PublishTypeOK, LoadStored
<1>1. StoreOK' /\ Kept /\ OnlyCreates(a) BY <1>0, UnchangedKept, UnchangedCreates
<1>2. CASE row[g].plan # None
  <2> PICK code \in Codes : code = row[g].plan
    BY <1>0, <1>2, StoreFields DEF StoreOK, Source
  <2>1. Build(a, g, code) BY <1>2 DEF LoadStored
  <2> QED BY <1>0, <1>1, <2>1, BuildOK
<1>3. CASE /\ admin' = [admin EXCEPT ![a].at = "heal", ![a].g = g]
           /\ UNCHANGED server
  <2> DEFINE r == [admin[a] EXCEPT !.at = "heal", !.g = g]
  <2>1. admin' = [admin EXCEPT ![a] = r] BY <1>0, <1>3
  <2>2. r \in Admin /\ r.at = "heal" /\ r.g = g /\ r.listed = admin[a].listed
    <3>1. "heal" \in AdminAt BY DEF AdminAt
    <3> QED BY <1>0, <3>1 DEF Admin
  <2> HIDE DEF r
  <2>3. admin'[a] = r BY <1>0, <2>1
  <2>4. \A h \in Graphs : admin'[a].listed[h].version # 0 =>
           /\ admin'[a].listed[h].version \in Versions /\ admin'[a].listed[h].code \in Codes
           /\ vers'[h][admin'[a].listed[h].version].code = admin'[a].listed[h].code
    BY <1>1, <2>2, <2>3, ListedKept
  <2>5. Exists(g) /\ admin[a].listed[g].version # 0
    <3>1. admin[a].listed[g].version # 0 BY <1>0 DEF Pending
    <3>2. /\ admin[a].listed[g].version \in Versions
          /\ Stored(g, admin[a].listed[g].version)
      BY <1>0, <3>1, AdminFields, IdleAdminType DEF AdminPlaced, Recorded, Stored
    <3> QED BY <1>0, <3>1, <3>2, StoreFields DEF StoreOK, StoreOrdered, Versions, Exists
  <2>6. AdminPlaced(a)' BY <1>0, <2>2, <2>3, <2>4, <2>5 DEF AdminPlaced, Recorded, Changes, Exists
  <2>7. NotInCreation(a, r) BY <2>2, <2>5 DEF NotInCreation
  <2>8. RestTyped
    BY <1>0, <1>3 DEF RestTyped, tables, PublishOK, PublishTypeOK, ServerAt
  <2> QED BY <1>1, <2>1, <2>2, <2>6, <2>7, <2>8, AdminMoves
<1> QED BY <1>2, <1>3 DEF LoadStored

LEMMA HealOK ==
    ASSUME PublishOK, NEW a \in Workers, Heal(a), trouble' \subseteq Troubles
    PROVE  Kept /\ PublishOK'
<1>0. AdminPlaced(a) /\ StoreOK /\ admin[a].at = "heal" BY AdminFields DEF Heal
<1> PICK g \in Graphs : g = admin[a].g BY <1>0 DEF AdminPlaced
<1> PICK v \in Versions, code \in Codes :
       v = admin[a].listed[g].version /\ code = admin[a].listed[g].code
  BY <1>0 DEF AdminPlaced, Recorded
<1>1. /\ SavePlan(g, v, code) /\ Build(a, g, code) /\ UNCHANGED <<tables, visit>>
      /\ Exists(g) /\ Recorded(g, v, code)
  BY <1>0 DEF Heal, AdminPlaced
<1>2. StoreOK' /\ Kept /\ Exists(g)' /\ \A h \in Graphs \ {g} : row'[h] = row[h]
  BY <1>0, <1>1, SaveKeeps
<1>3. OnlyCreates(a) BY <1>1, <1>2 DEF OnlyCreates, Exists
<1> QED BY <1>1, <1>2, <1>3, BuildOK

LEMMA AdminStepOK ==
    ASSUME PublishOK, NEW a \in Workers, AdminStep(a) \/ ClearCache(a),
           trouble' \subseteq Troubles
    PROVE  Kept /\ PublishOK'
BY CreateOK, UpdateOK, GiveUpOK, SaveCompiledOK, DeployOK, RollBackOK, ListGraphsOK,
   LoadStoredOK, HealOK, InstallsOK DEF AdminStep

-----------------------------------------------------------------------------
(* Requests to published paths, and the process *)

\* Nothing of a request that changes graphs changes.
LEMMA AdminsStay ==
    ASSUME PublishOK, UNCHANGED <<row, vers, admin>>
    PROVE  /\ Kept /\ StoreOK'
           /\ admin' \in [Workers -> Admin] /\ \A a \in Workers : AdminPlaced(a)'
<1>1. Kept /\ StoreOK' BY UnchangedKept DEF PublishOK, PublishTypeOK, StoreOK
<1>2. ASSUME NEW a \in Workers PROVE AdminPlaced(a)'
  BY DEF PublishOK, AdminPlaced, Recorded, Exists
<1> QED BY <1>1, <1>2 DEF PublishOK, PublishTypeOK

LEMMA VisitMoves ==
    ASSUME PublishOK, UNCHANGED <<row, vers, server, plans, routes, admin>>,
           cache' \in [CacheKeys -> Body \cup {None}], trouble' \subseteq Troubles,
           NEW v \in Visitors, NEW r \in Visit, visit' = [visit EXCEPT ![v] = r],
           r.at # "idle" => r.key \in Keys /\ r.input \in Inputs /\ r.entry \in Entry,
           r.at \in {"run", "insert"} => r.plan \in Codes
    PROVE  Kept /\ PublishOK'
<1>1. /\ Kept /\ StoreOK'
      /\ admin' \in [Workers -> Admin] /\ \A a \in Workers : AdminPlaced(a)'
  BY AdminsStay
<1>2. /\ visit' \in [Visitors -> Visit] /\ visit'[v] = r
      /\ \A u \in Visitors \ {v} : visit'[u] = visit[u]
  BY DEF PublishOK, PublishTypeOK
<1>3. PublishTypeOK'
  BY <1>1, <1>2 DEF PublishOK, PublishTypeOK, StoreOK, Troubles
<1> QED BY <1>1, <1>3 DEF PublishOK, StoreOK

LEMMA IdleVisitType == IdleVisit \in Visit /\ IdleVisit.at = "idle"
BY DEF IdleVisit, Visit, VisitAt, Source

LEMMA VisitFields ==
    ASSUME PublishOK, NEW v \in Visitors
    PROVE  /\ visit[v] \in Visit
           /\ visit[v].at # "idle" => visit[v].key \in Keys /\ visit[v].input \in Inputs
                                      /\ visit[v].entry \in Entry
           /\ visit[v].at \in {"run", "insert"} => visit[v].plan \in Codes
           /\ visit \in [Visitors -> Visit]
           /\ cache \in [CacheKeys -> Body \cup {None}]
BY DEF PublishOK, PublishTypeOK

LEMMA VisitStepOK ==
    ASSUME PublishOK, NEW v \in Visitors, VisitStep(v), trouble' \subseteq Troubles
    PROVE  Kept /\ PublishOK'
<1> DEFINE r == visit[v]
<1>1. /\ r \in Visit
      /\ r.at # "idle" => r.key \in Keys /\ r.input \in Inputs /\ r.entry \in Entry
      /\ r.at \in {"run", "insert"} => r.plan \in Codes
      /\ visit \in [Visitors -> Visit] /\ cache \in [CacheKeys -> Body \cup {None}]
  BY VisitFields
<1>2. ASSUME NEW at \in {"plan", "insert"}, r.at # "idle", at = "insert" => r.plan \in Codes,
             Seen(v, at), Serves, UNCHANGED cache
      PROVE  Kept /\ PublishOK'
  <2> DEFINE n == [visit[v] EXCEPT !.at = at]
  <2>1. visit' = [visit EXCEPT ![v] = n] BY <1>1, <1>2 DEF Seen
  <2>2. n \in Visit /\ n.at = at /\ n.key = r.key /\ n.input = r.input /\ n.entry = r.entry
        /\ n.plan = r.plan
    BY <1>1 DEF Visit, VisitAt
  <2> HIDE DEF n
  <2> QED BY <1>1, <1>2, <2>1, <2>2, VisitMoves DEF Serves
<1>3. ASSUME Answer(v), Serves, cache' \in [CacheKeys -> Body \cup {None}]
      PROVE  Kept /\ PublishOK'
  BY <1>3, IdleVisitType, VisitMoves DEF Answer, Serves
<1>4. CASE LookUp(v) BY <1>1, <1>2, <1>3, <1>4 DEF LookUp
<1>5. CASE TakePlan(v)
  <2>1. CASE Answer(v) BY <1>1, <1>3, <1>5, <2>1 DEF TakePlan
  <2>2. CASE /\ plans[r.entry.graph] # None
             /\ visit' = [visit EXCEPT ![v].at = "run", ![v].plan = plans[r.entry.graph]]
    <3>1. r.entry.graph \in Graphs BY <1>1, <1>5 DEF TakePlan, Entry
    <3> PICK plan \in Codes : plan = plans[r.entry.graph]
      BY <2>2, <3>1 DEF PublishOK, PublishTypeOK, Source
    <3> DEFINE n == [visit[v] EXCEPT !.at = "run", !.plan = plan]
    <3>2. visit' = [visit EXCEPT ![v] = n] BY <1>1, <2>2
    <3>3. n \in Visit /\ n.at = "run" /\ n.key = r.key /\ n.input = r.input
          /\ n.entry = r.entry /\ n.plan = plan
      BY <1>1 DEF Visit, VisitAt, Source
    <3> HIDE DEF n
    <3> QED BY <1>1, <1>5, <3>2, <3>3, VisitMoves DEF Serves, TakePlan
  <2> QED BY <1>5, <2>1, <2>2 DEF TakePlan
<1>6. CASE RunGraph(v) BY <1>1, <1>2, <1>3, <1>6 DEF RunGraph
<1>7. CASE InsertBody(v)
  <2>1. r.at = "insert" BY <1>7 DEF InsertBody
  <2>2. /\ CacheKey(v) \in CacheKeys
        /\ [graph |-> r.entry.graph, code |-> r.plan, input |-> r.input] \in Body
    BY <1>1, <2>1 DEF CacheKey, CacheKeys, Keys, Body, Entry
  <2> QED BY <1>1, <1>3, <1>7, <2>2 DEF InsertBody
<1> QED BY <1>4, <1>5, <1>6, <1>7 DEF VisitStep

LEMMA RequestOK ==
    ASSUME PublishOK, NEW v \in Visitors, NEW p \in Paths, NEW m \in Methods, NEW i \in Inputs,
           Request(v, p, m, i), trouble' \subseteq Troubles
    PROVE  Kept /\ PublishOK'
<1>1. <<p, m>> \in Keys BY DEF Keys
<1> PICK e \in Entry : e = routes[<<p, m>>]
  BY <1>1 DEF PublishOK, PublishTypeOK, Request
<1> DEFINE n == [IdleVisit EXCEPT !.key = <<p, m>>, !.input = i, !.entry = e,
                                  !.at = IF Cached(e.code) THEN "lookup" ELSE "plan"]
<1>2. n \in Visit /\ n.at \in {"lookup", "plan"} /\ n.key \in Keys /\ n.input \in Inputs
      /\ n.entry \in Entry
  BY <1>1 DEF IdleVisit, Visit, VisitAt, Source
<1>3. visit' = [visit EXCEPT ![v] = n] BY DEF Request
<1> HIDE DEF n
<1> QED BY <1>2, <1>3, VisitFields, VisitMoves DEF Request, Serves

LEMMA ExpireOK ==
    ASSUME PublishOK, NEW k \in CacheKeys, Expire(k), trouble' \subseteq Troubles
    PROVE  Kept /\ PublishOK'
<1>1. /\ Kept /\ StoreOK'
      /\ admin' \in [Workers -> Admin] /\ \A a \in Workers : AdminPlaced(a)'
  BY AdminsStay DEF Expire, Serves
<1>2. PublishTypeOK'
  BY <1>1 DEF PublishOK, PublishTypeOK, StoreOK, Troubles, Expire, Serves
<1> QED BY <1>1, <1>2 DEF PublishOK, StoreOK

LEMMA ProcessOK ==
    ASSUME PublishOK, StartServer \/ KillServer, trouble' \subseteq Troubles
    PROVE  Kept /\ PublishOK'
<1>1. UNCHANGED <<row, vers>> BY DEF StartServer, KillServer
<1>2. StoreOK' /\ Kept BY <1>1, UnchangedKept DEF PublishOK, PublishTypeOK, StoreOK
<1>3. CASE StartServer
  <2>1. Boot \in Workers BY DEF Workers
  <2>2. RestTyped
    BY <1>3 DEF StartServer, RestTyped, tables, PublishOK, PublishTypeOK, ServerAt
  <2> QED BY <1>1, <1>2, <1>3, <2>1, <2>2, UnchangedCreates, Refreshes DEF StartServer, Refresh
<1>4. CASE KillServer
  <2>1. \A a \in Workers : AdminPlaced(a)'
    BY <1>4 DEF KillServer, AdminPlaced, IdleAdmin, Unlisted, Changes
  <2>2. PublishTypeOK'
    BY <1>2, <1>4, IdleAdminType, IdleVisitType
    DEF KillServer, PublishTypeOK, StoreOK, Unbuilt, NothingCached, Source, Troubles
  <2> QED BY <1>2, <2>1, <2>2 DEF PublishOK, StoreOK
<1> QED BY <1>3, <1>4


LEMMA PublishStepOK ==
    ASSUME PublishOK, PublishNext
    PROVE  Kept /\ PublishOK'
<1>1. trouble' \subseteq Troubles
  BY DEF PublishNext, PublishOK, PublishTypeOK, Troubles
<1>2. Admins \subseteq Workers BY DEF Workers
<1>3. ASSUME NEW a \in Admins, StartAdmin(a) PROVE Kept /\ PublishOK'
  <2>1. UNCHANGED <<row, vers>>
    BY <1>3 DEF StartAdmin, StartCreate, StartUpdate, StartVersion
  <2> QED BY <1>1, <1>3, <2>1, StartsOK, UnchangedKept
<1> QED BY <1>1, <1>2, <1>3, AdminStepOK, VisitStepOK, RequestOK, ExpireOK, ProcessOK
        DEF PublishNext

-----------------------------------------------------------------------------
(* Requests to execute a graph *)

CallsOK ==
    /\ RegistryTypeOK
    /\ \A c \in Callers : FetchedRight(c)
    /\ RunsWhatItResolved

\* What a request fetches, and what its executors run, is what versions record.
FetchOK(r, versions) ==
    r.at \in Fetching =>
        /\ versions[r.got.g][r.got.version].code = r.got.code
        /\ r.at \in {"insert", "fetched"} => r.got.plan = r.got.code
FramesOK(r, versions) ==
    \A k \in 2..Len(r.stack) :
        r.stack[k].plan = versions[r.stack[k].g][r.stack[k].version].code

CacheTyped(held) == held \in [Graphs -> {None} \cup [version : Versions, plan : Codes]]
CacheOK(held, versions) ==
    \A g \in Graphs : held[g] # None => held[g].plan = versions[g][held[g].version].code

LEMMA CallFields ==
    ASSUME CallsOK, NEW c \in Callers
    PROVE  /\ call[c] \in Call /\ LocalsSet(call[c]) /\ Len(call[c].stack) <= MaxDepth
           /\ FetchOK(call[c], vers) /\ FramesOK(call[c], vers)
           /\ call \in [Callers -> Call] /\ CacheTyped(planCache) /\ CacheOK(planCache, vers)
BY DEF CallsOK, RegistryTypeOK, FetchedRight, RunsWhatItResolved, FetchOK, FramesOK,
       CacheTyped, CacheOK, Recorded

\* What is stored is kept: what the requests and the cache hold stays right.
LEMMA CallsKept ==
    ASSUME CallsOK, Kept, None \notin Codes
    PROVE  /\ CacheOK(planCache, vers')
           /\ \A c \in Callers : FetchOK(call[c], vers') /\ FramesOK(call[c], vers')
<1>1. CacheOK(planCache, vers')
  <2> SUFFICES ASSUME NEW g \in Graphs, planCache[g] # None
               PROVE  planCache[g].plan = vers'[g][planCache[g].version].code
    BY DEF CacheOK
  <2>1. planCache[g].version \in Versions /\ planCache[g].plan \in Codes
        /\ planCache[g].plan = vers[g][planCache[g].version].code
    BY DEF CallsOK, RegistryTypeOK, RunsWhatItResolved
  <2> QED BY <2>1 DEF Kept
<1>2. ASSUME NEW c \in Callers PROVE FetchOK(call[c], vers') /\ FramesOK(call[c], vers')
  <2>1. /\ call[c] \in Call /\ LocalsSet(call[c])
        /\ FetchOK(call[c], vers) /\ FramesOK(call[c], vers)
    BY CallFields
  <2>2. FetchOK(call[c], vers')
    BY <2>1 DEF FetchOK, LocalsSet, Kept
  <2>3. FramesOK(call[c], vers')
    <3> SUFFICES ASSUME NEW k \in 2..Len(call[c].stack)
                 PROVE  call[c].stack[k].plan =
                          vers'[call[c].stack[k].g][call[c].stack[k].version].code
      BY DEF FramesOK
    <3>1. call[c].stack \in Seq(Executor) BY <2>1 DEF Call
    <3>2. call[c].stack[k] \in Executor BY <3>1
    <3> QED BY <2>1, <3>2 DEF FramesOK, Kept, Executor
  <2> QED BY <2>2, <2>3
<1> QED BY <1>1, <1>2

\* One request moves.
LEMMA CallMoves ==
    ASSUME CallsOK, Kept, None \notin Codes, NEW c \in Callers, NEW r \in Call,
           call' = [call EXCEPT ![c] = r], LocalsSet(r), Len(r.stack) <= MaxDepth,
           FetchOK(r, vers'), FramesOK(r, vers'),
           CacheTyped(planCache'), CacheOK(planCache', vers'), changed' \subseteq Callers
    PROVE  CallsOK'
<1>1. /\ call' \in [Callers -> Call] /\ call'[c] = r
      /\ \A d \in Callers \ {c} : call'[d] = call[d]
  BY DEF CallsOK, RegistryTypeOK
<1>2. \A d \in Callers : /\ call'[d] \in Call /\ LocalsSet(call'[d])
                         /\ Len(call'[d].stack) <= MaxDepth
                         /\ FetchOK(call'[d], vers') /\ FramesOK(call'[d], vers')
  BY <1>1, CallsKept DEF CallsOK, RegistryTypeOK
<1>3. RegistryTypeOK'
  BY <1>1, <1>2 DEF RegistryTypeOK, CacheTyped, LocalsSet
<1>4. RunsWhatItResolved'
  BY <1>2 DEF RunsWhatItResolved, FramesOK, CacheOK
<1>5. ASSUME NEW d \in Callers PROVE FetchedRight(d)'
  <2>1. FetchOK(call'[d], vers') /\ LocalsSet(call'[d]) BY <1>2
  <2> QED BY <2>1 DEF FetchedRight, FetchOK, Recorded, LocalsSet
<1> QED BY <1>3, <1>4, <1>5 DEF CallsOK

LEMMA CallsStay ==
    ASSUME CallsOK, Kept, None \notin Codes, UNCHANGED <<planCache, call>>,
           changed' \subseteq Callers
    PROVE  CallsOK'
<1>1. \A d \in Callers : FetchOK(call'[d], vers') /\ FramesOK(call'[d], vers')
  BY CallsKept
<1>2. RegistryTypeOK'
  BY DEF CallsOK, RegistryTypeOK, LocalsSet
<1>3. RunsWhatItResolved'
  BY <1>1, CallsKept DEF RunsWhatItResolved, FramesOK, CacheOK
<1>4. ASSUME NEW d \in Callers PROVE FetchedRight(d)'
  <2>1. FetchOK(call'[d], vers') BY <1>1
  <2> QED BY <2>1 DEF FetchedRight, FetchOK, Recorded, CallsOK
<1> QED BY <1>2, <1>3, <1>4 DEF CallsOK

LEMMA IdleCallType ==
    /\ IdleCall \in Call /\ LocalsSet(IdleCall) /\ Len(IdleCall.stack) <= MaxDepth
    /\ \A versions : FetchOK(IdleCall, versions) /\ FramesOK(IdleCall, versions)
<1>1. Nothing \in Fetched
  BY ServerStoreAssumption DEF Nothing, Fetched, Source
<1>2. IdleCall \in Call
  BY <1>1 DEF IdleCall, Call, CallAt
<1>3. LocalsSet(IdleCall) /\ Len(IdleCall.stack) <= MaxDepth
  BY RegistryAssumption DEF IdleCall, LocalsSet, Fetching
<1> QED BY <1>2, <1>3 DEF FetchOK, FramesOK, IdleCall, Fetching

LEMMA CallsLostOK ==
    ASSUME CallsLost, changed' \subseteq Callers
    PROVE  CallsOK'
<1>1. \A c \in Callers : call'[c] = IdleCall BY DEF CallsLost
<1>2. RegistryTypeOK'
  BY <1>1, IdleCallType DEF CallsLost, RegistryTypeOK, LocalsSet
<1>3. RunsWhatItResolved'
  BY <1>1 DEF CallsLost, RunsWhatItResolved, IdleCall
<1>4. \A c \in Callers : FetchedRight(c)'
  BY <1>1 DEF FetchedRight, IdleCall, Fetching
<1> QED BY <1>2, <1>3, <1>4 DEF CallsOK

\* A step that stores nothing and leaves the cache alone.
LEMMA CallGoes ==
    ASSUME CallsOK, None \notin Codes, UNCHANGED <<row, vers, planCache>>,
           NEW c \in Callers, NEW r \in Call,
           call' = [call EXCEPT ![c] = r], LocalsSet(r), Len(r.stack) <= MaxDepth,
           FetchOK(r, vers), FramesOK(r, vers), changed' \subseteq Callers
    PROVE  CallsOK'
<1>1. Kept BY UnchangedKept
<1>2. CacheTyped(planCache') /\ CacheOK(planCache', vers')
  BY <1>1, CallsKept DEF CallsOK, RegistryTypeOK, CacheTyped
<1> QED BY <1>1, <1>2, CallMoves

\* Only the position changes, to one where nothing more is known.
LEMMA GoesOK ==
    ASSUME CallsOK, None \notin Codes, UNCHANGED <<row, vers, planCache>>,
           NEW c \in Callers, changed' \subseteq Callers, call[c].at # "idle",
           NEW at \in CallAt \ {"idle"}, Goes(c, at),
           at \in Fetching => call[c].at \in Fetching /\ at \notin {"insert", "fetched"},
           at \in {"frame", "calls"} => call[c].checked,
           at = "walk" => Len(call[c].stack) < MaxDepth /\ Top(c).calls # <<>>
    PROVE  CallsOK'
<1> DEFINE r == [call[c] EXCEPT !.at = at]
<1>1. /\ call[c] \in Call /\ LocalsSet(call[c]) /\ Len(call[c].stack) <= MaxDepth
      /\ FetchOK(call[c], vers) /\ FramesOK(call[c], vers) /\ call \in [Callers -> Call]
  BY CallFields
<1>2. call' = [call EXCEPT ![c] = r] BY <1>1 DEF Goes
<1>3. /\ r \in Call /\ r.at = at /\ r.checked = call[c].checked /\ r.root = call[c].root
      /\ r.names = call[c].names /\ r.stack = call[c].stack /\ r.got = call[c].got
  BY <1>1 DEF Call
<1> HIDE DEF r
<1>4. LocalsSet(r) BY <1>1, <1>3 DEF LocalsSet, Fetching, Top
<1>5. FetchOK(r, vers) /\ FramesOK(r, vers) BY <1>1, <1>3 DEF FetchOK, FramesOK
<1> QED BY <1>1, <1>2, <1>3, <1>4, <1>5, CallGoes

LEMMA ExecuteOK ==
    ASSUME CallsOK, StoreOK, NEW c \in Callers, NEW g \in Graphs, Execute(c, g),
           changed' \subseteq Callers
    PROVE  CallsOK'
<1>1. /\ row[g].version \in Versions /\ row[g].version \in 0..MaxVersion
      /\ row[g].plan \in Codes /\ row[g].code \in Source /\ None \notin Codes
      /\ row[g].plan \in Source
  BY StoreFields DEF Execute, Exists, StoreOK, Versions, Source
<1> DEFINE root == [g |-> g, version |-> row[g].version, code |-> row[g].code,
                    plan |-> row[g].plan]
<1>2. root \in Fetched /\ root.g \in Graphs /\ root.version \in Versions /\ root.plan \in Codes
  BY <1>1 DEF Fetched
<1>3. call' = [call EXCEPT ![c] = [IdleCall EXCEPT !.at = "walk", !.names = <<NameOf[g]>>,
                                                   !.root = root]]
  BY DEF Execute
<1> HIDE DEF root
<1> DEFINE r == [IdleCall EXCEPT !.at = "walk", !.names = <<NameOf[g]>>, !.root = root]
<1>4. /\ r \in Call /\ r.at = "walk" /\ ~r.checked /\ r.root = root /\ r.stack = <<>>
  <2>1. <<NameOf[g]>> \in Seq(Names) /\ "walk" \in CallAt BY DEF Names, CallAt
  <2>2. IdleCall \in Call /\ ~IdleCall.checked /\ IdleCall.stack = <<>>
    BY IdleCallType DEF IdleCall
  <2> QED BY <1>2, <2>1, <2>2 DEF Call
<1>5. call' = [call EXCEPT ![c] = r] BY <1>3
<1> HIDE DEF r
<1>6. LocalsSet(r) BY <1>2, <1>4 DEF LocalsSet, Fetching
<1>7. FetchOK(r, vers) /\ FramesOK(r, vers) /\ Len(r.stack) <= MaxDepth
  BY <1>4, RegistryAssumption DEF FetchOK, FramesOK, Fetching
<1> QED BY <1>1, <1>4, <1>5, <1>6, <1>7, CallGoes DEF Execute

LEMMA ResolveOK ==
    ASSUME CallsOK, StoreOK, NEW c \in Callers, Resolve(c), changed' \subseteq Callers
    PROVE  CallsOK'
<1>1. /\ call[c] \in Call /\ LocalsSet(call[c]) /\ Len(call[c].stack) <= MaxDepth
      /\ FetchOK(call[c], vers) /\ FramesOK(call[c], vers) /\ call \in [Callers -> Call]
      /\ call[c].at = "walk" /\ None \notin Codes /\ UNCHANGED <<row, vers, planCache>>
      /\ call[c].checked \/ call[c].names # <<>>
  BY CallFields, IdleAdminType DEF Resolve
<1>2. CASE Goes(c, "failed")
  BY <1>1, <1>2, GoesOK DEF CallAt, Fetching
<1>3. CASE call' = [call EXCEPT ![c].names = Tail(@)] /\ ~call[c].checked
  <2> DEFINE r == [call[c] EXCEPT !.names = Tail(@)]
  <2>1. call' = [call EXCEPT ![c] = r] BY <1>1, <1>3
  <2>2. call[c].names \in Seq(Names) /\ call[c].names # <<>> BY <1>1, <1>3 DEF Call
  <2>3. Tail(call[c].names) \in Seq(Names) BY <2>2
  <2>4. /\ r \in Call /\ r.at = "walk" /\ ~r.checked /\ r.root = call[c].root
        /\ r.stack = call[c].stack
    BY <1>1, <1>3, <2>3 DEF Call
  <2> HIDE DEF r
  <2>5. LocalsSet(r) BY <1>1, <2>4 DEF LocalsSet, Fetching
  <2>6. FetchOK(r, vers) /\ FramesOK(r, vers) BY <1>1, <2>4 DEF FetchOK, FramesOK, Fetching
  <2> QED BY <1>1, <2>1, <2>4, <2>5, <2>6, CallGoes
<1>4. ASSUME NEW g \in FindByName(Wanted(c)),
             call' = [call EXCEPT ![c].at = "lookup",
                         ![c].got = [g |-> g, version |-> row[g].version,
                                     code |-> row[g].code, plan |-> None]]
      PROVE  CallsOK'
  <2>1. g \in Graphs /\ Exists(g) BY DEF FindByName, Existing
  <2>2. /\ row[g].version \in Versions /\ row[g].version \in 0..MaxVersion
        /\ row[g].code = vers[g][row[g].version].code
    BY <2>1, StoreFields DEF StoreOK, StoreOrdered, Exists, Versions
  <2>3. row[g].code \in Codes
    BY <2>1, <2>2, StoreFields DEF StoreOK, StoreOrdered, Stored, Source
  <2> DEFINE got == [g |-> g, version |-> row[g].version, code |-> row[g].code, plan |-> None]
             r == [call[c] EXCEPT !.at = "lookup", !.got = got]
  <2>4. call' = [call EXCEPT ![c] = r] BY <1>1, <1>4
  <2>5. /\ got \in Fetched /\ got.g = g /\ got.version = row[g].version
        /\ got.code = row[g].code
    BY <2>1, <2>2, <2>3 DEF Fetched, Source
  <2> HIDE DEF got
  <2>6. /\ r \in Call /\ r.at = "lookup" /\ r.checked = call[c].checked
        /\ r.root = call[c].root /\ r.names = call[c].names /\ r.stack = call[c].stack
        /\ r.got = got
    <3>1. "lookup" \in CallAt BY DEF CallAt
    <3> QED BY <1>1, <2>5, <3>1 DEF Call
  <2> HIDE DEF r
  <2>7. LocalsSet(r) BY <1>1, <2>1, <2>2, <2>3, <2>5, <2>6 DEF LocalsSet, Fetching
  <2>8. FetchOK(r, vers) /\ FramesOK(r, vers)
    BY <1>1, <2>1, <2>2, <2>5, <2>6 DEF FetchOK, FramesOK
  <2> QED BY <1>1, <2>4, <2>6, <2>7, <2>8, CallGoes
<1> QED BY <1>2, <1>3, <1>4 DEF Resolve


\* The plan of what was resolved has been found or compiled.
LEMMA TakesPlan ==
    ASSUME CallsOK, Kept, None \notin Codes, UNCHANGED planCache, changed' \subseteq Callers,
           NEW c \in Callers, call[c].at \in {"lookup", "load", "heal"},
           NEW at \in {"insert", "fetched"}, NEW plan, plan = call[c].got.code,
           call' = [call EXCEPT ![c].at = at, ![c].got.plan = plan]
    PROVE  CallsOK'
<1>1. /\ call[c] \in Call /\ LocalsSet(call[c]) /\ Len(call[c].stack) <= MaxDepth
      /\ call \in [Callers -> Call] /\ call[c].at \in Fetching
  BY CallFields DEF Fetching
<1>2. /\ FetchOK(call[c], vers') /\ FramesOK(call[c], vers')
      /\ CacheTyped(planCache') /\ CacheOK(planCache', vers')
  BY CallsKept DEF CallsOK, RegistryTypeOK, CacheTyped
<1>3. /\ call[c].got \in Fetched /\ call[c].got.g \in Graphs
      /\ call[c].got.version \in Versions /\ call[c].got.code \in Codes
  BY <1>1 DEF LocalsSet, Call
<1> DEFINE got == [call[c].got EXCEPT !.plan = plan]
<1>4. got \in Fetched /\ got.g = call[c].got.g /\ got.version = call[c].got.version
      /\ got.code = call[c].got.code /\ got.plan = plan
  BY <1>3 DEF Fetched, Source
<1> DEFINE r == [call[c] EXCEPT !.at = at, !.got = got]
<1>5. call' = [call EXCEPT ![c] = r] BY <1>1
<1> HIDE DEF got
<1>6. /\ r \in Call /\ r.at = at /\ r.checked = call[c].checked /\ r.root = call[c].root
      /\ r.names = call[c].names /\ r.stack = call[c].stack /\ r.got = got
  <2>1. at \in CallAt BY DEF CallAt
  <2> QED BY <1>1, <1>4, <2>1 DEF Call
<1> HIDE DEF r
<1>7. LocalsSet(r) BY <1>1, <1>3, <1>4, <1>6 DEF LocalsSet, Fetching
<1>8. FetchOK(r, vers') /\ FramesOK(r, vers')
  BY <1>1, <1>2, <1>4, <1>6 DEF FetchOK, FramesOK, Fetching
<1> QED BY <1>1, <1>2, <1>5, <1>6, <1>7, <1>8, CallMoves

LEMMA LookupOK ==
    ASSUME CallsOK, StoreOK, NEW c \in Callers, Lookup(c), changed' \subseteq Callers
    PROVE  CallsOK'
<1>1. /\ call[c] \in Call /\ LocalsSet(call[c]) /\ FetchOK(call[c], vers)
      /\ call[c].at = "lookup" /\ None \notin Codes /\ UNCHANGED <<row, vers, planCache>>
      /\ CacheOK(planCache, vers)
  BY CallFields, IdleAdminType DEF Lookup
<1>2. CASE Goes(c, "load") BY <1>1, <1>2, GoesOK DEF CallAt, Fetching
<1> DEFINE held == planCache[call[c].got.g]
<1>3. CASE /\ held # None /\ held.version = call[c].got.version
           /\ call' = [call EXCEPT ![c].at = "fetched", ![c].got.plan = held.plan]
  <2>1. held.plan = call[c].got.code
    BY <1>1, <1>3 DEF LocalsSet, FetchOK, CacheOK, Fetching
  <2> HIDE DEF held
  <2> QED BY <1>1, <1>3, <2>1, TakesPlan, UnchangedKept
<1> QED BY <1>2, <1>3 DEF Lookup

LEMMA LoadVersionOK ==
    ASSUME CallsOK, StoreOK, NEW c \in Callers, LoadVersion(c), changed' \subseteq Callers
    PROVE  CallsOK'
<1>1. /\ call[c] \in Call /\ LocalsSet(call[c]) /\ FetchOK(call[c], vers)
      /\ call[c].at = "load" /\ None \notin Codes /\ UNCHANGED <<row, vers, planCache>>
  BY CallFields, IdleAdminType DEF LoadVersion
<1>2. CASE Goes(c, "heal") BY <1>1, <1>2, GoesOK DEF CallAt, Fetching
<1> DEFINE plan == vers[call[c].got.g][call[c].got.version].plan
<1>3. CASE /\ plan # None
           /\ call' = [call EXCEPT ![c].at = "insert", ![c].got.plan = plan]
  <2>1. plan = call[c].got.code
    BY <1>1, <1>3 DEF LocalsSet, FetchOK, Fetching, StoreOK, StoreOrdered
  <2> HIDE DEF plan
  <2> QED BY <1>1, <1>3, <2>1, TakesPlan, UnchangedKept
<1> QED BY <1>2, <1>3 DEF LoadVersion

\* The requests that change graphs stay where they were placed.
LEMMA AdminsKept ==
    ASSUME PublishOK, Kept, UNCHANGED admin, \A g \in Graphs : ~Exists(g) => ~Exists(g)',
           NEW a \in Workers
    PROVE  AdminPlaced(a)'
<1>1. /\ AdminPlaced(a) /\ None \notin Codes /\ None \notin Graphs
      /\ admin[a].version \in 0..MaxVersion
  BY AdminFields, IdleAdminType
<1>2. \A g \in Graphs : admin'[a].listed[g].version # 0 =>
         /\ admin'[a].listed[g].version \in Versions /\ admin'[a].listed[g].code \in Codes
         /\ vers'[g][admin'[a].listed[g].version].code = admin'[a].listed[g].code
  BY <1>1, ListedKept
<1>3. admin'[a] = admin[a] OBVIOUS
<1>4. admin[a].at = "create" =>
        /\ admin[a].g \in Graphs /\ row'[admin[a].g].version = 0 /\ admin[a].code \in Codes
        /\ admin[a].version = 1 /\ 1 \in Versions
        /\ \A b \in Workers \ {a} : admin[b].g # admin[a].g
  BY <1>1 DEF AdminPlaced, Exists
<1>5. admin[a].at \in {"update", "deploy", "rollback", "save", "heal"} =>
        admin[a].g \in Graphs /\ row'[admin[a].g].version # 0
  BY <1>1 DEF AdminPlaced, Exists, Kept
<1>6. admin[a].at = "save" =>
        /\ admin[a].version \in Versions /\ admin[a].code \in Codes
        /\ vers'[admin[a].g][admin[a].version].code = admin[a].code
  BY <1>1 DEF AdminPlaced, Recorded, Kept
<1>7. admin[a].at \in {"deploy", "rollback"} =>
        admin[a].version \in Versions /\ vers'[admin[a].g][admin[a].version].plan # None
  BY <1>1 DEF AdminPlaced, Kept
<1> QED BY <1>1, <1>2, <1>3, <1>4, <1>5, <1>6, <1>7 DEF AdminPlaced, Recorded, Exists

LEMMA HealVersionOK ==
    ASSUME CallsOK, PublishOK, NEW c \in Callers, HealVersion(c), changed' \subseteq Callers,
           UNCHANGED <<server, plans, routes, cache, admin, visit>>, trouble' \subseteq Troubles
    PROVE  CallsOK' /\ PublishOK'
<1>1. /\ call[c] \in Call /\ LocalsSet(call[c]) /\ FetchOK(call[c], vers)
      /\ call[c].at = "heal" /\ None \notin Codes /\ UNCHANGED planCache
  BY CallFields, IdleAdminType DEF HealVersion
<1> PICK g \in Graphs, v \in Versions, code \in Codes :
       g = call[c].got.g /\ v = call[c].got.version /\ code = call[c].got.code
  BY <1>1 DEF LocalsSet, Fetching
<1>2. /\ SavePlan(g, v, code) /\ Recorded(g, v, code)
      /\ call' = [call EXCEPT ![c].at = "insert", ![c].got.plan = code]
  BY <1>1 DEF HealVersion, FetchOK, Recorded, Fetching
<1>3. StoreOK BY DEF PublishOK, PublishTypeOK, StoreOK
<1>4. Exists(g)
  <2>1. code # None /\ v \in Versions /\ vers[g][v].code = code BY <1>1, <1>2 DEF Recorded
  <2>2. v <= row[g].version BY <1>3, <2>1 DEF StoreOK, StoreOrdered, Stored
  <2>3. row[g].version \in Nat BY <1>3, StoreFields DEF StoreOK
  <2> QED BY <2>1, <2>2, <2>3 DEF Exists, Versions
<1>5. StoreOK' /\ Kept /\ Exists(g)' /\ \A h \in Graphs \ {g} : row'[h] = row[h]
  BY <1>2, <1>3, <1>4, SaveKeeps
<1>6. \A h \in Graphs : ~Exists(h) => ~Exists(h)' BY <1>4, <1>5 DEF Exists
<1>7. PublishOK'
  <2>1. PublishTypeOK'
    BY <1>5 DEF PublishOK, PublishTypeOK, StoreOK, Troubles
  <2>2. \A a \in Workers : AdminPlaced(a)' BY <1>5, <1>6, AdminsKept
  <2> QED BY <1>5, <2>1, <2>2 DEF PublishOK, StoreOK
<1>8. CallsOK' BY <1>1, <1>2, <1>5, TakesPlan
<1> QED BY <1>7, <1>8

LEMMA InsertPlanOK ==
    ASSUME CallsOK, NEW c \in Callers, InsertPlan(c), changed' \subseteq Callers
    PROVE  CallsOK'
<1>1. /\ call[c] \in Call /\ LocalsSet(call[c]) /\ Len(call[c].stack) <= MaxDepth
      /\ FetchOK(call[c], vers) /\ FramesOK(call[c], vers) /\ call \in [Callers -> Call]
      /\ CacheTyped(planCache) /\ CacheOK(planCache, vers)
      /\ call[c].at = "insert" /\ None \notin Codes /\ UNCHANGED <<row, vers>>
  BY CallFields, IdleAdminType DEF InsertPlan
<1>2. /\ call[c].got.g \in Graphs /\ call[c].got.version \in Versions
      /\ call[c].got.plan \in Codes
      /\ call[c].got.plan = vers[call[c].got.g][call[c].got.version].code
  BY <1>1 DEF LocalsSet, Fetching, FetchOK
<1>3. CacheTyped(planCache') /\ CacheOK(planCache', vers')
  <2> DEFINE e == [version |-> call[c].got.version, plan |-> call[c].got.plan]
  <2>1. planCache' = [planCache EXCEPT ![call[c].got.g] = e] BY DEF InsertPlan
  <2>2. e \in [version : Versions, plan : Codes] BY <1>2
  <2>3. e.plan = vers[call[c].got.g][e.version].code BY <1>2
  <2> HIDE DEF e
  <2>4. CacheTyped(planCache') BY <1>1, <2>1, <2>2 DEF CacheTyped
  <2>5. CacheOK(planCache', vers)
    BY <1>1, <1>2, <2>1, <2>3 DEF CacheOK, CacheTyped
  <2> QED BY <1>1, <2>4, <2>5
<1> DEFINE r == [call[c] EXCEPT !.at = "fetched"]
<1>4. call' = [call EXCEPT ![c] = r] BY <1>1 DEF InsertPlan, Goes
<1>5. /\ r \in Call /\ r.at = "fetched" /\ r.checked = call[c].checked /\ r.root = call[c].root
      /\ r.names = call[c].names /\ r.stack = call[c].stack /\ r.got = call[c].got
  BY <1>1 DEF Call, CallAt
<1> HIDE DEF r
<1>6. LocalsSet(r) BY <1>1, <1>5 DEF LocalsSet, Fetching
<1>7. FetchOK(r, vers') /\ FramesOK(r, vers')
  BY <1>1, <1>5 DEF FetchOK, FramesOK, Fetching
<1> QED BY <1>1, <1>3, <1>4, <1>5, <1>6, <1>7, CallMoves, UnchangedKept


LEMMA CallsTyped == \A code \in Codes : CallsOf[code] \in Seq(Names)
BY RegistryAssumption DEF Names

LEMMA VisitGraphOK ==
    ASSUME CallsOK, NEW c \in Callers, VisitGraph(c), changed' \subseteq Callers
    PROVE  CallsOK'
<1>1. /\ call[c] \in Call /\ LocalsSet(call[c]) /\ Len(call[c].stack) <= MaxDepth
      /\ FramesOK(call[c], vers) /\ call \in [Callers -> Call]
      /\ call[c].at = "fetched" /\ ~call[c].checked
      /\ None \notin Codes /\ UNCHANGED <<row, vers, planCache>>
  BY CallFields, IdleAdminType DEF VisitGraph
<1>2. /\ call[c].got.g \in Graphs /\ call[c].got.plan \in Codes /\ call[c].names # <<>>
  BY <1>1 DEF LocalsSet, Fetching
<1> DEFINE visited == call[c].visited \cup {call[c].got.g}
           missing == call[c].missing \cup Lacks(<<>>, call[c].got.plan)
           names == CallsOf[call[c].got.plan] \o Tail(call[c].names)
           r == [call[c] EXCEPT !.at = "walk", !.got = Nothing, !.visited = visited,
                                !.missing = missing, !.names = names]
<1>3. call' = [call EXCEPT ![c] = r] BY <1>1 DEF VisitGraph
<1>4. visited \in SUBSET Graphs BY <1>1, <1>2 DEF Call
<1>5. missing \in SUBSET UNION {NeedsOf[code] : code \in Codes}
  BY <1>1, <1>2 DEF Call, Lacks
<1>6. names \in Seq(Names)
  <2>1. call[c].names \in Seq(Names) BY <1>1 DEF Call
  <2>2. Tail(call[c].names) \in Seq(Names) BY <1>2, <2>1
  <2>3. CallsOf[call[c].got.plan] \in Seq(Names) BY <1>2, CallsTyped
  <2> QED BY <2>2, <2>3
<1> HIDE DEF visited, missing, names
<1>7. /\ r \in Call /\ r.at = "walk" /\ ~r.checked /\ r.root = call[c].root
      /\ r.stack = call[c].stack
  <2>1. "walk" \in CallAt /\ Nothing \in Fetched
    BY ServerStoreAssumption DEF CallAt, Nothing, Fetched, Source
  <2> QED BY <1>1, <1>4, <1>5, <1>6, <2>1 DEF Call
<1> HIDE DEF r
<1>8. LocalsSet(r) BY <1>1, <1>7 DEF LocalsSet, Fetching
<1>9. FetchOK(r, vers) /\ FramesOK(r, vers) BY <1>1, <1>7 DEF FetchOK, FramesOK, Fetching
<1> QED BY <1>1, <1>3, <1>7, <1>8, <1>9, CallGoes

LEMMA AdmitOK ==
    ASSUME CallsOK, NEW c \in Callers, Admit(c), changed' \subseteq Callers
    PROVE  CallsOK'
<1>1. /\ call[c] \in Call /\ LocalsSet(call[c]) /\ call \in [Callers -> Call]
      /\ call[c].at = "walk" /\ ~call[c].checked
      /\ None \notin Codes /\ UNCHANGED <<row, vers, planCache>>
  BY CallFields, IdleAdminType DEF Admit
<1>2. CASE Goes(c, "refused") BY <1>1, <1>2, GoesOK DEF CallAt, Fetching
<1>3. CASE call' = [call EXCEPT ![c].at = "frame", ![c].checked = TRUE, ![c].visited = {},
                                ![c].stack = <<Frame(call[c].root, <<>>)>>]
  <2> DEFINE frame == Frame(call[c].root, <<>>)
             r == [call[c] EXCEPT !.at = "frame", !.checked = TRUE, !.visited = {},
                                  !.stack = <<frame>>]
  <2>1. call' = [call EXCEPT ![c] = r] BY <1>1, <1>3
  <2>2. frame \in Executor
    BY <1>1, CallsTyped DEF LocalsSet, Frame, Executor
  <2> HIDE DEF frame
  <2>3. <<frame>> \in Seq(Executor) /\ "frame" \in CallAt BY <2>2 DEF CallAt
  <2>4. /\ r \in Call /\ r.at = "frame" /\ r.checked /\ r.root = call[c].root
        /\ r.stack = <<frame>>
    BY <1>1, <2>3 DEF Call
  <2> HIDE DEF r
  <2>5. LocalsSet(r) BY <1>1, <2>4 DEF LocalsSet, Fetching
  <2>6. FetchOK(r, vers) /\ FramesOK(r, vers) /\ Len(r.stack) <= MaxDepth
    BY <2>4, RegistryAssumption DEF FetchOK, FramesOK, Fetching
  <2> QED BY <1>1, <2>1, <2>4, <2>5, <2>6, CallGoes
<1> QED BY <1>2, <1>3 DEF Admit

LEMMA RunSubgraphOK ==
    ASSUME CallsOK, NEW c \in Callers, RunSubgraph(c), changed' \subseteq Callers
    PROVE  CallsOK'
<1>1. /\ call[c] \in Call /\ LocalsSet(call[c]) /\ call \in [Callers -> Call]
      /\ FetchOK(call[c], vers) /\ FramesOK(call[c], vers)
      /\ call[c].at = "fetched" /\ call[c].checked
      /\ None \notin Codes /\ UNCHANGED <<row, vers, planCache>>
  BY CallFields, IdleAdminType DEF RunSubgraph
<1> DEFINE got == call[c].got  stack == call[c].stack
           top == stack[Len(stack)]
           frame == Frame(got, Append(top.scopes, Head(top.calls)))
           more == Append(stack, frame)
<1>2. /\ got.g \in Graphs /\ got.version \in Versions /\ got.plan \in Codes
      /\ got.plan = vers[got.g][got.version].code
      /\ stack \in Seq(Executor) /\ Len(stack) < MaxDepth /\ stack # <<>> /\ top.calls # <<>>
  BY <1>1 DEF LocalsSet, FetchOK, Fetching, Call
<1>3. top \in Executor BY <1>2
<1>4. frame \in Executor /\ frame.plan = got.plan /\ frame.g = got.g /\ frame.version = got.version
  <2> HIDE DEF top
  <2>0. top.scopes \in Seq(Names) /\ top.calls \in Seq(Names)
    BY <1>3 DEF Executor
  <2>1. Head(top.calls) \in Names BY <1>2, <2>0
  <2>2. Append(top.scopes, Head(top.calls)) \in Seq(Names) BY <2>0, <2>1
  <2>3. CallsOf[got.plan] \in Seq(Names) BY <1>2, CallsTyped
  <2> QED BY <1>2, <2>2, <2>3 DEF Frame, Executor
<1> DEFINE r == [call[c] EXCEPT !.at = "frame", !.got = Nothing, !.stack = more]
<1>5. call' = [call EXCEPT ![c] = r]
  BY <1>1 DEF RunSubgraph, Wanted, Top
<1> HIDE DEF frame
<1>6. /\ more \in Seq(Executor) /\ Len(more) = Len(stack) + 1 /\ more # <<>>
      /\ more[Len(stack) + 1] = frame /\ \A k \in 1..Len(stack) : more[k] = stack[k]
  BY <1>2, <1>4
<1> HIDE DEF more
<1>7. /\ r \in Call /\ r.at = "frame" /\ r.checked /\ r.root = call[c].root /\ r.stack = more
  <2>1. "frame" \in CallAt /\ Nothing \in Fetched
    BY ServerStoreAssumption DEF CallAt, Nothing, Fetched, Source
  <2> QED BY <1>1, <1>6, <2>1 DEF Call
<1> HIDE DEF r
<1>8. LocalsSet(r)
  <2>1. /\ r.root.g \in Graphs /\ r.root.version \in Versions /\ r.root.plan \in Codes
    BY <1>1, <1>7 DEF LocalsSet
  <2>2. \A k \in 1..(Len(stack) - 1) : stack[k].calls # <<>> BY <1>1 DEF LocalsSet
  <2>3. stack[Len(stack)].calls # <<>> BY <1>2
  <2> HIDE DEF stack
  <2>4. \A k \in 1..(Len(more) - 1) : more[k].calls # <<>>
    <3> PICK n \in Nat : n = Len(stack) BY <1>2
    <3> QED BY <1>6, <2>2, <2>3
  <2> QED BY <1>6, <1>7, <2>1, <2>4 DEF LocalsSet, Fetching
<1>9. Len(r.stack) <= MaxDepth BY <1>2, <1>6, <1>7, RegistryAssumption
<1>10. FetchOK(r, vers) BY <1>7 DEF FetchOK, Fetching
<1>11. FramesOK(r, vers)
  <2> SUFFICES ASSUME NEW k \in 2..Len(more)
               PROVE  more[k].plan = vers[more[k].g][more[k].version].code
    BY <1>7 DEF FramesOK
  <2>1. CASE k = Len(stack) + 1
    <3> HIDE DEF stack
    <3>1. more[k] = frame BY <1>6, <2>1
    <3>2. frame.plan = vers[frame.g][frame.version].code BY <1>2, <1>4
    <3> QED BY <3>1, <3>2
  <2>2. CASE k \in 2..Len(stack)
    <3>1. k \in 1..Len(stack) BY <1>2, <2>2
    <3>2. stack[k].plan = vers[stack[k].g][stack[k].version].code
      BY <1>1, <2>2 DEF FramesOK
    <3> HIDE DEF stack
    <3>3. more[k] = stack[k] BY <1>6, <3>1
    <3> QED BY <3>2, <3>3
  <2> QED BY <1>2, <1>6, <2>1, <2>2
<1> QED BY <1>1, <1>5, <1>7, <1>8, <1>9, <1>10, <1>11, CallGoes

LEMMA ReturnedFrames ==
    ASSUME NEW stack \in Seq(Executor), stack # <<>>, Len(stack) # 1,
           \A k \in 1..(Len(stack) - 1) : stack[k].calls # <<>>
    PROVE  LET less == Returned(stack) IN
           /\ less \in Seq(Executor) /\ less # <<>> /\ Len(less) = Len(stack) - 1
           /\ Len(less) \in Nat /\ Len(stack) \in Nat
           /\ \A k \in 1..(Len(less) - 1) : less[k].calls # <<>>
           /\ \A k \in 1..Len(less) : /\ less[k].g = stack[k].g /\ less[k].plan = stack[k].plan
                                      /\ less[k].version = stack[k].version
<1>1. Len(stack) \in Nat \ {0} BY EmptySeq, Zenon
<1> PICK n \in Nat \ {0} : n = Len(stack) /\ n # 1 BY <1>1, Zenon
<1> PICK m \in Nat : m = n - 1 /\ m # 0 OBVIOUS
<1> DEFINE less == Returned(stack)
<1>2. less = [k \in 1..m |-> IF k = m THEN [stack[k] EXCEPT !.calls = Tail(@)] ELSE stack[k]]
  BY DEF Returned
<1> HIDE DEF less
<1>3. \A k \in 1..m : stack[k] \in Executor /\ stack[k].calls # <<>>
  BY <1>1
<1>4. ASSUME NEW k \in 1..m
      PROVE  /\ less[k] \in Executor /\ less[k].g = stack[k].g
             /\ less[k].plan = stack[k].plan /\ less[k].version = stack[k].version
             /\ k # m => less[k] = stack[k]
  <2>1. CASE k # m BY <1>2, <1>3, <2>1
  <2>2. CASE k = m
    <3>1. less[k] = [stack[k] EXCEPT !.calls = Tail(stack[k].calls)] BY <1>2, <2>2
    <3>2. stack[k].calls \in Seq(Names) /\ stack[k].calls # <<>> /\ stack[k] \in Executor
      BY <1>3 DEF Executor
    <3>3. Tail(stack[k].calls) \in Seq(Names) BY <3>2
    <3> QED BY <2>2, <3>1, <3>2, <3>3 DEF Executor
  <2> QED BY <2>1, <2>2
<1>5. less = [k \in 1..m |-> less[k]] BY <1>2
<1>6. less \in [1..m -> Executor] BY <1>4, <1>5
<1>7. less \in Seq(Executor) /\ Len(less) = m
  <2>1. less \in Seq(Executor) BY <1>6, SeqDef, SMTT(60)
  <2> QED BY <1>6, <2>1, LenProperties
<1>8. less # <<>> BY <1>7
<1> QED BY <1>1, <1>3, <1>4, <1>7, <1>8 DEF less

LEMMA FinishFrameOK ==
    ASSUME CallsOK, NEW c \in Callers, FinishFrame(c), changed' \subseteq Callers
    PROVE  CallsOK'
<1>1. /\ call[c] \in Call /\ LocalsSet(call[c]) /\ call \in [Callers -> Call]
      /\ FramesOK(call[c], vers) /\ Len(call[c].stack) <= MaxDepth
      /\ call[c].at = "calls" /\ call[c].checked
      /\ None \notin Codes /\ UNCHANGED <<row, vers, planCache>>
  BY CallFields, IdleAdminType DEF FinishFrame, LocalsSet
<1>2. CASE Goes(c, "completed") BY <1>1, <1>2, GoesOK DEF CallAt, Fetching
<1>3. CASE Len(call[c].stack) # 1 /\ call' = [call EXCEPT ![c].stack = Returned(@)]
  <2> DEFINE stack == call[c].stack
             less == Returned(stack)
             r == [call[c] EXCEPT !.stack = less]
  <2>1. /\ stack \in Seq(Executor) /\ stack # <<>>
        /\ \A k \in 1..(Len(stack) - 1) : stack[k].calls # <<>>
    BY <1>1 DEF LocalsSet, Call
  <2>2. call' = [call EXCEPT ![c] = r] BY <1>1, <1>3
  <2> HIDE DEF less
  <2>3. /\ less \in Seq(Executor) /\ less # <<>> /\ Len(less) = Len(stack) - 1
        /\ Len(less) \in Nat /\ Len(stack) \in Nat
        /\ \A k \in 1..(Len(less) - 1) : less[k].calls # <<>>
        /\ \A k \in 1..Len(less) : /\ less[k].g = stack[k].g /\ less[k].plan = stack[k].plan
                                   /\ less[k].version = stack[k].version
    BY <1>3, <2>1, ReturnedFrames DEF less
  <2>4. /\ r \in Call /\ r.at = "calls" /\ r.checked /\ r.root = call[c].root /\ r.stack = less
    BY <1>1, <2>3 DEF Call
  <2> HIDE DEF r
  <2>5. LocalsSet(r) /\ FetchOK(r, vers)
    BY <1>1, <2>3, <2>4 DEF LocalsSet, FetchOK, Fetching
  <2>6. Len(r.stack) <= MaxDepth
    BY <1>1, <2>3, <2>4, RegistryAssumption
  <2>7. FramesOK(r, vers)
    <3> SUFFICES ASSUME NEW k \in 2..Len(less)
                 PROVE  less[k].plan = vers[less[k].g][less[k].version].code
      BY <2>4 DEF FramesOK
    <3>1. k \in 2..Len(stack) /\ k \in 1..Len(less) BY <2>3
    <3>2. stack[k].plan = vers[stack[k].g][stack[k].version].code
      BY <1>1, <3>1 DEF FramesOK
    <3> HIDE DEF stack
    <3> QED BY <2>3, <3>1, <3>2
  <2> QED BY <1>1, <2>2, <2>4, <2>5, <2>6, <2>7, CallGoes
<1>4. Len(call[c].stack) = 1 => Goes(c, "completed") BY DEF FinishFrame
<1>5. Len(call[c].stack) # 1 => call' = [call EXCEPT ![c].stack = Returned(@)]
  BY DEF FinishFrame
<1> QED BY <1>2, <1>3, <1>4, <1>5

LEMMA CallStepOK ==
    ASSUME CallsOK, PublishOK, NEW c \in Callers,
           CallStep(c) \/ \E g \in Graphs : Execute(c, g), changed' \subseteq Callers,
           UNCHANGED <<server, plans, routes, cache, admin, visit>>, trouble' \subseteq Troubles
    PROVE  CallsOK' /\ PublishOK'
<1>1. StoreOK /\ call[c] \in Call /\ LocalsSet(call[c]) /\ call \in [Callers -> Call]
      /\ None \notin Codes
  BY CallFields, IdleAdminType DEF PublishOK, PublishTypeOK, StoreOK
<1>2. ASSUME UNCHANGED <<row, vers>> PROVE PublishOK'
  <2>1. /\ StoreOK' /\ \A a \in Workers : AdminPlaced(a)' BY <1>2, AdminsStay
  <2> QED BY <2>1 DEF PublishOK, PublishTypeOK, StoreOK, Troubles
<1>3. CASE ReadEnvironment(c)
  BY <1>1, <1>2, <1>3, GoesOK DEF ReadEnvironment, LocalsSet, CallAt, Fetching
<1>4. CASE CallSubgraph(c)
  <2>1. Len(call[c].stack) <= MaxDepth BY CallFields
  <2>2. Len(call[c].stack) \in Nat BY <1>1 DEF Call
  <2> QED BY <1>1, <1>2, <1>4, <2>1, <2>2, RegistryAssumption, GoesOK
          DEF CallSubgraph, CallAt, Fetching
<1>5. CASE EndCall(c)
  BY <1>1, <1>2, <1>5, IdleCallType, CallGoes DEF EndCall
<1>6. CASE \E g \in Graphs : Execute(c, g)
  BY <1>1, <1>2, <1>6, ExecuteOK DEF Execute
<1>7. CASE HealVersion(c) BY <1>7, HealVersionOK
<1>8. CASE Resolve(c) \/ Lookup(c) \/ LoadVersion(c) \/ InsertPlan(c) \/ VisitGraph(c)
           \/ Admit(c) \/ RunSubgraph(c) \/ FinishFrame(c)
  <2>1. UNCHANGED <<row, vers>>
    BY <1>8 DEF Resolve, Lookup, LoadVersion, InsertPlan, VisitGraph, Admit, RunSubgraph,
                FinishFrame
  <2> QED BY <1>1, <1>2, <1>8, <2>1, ResolveOK, LookupOK, LoadVersionOK, InsertPlanOK,
             VisitGraphOK, AdmitOK, RunSubgraphOK, FinishFrameOK
<1> QED BY <1>3, <1>4, <1>5, <1>6, <1>7, <1>8 DEF CallStep


-----------------------------------------------------------------------------
(* Requests to run code *)

\* Entries of the cache: of their type, with their own plans, one for a key.
PlansOK(s) ==
    /\ s \in Seq(DynEntry)
    /\ \A i \in 1..Len(s) : s[i].plan = s[i].code
    /\ \A i, j \in 1..Len(s) : s[i].key = s[j].key => i = j

DynamicOK == DynamicTypeOK /\ DynamicPlansSound /\ EntriesRight

LEMMA DynamicFields ==
    DynamicOK <=>
        /\ PlansOK(dynPlans) /\ Len(dynPlans) <= Capacity
        /\ running \in [Runners -> DynRun]
        /\ \A r \in Runners : /\ running[r].at # "idle" => running[r].code \in DynCodes
                              /\ running[r].at = "run" => running[r].plan = running[r].code
<1>1. ASSUME dynPlans \in Seq(DynEntry) PROVE DOMAIN dynPlans = 1..Len(dynPlans)
  BY <1>1
<1> QED BY <1>1 DEF DynamicOK, DynamicTypeOK, DynamicPlansSound, EntriesRight, PlansOK

LEMMA RoomMade ==
    ASSUME NEW s, PlansOK(s), Len(s) <= Capacity
    PROVE  LET room == IF Len(s) >= Capacity THEN Tail(s) ELSE s IN
           PlansOK(room) /\ Len(room) < Capacity
<1>1. s \in Seq(DynEntry) /\ Len(s) \in Nat BY DEF PlansOK
<1>2. CASE Len(s) >= Capacity
  <2>1. s # <<>>
    <3>1. Len(s) # 0 BY <1>1, <1>2, DynamicPlansAssumption
    <3> QED BY <3>1, EmptySeq
  <2>2. /\ Tail(s) \in Seq(DynEntry) /\ Len(Tail(s)) = Len(s) - 1
        /\ \A i \in 1..Len(Tail(s)) : Tail(s)[i] = s[i + 1] /\ i + 1 \in 1..Len(s)
    BY <1>1, <2>1, HeadTailProperties
  <2>3. PlansOK(Tail(s)) BY <1>1, <2>2 DEF PlansOK
  <2> QED BY <1>1, <1>2, <2>2, <2>3, DynamicPlansAssumption
<1>3. CASE ~(Len(s) >= Capacity)
  BY <1>1, <1>3, DynamicPlansAssumption
<1> QED BY <1>2, <1>3

LEMMA WithoutEntry ==
    ASSUME NEW s, PlansOK(s), NEW n \in Nat, n = Len(s), NEW i \in 1..n
    PROVE  LET w == SubSeq(s, 1, i - 1) \o SubSeq(s, i + 1, n) IN
           /\ PlansOK(w) /\ Len(w) = n - 1
           /\ \A k \in 1..Len(w) : w[k].key # s[i].key
<1>1. s \in Seq(DynEntry) BY DEF PlansOK
<1> DEFINE head == SubSeq(s, 1, i - 1)
           rest == SubSeq(s, i + 1, n)
           w == head \o rest
<1>2. /\ head \in Seq(DynEntry) /\ Len(head) = i - 1
      /\ \A k \in 1..(i - 1) : head[k] = s[k]
  BY <1>1, SubSeqProperties
<1>3. /\ rest \in Seq(DynEntry) /\ Len(rest) = n - i
      /\ \A k \in 1..(n - i) : rest[k] = s[k + i]
  BY <1>1, SubSeqProperties
<1> HIDE DEF head, rest
<1>4. /\ w \in Seq(DynEntry) /\ Len(w) = n - 1
      /\ \A k \in 1..(n - 1) : w[k] = IF k <= i - 1 THEN head[k] ELSE rest[k - (i - 1)]
  <2>1. /\ w \in Seq(DynEntry) /\ Len(w) = Len(head) + Len(rest)
        /\ \A k \in 1..(Len(head) + Len(rest)) :
             w[k] = IF k <= Len(head) THEN head[k] ELSE rest[k - Len(head)]
    BY <1>2, <1>3, ConcatProperties
  <2> HIDE DEF w
  <2>2. Len(head) + Len(rest) = n - 1 BY <1>2, <1>3
  <2> QED BY <1>2, <2>1, <2>2
<1> HIDE DEF w
<1> DEFINE at(k) == IF k <= i - 1 THEN k ELSE k + 1
<1>5. ASSUME NEW k \in 1..(n - 1)
      PROVE  w[k] = s[at(k)] /\ at(k) \in 1..n /\ at(k) # i
  <2>1. CASE k <= i - 1 BY <1>2, <1>4, <2>1, SMTT(60)
  <2>2. CASE ~(k <= i - 1)
    <3>1. w[k] = rest[k - (i - 1)] BY <1>4, <2>2
    <3>2. k - (i - 1) \in 1..(n - i) /\ k - (i - 1) + i = k + 1 BY <2>2
    <3> QED BY <1>3, <2>2, <3>1, <3>2
  <2> QED BY <2>1, <2>2
<1>6. \A k, l \in 1..(n - 1) : at(k) = at(l) => k = l OBVIOUS
<1> HIDE DEF at
<1>7. ASSUME NEW k \in 1..(n - 1), NEW l \in 1..(n - 1), w[k].key = w[l].key
      PROVE  k = l
  <2>1. s[at(k)].key = s[at(l)].key BY <1>5, <1>7
  <2>2. at(k) = at(l) BY <1>5, <2>1 DEF PlansOK
  <2> QED BY <1>6, <2>2
<1>8. \A k \in 1..(n - 1) : w[k].plan = w[k].code /\ w[k].key # s[i].key
  BY <1>5 DEF PlansOK
<1>9. PlansOK(w) BY <1>4, <1>7, <1>8 DEF PlansOK
<1> QED BY <1>4, <1>8, <1>9 DEF w, head, rest

LEMMA WithoutKey ==
    ASSUME NEW s, PlansOK(s), NEW key
    PROVE  /\ PlansOK(Without(s, key)) /\ Len(Without(s, key)) <= Len(s)
           /\ \A i \in 1..Len(Without(s, key)) : Without(s, key)[i].key # key
<1>1. s \in Seq(DynEntry) /\ Len(s) \in Nat BY DEF PlansOK
<1>2. CASE ~ \E i \in 1..Len(s) : s[i].key = key
  BY <1>1, <1>2 DEF Without
<1>3. CASE \E i \in 1..Len(s) : s[i].key = key
  <2> DEFINE i == CHOOSE j \in 1..Len(s) : s[j].key = key
             w == SubSeq(s, 1, i - 1) \o SubSeq(s, i + 1, Len(s))
  <2>1. i \in 1..Len(s) /\ s[i].key = key BY <1>3, Zenon
  <2>2. Without(s, key) = w BY <1>3, Zenon DEF Without
  <2> HIDE DEF i
  <2>3. /\ PlansOK(w) /\ Len(w) = Len(s) - 1
        /\ \A k \in 1..Len(w) : w[k].key # key
    BY <1>1, <2>1, WithoutEntry
  <2> HIDE DEF w
  <2> QED BY <1>1, <2>2, <2>3
<1> QED BY <1>2, <1>3

LEMMA DynamicStepOK ==
    ASSUME DynamicOK, DynamicStep
    PROVE  DynamicOK'
<1>1. /\ PlansOK(dynPlans) /\ Len(dynPlans) <= Capacity
      /\ running \in [Runners -> DynRun]
      /\ \A r \in Runners : /\ running[r].at # "idle" => running[r].code \in DynCodes
                            /\ running[r].at = "run" => running[r].plan = running[r].code
  BY DynamicFields
<1>2. ASSUME NEW r \in Runners, NEW n \in DynRun, running' = [running EXCEPT ![r] = n],
             n.at # "idle" => n.code \in DynCodes, n.at = "run" => n.plan = n.code,
             PlansOK(dynPlans'), Len(dynPlans') <= Capacity
      PROVE  DynamicOK'
  <2>1. /\ running' \in [Runners -> DynRun]
        /\ \A q \in Runners : running'[q] = IF q = r THEN n ELSE running[q]
    BY <1>1, <1>2
  <2>2. \A q \in Runners : /\ running'[q].at # "idle" => running'[q].code \in DynCodes
                           /\ running'[q].at = "run" => running'[q].plan = running'[q].code
    BY <1>1, <1>2, <2>1
  <2>3. DynamicTypeOK'
    BY <1>2, <2>1, <2>2 DEF DynamicTypeOK, PlansOK
  <2>4. DOMAIN dynPlans' = 1..Len(dynPlans') BY <1>2 DEF PlansOK
  <2> QED BY <1>2, <2>2, <2>3, <2>4 DEF DynamicOK, DynamicPlansSound, EntriesRight, PlansOK
<1>3. ASSUME NEW r \in Runners, CachePlan(r) PROVE DynamicOK'
  <2> DEFINE code == running[r].code
             room == IF Len(dynPlans) >= Capacity THEN Tail(dynPlans) ELSE dynPlans
             held == Without(room, HashOf[code])
             e == [key |-> HashOf[code], code |-> code, plan |-> code]
             n == [running[r] EXCEPT !.at = "run", !.plan = code]
  <2>1. /\ running[r].at = "compile" /\ dynPlans' = Append(held, e)
        /\ running' = [running EXCEPT ![r] = n]
    BY <1>1, <1>3 DEF CachePlan
  <2>2. PlansOK(room) /\ Len(room) < Capacity BY <1>1, RoomMade
  <2> HIDE DEF room
  <2>3. /\ PlansOK(held) /\ Len(held) <= Len(room)
        /\ \A i \in 1..Len(held) : held[i].key # HashOf[code]
    BY <2>2, WithoutKey
  <2> HIDE DEF held
  <2>4. code \in DynCodes BY <1>1, <2>1
  <2>5. e \in DynEntry /\ e.plan = e.code /\ e.key = HashOf[code] BY <2>4 DEF DynEntry
  <2>6. n \in DynRun /\ n.at = "run" /\ n.plan = code /\ n.code = code
    BY <1>1, <2>4 DEF DynRun
  <2> HIDE DEF e, n
  <2>7. held \in Seq(DynEntry) /\ Len(held) \in Nat /\ Len(room) \in Nat
    BY <2>2, <2>3 DEF PlansOK
  <2>8. /\ dynPlans' \in Seq(DynEntry) /\ Len(dynPlans') = Len(held) + 1
        /\ \A i \in 1..Len(dynPlans') : dynPlans'[i] = IF i = Len(held) + 1 THEN e ELSE held[i]
    BY <2>1, <2>5, <2>7
  <2>9. PlansOK(dynPlans')
    BY <2>3, <2>5, <2>7, <2>8, SMTT(60) DEF PlansOK
  <2>10. Len(dynPlans') <= Capacity
    BY <2>2, <2>3, <2>7, <2>8, DynamicPlansAssumption
  <2> QED BY <1>2, <2>1, <2>4, <2>6, <2>9, <2>10
<1>4. ASSUME NEW r \in Runners, EndRun(r) PROVE DynamicOK'
  <2>1. IdleRun \in DynRun /\ IdleRun.at = "idle" BY DEF IdleRun, DynRun
  <2> QED BY <1>1, <1>2, <1>4, <2>1 DEF EndRun
<1>5. ASSUME NEW r \in Runners, NEW code \in DynCodes, LookPlan(r, code) PROVE DynamicOK'
  <2> DEFINE hit == {i \in Held(code) : dynPlans[i].code = code}
  <2>1. PlansOK(dynPlans') /\ Len(dynPlans') <= Capacity
    BY <1>1, <1>5 DEF LookPlan
  <2>2. CASE hit # {}
    <3> PICK i \in hit : i = CHOOSE j \in hit : TRUE BY <2>2
    <3>1. i \in 1..Len(dynPlans) /\ dynPlans[i].code = code
      BY <1>1 DEF Held, PlansOK
    <3>2. dynPlans[i].plan = code BY <1>1, <3>1 DEF PlansOK
    <3> DEFINE n == [at |-> "run", code |-> code, plan |-> code]
    <3>3. running' = [running EXCEPT ![r] = n] BY <1>5, <2>2, <3>2 DEF LookPlan
    <3>4. n \in DynRun /\ n.at = "run" /\ n.plan = code /\ n.code = code BY DEF DynRun
    <3> HIDE DEF n
    <3> QED BY <1>2, <2>1, <3>3, <3>4
  <2>3. CASE hit = {}
    <3> DEFINE n == [at |-> "compile", code |-> code, plan |-> ""]
    <3>3. running' = [running EXCEPT ![r] = n] BY <1>5, <2>3 DEF LookPlan
    <3>4. n \in DynRun /\ n.at = "compile" /\ n.code = code BY DEF DynRun
    <3> HIDE DEF n
    <3> QED BY <1>2, <2>1, <3>3, <3>4
  <2> QED BY <2>2, <2>3
<1> QED BY <1>3, <1>4, <1>5 DEF DynamicStep

LEMMA DynamicLostOK ==
    ASSUME DynamicLost
    PROVE  DynamicOK'
<1>1. IdleRun \in DynRun /\ IdleRun.at = "idle" BY DEF IdleRun, DynRun
<1>2. \A r \in Runners : running'[r] = IdleRun BY DEF DynamicLost
<1>3. DynamicTypeOK' BY <1>1, <1>2 DEF DynamicLost, DynamicTypeOK
<1>4. DOMAIN dynPlans' = {} /\ Len(dynPlans') = 0 BY DEF DynamicLost
<1> QED BY <1>1, <1>2, <1>3, <1>4, DynamicPlansAssumption
        DEF DynamicOK, DynamicPlansSound, EntriesRight


-----------------------------------------------------------------------------
(* The theorems *)

LEMMA HistoryParts == HistoryInv <=> PublishOK /\ CallsOK /\ DynamicOK
BY DEF HistoryInv, ServerTypeOK, PublishOK, CallsOK, DynamicOK

LEMMA HistoryInit == ServerInit => HistoryInv
<1> SUFFICES ASSUME ServerInit PROVE PublishOK /\ CallsOK /\ DynamicOK
  BY HistoryParts
<1> USE DEF ServerInit
<1>1. TablesTypeOK /\ StoreOrdered
  <2>1. NoRow \in Row /\ NoRow.version = 0 /\ NoRow.code = None /\ NoRow.plan = None
    BY ServerStoreAssumption DEF NoRow, Row, Source
  <2>2. NoVersion \in Snapshot /\ NoVersion.code = None /\ NoVersion.plan = None
    BY DEF NoVersion, Snapshot, Source
  <2>3. \A g \in Graphs : row[g] = NoRow /\ \A v \in Versions : vers[g][v] = NoVersion
    BY DEF PublishInit, EmptyTables
  <2>4. TablesTypeOK BY <2>1, <2>2 DEF PublishInit, EmptyTables, TablesTypeOK
  <2> QED BY <2>1, <2>2, <2>3, <2>4, ServerStoreAssumption
          DEF StoreOrdered, Stored, Exists, Versions
<1>2. \A a \in Workers : admin[a] = IdleAdmin BY DEF PublishInit
<1>3. \A a \in Workers : AdminPlaced(a)
  BY <1>2 DEF AdminPlaced, IdleAdmin, Unlisted, Changes
<1>4. PublishTypeOK
  BY <1>1, IdleAdminType, IdleVisitType
  DEF PublishInit, Fresh, PublishTypeOK, Unbuilt, NothingCached, Source
<1>5. CallsOK
  <2>1. \A c \in Callers : call[c] = IdleCall BY DEF RegistryInit
  <2>2. RegistryTypeOK
    BY <2>1, IdleCallType DEF RegistryInit, RegistryTypeOK, LocalsSet
  <2>3. RunsWhatItResolved BY <2>1 DEF RegistryInit, RunsWhatItResolved, IdleCall
  <2>4. \A c \in Callers : FetchedRight(c) BY <2>1 DEF FetchedRight, IdleCall, Fetching
  <2> QED BY <2>2, <2>3, <2>4 DEF CallsOK
<1>6. DynamicOK
  <2>1. IdleRun \in DynRun /\ IdleRun.at = "idle" BY DEF IdleRun, DynRun
  <2>2. \A r \in Runners : running[r] = IdleRun BY DEF DynamicInit
  <2>3. DynamicTypeOK BY <2>1, <2>2 DEF DynamicInit, DynamicTypeOK
  <2>4. DOMAIN dynPlans = {} /\ Len(dynPlans) = 0 BY DEF DynamicInit
  <2> QED BY <2>1, <2>2, <2>3, <2>4, DynamicPlansAssumption
          DEF DynamicOK, DynamicPlansSound, EntriesRight
<1> QED BY <1>1, <1>3, <1>4, <1>5, <1>6 DEF PublishOK

LEMMA HistoryStep == HistoryInv /\ [ServerNext]_serverVars => HistoryInv'
<1> SUFFICES ASSUME PublishOK, CallsOK, DynamicOK, [ServerNext]_serverVars
             PROVE  PublishOK' /\ CallsOK' /\ DynamicOK'
  BY DEF HistoryInv, ServerTypeOK, PublishOK, CallsOK, DynamicOK
<1>0. None \notin Codes /\ trouble \subseteq Troubles
  BY IdleAdminType DEF PublishOK, PublishTypeOK, Troubles
<1>1. ASSUME UNCHANGED <<dynPlans, running>> PROVE DynamicOK'
  BY <1>1 DEF DynamicOK, DynamicTypeOK, DynamicPlansSound, EntriesRight
<1>2. ASSUME UNCHANGED <<row, vers, server, plans, routes, cache, admin, visit, trouble>>
      PROVE  PublishOK' /\ Kept
  <2>1. /\ Kept /\ StoreOK' /\ admin' \in [Workers -> Admin]
        /\ \A a \in Workers : AdminPlaced(a)'
    BY <1>2, AdminsStay
  <2> QED BY <1>2, <2>1 DEF PublishOK, PublishTypeOK, StoreOK
<1>3. CASE RouteStep /\ NoteChanges
  <2>1. Kept /\ PublishOK' BY <1>3, PublishStepOK DEF RouteStep
  <2>2. changed' \subseteq Callers BY <1>3 DEF NoteChanges
  <2>3. CASE CallsLost /\ DynamicLost BY <2>1, <2>2, <2>3, CallsLostOK, DynamicLostOK
  <2>4. CASE UNCHANGED <<planCache, call, dynPlans, running>>
    BY <1>0, <1>1, <2>1, <2>2, <2>4, CallsStay
  <2> QED BY <1>3, <2>3, <2>4 DEF RouteStep
<1>4. CASE ExecuteStep /\ NoteChanges
  <2>1. changed' \subseteq Callers BY <1>4 DEF NoteChanges
  <2>2. trouble' \subseteq Troubles BY <1>0, <1>4 DEF ExecuteStep, Troubles
  <2>3. UNCHANGED <<server, plans, routes, cache, admin, visit, dynPlans, running>>
    BY <1>4 DEF ExecuteStep
  <2>4. PICK c \in Callers : CallStep(c) \/ \E g \in Graphs : Execute(c, g)
    BY <1>4 DEF ExecuteStep
  <2> QED BY <1>1, <2>1, <2>2, <2>3, <2>4, CallStepOK
<1>5. CASE RunStep /\ NoteChanges
  <2>1. changed' \subseteq Callers BY <1>5 DEF NoteChanges
  <2>2. DynamicOK' BY <1>5, DynamicStepOK DEF RunStep
  <2>3. PublishOK' /\ Kept BY <1>2, <1>5 DEF RunStep
  <2> QED BY <1>0, <1>5, <2>1, <2>2, <2>3, CallsStay DEF RunStep
<1>6. CASE UNCHANGED serverVars
  <2>1. changed' \subseteq Callers
    BY <1>6 DEF serverVars, CallsOK, RegistryTypeOK
  <2>2. /\ UNCHANGED <<row, vers, server, plans, routes, cache, admin, visit, trouble>>
        /\ UNCHANGED <<planCache, call>> /\ UNCHANGED <<dynPlans, running>>
    BY <1>6 DEF serverVars
  <2> QED BY <1>0, <1>1, <1>2, <2>1, <2>2, CallsStay
<1> QED BY <1>3, <1>4, <1>5, <1>6 DEF ServerNext

\* The inductive invariant: what is stored is numbered, kept and compiled as it should
\* be, and every request knows of it what its position needs, in every reachable state.
THEOREM ServerHistory == ServerSpec => []HistoryInv
BY HistoryInit, HistoryStep, PTL DEF ServerSpec

\* Every table and request of the process is of its type (state.rs, registry.rs).
THEOREM ServerTyping == ServerSpec => []ServerTypeOK
<1>1. HistoryInv => ServerTypeOK BY DEF HistoryInv
<1> QED BY <1>1, ServerHistory, PTL

\* The registry runs and keeps only the plan of the version resolved (registry.rs:36),
\* whatever is updated, rolled back, healed or killed meanwhile.
THEOREM ServerRunsWhatItResolved == ServerSpec => []RunsWhatItResolved
<1>1. HistoryInv => RunsWhatItResolved BY DEF HistoryInv
<1> QED BY <1>1, ServerHistory, PTL

\* A request to run code runs the plan of that code, though hashes collide, and the cache
\* stays within its capacity (state.rs:27).
THEOREM ServerDynamicPlansSound == ServerSpec => []DynamicPlansSound
<1>1. HistoryInv => DynamicPlansSound BY DEF HistoryInv
<1> QED BY <1>1, ServerHistory, PTL
=============================================================================
