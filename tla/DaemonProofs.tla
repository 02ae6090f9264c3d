---------------------------- MODULE DaemonProofs ----------------------------
(***************************************************************************)
(* Machine-checked theorems about Daemon, for every set of workers, calls  *)
(* and tools, every channel capacity and every registration list.          *)
(***************************************************************************)
EXTENDS Daemon, TLAPS, SequenceTheorems

\* Vec::retain keeps a member list a list of workers.
LEMMA WithoutType ==
    ASSUME NEW s \in Seq(Workers), NEW w
    PROVE  Without(s, w) \in Seq(Workers)
<1>1. CASE \E i \in 1..Len(s) : s[i] = w
  <2> DEFINE i == CHOOSE j \in 1..Len(s) : s[j] = w
  <2>1. i \in 1..Len(s) BY <1>1
  <2>2. Len(s) \in Nat BY LenProperties
  <2>3. SubSeq(s, 1, i - 1) \in Seq(Workers)
    <3>1. \A k \in 1..(i - 1) : s[k] \in Workers BY <2>1, <2>2, ElementOfSeq
    <3>2. QED BY <2>1, <2>2, <3>1, SubSeqProperties
  <2>4. SubSeq(s, i + 1, Len(s)) \in Seq(Workers)
    <3>1. \A k \in (i + 1)..Len(s) : s[k] \in Workers BY <2>1, <2>2, ElementOfSeq
    <3>2. QED BY <2>1, <2>2, <3>1, SubSeqProperties
  <2>5. Without(s, w) = SubSeq(s, 1, i - 1) \o SubSeq(s, i + 1, Len(s))
    BY <1>1 DEF Without
  <2> QED BY <2>3, <2>4, <2>5, ConcatProperties
<1>2. CASE ~\E i \in 1..Len(s) : s[i] = w
  BY <1>2 DEF Without
<1> QED BY <1>1, <1>2

-----------------------------------------------------------------------------
(* Type correctness *)

LEMMA TypeInit == Init => TypeOK
BY DaemonAssumption DEF Init, TypeOK, LocalsSet, Conn, ConnState, Cleaner, CleanState, Call, Tracking, Outcome, Paths

LEMMA TypeRegister ==
    ASSUME TypeOK, NEW w \in Workers, Register(w)
    PROVE  TypeOK'
<1> USE DaemonAssumption DEF TypeOK, ConnState, regVars, callVars
<1> DEFINE todo == conn[w].todo
<1>0. /\ conn[w] \in Conn
      /\ todo \in Seq(Tools \cup {BlankTool})
  BY DEF Conn
<1>1. CASE RefuseWorker(w)
  BY <1>1, ZenonT(60) DEF RefuseWorker, LocalsSet, Conn
<1>2. CASE AcceptWorker(w)
  BY <1>2 DEF AcceptWorker, AtTool, LocalsSet, Conn
<1>3. CASE RegisterEntry(w)
  <2>1. /\ todo # <<>> /\ Head(todo) \in Tools
    BY <1>0, <1>3, HeadTailProperties DEF RegisterEntry, LocalsSet
  <2>2. PICK g \in Workers : /\ groupOf' = [groupOf EXCEPT ![Head(todo)] = g]
                             /\ conn' = [conn EXCEPT ![w] = [@ EXCEPT !.at = "add", !.group = g]]
    BY <1>3, <2>1 DEF RegisterEntry
  <2>3. conn' \in [Workers -> Conn] BY <2>2, ZenonT(60) DEF Conn
  <2>4. groupOf' \in [Tools -> Workers \cup {Nobody}] BY <2>2
  <2>5. conn'[w] = [conn[w] EXCEPT !.at = "add", !.group = g] BY <2>2
  <2>6. conn'[w].todo = todo /\ conn'[w].group = g BY <1>0, <2>5 DEF Conn
  <2>7. \A v \in Workers : v # w => conn'[v] = conn[v] BY <2>2
  <2>8. UNCHANGED <<members, cursor, defs, callVars, queue, cleaner, received>>
    BY <1>3 DEF RegisterEntry
  <2>9. LocalsSet' BY <2>1, <2>6, <2>7, <2>8 DEF LocalsSet
  <2> QED BY <2>3, <2>4, <2>8, <2>9
<1>4. CASE RegisterBlank(w)
  <2>1. conn' = [conn EXCEPT ![w] = [@ EXCEPT !.at = "refused", !.todo = <<>>]]
    BY <1>4 DEF RegisterBlank
  <2>2. conn' \in [Workers -> Conn] BY <2>1, EmptySeq, ZenonT(60) DEF Conn
  <2>3. conn'[w].at = "refused" BY <1>0, <2>1 DEF Conn
  <2>4. \A v \in Workers : v # w => conn'[v] = conn[v] BY <2>1
  <2>5. UNCHANGED <<regVars, callVars, queue, cleaner, received>> BY <1>4 DEF RegisterBlank
  <2>6. LocalsSet' BY <2>3, <2>4, <2>5 DEF LocalsSet
  <2> QED BY <2>2, <2>5, <2>6
<1>5. CASE RegisterAdd(w)
  <2>1. /\ Head(todo) \in Tools /\ conn[w].group \in Workers
    BY <1>5 DEF RegisterAdd, LocalsSet
  <2>2. members[Head(todo)][conn[w].group] \in Seq(Workers) BY <2>1
  <2>3. members' \in [Tools -> [Workers -> Seq(Workers)]]
    <3>1. Append(members[Head(todo)][conn[w].group], w) \in Seq(Workers)
      BY <2>2, AppendProperties
    <3> QED BY <1>5, <2>1, <3>1 DEF RegisterAdd
  <2>4. conn' = [conn EXCEPT ![w].at = "def"] BY <1>5 DEF RegisterAdd
  <2>5. conn' \in [Workers -> Conn] BY <2>4, ZenonT(60) DEF Conn
  <2>6. conn'[w].at = "def" /\ conn'[w].todo = todo
    BY <1>0, <2>4 DEF Conn
  <2>10. todo # <<>>
    BY <1>5 DEF RegisterAdd, LocalsSet
  <2>7. \A v \in Workers : v # w => conn'[v] = conn[v] BY <2>4
  <2>8. UNCHANGED <<groupOf, cursor, defs, callVars, queue, cleaner, received>>
    BY <1>5 DEF RegisterAdd
  <2>9. LocalsSet' BY <2>1, <2>6, <2>7, <2>8, <2>10 DEF LocalsSet
  <2> QED BY <2>3, <2>5, <2>8, <2>9
<1>6. CASE RegisterDef(w)
  BY <1>6, SMTT(60) DEF RegisterDef, AtTool, LocalsSet, Conn
<1> QED BY <1>1, <1>2, <1>3, <1>4, <1>5, <1>6 DEF Register

\* Replacing the locals of one cleanup.
LEMMA SetCleaner ==
    ASSUME TypeOK, NEW w \in Workers, NEW p \in Paths, NEW r \in Cleaner,
           cleaner' = [cleaner EXCEPT ![w][p] = r]
    PROVE  /\ cleaner' \in [Workers -> [Paths -> Cleaner]]
           /\ cleaner'[w][p] = r
           /\ \A v \in Workers, q \in Paths :
                (v # w \/ q # p) => cleaner'[v][q] = cleaner[v][q]
<1>1. cleaner \in [Workers -> [Paths -> Cleaner]] BY DEF TypeOK
<1> QED BY <1>1

LEMMA TypeCleanFrame ==
    ASSUME TypeOK, NEW w \in Workers, NEW p \in Paths, NEW r \in Cleaner,
           cleaner' = [cleaner EXCEPT ![w][p] = r],
           r.at \in {"count", "dropDef"} => r.cur \in Tools,
           groupOf' \in [Tools -> Workers \cup {Nobody}],
           members' \in [Tools -> [Workers -> Seq(Workers)]],
           defs' \subseteq Tools, pending' \subseteq Calls,
           inFlight' \in [Workers -> SUBSET Calls],
           reply' \in [Calls -> {"empty", "answer", "gone"}],
           queue' \in [Workers -> Seq(Calls)],
           UNCHANGED <<cursor, conn, call, received>>
    PROVE  TypeOK'
<1>1. /\ cleaner' \in [Workers -> [Paths -> Cleaner]]
      /\ cleaner'[w][p] = r
      /\ \A v \in Workers, q \in Paths :
           (v # w \/ q # p) => cleaner'[v][q] = cleaner[v][q]
  BY SetCleaner, ZenonT(60)
<1>2. LocalsSet' BY <1>1 DEF TypeOK, LocalsSet
<1> QED BY <1>1, <1>2 DEF TypeOK

LEMMA TypeClean ==
    ASSUME TypeOK, NEW w \in Workers, NEW p \in Paths, BeginClean(w, p) \/ CleanStep(w, p)
    PROVE  TypeOK'
<1> DEFINE k == cleaner[w][p]
<1>0. /\ k \in Cleaner
      /\ k.at \in CleanState /\ k.todo \subseteq Tools /\ k.cur \in Tools \cup {Nobody}
      /\ k.emptied \subseteq Tools /\ k.taken \subseteq Calls
      /\ k = [at |-> k.at, todo |-> k.todo, cur |-> k.cur, emptied |-> k.emptied,
              taken |-> k.taken]
      /\ k.at \in {"count", "dropDef"} => k.cur \in Tools
  BY DEF TypeOK, LocalsSet, Cleaner
<1>a. \A x, y : /\ AtGroup(x, y) \in CleanState
                /\ AtGroup(x, y) \notin {"count", "dropDef"}
  BY DEF AtGroup, CleanState
<1>1. CASE BeginClean(w, p)
  <2> DEFINE r == [k EXCEPT !.at = AtGroup(Tools, {}), !.todo = Tools]
  <2>1. cleaner' = [cleaner EXCEPT ![w][p] = r] BY <1>1 DEF BeginClean
  <2>2. r \in Cleaner /\ r.at \notin {"count", "dropDef"} BY <1>0, <1>a DEF Cleaner
  <2>4. UNCHANGED <<groupOf, members, cursor, defs, pending, inFlight, reply, call, queue, conn, received>>
    BY <1>1 DEF BeginClean, regVars, callVars
  <2> HIDE DEF r
  <2> QED BY <2>1, <2>2, <2>4, TypeCleanFrame DEF TypeOK
<1>2. CASE CleanRemove(w, p)
  <2>1. PICK t \in k.todo :
          LET rest == k.todo \ {t} IN
          IF groupOf[t] = Nobody
          THEN /\ cleaner' = [cleaner EXCEPT
                     ![w][p] = [@ EXCEPT !.at = AtGroup(rest, cleaner[w][p].emptied),
                                         !.todo = rest]]
               /\ UNCHANGED members
          ELSE /\ members' = [members EXCEPT ![t][groupOf[t]] = Without(@, w)]
               /\ cleaner' = [cleaner EXCEPT
                     ![w][p] = [@ EXCEPT !.at = "count", !.todo = rest, !.cur = t]]
    BY <1>2 DEF CleanRemove
  <2>2. t \in Tools BY <1>0
  <2>3. UNCHANGED <<groupOf, cursor, defs, callVars, queue, conn, received>>
    BY <1>2 DEF CleanRemove
  <2>4. CASE groupOf[t] = Nobody
    <3> DEFINE r == [k EXCEPT !.at = AtGroup(k.todo \ {t}, k.emptied), !.todo = k.todo \ {t}]
    <3>1. cleaner' = [cleaner EXCEPT ![w][p] = r] /\ members' = members BY <2>1, <2>4
    <3>2. r \in Cleaner /\ r.at \notin {"count", "dropDef"} BY <1>0, <1>a DEF Cleaner
    <3> QED BY <2>3, <3>1, <3>2, TypeCleanFrame DEF TypeOK, callVars
  <2>5. CASE groupOf[t] # Nobody
    <3> DEFINE r == [k EXCEPT !.at = "count", !.todo = k.todo \ {t}, !.cur = t]
    <3>1. groupOf[t] \in Workers /\ members[t][groupOf[t]] \in Seq(Workers)
      BY <2>2, <2>5 DEF TypeOK
    <3>2. members' \in [Tools -> [Workers -> Seq(Workers)]]
      <4>1. Without(members[t][groupOf[t]], w) \in Seq(Workers) BY <3>1, WithoutType
      <4>2. members' = [members EXCEPT ![t][groupOf[t]] = Without(members[t][groupOf[t]], w)]
        BY <2>1, <2>5
      <4> QED BY <2>2, <3>1, <4>1, <4>2 DEF TypeOK
    <3>3. cleaner' = [cleaner EXCEPT ![w][p] = r] BY <2>1, <2>5
    <3>4. r \in Cleaner /\ r.cur = t BY <1>0, <2>2 DEF Cleaner, CleanState
    <3> QED BY <2>2, <2>3, <3>2, <3>3, <3>4, TypeCleanFrame DEF TypeOK, callVars
  <2> QED BY <2>4, <2>5
<1>3. CASE CleanCount(w, p)
  <2> DEFINE em == IF members[k.cur][groupOf[k.cur]] = <<>>
                   THEN k.emptied \cup {k.cur} ELSE k.emptied
             r == [k EXCEPT !.at = AtGroup(k.todo, em), !.cur = Nobody, !.emptied = em]
  <2>1. cleaner' = [cleaner EXCEPT ![w][p] = r] BY <1>3 DEF CleanCount
  <2>2. em \subseteq Tools BY <1>0, <1>3 DEF CleanCount
  <2>3. r \in Cleaner /\ r.at \notin {"count", "dropDef"}
    <3> HIDE DEF em
    <3> QED BY <1>0, <1>a, <2>2 DEF Cleaner
  <2>4. UNCHANGED <<groupOf, members, cursor, defs, pending, inFlight, reply, call, queue, conn, received>>
    BY <1>3 DEF CleanCount, regVars, callVars
  <2> HIDE DEF r
  <2> QED BY <2>1, <2>3, <2>4, TypeCleanFrame DEF TypeOK
<1>4. CASE CleanDropGroup(w, p)
  <2>1. PICK t \in k.emptied :
          /\ groupOf' = [groupOf EXCEPT ![t] = Nobody]
          /\ cleaner' = [cleaner EXCEPT ![w][p] = [k EXCEPT !.at = "dropDef", !.cur = t]]
    BY <1>4 DEF CleanDropGroup
  <2> DEFINE r == [k EXCEPT !.at = "dropDef", !.cur = t]
  <2>2. r \in Cleaner /\ r.cur \in Tools BY <1>0, <2>1 DEF Cleaner, CleanState
  <2>3. groupOf' \in [Tools -> Workers \cup {Nobody}] BY <2>1 DEF TypeOK
  <2> QED BY <1>4, <2>1, <2>2, <2>3, TypeCleanFrame DEF CleanDropGroup, TypeOK, callVars
<1>5. CASE CleanDropDef(w, p)
  <2> DEFINE em == k.emptied \ {k.cur}
             r == [k EXCEPT !.at = AtGroup({}, em), !.cur = Nobody, !.emptied = em]
  <2>1. cleaner' = [cleaner EXCEPT ![w][p] = r] BY <1>5 DEF CleanDropDef
  <2>2. r \in Cleaner /\ r.at \notin {"count", "dropDef"} BY <1>0, <1>a DEF Cleaner
  <2> QED BY <1>5, <2>1, <2>2, TypeCleanFrame, ZenonT(60) DEF CleanDropDef, TypeOK, callVars
<1>6. CASE CleanTake(w, p)
  <2> DEFINE r == [k EXCEPT !.at = "flush", !.taken = inFlight[w]]
  <2>1. cleaner' = [cleaner EXCEPT ![w][p] = r] BY <1>6 DEF CleanTake
  <2>2. r \in Cleaner /\ r.at \notin {"count", "dropDef"}
    BY <1>0 DEF Cleaner, CleanState, TypeOK
  <2>3. inFlight' \in [Workers -> SUBSET Calls] BY <1>6 DEF CleanTake, TypeOK
  <2> QED BY <1>6, <2>1, <2>2, <2>3, TypeCleanFrame, ZenonT(60) DEF CleanTake, TypeOK, regVars
<1>7. CASE CleanFlush(w, p)
  <2>1. PICK c \in k.taken : /\ Resolve(c, "gone")
                             /\ cleaner' = [cleaner EXCEPT ![w][p] = [k EXCEPT !.taken = @ \ {c}]]
    BY <1>7 DEF CleanFlush
  <2> DEFINE r == [k EXCEPT !.taken = @ \ {c}]
  <2>2. r \in Cleaner /\ r.at = "flush" BY <1>0, <1>7 DEF Cleaner, CleanFlush
  <2>3. pending' \subseteq Calls /\ reply' \in [Calls -> {"empty", "answer", "gone"}]
    BY <2>1 DEF Resolve, TypeOK
  <2> QED BY <1>7, <2>1, <2>2, <2>3, TypeCleanFrame DEF CleanFlush, TypeOK, regVars
<1>8. CASE CleanEnd(w, p)
  <2> DEFINE r == [k EXCEPT !.at = "done"]
  <2>1. cleaner' = [cleaner EXCEPT ![w][p] = r] BY <1>8 DEF CleanEnd
  <2>2. r \in Cleaner /\ r.at = "done" BY <1>0 DEF Cleaner, CleanState
  <2>3. queue' \in [Workers -> Seq(Calls)]
    <3>1. <<>> \in Seq(Calls) BY EmptySeq
    <3> QED BY <1>8, <3>1 DEF CleanEnd, TypeOK
  <2>4. UNCHANGED <<groupOf, members, cursor, defs, pending, inFlight, reply, call, conn, received>>
    BY <1>8 DEF CleanEnd, regVars, callVars
  <2> HIDE DEF r
  <2> QED BY <2>1, <2>2, <2>3, <2>4, TypeCleanFrame DEF TypeOK
<1> QED BY <1>1, <1>2, <1>3, <1>4, <1>5, <1>6, <1>7, <1>8 DEF CleanStep

\* Replacing the locals of one Invoke handler.
LEMMA SetCall ==
    ASSUME TypeOK, NEW c \in Calls, NEW r \in Call, call' = [call EXCEPT ![c] = r]
    PROVE  /\ call' \in [Calls -> Call]
           /\ call'[c] = r
           /\ \A d \in Calls : d # c => call'[d] = call[d]
<1>1. call \in [Calls -> Call] BY DEF TypeOK
<1> QED BY <1>1

LEMMA TypeCallFrame ==
    ASSUME TypeOK, NEW c \in Calls, NEW r \in Call, call' = [call EXCEPT ![c] = r],
           r.at \in {"group", "pick"} => r.tool \in Tools,
           r.at = "pick" => r.group \in Workers,
           r.at \in {"insert", "track", "send", "await"} => r.worker \in Workers,
           cursor' \in [Tools -> [Workers -> Nat]], pending' \subseteq Calls,
           inFlight' \in [Workers -> SUBSET Calls], queue' \in [Workers -> Seq(Calls)],
           UNCHANGED <<groupOf, members, defs, reply, conn, cleaner, received>>
    PROVE  TypeOK'
<1>1. /\ call' \in [Calls -> Call]
      /\ call'[c] = r
      /\ \A d \in Calls : d # c => call'[d] = call[d]
  BY SetCall
<1>2. LocalsSet' BY <1>1 DEF TypeOK, LocalsSet
<1> QED BY <1>1, <1>2 DEF TypeOK

LEMMA TypeInvoke ==
    ASSUME TypeOK, NEW c \in Calls,
           (\E t \in Tools : Invoke(c, t)) \/ InvokeStep(c) \/ InvokeTimeout(c) \/ InvokeCancel(c)
    PROVE  TypeOK'
<1> DEFINE k == call[c]
<1>0. /\ k \in Call
      /\ k.tool \in Tools \cup {Nobody} /\ k.group \in Workers \cup {Nobody}
      /\ k.worker \in Workers \cup {Nobody} /\ k.outcome \in Outcome /\ k.tracked \in Tracking
      /\ k = [at |-> k.at, tool |-> k.tool, group |-> k.group, worker |-> k.worker,
              outcome |-> k.outcome, tracked |-> k.tracked]
      /\ k.at \in {"group", "pick"} => k.tool \in Tools
      /\ k.at = "pick" => k.group \in Workers
      /\ k.at \in {"insert", "track", "send", "await"} => k.worker \in Workers
  BY DEF TypeOK, LocalsSet, Call
<1> DEFINE ended(o) == [k EXCEPT !.at = "done", !.outcome = o]
<1>r. \A o \in Outcome : ended(o) \in Call /\ ended(o).at = "done" BY <1>0 DEF Call
<1>o. {"notFound", "unavailable", "answer", "gone", "deadline", "cancelled"} \subseteq Outcome
  BY DEF Outcome
<1>1. ASSUME NEW t \in Tools, Invoke(c, t) PROVE TypeOK'
  <2> DEFINE r == IF t \in defs THEN [k EXCEPT !.at = "group", !.tool = t] ELSE ended("notFound")
  <2>1. call' = [call EXCEPT ![c] = r] BY <1>1 DEF Invoke, Return
  <2>2. r \in Call /\ r.at \in {"group", "done"} /\ (r.at = "group" => r.tool = t)
    BY <1>0, <1>r, <1>o DEF Call
  <2> QED BY <1>1, <2>1, <2>2, TypeCallFrame DEF Invoke, TypeOK, regVars
<1>2. CASE InvokeGroup(c)
  <2> DEFINE g == groupOf[k.tool]
             r == IF g # Nobody THEN [k EXCEPT !.at = "pick", !.group = g] ELSE ended("notFound")
  <2>1. call' = [call EXCEPT ![c] = r] BY <1>2 DEF InvokeGroup, Return
  <2>2. k.tool \in Tools BY <1>0, <1>2 DEF InvokeGroup
  <2>3. g \in Workers \cup {Nobody} BY <2>2 DEF TypeOK
  <2>4. r \in Call /\ r.at \in {"pick", "done"}
        /\ (r.at = "pick" => r.tool \in Tools /\ r.group \in Workers)
    BY <1>0, <1>r, <1>o, <2>2, <2>3 DEF Call
  <2> QED BY <1>2, <2>1, <2>4, TypeCallFrame DEF InvokeGroup, TypeOK, regVars
<1>3. CASE InvokePick(c)
  <2> DEFINE ws == members[k.tool][k.group]
             n == cursor[k.tool][k.group]
  <2>1. k.tool \in Tools /\ k.group \in Workers BY <1>0, <1>3 DEF InvokePick
  <2>2. ws \in Seq(Workers) /\ n \in Nat BY <2>1 DEF TypeOK
  <2>3. UNCHANGED <<groupOf, members, defs, pending, inFlight, reply, queue, conn, cleaner,
                    received>>
    BY <1>3 DEF InvokePick
  <2>4. CASE ws = <<>>
    <3>1. call' = [call EXCEPT ![c] = ended("unavailable")] /\ cursor' = cursor
      BY <1>3, <2>4 DEF InvokePick, Return
    <3> QED BY <1>r, <1>o, <2>3, <3>1, TypeCallFrame DEF TypeOK
  <2>5. CASE ws # <<>>
    <3> DEFINE r == [k EXCEPT !.at = "insert", !.worker = ws[(n % Len(ws)) + 1]]
    <3>1. PICK l \in Nat \ {0} : l = Len(ws) BY <2>2, <2>5, EmptySeq, LenProperties
    <3>2. (n % Len(ws)) + 1 \in 1..Len(ws)
      <4>1. \A i \in Nat, j \in Nat \ {0} : (i % j) + 1 \in 1..j OBVIOUS
      <4> QED BY <2>2, <3>1, <4>1
    <3>3. ws[(n % Len(ws)) + 1] \in Workers BY <2>2, <3>2, ElementOfSeq
    <3>4. call' = [call EXCEPT ![c] = r] BY <1>3, <2>5 DEF InvokePick
    <3>5. r \in Call /\ r.at = "insert" /\ r.worker \in Workers BY <1>0, <3>3 DEF Call
    <3>6. cursor' = [cursor EXCEPT ![k.tool][k.group] = n + 1] BY <1>3, <2>5 DEF InvokePick
    <3>7. cursor' \in [Tools -> [Workers -> Nat]] BY <2>1, <2>2, <3>6 DEF TypeOK
    <3> QED BY <2>3, <3>4, <3>5, <3>7, TypeCallFrame DEF TypeOK
  <2> QED BY <2>4, <2>5
<1>4. CASE InvokeInsert(c)
  <2> DEFINE r == [k EXCEPT !.at = "track"]
  <2>1. call' = [call EXCEPT ![c] = r] BY <1>4 DEF InvokeInsert
  <2>2. r \in Call /\ r.at = "track" /\ r.worker \in Workers
    BY <1>0, <1>4 DEF Call, InvokeInsert
  <2> QED BY <1>4, <2>1, <2>2, TypeCallFrame DEF InvokeInsert, TypeOK, regVars
<1>5. CASE InvokeTrack(c)
  <2> DEFINE r == [k EXCEPT !.at = "send",
                         !.tracked = IF Cleaned(k.worker) THEN "after" ELSE "ahead"]
  <2>1. call' = [call EXCEPT ![c] = r] BY <1>5 DEF InvokeTrack
  <2>2. r \in Call /\ r.at = "send" /\ r.worker \in Workers
    BY <1>0, <1>5 DEF Call, Tracking, InvokeTrack
  <2>3. inFlight' \in [Workers -> SUBSET Calls] BY <1>5 DEF InvokeTrack, TypeOK
  <2> HIDE DEF r
  <2> QED BY <1>5, <2>1, <2>2, <2>3, TypeCallFrame DEF InvokeTrack, TypeOK, regVars
<1>6. CASE InvokeSend(c)
  <2>1. k.worker \in Workers BY <1>0, <1>6 DEF InvokeSend
  <2>2. UNCHANGED <<regVars, reply, conn, cleaner, received>> BY <1>6 DEF InvokeSend
  <2>3. CASE RxAlive(k.worker) /\ Len(queue[k.worker]) < QueueCap
    <3> DEFINE r == [k EXCEPT !.at = "await"]
    <3>1. call' = [call EXCEPT ![c] = r] /\ UNCHANGED <<pending, inFlight>>
      BY <1>6, <2>3 DEF InvokeSend
    <3>2. r \in Call /\ r.at = "await" /\ r.worker \in Workers BY <1>0, <2>1 DEF Call
    <3>3. Append(queue[k.worker], c) \in Seq(Calls) BY <2>1, AppendProperties DEF TypeOK
    <3>4. queue' \in [Workers -> Seq(Calls)] BY <1>6, <2>3, <3>3 DEF InvokeSend, TypeOK
    <3> QED BY <2>2, <3>1, <3>2, <3>4, TypeCallFrame DEF TypeOK, regVars
  <2>4. CASE ~(RxAlive(k.worker) /\ Len(queue[k.worker]) < QueueCap)
    <3>1. /\ call' = [call EXCEPT ![c] = ended("unavailable")]
          /\ pending' = pending \ {c}
          /\ inFlight' = [inFlight EXCEPT ![k.worker] = @ \ {c}]
          /\ queue' = queue
      BY <1>6, <2>4 DEF InvokeSend, Return
    <3>2. inFlight' \in [Workers -> SUBSET Calls] BY <3>1 DEF TypeOK
    <3> QED BY <1>r, <1>o, <2>2, <3>1, <3>2, TypeCallFrame DEF TypeOK, regVars
  <2> QED BY <2>3, <2>4
<1>7. CASE InvokeReply(c)
  <2>1. call' = [call EXCEPT ![c] = ended(reply[c])] BY <1>7 DEF InvokeReply, Return
  <2>2. reply[c] \in Outcome BY <1>7, <1>o DEF InvokeReply, TypeOK
  <2>3. inFlight' \in [Workers -> SUBSET Calls] BY <1>7 DEF InvokeReply, TypeOK
  <2> QED BY <1>7, <1>r, <2>1, <2>2, <2>3, TypeCallFrame DEF InvokeReply, TypeOK, regVars
<1>8. CASE InvokeTimeout(c)
  <2>1. call' = [call EXCEPT ![c] = ended("deadline")] BY <1>8 DEF InvokeTimeout, Return
  <2>2. inFlight' \in [Workers -> SUBSET Calls] BY <1>8 DEF InvokeTimeout, TypeOK
  <2> QED BY <1>8, <1>r, <1>o, <2>1, <2>2, TypeCallFrame DEF InvokeTimeout, TypeOK, regVars
<1>9. CASE InvokeCancel(c)
  <2>1. call' = [call EXCEPT ![c] = ended("cancelled")] BY <1>9 DEF InvokeCancel, Return
  <2> QED BY <1>9, <1>r, <1>o, <2>1, TypeCallFrame DEF InvokeCancel, TypeOK, regVars
<1> QED BY <1>1, <1>2, <1>3, <1>4, <1>5, <1>6, <1>7, <1>8, <1>9 DEF InvokeStep

LEMMA TypeStream ==
    ASSUME TypeOK, NEW w \in Workers,
           DeliverTask(w) \/ \E c \in Calls : Answer(w, c)
    PROVE  TypeOK'
<1> USE DaemonAssumption DEF TypeOK, regVars, callVars
<1>1. CASE DeliverTask(w)
  <2>1. Head(queue[w]) \in Calls /\ Tail(queue[w]) \in Seq(Calls)
    BY <1>1, HeadTailProperties DEF DeliverTask
  <2>2. MachineOf[w] \in Machines OBVIOUS
  <2> QED BY <1>1, <2>1, <2>2 DEF DeliverTask, LocalsSet
<1>2. ASSUME NEW c \in Calls, Answer(w, c) PROVE TypeOK'
  BY <1>2 DEF Answer, Resolve, LocalsSet
<1> QED BY <1>1, <1>2

\* Every value stays in its type, and a handler or a cleanup never uses a local
\* variable before the statement that sets it.
THEOREM Typing == Spec => []TypeOK
<1>1. TypeOK /\ [Next]_vars => TypeOK'
  <2> SUFFICES ASSUME TypeOK, [Next]_vars PROVE TypeOK' OBVIOUS
  <2>1. CASE Next
    BY <2>1, TypeRegister, TypeClean, TypeInvoke, TypeStream DEF Next
  <2>2. CASE UNCHANGED vars
    BY <2>2 DEF vars, TypeOK, LocalsSet
  <2> QED BY <2>1, <2>2
<1> QED BY <1>1, TypeInit, PTL DEF Spec

-----------------------------------------------------------------------------
(* No lost waiter, no leftover entry *)

LEMMA CallInvInit == Init => CallInv
<1> SUFFICES ASSUME Init PROVE CallInv OBVIOUS
<1>1. \A c \in Calls : call[c].at = "idle" BY DEF Init
<1>2. \A c \in Calls : ~Handed(c) BY DEF Init, Handed
<1>3. SentOnly
  <2>1. \A w \in Workers : Len(queue[w]) = 0 BY EmptySeq DEF Init
  <2> QED BY <1>2, <2>1 DEF SentOnly
<1> QED BY <1>1, <1>3 DEF Init, CallInv, NotYetSent, Untracked, TrackedRight, TakenToFlush,
                    WaiterTracked, ReturnedLeavesNothing

\* Not both cleanups of w are through with in_flight, or none will ever run.
Findable(w) == ~Cleaned(w) \/ conn[w].at = "refused"

\* What one waiting call needs.
Tracked(c) == LET w == call[c].worker IN
    /\ c \in pending
    /\ \/ \E p \in Paths : c \in cleaner[w][p].taken
       \/ c \in inFlight[w] /\ (call[c].tracked = "after" \/ Findable(w))
Waiting(c) == call[c].at \in {"send", "await"} /\ reply[c] = "empty"

LEMMA WaiterTrackedPointwise == WaiterTracked <=> \A c \in Calls : Waiting(c) => Tracked(c)
BY DEF WaiterTracked, Waiting, Tracked, CleanupAhead, Findable

SameTaken == \A w \in Workers, p \in Paths : cleaner'[w][p].taken = cleaner[w][p].taken

\* A step that leaves the calls and the taken lists alone, and puts nothing new
\* into a channel.
LEMMA CallInvFrame ==
    ASSUME CallInv, TypeOK, SameTaken, TakenToFlush', UNCHANGED <<callVars, received>>,
           \A w \in Workers : queue'[w] = queue[w] \/ queue'[w] = <<>>,
           \A w \in Workers : Findable(w) => Findable(w)'
    PROVE  CallInv'
<1> USE DEF CallInv, SameTaken, callVars
<1>1. \A c \in Calls : Untracked(c) <=> Untracked(c)' BY DEF Untracked
<1>2. NotYetSent' BY <1>1 DEF NotYetSent
<1>3. SentOnly' BY DEF SentOnly, Handed
<1>4. TrackedRight' BY DEF TrackedRight
<1>5. WaiterTracked'
  <2>1. ASSUME NEW c \in Calls, Waiting(c)' PROVE Tracked(c)'
    <3>1. Waiting(c) /\ call[c].worker \in Workers BY <2>1 DEF Waiting, TypeOK, LocalsSet
    <3>2. Tracked(c) BY <3>1, WaiterTrackedPointwise
    <3> QED BY <3>1, <3>2 DEF Tracked
  <2> QED BY <2>1 DEF WaiterTracked, Waiting, Tracked, CleanupAhead, Findable
<1>6. ReturnedLeavesNothing' BY DEF ReturnedLeavesNothing
<1> QED BY <1>2, <1>3, <1>4, <1>5, <1>6

LEMMA CallInvRegister ==
    ASSUME CallInv, TypeOK, NEW w \in Workers, Register(w)
    PROVE  CallInv'
<1>1. UNCHANGED <<callVars, queue, received, cleaner>>
  BY DEF Register, RefuseWorker, AcceptWorker, RegisterEntry, RegisterBlank, RegisterAdd,
         RegisterDef
<1>2. TakenToFlush' BY <1>1 DEF CallInv, TakenToFlush
<1>3. /\ conn[w].at # "refused"
      /\ \A v \in Workers : v # w => conn'[v] = conn[v]
  BY DEF Register, RefuseWorker, AcceptWorker, RegisterEntry, RegisterBlank, RegisterAdd,
         RegisterDef, TypeOK
<1>4. \A v \in Workers : Findable(v) => Findable(v)'
  <2>1. \A v \in Workers : Cleaned(v)' <=> Cleaned(v) BY <1>1 DEF Cleaned
  <2> QED BY <1>3, <2>1 DEF Findable
<1> QED BY <1>1, <1>2, <1>4, CallInvFrame DEF SameTaken

\* The part of a cleanup that only looks at the groups.
LEMMA CallInvGroups ==
    ASSUME CallInv, TypeOK, NEW w \in Workers, NEW p \in Paths,
           BeginClean(w, p) \/ CleanRemove(w, p) \/ CleanCount(w, p)
           \/ CleanDropGroup(w, p) \/ CleanDropDef(w, p)
    PROVE  CallInv'
<1>1. UNCHANGED <<callVars, queue, received>>
  BY DEF BeginClean, CleanRemove, CleanCount, CleanDropGroup, CleanDropDef
<1> DEFINE k == cleaner[w][p]
<1>2. k = [at |-> k.at, todo |-> k.todo, cur |-> k.cur, emptied |-> k.emptied,
           taken |-> k.taken]
  BY DEF TypeOK, Cleaner
<1>a. \A x, y : AtGroup(x, y) \notin {"flush", "done"} BY DEF AtGroup
<1>3. \E r : /\ cleaner' = [cleaner EXCEPT ![w][p] = r]
            /\ r.taken = k.taken /\ r.at \notin {"flush", "done"}
  <2>2. CASE BeginClean(w, p)
    <3> DEFINE r == [k EXCEPT !.at = AtGroup(Tools, {}), !.todo = Tools]
    <3>1. cleaner' = [cleaner EXCEPT ![w][p] = r] BY <2>2 DEF BeginClean
    <3>2. r.taken = k.taken /\ r.at \notin {"flush", "done"} BY <1>2, <1>a
    <3> QED BY <3>1, <3>2
  <2>3. CASE CleanRemove(w, p)
    <3>1. PICK t \in k.todo :
            \/ cleaner' = [cleaner EXCEPT ![w][p] = [k EXCEPT
                  !.at = AtGroup(k.todo \ {t}, k.emptied), !.todo = k.todo \ {t}]]
            \/ cleaner' = [cleaner EXCEPT ![w][p] = [k EXCEPT
                  !.at = "count", !.todo = k.todo \ {t}, !.cur = t]]
      BY <2>3 DEF CleanRemove
    <3> DEFINE r1 == [k EXCEPT !.at = AtGroup(k.todo \ {t}, k.emptied), !.todo = k.todo \ {t}]
               r2 == [k EXCEPT !.at = "count", !.todo = k.todo \ {t}, !.cur = t]
    <3>2. /\ r1.taken = k.taken /\ r1.at \notin {"flush", "done"}
          /\ r2.taken = k.taken /\ r2.at \notin {"flush", "done"}
      BY <1>2, <1>a
    <3> QED BY <3>1, <3>2
  <2>4. CASE CleanCount(w, p)
    <3>1. PICK x, y : cleaner' = [cleaner EXCEPT ![w][p] = [k EXCEPT
                          !.at = AtGroup(x, y), !.cur = Nobody, !.emptied = y]]
      BY <2>4 DEF CleanCount
    <3> DEFINE r == [k EXCEPT !.at = AtGroup(x, y), !.cur = Nobody, !.emptied = y]
    <3>2. r.taken = k.taken /\ r.at \notin {"flush", "done"} BY <1>2, <1>a
    <3> QED BY <3>1, <3>2
  <2>5. CASE CleanDropGroup(w, p)
    <3>1. PICK t : cleaner' = [cleaner EXCEPT ![w][p] = [k EXCEPT !.at = "dropDef", !.cur = t]]
      BY <2>5 DEF CleanDropGroup
    <3> DEFINE r == [k EXCEPT !.at = "dropDef", !.cur = t]
    <3>2. r.taken = k.taken /\ r.at \notin {"flush", "done"} BY <1>2, <1>a
    <3> QED BY <3>1, <3>2
  <2>6. CASE CleanDropDef(w, p)
    <3>1. PICK x, y : cleaner' = [cleaner EXCEPT ![w][p] = [k EXCEPT
                          !.at = AtGroup(x, y), !.cur = Nobody, !.emptied = y]]
      BY <2>6 DEF CleanDropDef
    <3> DEFINE r == [k EXCEPT !.at = AtGroup(x, y), !.cur = Nobody, !.emptied = y]
    <3>2. r.taken = k.taken /\ r.at \notin {"flush", "done"} BY <1>2, <1>a
    <3> QED BY <3>1, <3>2
  <2> QED BY <2>2, <2>3, <2>4, <2>5, <2>6
<1>4. k.taken = {}
  BY DEF CallInv, TakenToFlush, BeginClean, CleanRemove, CleanCount, CleanDropGroup, CleanDropDef
<1>5. SameTaken BY <1>3 DEF SameTaken, TypeOK
<1>6. TakenToFlush' BY <1>3, <1>4 DEF CallInv, TakenToFlush, TypeOK
<1>7. UNCHANGED conn
  BY DEF BeginClean, CleanRemove, CleanCount, CleanDropGroup, CleanDropDef
<1>8. \A v \in Workers : Findable(v) => Findable(v)'
  <2>1. ~Cleaned(w)' BY <1>3 DEF Cleaned, TypeOK
  <2>2. \A v \in Workers : v # w => (Cleaned(v)' <=> Cleaned(v)) BY <1>3 DEF Cleaned, TypeOK
  <2> QED BY <1>7, <2>1, <2>2 DEF Findable
<1> QED BY <1>1, <1>5, <1>6, <1>8, CallInvFrame

LEMMA CallInvTake ==
    ASSUME CallInv, TypeOK, NEW w \in Workers, NEW p \in Paths, CleanTake(w, p)
    PROVE  CallInv'
<1> USE DEF CallInv
<1>1. /\ inFlight'[w] = {}
      /\ \A v \in Workers : v # w => inFlight'[v] = inFlight[v]
  BY DEF CleanTake, TypeOK
<1>2. /\ cleaner'[w][p].taken = inFlight[w]
      /\ cleaner'[w][p].at = "flush"
      /\ \A v \in Workers, q \in Paths :
           (v # w \/ q # p) => cleaner'[v][q] = cleaner[v][q]
  BY DEF CleanTake, TypeOK, Cleaner
<1>3. UNCHANGED <<pending, reply, call, queue, received, conn>> BY DEF CleanTake
<1>4. \A c \in Calls : Untracked(c) => Untracked(c)' BY <1>1, <1>2 DEF Untracked
<1>5. NotYetSent' BY <1>3, <1>4 DEF NotYetSent
<1>6. SentOnly' BY <1>3 DEF SentOnly, Handed
<1>7. TrackedRight' BY <1>1, <1>2, <1>3 DEF TrackedRight
<1>8. TakenToFlush' BY <1>2 DEF TakenToFlush
<1>9. WaiterTracked'
  <2>1. ASSUME NEW c \in Calls, Waiting(c)' PROVE Tracked(c)'
    <3>1. Waiting(c) /\ call[c].worker \in Workers
      BY <1>3, <2>1 DEF Waiting, TypeOK, LocalsSet
    <3>2. Tracked(c) BY <3>1, WaiterTrackedPointwise
    <3>3. c \notin cleaner[w][p].taken BY DEF CleanTake, TakenToFlush
    <3>4. CASE call[c].worker = w
      BY <1>1, <1>2, <1>3, <3>2, <3>3, <3>4 DEF Tracked
    <3>5. CASE call[c].worker # w
      <4>1. Findable(call[c].worker)' <=> Findable(call[c].worker)
        BY <1>2, <1>3, <3>1, <3>5 DEF Findable, Cleaned
      <4> QED BY <1>1, <1>2, <1>3, <3>1, <3>2, <3>5, <4>1 DEF Tracked
    <3> QED BY <3>4, <3>5
  <2> QED BY <2>1 DEF WaiterTracked, Waiting, Tracked, CleanupAhead, Findable
<1>10. ReturnedLeavesNothing' BY <1>1, <1>3 DEF ReturnedLeavesNothing
<1> QED BY <1>5, <1>6, <1>7, <1>8, <1>9, <1>10

\* The sender of c is taken out of pending and used, for an answer or a failure.
LEMMA ResolveEffect ==
    ASSUME TypeOK, NEW c \in Calls, NEW r \in {"answer", "gone"}, Resolve(c, r)
    PROVE  /\ pending' = pending \ {c}
           /\ \A d \in Calls : d # c => reply'[d] = reply[d]
           /\ c \in pending => reply'[c] = r
           /\ c \notin pending => reply'[c] = reply[c]
BY DEF Resolve, TypeOK

LEMMA CallInvFlush ==
    ASSUME CallInv, TypeOK, NEW w \in Workers, NEW p \in Paths, CleanFlush(w, p)
    PROVE  CallInv'
<1> USE DEF CallInv
<1>1. PICK c \in cleaner[w][p].taken :
        /\ Resolve(c, "gone")
        /\ cleaner' = [cleaner EXCEPT ![w][p].taken = @ \ {c}]
  BY DEF CleanFlush
<1>2. c \in Calls BY DEF TypeOK, Cleaner
<1>3. /\ cleaner'[w][p].taken = cleaner[w][p].taken \ {c}
      /\ cleaner'[w][p].at = "flush"
      /\ \A v \in Workers, q \in Paths :
           (v # w \/ q # p) => cleaner'[v][q] = cleaner[v][q]
  BY <1>1 DEF TypeOK, Cleaner, CleanFlush
<1>4. UNCHANGED <<inFlight, call, queue, received, conn>> BY DEF CleanFlush
<1>5. /\ pending' = pending \ {c}
      /\ \A d \in Calls : d # c => reply'[d] = reply[d]
      /\ c \in pending => reply'[c] = "gone"
      /\ c \notin pending => reply'[c] = reply[c]
  BY <1>1, <1>2, ResolveEffect
<1>6. call[c].at \notin {"idle", "group", "pick", "insert", "track"}
  BY <1>2 DEF NotYetSent, Untracked
<1>7. \A d \in Calls : Untracked(d) => Untracked(d)' BY <1>3, <1>4 DEF Untracked
<1>8. NotYetSent' BY <1>4, <1>5, <1>6, <1>7 DEF NotYetSent
<1>9. SentOnly' BY <1>4 DEF SentOnly, Handed
<1>10. TrackedRight' BY <1>3, <1>4, <1>5 DEF TrackedRight
<1>11. TakenToFlush' BY <1>3 DEF TakenToFlush
<1>e. \A v \in Workers : Findable(v)' <=> Findable(v)
  <2>1. \A v \in Workers, q \in Paths : cleaner'[v][q].at = cleaner[v][q].at
    BY <1>3 DEF CleanFlush
  <2> QED BY <1>4, <2>1 DEF Findable, Cleaned
<1>12. WaiterTracked'
  <2>1. ASSUME NEW d \in Calls, Waiting(d)' PROVE Tracked(d)'
    <3>1. call[d].worker \in Workers BY <1>4, <2>1 DEF Waiting, TypeOK, LocalsSet
    <3>2. CASE d = c
      <4>1. Waiting(c) => c \in pending BY <1>2, WaiterTrackedPointwise DEF Tracked
      <4> QED BY <1>4, <1>5, <2>1, <3>2, <4>1 DEF Waiting
    <3>3. CASE d # c
      <4>1. Tracked(d) BY <1>4, <1>5, <2>1, <3>3, WaiterTrackedPointwise DEF Waiting
      <4> QED BY <1>3, <1>4, <1>5, <1>e, <3>1, <3>3, <4>1 DEF Tracked
    <3> QED BY <3>2, <3>3
  <2> QED BY <2>1 DEF WaiterTracked, Waiting, Tracked, CleanupAhead, Findable
<1>13. ReturnedLeavesNothing' BY <1>4, <1>5 DEF ReturnedLeavesNothing
<1> QED BY <1>8, <1>9, <1>10, <1>11, <1>12, <1>13

LEMMA CallInvEnd ==
    ASSUME CallInv, TypeOK, NEW w \in Workers, NEW p \in Paths, CleanEnd(w, p)
    PROVE  CallInv'
<1>1. UNCHANGED <<pending, reply, call, inFlight, received>>
  BY DEF CleanEnd, callVars
<1>2. SameTaken BY DEF CleanEnd, SameTaken, TypeOK, Cleaner
<1>3. TakenToFlush' BY DEF CallInv, CleanEnd, TakenToFlush, TypeOK, Cleaner
<1>4. \A v \in Workers : queue'[v] = queue[v] \/ queue'[v] = <<>>
  BY DEF CleanEnd, TypeOK
<1>5. \A v \in Workers : Findable(v) => Findable(v)'
  <2>1. \A v \in Workers, q \in Paths :
          cleaner'[v][q].at \in {"flush", "done"} <=> cleaner[v][q].at \in {"flush", "done"}
    BY DEF CleanEnd, TypeOK, Cleaner
  <2>2. UNCHANGED conn BY DEF CleanEnd
  <2> QED BY <2>1, <2>2 DEF Findable, Cleaned
<1> QED BY <1>1, <1>2, <1>3, <1>4, <1>5, CallInvFrame DEF callVars

LEMMA CallInvClean ==
    ASSUME CallInv, TypeOK, NEW w \in Workers, NEW p \in Paths, BeginClean(w, p) \/ CleanStep(w, p)
    PROVE  CallInv'
BY CallInvGroups, CallInvTake, CallInvFlush, CallInvEnd DEF CleanStep

\* A step of one handler c that touches no entry of another call.
LEMMA CallInvStepOf ==
    ASSUME CallInv, TypeOK, NEW c \in Calls, NEW r \in Call, call' = [call EXCEPT ![c] = r],
           r.worker = call[c].worker \/ Untracked(c),
           UNCHANGED <<reply, conn, cleaner, received>>,
           pending' \in {pending, pending \ {c}, pending \cup {c}},
           \A w \in Workers : inFlight'[w] \in {inFlight[w], inFlight[w] \ {c}}
                              \/ (w = r.worker /\ inFlight'[w] = inFlight[w] \cup {c}),
           \A w \in Workers : \/ queue'[w] = queue[w]
                              \/ /\ queue'[w] = Append(queue[w], c)
                                 /\ r.at = "await",
           call[c].at \in {"await", "done"} => r.at \in {"await", "done"},
           r.at \in {"idle", "group", "pick", "insert"} =>
               c \notin pending' /\ Untracked(c)' /\ reply[c] = "empty",
           r.at = "track" => c \in pending' /\ Untracked(c)' /\ reply[c] = "empty",
           reply[c] # "empty" => c \notin pending',
           (r.at \in {"send", "await"} /\ reply[c] = "empty") => Tracked(c)',
           (r.at = "done" /\ r.outcome # "cancelled") =>
               c \notin pending' /\ \A w \in Workers : c \notin inFlight'[w]
    PROVE  CallInv'
<1> USE DEF CallInv
<1>1. /\ call' \in [Calls -> Call]
      /\ call'[c] = r
      /\ \A d \in Calls : d # c => call'[d] = call[d]
  BY SetCall
<1>2. \A d \in Calls : d # c => /\ d \in pending' <=> d \in pending
                                /\ \A w \in Workers : d \in inFlight'[w] <=> d \in inFlight[w]
  OBVIOUS
<1>3. \A d \in Calls : d # c => (Untracked(d) <=> Untracked(d)') BY <1>2 DEF Untracked
<1>4. NotYetSent' BY <1>1, <1>2, <1>3 DEF NotYetSent
<1>5. SentOnly'
  <2>1. ASSUME NEW w \in Workers, NEW i \in 1..Len(queue'[w])
        PROVE  call'[queue'[w][i]].at \in {"await", "done"}
    <3>1. queue[w] \in Seq(Calls) BY DEF TypeOK
    <3>2. CASE queue'[w] = queue[w]
      <4>1. queue[w][i] \in Calls /\ call[queue[w][i]].at \in {"await", "done"}
        BY <3>1, <3>2, ElementOfSeq DEF SentOnly
      <4> QED BY <1>1, <3>2, <4>1
    <3>3. CASE queue'[w] = Append(queue[w], c) /\ r.at = "await"
      <4>1. Len(queue'[w]) = Len(queue[w]) + 1 /\ Len(queue[w]) \in Nat
        BY <3>1, <3>3, AppendProperties, LenProperties
      <4>2. CASE i = Len(queue[w]) + 1
        <5>1. queue'[w][i] = c BY <3>1, <3>3, <4>2, AppendProperties
        <5> QED BY <1>1, <3>3, <5>1
      <4>3. CASE i \in 1..Len(queue[w])
        <5>1. queue'[w][i] = queue[w][i] BY <3>1, <3>3, <4>3, AppendProperties
        <5>2. queue[w][i] \in Calls /\ call[queue[w][i]].at \in {"await", "done"}
          BY <3>1, <4>3, ElementOfSeq DEF SentOnly
        <5> QED BY <1>1, <5>1, <5>2
      <4> QED BY <4>1, <4>2, <4>3
    <3> QED BY <3>2, <3>3
  <2>2. ASSUME NEW d \in Calls, Handed(d)'
        PROVE  call'[d].at \in {"await", "done"}
    <3>1. Handed(d) BY <2>2 DEF Handed
    <3> QED BY <1>1, <3>1 DEF SentOnly
  <2> QED BY <2>1, <2>2 DEF SentOnly
<1>6. TrackedRight' BY <1>1, <1>2 DEF TrackedRight, Untracked
<1>7. TakenToFlush' BY DEF TakenToFlush
<1>c. cleaner' = cleaner /\ conn' = conn OBVIOUS
<1>f. \A v \in Workers : Findable(v)' <=> Findable(v) BY ONLY <1>c DEF Findable, Cleaned
<1>8. WaiterTracked'
  <2>1. ASSUME NEW d \in Calls, Waiting(d)' PROVE Tracked(d)'
    <3>1. CASE d = c BY <1>1, <2>1, <3>1 DEF Waiting
    <3>2. CASE d # c
      <4>1. Waiting(d) /\ call[d].worker \in Workers
        BY <1>1, <2>1, <3>2 DEF Waiting, TypeOK, LocalsSet
      <4>2. Tracked(d) BY <4>1, WaiterTrackedPointwise
      <4> QED BY <1>1, <1>2, <1>f, <3>2, <4>1, <4>2 DEF Tracked
    <3> QED BY <3>1, <3>2
  <2> QED BY <2>1 DEF WaiterTracked, Waiting, Tracked, CleanupAhead, Findable
<1>9. ReturnedLeavesNothing' BY <1>1, <1>2 DEF ReturnedLeavesNothing
<1> QED BY <1>4, <1>5, <1>6, <1>7, <1>8, <1>9

\* A handler that returns and takes its entries back, if it had any.
LEMMA CallInvReturn ==
    ASSUME CallInv, TypeOK, NEW c \in Calls, NEW o \in Outcome, Return(c, o),
           UNCHANGED <<reply, conn, cleaner, received, queue>>,
           pending' \in {pending, pending \ {c}},
           \A w \in Workers : inFlight'[w] \in {inFlight[w], inFlight[w] \ {c}},
           o # "cancelled" => c \notin pending' /\ \A w \in Workers : c \notin inFlight'[w]
    PROVE  CallInv'
<1> DEFINE r == [call[c] EXCEPT !.at = "done", !.outcome = o]
<1>1. call[c] \in Call BY DEF TypeOK
<1>2. /\ r \in Call /\ r.at = "done" /\ r.outcome = o /\ r.worker = call[c].worker
  BY <1>1 DEF Call
<1>3. call' = [call EXCEPT ![c] = r] BY DEF Return
<1>4. reply[c] # "empty" => c \notin pending' BY DEF CallInv, TrackedRight
<1> HIDE DEF r
<1> QED BY <1>2, <1>3, <1>4, CallInvStepOf

LEMMA CallInvInvoke ==
    ASSUME CallInv, TypeOK, NEW c \in Calls,
           (\E t \in Tools : Invoke(c, t)) \/ InvokeStep(c) \/ InvokeTimeout(c) \/ InvokeCancel(c)
    PROVE  CallInv'
<1> DEFINE k == call[c]
<1>0. /\ k \in Call
      /\ k = [at |-> k.at, tool |-> k.tool, group |-> k.group, worker |-> k.worker,
              outcome |-> k.outcome, tracked |-> k.tracked]
      /\ k.at \in {"insert", "track", "send", "await"} => k.worker \in Workers
  BY DEF TypeOK, LocalsSet, Call
<1>o. {"notFound", "unavailable", "answer", "gone", "deadline", "cancelled"} \subseteq Outcome
  BY DEF Outcome
<1>f. k.at \in {"idle", "group", "pick", "insert"} =>
        /\ c \notin pending /\ Untracked(c) /\ reply[c] = "empty"
        /\ \A w \in Workers : c \notin inFlight[w]
  BY DEF CallInv, NotYetSent, Untracked
<1>t. k.at = "track" => c \in pending /\ Untracked(c) /\ reply[c] = "empty"
  BY DEF CallInv, NotYetSent
\* Before the two inserts a step of the handler changes nothing but its locals.
<1>l. ASSUME NEW r \in Call, call' = [call EXCEPT ![c] = r],
             k.at \in {"idle", "group", "pick"}, r.at \in {"group", "pick", "insert"},
             UNCHANGED <<pending, inFlight, reply, queue, conn, cleaner, received>>
      PROVE  CallInv'
  <2>1. Untracked(c)' BY <1>f, <1>l DEF Untracked
  <2> QED BY <1>f, <1>l, <2>1, CallInvStepOf
<1>1. ASSUME NEW t \in Tools, Invoke(c, t) PROVE CallInv'
  <2>1. UNCHANGED <<pending, inFlight, reply, queue, conn, cleaner, received>> /\ k.at = "idle"
    BY <1>1 DEF Invoke
  <2>2. CASE t \in defs
    <3> DEFINE r == [k EXCEPT !.at = "group", !.tool = t]
    <3>1. call' = [call EXCEPT ![c] = r] BY <1>1, <2>2 DEF Invoke
    <3>2. r \in Call /\ r.at = "group" BY <1>0 DEF Call
    <3> HIDE DEF r
    <3> QED BY <1>l, <2>1, <3>1, <3>2
  <2>3. CASE t \notin defs
    <3>1. Return(c, "notFound") BY <1>1, <2>3 DEF Invoke
    <3> QED BY <1>o, <1>f, <2>1, <3>1, CallInvReturn
  <2> QED BY <2>2, <2>3
<1>2. CASE InvokeGroup(c)
  <2> DEFINE g == groupOf[k.tool]
  <2>1. UNCHANGED <<pending, inFlight, reply, queue, conn, cleaner, received>> /\ k.at = "group"
    BY <1>2 DEF InvokeGroup
  <2>2. CASE g # Nobody
    <3> DEFINE r == [k EXCEPT !.at = "pick", !.group = g]
    <3>1. call' = [call EXCEPT ![c] = r] BY <1>2, <2>2 DEF InvokeGroup
    <3>2. k.tool \in Tools BY <2>1 DEF TypeOK, LocalsSet
    <3>3. g \in Workers BY <2>2, <3>2 DEF TypeOK
    <3>4. r \in Call /\ r.at = "pick" BY <1>0, <3>3 DEF Call
    <3> HIDE DEF r
    <3> QED BY <1>l, <2>1, <3>1, <3>4
  <2>3. CASE g = Nobody
    <3>1. Return(c, "notFound") BY <1>2, <2>3 DEF InvokeGroup
    <3> QED BY <1>o, <1>f, <2>1, <3>1, CallInvReturn
  <2> QED BY <2>2, <2>3
<1>3. CASE InvokePick(c)
  <2> DEFINE ws == members[k.tool][k.group]
  <2>1. UNCHANGED <<pending, inFlight, reply, queue, conn, cleaner, received>> /\ k.at = "pick"
    BY <1>3 DEF InvokePick
  <2>2. CASE ws = <<>>
    <3>1. Return(c, "unavailable") BY <1>3, <2>2 DEF InvokePick
    <3> QED BY <1>o, <1>f, <2>1, <3>1, CallInvReturn
  <2>3. CASE ws # <<>>
    <3>1. PICK u : call' = [call EXCEPT ![c] = [k EXCEPT !.at = "insert", !.worker = u]]
      BY <1>3, <2>3 DEF InvokePick
    <3> DEFINE r == [k EXCEPT !.at = "insert", !.worker = u]
    <3>2. call'[c] = r BY <3>1 DEF TypeOK
    <3>3. TypeOK' BY TypeInvoke
    <3>4. r \in Call BY <3>2, <3>3 DEF TypeOK
    <3>5. r.at = "insert" BY <1>0
    <3> HIDE DEF r
    <3> QED BY <1>l, <2>1, <3>1, <3>4, <3>5 DEF r
  <2> QED BY <2>2, <2>3
<1>4. CASE InvokeInsert(c)
  <2> DEFINE r == [k EXCEPT !.at = "track"]
  <2>1. call' = [call EXCEPT ![c] = r] BY <1>4 DEF InvokeInsert
  <2>2. r \in Call /\ r.at = "track" /\ r.worker = k.worker BY <1>0 DEF Call
  <2>3. /\ pending' = pending \cup {c} /\ k.at = "insert"
        /\ UNCHANGED <<inFlight, reply, queue, conn, cleaner, received>>
    BY <1>4 DEF InvokeInsert
  <2>4. Untracked(c)' BY <1>f, <2>3 DEF Untracked
  <2> HIDE DEF r
  <2> QED BY <1>f, <2>1, <2>2, <2>3, <2>4, CallInvStepOf
<1>5. CASE InvokeTrack(c)
  <2> DEFINE r == [k EXCEPT !.at = "send",
                         !.tracked = IF Cleaned(k.worker) THEN "after" ELSE "ahead"]
  <2>1. call' = [call EXCEPT ![c] = r] BY <1>5 DEF InvokeTrack
  <2>2. /\ r \in Call /\ r.at = "send" /\ r.worker = k.worker /\ k.worker \in Workers
        /\ Cleaned(k.worker) => r.tracked = "after"
    BY <1>0, <1>5 DEF Call, Tracking, InvokeTrack
  <2>3. /\ inFlight' = [inFlight EXCEPT ![k.worker] = @ \cup {c}] /\ k.at = "track"
        /\ UNCHANGED <<pending, reply, queue, conn, cleaner, received>>
    BY <1>5 DEF InvokeTrack
  <2>4. /\ c \in inFlight'[k.worker]
        /\ \A w \in Workers : inFlight'[w] = inFlight[w]
                              \/ (w = k.worker /\ inFlight'[w] = inFlight[w] \cup {c})
    BY <2>2, <2>3 DEF TypeOK
  <2>5. call'[c] = r BY <2>1 DEF TypeOK
  <2>6. Tracked(c)'
    <3> PICK v \in Workers : v = k.worker BY <2>2
    <3> HIDE DEF r
    <3>1. Cleaned(v)' <=> Cleaned(v) BY <2>3 DEF Cleaned
    <3>2. call'[c].tracked = "after" \/ Findable(v)' BY <2>2, <2>5, <3>1 DEF Findable
    <3>3. call'[c].worker = v /\ c \in pending' /\ c \in inFlight'[v]
      BY <1>t, <2>2, <2>3, <2>4, <2>5
    <3> QED BY <3>2, <3>3 DEF Tracked
  <2> HIDE DEF r
  <2> QED BY <1>t, <2>1, <2>2, <2>3, <2>4, <2>6, CallInvStepOf
<1>6. CASE InvokeSend(c)
  <2>1. /\ k.at = "send" /\ k.worker \in Workers
        /\ UNCHANGED <<reply, conn, cleaner, received>>
    BY <1>0, <1>6 DEF InvokeSend
  <2>2. CASE RxAlive(k.worker) /\ Len(queue[k.worker]) < QueueCap
    <3> DEFINE r == [k EXCEPT !.at = "await"]
    <3>1. call' = [call EXCEPT ![c] = r] /\ UNCHANGED <<pending, inFlight>>
      BY <1>6, <2>2 DEF InvokeSend
    <3>2. r \in Call /\ r.at = "await" /\ r.worker = k.worker /\ r.tracked = k.tracked
      BY <1>0 DEF Call
    <3>3. \A w \in Workers : queue'[w] = queue[w] \/ queue'[w] = Append(queue[w], c)
      BY <1>6, <2>2, ZenonT(60) DEF InvokeSend, TypeOK
    <3>4. call'[c] = r BY <3>1 DEF TypeOK
    <3>5. reply[c] = "empty" => Tracked(c)'
      <4>1. reply[c] = "empty" => Tracked(c) BY <2>1, WaiterTrackedPointwise DEF Waiting, CallInv
      <4> PICK v \in Workers : v = k.worker BY <2>1
      <4> HIDE DEF r
      <4>2. Findable(v)' <=> Findable(v) BY <2>1 DEF Findable, Cleaned
      <4> QED BY <2>1, <3>1, <3>2, <3>4, <4>1, <4>2 DEF Tracked
    <3>6. reply[c] # "empty" => c \notin pending' BY <3>1 DEF CallInv, TrackedRight
    <3> HIDE DEF r
    <3> QED BY <2>1, <3>1, <3>2, <3>3, <3>5, <3>6, CallInvStepOf
  <2>3. CASE ~(RxAlive(k.worker) /\ Len(queue[k.worker]) < QueueCap)
    <3>1. /\ Return(c, "unavailable") /\ queue' = queue
          /\ pending' = pending \ {c}
          /\ inFlight' = [inFlight EXCEPT ![k.worker] = @ \ {c}]
      BY <1>6, <2>3 DEF InvokeSend
    <3>2. \A w \in Workers : /\ inFlight'[w] \in {inFlight[w], inFlight[w] \ {c}}
                             /\ c \notin inFlight'[w]
      BY <2>1, <3>1 DEF TypeOK, CallInv, TrackedRight
    <3> QED BY <1>o, <2>1, <3>1, <3>2, CallInvReturn
  <2> QED BY <2>2, <2>3
<1>7. CASE InvokeReply(c) \/ InvokeTimeout(c)
  <2>1. /\ k.worker \in Workers
        /\ inFlight' = [inFlight EXCEPT ![k.worker] = @ \ {c}]
        /\ UNCHANGED <<reply, conn, cleaner, received, queue>>
    BY <1>0, <1>7 DEF InvokeReply, InvokeTimeout
  <2>2. \A w \in Workers : /\ inFlight'[w] \in {inFlight[w], inFlight[w] \ {c}}
                           /\ c \notin inFlight'[w]
    BY <2>1 DEF TypeOK, CallInv, TrackedRight
  <2>3. pending' \in {pending, pending \ {c}} /\ c \notin pending'
    BY <1>7 DEF InvokeReply, InvokeTimeout, CallInv, TrackedRight
  <2>4. PICK o \in Outcome : Return(c, o)
    BY <1>7, <1>o DEF InvokeReply, InvokeTimeout, TypeOK
  <2> QED BY <2>1, <2>2, <2>3, <2>4, CallInvReturn
<1>8. CASE InvokeCancel(c)
  BY <1>8, <1>o, CallInvReturn DEF InvokeCancel
<1> QED BY <1>1, <1>2, <1>3, <1>4, <1>5, <1>6, <1>7, <1>8 DEF InvokeStep

LEMMA CallInvStream ==
    ASSUME CallInv, TypeOK, NEW w \in Workers,
           DeliverTask(w) \/ \E c \in Calls : Answer(w, c)
    PROVE  CallInv'
<1> USE DEF CallInv
<1>1. CASE DeliverTask(w)
  <2>1. /\ queue[w] \in Seq(Calls) /\ queue[w] # <<>>
        /\ queue' = [queue EXCEPT ![w] = Tail(@)]
        /\ received' = [received EXCEPT ![Head(queue[w])][MachineOf[w]] = @ + 1]
        /\ UNCHANGED <<callVars, conn, cleaner>>
    BY <1>1 DEF DeliverTask, TypeOK
  <2>2. NotYetSent' /\ TrackedRight' /\ TakenToFlush' /\ WaiterTracked' /\ ReturnedLeavesNothing'
    BY <2>1 DEF callVars, NotYetSent, Untracked, TrackedRight, TakenToFlush, WaiterTracked,
                CleanupAhead, Cleaned, ReturnedLeavesNothing
  <2>3. SentOnly'
    <3>1. call[queue[w][1]].at \in {"await", "done"} /\ Head(queue[w]) = queue[w][1]
      <4>1. Len(queue[w]) \in Nat \ {0} BY <2>1, LenProperties, EmptySeq
      <4> QED BY <2>1, <4>1 DEF SentOnly
    <3>2. \A i \in 1..Len(Tail(queue[w])) :
             i + 1 \in 1..Len(queue[w]) /\ Tail(queue[w])[i] = queue[w][i + 1]
      BY <2>1, HeadTailProperties
    <3>3. ASSUME NEW v \in Workers, NEW i \in 1..Len(queue'[v])
          PROVE  call[queue'[v][i]].at \in {"await", "done"}
      <4>1. CASE v = w BY <2>1, <3>2, <4>1 DEF SentOnly, TypeOK
      <4>2. CASE v # w
        <5>1. queue'[v] = queue[v] BY <2>1, <4>2 DEF TypeOK
        <5> QED BY <5>1 DEF SentOnly
      <4> QED BY <4>1, <4>2
    <3>4. ASSUME NEW d \in Calls, Handed(d)'
          PROVE  call[d].at \in {"await", "done"}
      <4>1. d = Head(queue[w]) \/ Handed(d) BY <2>1, <3>4 DEF Handed, TypeOK
      <4> QED BY <3>1, <4>1 DEF SentOnly
    <3> QED BY <2>1, <3>3, <3>4 DEF SentOnly, callVars
  <2> QED BY <2>2, <2>3
<1>2. ASSUME NEW c \in Calls, Answer(w, c) PROVE CallInv'
  <2>1. /\ pending' = pending \ {c}
        /\ \A d \in Calls : d # c => reply'[d] = reply[d]
        /\ c \in pending /\ reply'[c] = "answer"
        /\ UNCHANGED <<inFlight, queue, conn, cleaner, call, received>>
    BY <1>2, ResolveEffect DEF Answer
  <2>2. call[c].at \in {"await", "done"}
    BY <1>2, DaemonAssumption DEF Answer, SentOnly, Handed
  <2>3. \A d \in Calls : Untracked(d) <=> Untracked(d)' BY <2>1 DEF Untracked
  <2>4. NotYetSent' BY <2>1, <2>2, <2>3 DEF NotYetSent
  <2>5. SentOnly' /\ TakenToFlush' BY <2>1 DEF SentOnly, Handed, TakenToFlush
  <2>6. TrackedRight' BY <2>1 DEF TrackedRight
  <2>7. WaiterTracked'
    <3>1. ASSUME NEW d \in Calls, Waiting(d)' PROVE Tracked(d)'
      <4>1. d # c BY <2>1, <3>1 DEF Waiting
      <4>2. Tracked(d) BY <2>1, <3>1, <4>1, WaiterTrackedPointwise DEF Waiting
      <4>3. Findable(call[d].worker)' <=> Findable(call[d].worker)
        BY <2>1 DEF Findable, Cleaned
      <4> QED BY <2>1, <4>1, <4>2, <4>3 DEF Tracked
    <3> QED BY <3>1 DEF WaiterTracked, Waiting, Tracked, CleanupAhead, Findable
  <2>8. ReturnedLeavesNothing' BY <2>1 DEF ReturnedLeavesNothing
  <2> QED BY <2>4, <2>5, <2>6, <2>7, <2>8
<1> QED BY <1>1, <1>2

LEMMA CallInvariant == Spec => []CallInv
<1>1. CallInv /\ TypeOK /\ [Next]_vars => CallInv'
  <2> SUFFICES ASSUME CallInv, TypeOK, [Next]_vars PROVE CallInv' OBVIOUS
  <2>1. CASE Next
    BY <2>1, CallInvRegister, CallInvClean, CallInvInvoke, CallInvStream DEF Next
  <2>2. CASE UNCHANGED vars
    BY <2>2 DEF vars, CallInv, NotYetSent, Untracked, SentOnly, Handed, TrackedRight,
                TakenToFlush, WaiterTracked, CleanupAhead, Cleaned, ReturnedLeavesNothing
  <2> QED BY <2>1, <2>2
<1> QED BY <1>1, CallInvInit, Typing, PTL DEF Spec

\* A waiting call is always within reach of its worker's cleanup: fail-fast
\* cannot overlook a call that was dispatched before the cleanup began.
THEOREM NoLostWaiter == Spec => []WaiterTracked
<1>1. CallInv => WaiterTracked BY DEF CallInv
<1> QED BY <1>1, CallInvariant, PTL

\* A call that has returned is in neither table, however the answer, the timer
\* and the cleanups of its worker were interleaved.
THEOREM NothingLeftBehind == Spec => []ReturnedLeavesNothing
<1>1. CallInv => ReturnedLeavesNothing BY DEF CallInv
<1> QED BY <1>1, CallInvariant, PTL

-----------------------------------------------------------------------------
(* Daemon implements Delegation *)

Refusals == {"notFound", "unavailable"}

LEMMA RefusalIs == Promise!Refusal = Refusals
BY DEF Promise!Refusal, Refusals

LEMMA DeliveryInit == Init => DeliveryInv
<1> SUFFICES ASSUME Init PROVE DeliveryInv OBVIOUS
<1>1. \A c \in Calls : ~Handed(c) BY DEF Init, Handed
<1>2. \A w \in Workers : Len(queue[w]) = 0 BY EmptySeq DEF Init
<1> QED BY <1>1, <1>2 DEF Init, DeliveryInv, QueuedOnce, HandedRight, AnswersHanded, Unended

\* A step that neither hands over nor ends a call.
LEMMA DeliveryFrame ==
    ASSUME DeliveryInv, UNCHANGED <<call, queue, received>>,
           \A c \in Calls : reply'[c] = "answer" => reply[c] = "answer"
    PROVE  DeliveryInv'
BY DEF DeliveryInv, QueuedOnce, HandedRight, AnswersHanded, Handed, Unended

LEMMA DeliveryClean ==
    ASSUME TypeOK, DeliveryInv, NEW w \in Workers, NEW p \in Paths,
           BeginClean(w, p) \/ CleanStep(w, p)
    PROVE  DeliveryInv'
<1>1. CASE CleanEnd(w, p)
  <2>1. UNCHANGED <<call, received, reply>> BY <1>1 DEF CleanEnd, callVars
  <2>2. \A v \in Workers : queue'[v] = queue[v] \/ queue'[v] = <<>>
    BY <1>1 DEF CleanEnd, TypeOK
  <2>3. Len(<<>>) = 0 BY EmptySeq
  <2>4. QueuedOnce' BY <2>1, <2>2, <2>3 DEF DeliveryInv, QueuedOnce, Handed
  <2> QED BY <2>1, <2>4 DEF DeliveryInv, HandedRight, AnswersHanded, Handed, Unended
<1>2. CASE CleanFlush(w, p)
  <2>1. PICK c \in Calls : Resolve(c, "gone")
    BY <1>2 DEF CleanFlush, TypeOK, Cleaner
  <2>2. \A d \in Calls : reply'[d] = "answer" => reply[d] = "answer"
    BY <2>1, ResolveEffect DEF Resolve, TypeOK
  <2> QED BY <1>2, <2>2, DeliveryFrame DEF CleanFlush
<1>3. CASE BeginClean(w, p) \/ CleanRemove(w, p) \/ CleanCount(w, p) \/ CleanDropGroup(w, p)
           \/ CleanDropDef(w, p) \/ CleanTake(w, p)
  <2>1. UNCHANGED <<call, queue, received, reply>>
    BY <1>3 DEF BeginClean, CleanRemove, CleanCount, CleanDropGroup, CleanDropDef, CleanTake, callVars
  <2> QED BY <2>1, DeliveryFrame
<1> QED BY <1>1, <1>2, <1>3 DEF CleanStep

\* A step of one handler that sends nothing; once the task is out it ends with no refusal.
LEMMA DeliveryCall ==
    ASSUME TypeOK, SentOnly, DeliveryInv, NEW c \in Calls, NEW r \in Call,
           call' = [call EXCEPT ![c] = r], UNCHANGED <<reply, queue, received>>,
           r.at # "done" => r.outcome = "none",
           call[c].at \in {"await", "done"} =>
               r.worker = call[c].worker /\ r.outcome \notin Refusals
    PROVE  DeliveryInv'
<1>1. /\ call'[c] = r /\ \A d \in Calls : d # c => call'[d] = call[d]
  BY SetCall
<1>2. \A d \in Calls : call[d].at \in {"await", "done"} =>
        /\ call'[d].worker = call[d].worker
        /\ call[d].outcome \notin Refusals => call'[d].outcome \notin Refusals
  BY <1>1
<1>h. \A d \in Calls : Handed(d)' <=> Handed(d) BY DEF Handed
<1>3. QueuedOnce'
  <2> SUFFICES ASSUME NEW w \in Workers, NEW i \in 1..Len(queue[w]), NEW d, d = queue[w][i]
               PROVE  /\ call'[d].worker = w /\ call'[d].outcome \notin Refusals
                      /\ ~Handed(d)'
                      /\ \A j \in 1..Len(queue[w]) : queue[w][j] = d => j = i
    BY RefusalIs DEF QueuedOnce, Promise!Refusal, Refusals
  <2>1. d \in Calls BY ElementOfSeq DEF TypeOK
  <2>2. call[d].at \in {"await", "done"} BY DEF SentOnly
  <2>3. /\ call[d].worker = w /\ call[d].outcome \notin Refusals
        /\ ~Handed(d)
        /\ \A j \in 1..Len(queue[w]) : queue[w][j] = d => j = i
    BY RefusalIs DEF DeliveryInv, QueuedOnce
  <2> QED BY <1>2, <1>h, <2>1, <2>2, <2>3
<1>4. HandedRight'
  <2> SUFFICES ASSUME NEW d \in Calls, Handed(d) PROVE call'[d].outcome \notin Refusals
    BY <1>h, RefusalIs DEF HandedRight, Promise!Refusal, Refusals
  <2>1. call[d].at \in {"await", "done"} /\ call[d].outcome \notin Refusals
    BY RefusalIs DEF SentOnly, DeliveryInv, HandedRight
  <2> QED BY <1>2, <2>1
<1>5. AnswersHanded' BY <1>h DEF DeliveryInv, AnswersHanded
<1>6. Unended' BY <1>1 DEF DeliveryInv, Unended
<1> QED BY <1>3, <1>4, <1>5, <1>6 DEF DeliveryInv

LEMMA DeliveryReturn ==
    ASSUME TypeOK, SentOnly, DeliveryInv, NEW c \in Calls, NEW o \in Outcome, Return(c, o),
           UNCHANGED <<reply, queue, received>>,
           call[c].at \in {"await", "done"} => o \notin Refusals
    PROVE  DeliveryInv'
<1> DEFINE r == [call[c] EXCEPT !.at = "done", !.outcome = o]
<1>1. call[c] \in Call BY DEF TypeOK
<1>2. r \in Call /\ r.at = "done" /\ r.outcome = o /\ r.worker = call[c].worker
  BY <1>1 DEF Call
<1>3. call' = [call EXCEPT ![c] = r] BY DEF Return
<1> HIDE DEF r
<1> QED BY <1>2, <1>3, DeliveryCall

\* Before try_send the handler has sent nothing, and goes on or is refused.
LEMMA DeliveryGoesOn ==
    ASSUME TypeOK, SentOnly, DeliveryInv, NEW c \in Calls, NEW r \in Call,
           call' = [call EXCEPT ![c] = r], UNCHANGED <<reply, queue, received>>,
           call[c].at \notin {"await", "done"}, r.outcome = call[c].outcome, r.at # "done"
    PROVE  DeliveryInv'
BY DeliveryCall DEF DeliveryInv, Unended

LEMMA DeliverySend ==
    ASSUME TypeOK, SentOnly, DeliveryInv, NEW c \in Calls, InvokeSend(c)
    PROVE  DeliveryInv'
<1> DEFINE w == call[c].worker
<1>1. /\ call[c].at = "send" /\ call[c] \in Call /\ w \in Workers /\ UNCHANGED <<reply, received>>
      /\ queue \in [Workers -> Seq(Calls)] /\ queue[w] \in Seq(Calls)
  BY DEF InvokeSend, TypeOK, LocalsSet
<1>2. CASE Return(c, "unavailable") /\ UNCHANGED queue
  BY <1>1, <1>2, DeliveryReturn DEF Outcome
<1>3. CASE /\ queue' = [queue EXCEPT ![w] = Append(@, c)]
           /\ call' = [call EXCEPT ![c].at = "await"]
  <2>1. /\ \A v \in Workers : \A i \in 1..Len(queue[v]) : queue[v][i] # c
        /\ ~Handed(c)
    BY <1>1 DEF SentOnly
  <2>h. \A d \in Calls : Handed(d)' <=> Handed(d) BY <1>1 DEF Handed
  <2>2. /\ call'[c].at = "await" /\ call'[c].worker = w /\ call'[c].outcome = call[c].outcome
        /\ \A d \in Calls : d # c => call'[d] = call[d]
    BY <1>1, <1>3 DEF TypeOK, Call
  <2>3. call[c].outcome = "none" BY <1>1 DEF DeliveryInv, Unended
  <2>4. QueuedOnce'
    <3> SUFFICES ASSUME NEW v \in Workers, NEW i \in 1..Len(queue'[v]), NEW d, d = queue'[v][i]
                 PROVE  /\ call'[d].worker = v /\ call'[d].outcome \notin Refusals
                        /\ ~Handed(d)'
                        /\ \A j \in 1..Len(queue'[v]) : queue'[v][j] = d => j = i
      BY RefusalIs DEF QueuedOnce, Promise!Refusal, Refusals
    <3>1. ASSUME NEW x \in Workers, NEW k \in 1..Len(queue[x])
          PROVE  /\ queue[x][k] \in Calls /\ queue[x][k] # c
                 /\ call'[queue[x][k]].worker = x /\ call'[queue[x][k]].outcome \notin Refusals
                 /\ ~Handed(queue[x][k])
                 /\ \A j \in 1..Len(queue[x]) : queue[x][j] = queue[x][k] => j = k
      <4>1. queue[x][k] \in Calls BY ElementOfSeq DEF TypeOK
      <4> QED BY <2>1, <2>2, <4>1, RefusalIs DEF DeliveryInv, QueuedOnce
    <3>2. CASE v # w
      <4>1. queue'[v] = queue[v] BY <1>1, <1>3, <3>2
      <4> QED BY <2>h, <3>1, <4>1
    <3>3. CASE v = w
      <4> PICK n \in Nat : n = Len(queue[w]) BY <1>1, LenProperties
      <4>1. /\ Len(queue'[w]) = n + 1 /\ queue'[w][n + 1] = c
            /\ \A k \in 1..n : queue'[w][k] = queue[w][k]
        BY <1>1, <1>3, AppendProperties
      <4>2. CASE i = n + 1
        <5>1. d = c BY <3>3, <4>1, <4>2
        <5>2. ASSUME NEW j \in 1..n PROVE queue'[w][j] # c
          <6>1. queue'[w][j] = queue[w][j] /\ j \in 1..Len(queue[w]) BY <4>1
          <6> QED BY <1>1, <2>1, <6>1
        <5>3. ASSUME NEW j \in 1..Len(queue'[v]), queue'[v][j] = d PROVE j = i
          <6>1. j = n + 1 \/ j \in 1..n BY <3>3, <4>1
          <6>2. queue'[w][j] = c BY <3>3, <5>1, <5>3
          <6> QED BY <4>2, <5>2, <6>1, <6>2
        <5>4. call'[d].worker = v /\ call'[d].outcome \notin Refusals
          BY <2>2, <2>3, <3>3, <5>1 DEF Refusals
        <5>5. ~Handed(d)'
          <6>1. ~Handed(d) /\ d \in Calls BY <2>1, <5>1
          <6> QED BY <2>h, <6>1
        <5> QED BY <5>3, <5>4, <5>5
      <4>3. CASE i \in 1..n
        <5>1. d = queue[w][i] /\ i \in 1..Len(queue[w]) BY <3>3, <4>1, <4>3
        <5>2. /\ d \in Calls /\ d # c /\ call'[d].worker = w /\ call'[d].outcome \notin Refusals
              /\ ~Handed(d) /\ \A j \in 1..Len(queue[w]) : queue[w][j] = d => j = i
          BY <1>1, <3>1, <5>1
        <5>3. ~Handed(d)' BY <2>h, <5>2
        <5>4. ASSUME NEW j \in 1..Len(queue'[v]), queue'[v][j] = d PROVE j = i
          <6>1. j = n + 1 \/ j \in 1..n BY <3>3, <4>1
          <6>2. CASE j = n + 1
            <7>1. queue'[w][j] = c BY <4>1, <6>2
            <7> QED BY <3>3, <5>2, <5>4, <7>1
          <6>3. CASE j \in 1..n
            <7>1. queue[w][j] = d /\ j \in 1..Len(queue[w]) BY <3>3, <4>1, <5>4, <6>3
            <7> QED BY <5>2, <7>1
          <6> QED BY <6>1, <6>2, <6>3
        <5> QED BY <3>3, <5>2, <5>3, <5>4
      <4>4. i = n + 1 \/ i \in 1..n BY <3>3, <4>1
      <4> QED BY <4>2, <4>3, <4>4
    <3> QED BY <3>2, <3>3
  <2>5. HandedRight'
    <3> SUFFICES ASSUME NEW d \in Calls, Handed(d)
                 PROVE  call'[d].outcome \notin Refusals
      BY <2>h, RefusalIs DEF HandedRight, Promise!Refusal, Refusals
    <3>1. d # c BY <2>1
    <3> QED BY <2>2, <3>1, RefusalIs DEF DeliveryInv, HandedRight
  <2>6. AnswersHanded' BY <1>1, <2>h DEF DeliveryInv, AnswersHanded
  <2>7. Unended' BY <2>2, <2>3 DEF DeliveryInv, Unended
  <2> QED BY <2>4, <2>5, <2>6, <2>7 DEF DeliveryInv
<1> QED BY <1>2, <1>3 DEF InvokeSend

LEMMA DeliveryInvoke ==
    ASSUME TypeOK, SentOnly, DeliveryInv, NEW c \in Calls,
           (\E t \in Tools : Invoke(c, t)) \/ InvokeStep(c) \/ InvokeTimeout(c) \/ InvokeCancel(c)
    PROVE  DeliveryInv'
<1> DEFINE k == call[c]
<1>0. /\ k \in Call
      /\ k = [at |-> k.at, tool |-> k.tool, group |-> k.group, worker |-> k.worker,
              outcome |-> k.outcome, tracked |-> k.tracked]
      /\ k.at \in {"group", "pick"} => k.tool \in Tools
      /\ k.at = "pick" => k.group \in Workers
  BY DEF TypeOK, LocalsSet, Call
<1>1. ASSUME NEW t \in Tools, Invoke(c, t) PROVE DeliveryInv'
  <2>1. k.at = "idle" /\ UNCHANGED <<reply, queue, received>> BY <1>1 DEF Invoke
  <2>2. CASE t \in defs
    <3> DEFINE r == [k EXCEPT !.at = "group", !.tool = t]
    <3>1. call' = [call EXCEPT ![c] = r] BY <1>1, <2>2 DEF Invoke
    <3>2. r \in Call /\ r.at = "group" /\ r.outcome = k.outcome BY <1>0 DEF Call
    <3> HIDE DEF r
    <3> QED BY <2>1, <3>1, <3>2, DeliveryGoesOn
  <2>3. CASE t \notin defs BY <1>1, <2>1, <2>3, DeliveryReturn DEF Invoke, Outcome
  <2> QED BY <2>2, <2>3
<1>2. CASE InvokeGroup(c)
  <2>1. k.at = "group" /\ UNCHANGED <<reply, queue, received>> BY <1>2 DEF InvokeGroup
  <2> DEFINE g == groupOf[k.tool]
  <2>2. CASE g # Nobody
    <3> DEFINE r == [k EXCEPT !.at = "pick", !.group = g]
    <3>1. call' = [call EXCEPT ![c] = r] BY <1>2, <2>2 DEF InvokeGroup
    <3>2. g \in Workers BY <1>0, <2>1, <2>2 DEF TypeOK
    <3>3. r \in Call /\ r.at = "pick" /\ r.outcome = k.outcome BY <1>0, <3>2 DEF Call
    <3> HIDE DEF r
    <3> QED BY <2>1, <3>1, <3>3, DeliveryGoesOn
  <2>3. CASE g = Nobody BY <1>2, <2>1, <2>3, DeliveryReturn DEF InvokeGroup, Outcome
  <2> QED BY <2>2, <2>3
<1>3. CASE InvokePick(c)
  <2>1. k.at = "pick" /\ UNCHANGED <<reply, queue, received>> BY <1>3 DEF InvokePick
  <2> DEFINE ws == members[k.tool][k.group]
             n == cursor[k.tool][k.group]
             x == ws[(n % Len(ws)) + 1]
  <2>2. CASE ws # <<>>
    <3> DEFINE r == [k EXCEPT !.at = "insert", !.worker = x]
    <3>1. call' = [call EXCEPT ![c] = r] BY <1>3, <2>2 DEF InvokePick
    <3>2. ws \in Seq(Workers) /\ n \in Nat BY <1>0, <2>1 DEF TypeOK
    <3>3. (n % Len(ws)) + 1 \in 1..Len(ws)
      <4>1. Len(ws) \in Nat \ {0} BY <2>2, <3>2, EmptySeq, LenProperties
      <4> QED BY <3>2, <4>1, SMTT(60)
    <3>4. x \in Workers BY <3>2, <3>3, ElementOfSeq
    <3>5. r \in Call /\ r.at = "insert" /\ r.outcome = k.outcome BY <1>0, <3>4 DEF Call
    <3> HIDE DEF r
    <3> QED BY <2>1, <3>1, <3>5, DeliveryGoesOn
  <2>3. CASE ws = <<>> BY <1>3, <2>1, <2>3, DeliveryReturn DEF InvokePick, Outcome
  <2> QED BY <2>2, <2>3
<1>4. CASE InvokeInsert(c)
  <2> DEFINE r == [k EXCEPT !.at = "track"]
  <2>1. r \in Call /\ r.at = "track" /\ r.outcome = k.outcome BY <1>0 DEF Call
  <2>2. call' = [call EXCEPT ![c] = r] BY <1>4 DEF InvokeInsert
  <2> HIDE DEF r
  <2> QED BY <1>4, <2>1, <2>2, DeliveryGoesOn DEF InvokeInsert
<1>5. CASE InvokeTrack(c)
  <2> DEFINE r == [k EXCEPT !.at = "send",
                            !.tracked = IF Cleaned(k.worker) THEN "after" ELSE "ahead"]
  <2>1. r \in Call /\ r.at = "send" /\ r.outcome = k.outcome BY <1>0 DEF Call, Tracking
  <2>2. call' = [call EXCEPT ![c] = r] BY <1>5 DEF InvokeTrack
  <2> HIDE DEF r
  <2> QED BY <1>5, <2>1, <2>2, DeliveryGoesOn DEF InvokeTrack
<1>6. CASE InvokeSend(c) BY <1>6, DeliverySend
<1>7. CASE InvokeReply(c)
  <2>1. reply[c] \in Outcome \ Refusals BY <1>7 DEF InvokeReply, TypeOK, Outcome, Refusals
  <2> QED BY <1>7, <2>1, DeliveryReturn DEF InvokeReply
<1>8. CASE InvokeTimeout(c) BY <1>8, DeliveryReturn DEF InvokeTimeout, Outcome, Refusals
<1>9. CASE InvokeCancel(c) BY <1>9, DeliveryReturn DEF InvokeCancel, Outcome, Refusals
<1> QED BY <1>1, <1>2, <1>3, <1>4, <1>5, <1>6, <1>7, <1>8, <1>9 DEF InvokeStep

\* The head of a channel and the rest of it.
LEMMA QueueHead ==
    ASSUME TypeOK, NEW w \in Workers, queue[w] # <<>>
    PROVE  /\ 1 \in 1..Len(queue[w]) /\ Head(queue[w]) = queue[w][1] /\ queue[w][1] \in Calls
           /\ \A i \in 1..Len(Tail(queue[w])) :
                /\ i + 1 \in 1..Len(queue[w]) /\ i + 1 # 1
                /\ Tail(queue[w])[i] = queue[w][i + 1]
                /\ \A j \in 1..Len(Tail(queue[w])) : i + 1 = j + 1 => i = j
<1>1. queue[w] \in Seq(Calls) BY DEF TypeOK
<1>2. PICK n \in Nat \ {0} : n = Len(queue[w]) BY <1>1, LenProperties, EmptySeq
<1>3. Len(Tail(queue[w])) = n - 1 BY <1>1, <1>2, HeadTailProperties
<1> QED BY <1>1, <1>2, <1>3, HeadTailProperties, ElementOfSeq

LEMMA DeliveryHand ==
    ASSUME TypeOK, DeliveryInv, NEW w \in Workers, DeliverTask(w)
    PROVE  DeliveryInv'
<1> DEFINE c == Head(queue[w])
           m0 == MachineOf[w]
<1>1. /\ queue[w] # <<>> /\ m0 \in Machines /\ UNCHANGED <<call, reply>>
      /\ queue'[w] = Tail(queue[w])
      /\ \A v \in Workers : v # w => queue'[v] = queue[v]
      /\ received' = [received EXCEPT ![c][m0] = @ + 1]
  BY DaemonAssumption DEF DeliverTask, TypeOK, callVars
<1>2. /\ 1 \in 1..Len(queue[w]) /\ c = queue[w][1]
      /\ \A i \in 1..Len(Tail(queue[w])) :
           /\ i + 1 \in 1..Len(queue[w]) /\ i + 1 # 1
           /\ Tail(queue[w])[i] = queue[w][i + 1]
           /\ \A j \in 1..Len(Tail(queue[w])) : i + 1 = j + 1 => i = j
  BY <1>1, QueueHead
<1>3. call[c].worker = w /\ call[c].outcome \notin Refusals
  BY <1>2, RefusalIs DEF DeliveryInv, QueuedOnce
<1>c. c \in Calls BY <1>1, <1>2, QueueHead
<1> HIDE DEF c, m0
<1>4. \A d \in Calls : /\ Handed(d)' => d = c \/ Handed(d)
                       /\ Handed(d) => Handed(d)'
  BY <1>1, <1>c DEF Handed, TypeOK
<1>q. ASSUME NEW v \in Workers, NEW i \in 1..Len(queue[v])
      PROVE  /\ call[queue[v][i]].worker = v /\ call[queue[v][i]].outcome \notin Refusals
             /\ queue[v][i] \in Calls /\ ~Handed(queue[v][i])
             /\ \A j \in 1..Len(queue[v]) : queue[v][j] = queue[v][i] => j = i
  <2>1. queue[v][i] \in Calls BY ElementOfSeq DEF TypeOK
  <2> QED BY <2>1, RefusalIs DEF DeliveryInv, QueuedOnce
<1>5. QueuedOnce'
  <2> SUFFICES ASSUME NEW v \in Workers, NEW i \in 1..Len(queue'[v]), NEW d, d = queue'[v][i]
               PROVE  /\ call'[d].worker = v /\ call'[d].outcome \notin Refusals
                      /\ ~Handed(d)'
                      /\ \A j \in 1..Len(queue'[v]) : queue'[v][j] = d => j = i
    BY RefusalIs DEF QueuedOnce, Promise!Refusal, Refusals
  <2>0. call' = call BY <1>1
  <2>1. CASE v # w
    <3>1. queue'[v] = queue[v] /\ i \in 1..Len(queue[v]) /\ d = queue[v][i] BY <1>1, <2>1
    <3>2. /\ call[d].worker = v /\ call[d].outcome \notin Refusals
          /\ d \in Calls /\ ~Handed(d)
          /\ \A j \in 1..Len(queue[v]) : queue[v][j] = d => j = i
      BY <1>q, <3>1
    <3>3. d # c BY <1>3, <2>1, <3>2
    <3>4. ~Handed(d)' BY <1>4, <3>2, <3>3
    <3> QED BY <2>0, <3>1, <3>2, <3>4
  <2>2. CASE v = w
    <3>1. i \in 1..Len(Tail(queue[w])) /\ queue'[v] = Tail(queue[w]) BY <1>1, <2>2
    <3>2. d = queue[w][i + 1] /\ i + 1 \in 1..Len(queue[w]) /\ i + 1 # 1
      BY <1>2, <3>1
    <3>3. /\ call[d].worker = w /\ call[d].outcome \notin Refusals
          /\ d \in Calls /\ ~Handed(d) /\ d # c
      BY <1>2, <1>q, <3>2
    <3>4. ASSUME NEW j \in 1..Len(Tail(queue[w])), Tail(queue[w])[j] = d
          PROVE  j = i
      <4>1. queue[w][j + 1] = queue[w][i + 1] /\ j + 1 \in 1..Len(queue[w]) BY <1>2, <3>2, <3>4
      <4>2. j + 1 = i + 1 BY <1>q, <3>2, <4>1
      <4> QED BY <1>2, <3>1, <4>2
    <3>5. ~Handed(d)' BY <1>4, <3>3
    <3> QED BY <2>0, <2>2, <3>1, <3>3, <3>4, <3>5
  <2> QED BY <2>1, <2>2
<1>6. HandedRight'
  <2> SUFFICES ASSUME NEW d \in Calls, Handed(d)' PROVE call[d].outcome \notin Refusals
    BY <1>1, RefusalIs DEF HandedRight, Promise!Refusal, Refusals
  <2> QED BY <1>3, <1>4, RefusalIs DEF DeliveryInv, HandedRight
<1>7. AnswersHanded' BY <1>1, <1>4 DEF DeliveryInv, AnswersHanded
<1>8. Unended' BY <1>1 DEF DeliveryInv, Unended
<1> QED BY <1>5, <1>6, <1>7, <1>8 DEF DeliveryInv

LEMMA DeliveryAnswer ==
    ASSUME TypeOK, DeliveryInv, NEW w \in Workers, NEW c \in Calls, Answer(w, c)
    PROVE  DeliveryInv'
<1>1. /\ UNCHANGED <<call, queue, received>> /\ MachineOf[w] \in Machines
      /\ Handed(c)
      /\ \A d \in Calls : d # c => reply'[d] = reply[d]
  BY DaemonAssumption, ResolveEffect DEF Answer, Handed
<1>h. \A d : Handed(d)' <=> Handed(d) BY <1>1 DEF Handed
<1>2. AnswersHanded' BY <1>1, <1>h DEF DeliveryInv, AnswersHanded
<1> QED BY <1>1, <1>h, <1>2 DEF DeliveryInv, QueuedOnce, HandedRight, Unended

LEMMA DeliveryInvariant == Spec => []DeliveryInv
<1>1. DeliveryInv /\ CallInv /\ TypeOK /\ [Next]_vars => DeliveryInv'
  <2> SUFFICES ASSUME DeliveryInv, SentOnly, TypeOK, [Next]_vars PROVE DeliveryInv'
    BY DEF CallInv
  <2>1. ASSUME NEW w \in Workers, Register(w) PROVE DeliveryInv'
    BY <2>1, DeliveryFrame DEF Register, RefuseWorker, AcceptWorker, RegisterEntry, RegisterBlank,
         RegisterAdd, RegisterDef, callVars
  <2>2. CASE Next
    BY <2>1, <2>2, DeliveryClean, DeliveryInvoke, DeliveryHand, DeliveryAnswer DEF Next
  <2>3. CASE UNCHANGED vars
    BY <2>3, DeliveryFrame DEF vars
  <2> QED BY <2>2, <2>3
<1> QED BY <1>1, DeliveryInit, CallInvariant, Typing, PTL DEF Spec

\* What the client sees of a state: how its call ended and how often who was handed it.
Ended == [c \in Calls |-> call[c].outcome]
PromiseStep == [Promise!Next]_<<Ended, received>>

LEMMA UnhandedIs == ASSUME TypeOK, NEW c \in Calls PROVE Promise!Unhanded(c) <=> ~Handed(c)
BY DEF TypeOK, Promise!Unhanded, Handed

\* No handler returns and nothing is handed over.
LEMMA PromiseStutter ==
    ASSUME received' = received, \A c \in Calls : call'[c].outcome = call[c].outcome
    PROVE  PromiseStep
BY DEF PromiseStep, Ended

\* A handler returns: its call had not ended, and is refused only when nobody has it.
LEMMA PromiseReturn ==
    ASSUME TypeOK, DeliveryInv, NEW c \in Calls, NEW o \in Outcome \ {"none"}, Return(c, o),
           received' = received, call[c].at # "done",
           o = "answer" => Handed(c),
           o \in Refusals => ~Handed(c)
    PROVE  PromiseStep
<1>1. Ended[c] = "none" BY DEF DeliveryInv, Unended, Ended
<1>2. Ended' = [Ended EXCEPT ![c] = o]
  <2>1. /\ call'[c].outcome = o /\ \A d \in Calls : d # c => call'[d] = call[d]
    BY DEF Return, TypeOK, Call
  <2> QED BY <2>1 DEF Ended
<1>4. /\ o = "answer" => ~Promise!Unhanded(c)
      /\ o \in Refusals => Promise!Unhanded(c)
  BY UnhandedIs
<1>6. o \in Promise!Refusal \cup Promise!Failure \cup {"answer"}
  BY DEF Outcome, Promise!Refusal, Promise!Failure
<1>7. Promise!End(c, o)
  BY <1>1, <1>2, <1>4, RefusalIs DEF Promise!End, Ended
<1> QED BY <1>6, <1>7 DEF PromiseStep, Promise!Next

\* The outbound stream hands a task over: nobody has it yet and it was not refused.
LEMMA PromiseHand ==
    ASSUME TypeOK, DeliveryInv, NEW w \in Workers, DeliverTask(w)
    PROVE  PromiseStep
<1>1. PICK c \in Calls, m \in Machines :
        /\ c = queue[w][1] /\ 1 \in 1..Len(queue[w])
        /\ received' = [received EXCEPT ![c][m] = @ + 1]
        /\ call' = call
  <2>1. queue[w] # <<>> /\ MachineOf[w] \in Machines BY DaemonAssumption DEF DeliverTask
  <2> QED BY <2>1, QueueHead DEF DeliverTask, callVars
<1>2. Promise!Unhanded(c) /\ Ended[c] \notin Refusals
  BY <1>1, RefusalIs, UnhandedIs DEF DeliveryInv, QueuedOnce, Ended
<1>4. Ended' = Ended BY <1>1 DEF Ended
<1>5. Promise!Hand(c, m)
  BY <1>1, <1>2, <1>4, RefusalIs DEF Promise!Hand, Ended
<1> QED BY <1>5 DEF PromiseStep, Promise!Next

LEMMA PromiseInvoke ==
    ASSUME TypeOK, SentOnly, DeliveryInv, NEW c \in Calls,
           (\E t \in Tools : Invoke(c, t)) \/ InvokeStep(c) \/ InvokeTimeout(c) \/ InvokeCancel(c)
    PROVE  PromiseStep
<1>1. received' = received
  BY DEF Invoke, InvokeStep, InvokeGroup, InvokePick, InvokeInsert, InvokeTrack, InvokeSend,
         InvokeReply, InvokeTimeout, InvokeCancel
<1> DEFINE k == call[c]
<1>2. k = [at |-> k.at, tool |-> k.tool, group |-> k.group, worker |-> k.worker,
           outcome |-> k.outcome, tracked |-> k.tracked]
  BY DEF TypeOK, Call
\* Until try_send nobody has the task.
<1>u. call[c].at \notin {"await", "done"} => ~Handed(c)
  BY DEF SentOnly
<1>r. ASSUME NEW o \in Refusals, Return(c, o), call[c].at \notin {"await", "done"}
      PROVE  PromiseStep
  BY <1>1, <1>u, <1>r, PromiseReturn DEF Refusals, Outcome
<1>f. ASSUME NEW o \in {"gone", "deadline", "cancelled"}, Return(c, o), call[c].at = "await"
      PROVE  PromiseStep
  BY <1>1, <1>f, PromiseReturn DEF Refusals, Outcome
\* The handler moves on and sets some of its other locals.
<1>m. ASSUME NEW r, call' = [call EXCEPT ![c] = r], r.outcome = k.outcome PROVE PromiseStep
  <2>1. \A d \in Calls : call'[d].outcome = call[d].outcome BY <1>m DEF TypeOK
  <2> QED BY <1>1, <2>1, PromiseStutter
<1>3. ASSUME NEW t \in Tools, Invoke(c, t) PROVE PromiseStep
  <2>1. CASE t \in defs
    <3> DEFINE r == [k EXCEPT !.at = "group", !.tool = t]
    <3>1. call' = [call EXCEPT ![c] = r] BY <1>3, <2>1 DEF Invoke
    <3>2. r.outcome = k.outcome BY <1>2
    <3> QED BY <1>m, <3>1, <3>2
  <2>2. CASE t \notin defs BY <1>3, <1>r, <2>2 DEF Invoke, Refusals
  <2> QED BY <2>1, <2>2
<1>4. CASE InvokeGroup(c)
  <2> DEFINE g == groupOf[k.tool]
  <2>1. CASE g # Nobody
    <3> DEFINE r == [k EXCEPT !.at = "pick", !.group = g]
    <3>1. call' = [call EXCEPT ![c] = r] BY <1>4, <2>1 DEF InvokeGroup
    <3>2. r.outcome = k.outcome BY <1>2
    <3> QED BY <1>m, <3>1, <3>2
  <2>2. CASE g = Nobody BY <1>4, <1>r, <2>2 DEF InvokeGroup, Refusals
  <2> QED BY <2>1, <2>2
<1>5. CASE InvokePick(c)
  <2> DEFINE ws == members[k.tool][k.group]
             x == ws[(cursor[k.tool][k.group] % Len(ws)) + 1]
  <2>1. CASE ws # <<>>
    <3> DEFINE r == [k EXCEPT !.at = "insert", !.worker = x]
    <3>1. call' = [call EXCEPT ![c] = r] BY <1>5, <2>1 DEF InvokePick
    <3>2. r.outcome = k.outcome
      <4> HIDE DEF x
      <4> QED BY <1>2
    <3> QED BY <1>m, <3>1, <3>2
  <2>2. CASE ws = <<>> BY <1>5, <1>r, <2>2 DEF InvokePick, Refusals
  <2> QED BY <2>1, <2>2
\* The remaining steps of a handler that goes on set `at` only.
<1>a. ASSUME NEW x, call' = [call EXCEPT ![c].at = x] PROVE PromiseStep
  <2> DEFINE r == [k EXCEPT !.at = x]
  <2>1. call' = [call EXCEPT ![c] = r] BY <1>a
  <2>2. r.outcome = k.outcome BY <1>2
  <2> QED BY <1>m, <2>1, <2>2
<1>6. CASE InvokeInsert(c) \/ InvokeTrack(c)
  <2>1. CASE InvokeInsert(c) BY <1>a, <2>1 DEF InvokeInsert
  <2>2. CASE InvokeTrack(c)
    <3> DEFINE r == [k EXCEPT !.at = "send",
                              !.tracked = IF Cleaned(k.worker) THEN "after" ELSE "ahead"]
    <3>1. call' = [call EXCEPT ![c] = r] BY <2>2 DEF InvokeTrack
    <3>2. r.outcome = k.outcome BY <1>2
    <3> QED BY <1>m, <3>1, <3>2
  <2> QED BY <1>6, <2>1, <2>2
<1>7. CASE InvokeSend(c)
  <2>1. CASE call' = [call EXCEPT ![c].at = "await"] BY <1>a, <2>1
  <2>2. CASE Return(c, "unavailable") BY <1>7, <1>r, <2>2 DEF InvokeSend, Refusals
  <2> QED BY <1>7, <2>1, <2>2 DEF InvokeSend
<1>8. CASE InvokeReply(c)
  <2>1. CASE reply[c] = "answer"
    <3>1. Handed(c) BY <2>1 DEF DeliveryInv, AnswersHanded
    <3> QED BY <1>1, <1>8, <2>1, <3>1, PromiseReturn DEF InvokeReply, Refusals, Outcome
  <2>2. CASE reply[c] = "gone" BY <1>8, <1>f, <2>2 DEF InvokeReply
  <2> QED BY <1>8, <2>1, <2>2 DEF InvokeReply, TypeOK
<1>9. CASE InvokeTimeout(c) \/ InvokeCancel(c)
  BY <1>9, <1>f DEF InvokeTimeout, InvokeCancel
<1> QED BY <1>3, <1>4, <1>5, <1>6, <1>7, <1>8, <1>9 DEF InvokeStep

\* The daemon implements Delegation: whatever is lost, late, duplicated or torn
\* down in between, a task is delivered at most once, over one of the streams of one
\* worker process (deliveries are counted per process and task), a call ends once, an
\* answer is a worker's, and a call that Invoke refuses with NOT_FOUND or UNAVAILABLE
\* has been and will be run by nobody.
THEOREM PromiseKept == Spec => KeepsPromise
<1>1. Init => Promise!Init
  BY DEF Init, Promise!Init
<1>2. TypeOK /\ CallInv /\ DeliveryInv /\ [Next]_vars => PromiseStep
  <2> SUFFICES ASSUME TypeOK, SentOnly, DeliveryInv, [Next]_vars PROVE PromiseStep
    BY DEF CallInv
  <2>1. ASSUME NEW w \in Workers, Register(w) PROVE PromiseStep
    BY <2>1, PromiseStutter DEF Register, RefuseWorker, AcceptWorker, RegisterEntry,
         RegisterBlank, RegisterAdd, RegisterDef, callVars
  <2>2. ASSUME NEW w \in Workers, NEW p \in Paths, BeginClean(w, p) \/ CleanStep(w, p)
        PROVE  PromiseStep
    BY <2>2, PromiseStutter DEF BeginClean, CleanStep, CleanRemove, CleanCount, CleanDropGroup,
         CleanDropDef, CleanTake, CleanFlush, CleanEnd, callVars
  <2>3. ASSUME NEW w \in Workers, NEW c \in Calls, Answer(w, c) PROVE PromiseStep
    BY <2>3, PromiseStutter DEF Answer
  <2>4. CASE Next
    BY <2>1, <2>2, <2>3, <2>4, PromiseHand, PromiseInvoke DEF Next
  <2>5. CASE UNCHANGED vars BY <2>5, PromiseStutter DEF vars
  <2> QED BY <2>4, <2>5
<1>3. PromiseStep => [Promise!Next]_<<[c \in Calls |-> call[c].outcome], received>>
  BY DEF PromiseStep, Ended
<1> QED BY <1>1, <1>2, <1>3, Typing, CallInvariant, DeliveryInvariant, PTL
        DEF Spec, KeepsPromise, Promise!Spec

-----------------------------------------------------------------------------
(* A departed worker is unreachable *)

\* Vec::retain takes out the one occurrence of a worker and closes the gap.
LEMMA WithoutIs ==
    ASSUME NEW s \in Seq(Workers), NEW w, Lists(s, w)
    PROVE  \E i \in 1..Len(s) :
             /\ s[i] = w /\ Len(Without(s, w)) = Len(s) - 1
             /\ \A k \in 1..(Len(s) - 1) : Without(s, w)[k] = IF k < i THEN s[k] ELSE s[k + 1]
<1> DEFINE i == CHOOSE j \in 1..Len(s) : s[j] = w
<1>1. i \in 1..Len(s) /\ s[i] = w BY DEF Lists
<1>2. Without(s, w) = SubSeq(s, 1, i - 1) \o SubSeq(s, i + 1, Len(s)) BY DEF Lists, Without
<1> HIDE DEF i
<1> DEFINE x == SubSeq(s, 1, i - 1)
           y == SubSeq(s, i + 1, Len(s))
<1> PICK n \in Nat : n = Len(s) BY LenProperties
<1>3. i \in 1..n BY <1>1
<1>4. x \in Seq(Workers) /\ Len(x) = i - 1 /\ \A k \in 1..(i - 1) : x[k] = s[k]
  <2>1. \A k \in 1..(i - 1) : s[k] \in Workers BY <1>3, ElementOfSeq
  <2>2. /\ SubSeq(s, 1, i - 1) \in Seq(Workers)
        /\ Len(SubSeq(s, 1, i - 1)) = IF 1 <= i - 1 THEN (i - 1) - 1 + 1 ELSE 0
        /\ \A k \in 1..((i - 1) - 1 + 1) : SubSeq(s, 1, i - 1)[k] = s[1 + k - 1]
    BY <1>3, <2>1, SubSeqProperties
  <2>3. (i - 1) - 1 + 1 = i - 1 /\ \A k \in 1..(i - 1) : 1 + k - 1 = k BY <1>3
  <2> QED BY <1>3, <2>2, <2>3
<1>5. y \in Seq(Workers) /\ Len(y) = n - i /\ \A k \in 1..(n - i) : y[k] = s[i + k]
  <2>1. \A k \in (i + 1)..n : s[k] \in Workers BY <1>3, ElementOfSeq
  <2>2. /\ SubSeq(s, i + 1, n) \in Seq(Workers)
        /\ Len(SubSeq(s, i + 1, n)) = IF i + 1 <= n THEN n - (i + 1) + 1 ELSE 0
        /\ \A k \in 1..(n - (i + 1) + 1) : SubSeq(s, i + 1, n)[k] = s[(i + 1) + k - 1]
    BY <1>3, <2>1, SubSeqProperties
  <2>3. n - (i + 1) + 1 = n - i /\ \A k \in 1..(n - i) : (i + 1) + k - 1 = i + k BY <1>3
  <2> QED BY <1>3, <2>2, <2>3
<1> HIDE DEF x, y
<1>6. /\ Len(x \o y) = n - 1
      /\ \A k \in 1..(n - 1) : (x \o y)[k] = IF k <= i - 1 THEN x[k] ELSE y[k - (i - 1)]
  <2>1. /\ Len(x \o y) = Len(x) + Len(y)
        /\ \A k \in 1..(Len(x) + Len(y)) : (x \o y)[k] = IF k <= Len(x) THEN x[k] ELSE y[k - Len(x)]
    BY <1>4, <1>5, ConcatProperties
  <2>2. Len(x) = i - 1 /\ Len(y) = n - i /\ (i - 1) + (n - i) = n - 1 BY <1>3, <1>4, <1>5
  <2> QED BY <2>1, <2>2
<1>7. ASSUME NEW k \in 1..(n - 1) PROVE (x \o y)[k] = IF k < i THEN s[k] ELSE s[k + 1]
  <2>1. CASE k < i BY <1>3, <1>4, <1>6, <2>1
  <2>2. CASE ~(k < i)
    <3>1. k - (i - 1) \in 1..(n - i) /\ i + (k - (i - 1)) = k + 1 BY <1>3, <2>2
    <3>2. y[k - (i - 1)] = s[k + 1] BY <1>5, <3>1
    <3> QED BY <1>3, <1>6, <2>2, <3>2
  <2> QED BY <2>1, <2>2
<1>8. Without(s, w) = x \o y BY <1>2 DEF x, y
<1> QED BY <1>1, <1>6, <1>7, <1>8

\* ... so that nobody else is lost or doubled.
LEMMA WithoutElements ==
    ASSUME NEW s \in Seq(Workers), NEW w, Distinct(s)
    PROVE  /\ ~Lists(Without(s, w), w) /\ Distinct(Without(s, w))
           /\ \A v : Lists(Without(s, w), v) => Lists(s, v)
<1>1. CASE Lists(s, w)
  <2> DEFINE u == Without(s, w)
  <2> PICK n \in Nat : n = Len(s) BY LenProperties
  <2>1. PICK i \in 1..n :
          /\ s[i] = w /\ Len(u) = n - 1
          /\ \A k \in 1..(n - 1) : u[k] = IF k < i THEN s[k] ELSE s[k + 1]
    BY <1>1, WithoutIs
  <2> HIDE DEF u
  <2> DEFINE f(k) == IF k < i THEN k ELSE k + 1
  <2>2. \A k \in 1..(n - 1) : f(k) \in 1..n /\ f(k) # i /\ u[k] = s[f(k)] BY <2>1
  <2>3. \A j, k \in 1..(n - 1) : f(j) = f(k) => j = k BY <2>1
  <2> HIDE DEF f
  <2>4. ~Lists(u, w) BY <2>1, <2>2 DEF Lists, Distinct
  <2>5. Distinct(u) BY <2>1, <2>2, <2>3 DEF Distinct
  <2>6. \A v : Lists(u, v) => Lists(s, v) BY <2>1, <2>2 DEF Lists
  <2> QED BY <2>4, <2>5, <2>6 DEF u
<1>2. CASE ~Lists(s, w)
  <2>1. Without(s, w) = s BY <1>2 DEF Lists, Without
  <2> QED BY <1>2, <2>1
<1> QED BY <1>1, <1>2

LEMMA AppendElements ==
    ASSUME NEW s \in Seq(Workers), NEW v \in Workers
    PROVE  /\ \A x : Lists(Append(s, v), x) => x = v \/ Lists(s, x)
           /\ Distinct(s) /\ ~Lists(s, v) => Distinct(Append(s, v))
<1> PICK n \in Nat : n = Len(s) BY LenProperties
<1> DEFINE u == Append(s, v)
<1>1. Len(u) = n + 1 /\ u[n + 1] = v /\ \A k \in 1..n : u[k] = s[k] BY AppendProperties
<1> HIDE DEF u
<1>2. \A k \in 1..(n + 1) : k = n + 1 \/ k \in 1..n OBVIOUS
<1>3. \A x : Lists(u, x) => x = v \/ Lists(s, x) BY <1>1, <1>2 DEF Lists
<1>4. ASSUME Distinct(s), ~Lists(s, v) PROVE Distinct(u)
  <2>1. \A k \in 1..n : u[k] # v BY <1>1, <1>4 DEF Lists
  <2> QED BY <1>1, <1>2, <1>4, <2>1 DEF Distinct
<1> QED BY <1>3, <1>4 DEF u

\* The tools of a list after its first.
LEMMA TailElements ==
    ASSUME NEW s \in Seq(Tools \cup {BlankTool}), s # <<>>
    PROVE  /\ Tail(s) \in Seq(Tools \cup {BlankTool})
           /\ Lists(s, Head(s))
           /\ \A x : Lists(Tail(s), x) => Lists(s, x)
           /\ Distinct(s) => Distinct(Tail(s)) /\ ~Lists(Tail(s), Head(s))
<1> PICK n \in Nat \ {0} : n = Len(s) BY LenProperties, EmptySeq
<1> DEFINE u == Tail(s)
<1>1. /\ u \in Seq(Tools \cup {BlankTool}) /\ Len(u) = n - 1 /\ Head(s) = s[1]
      /\ \A k \in 1..(n - 1) : u[k] = s[k + 1]
  BY HeadTailProperties
<1> HIDE DEF u
<1>2. 1 \in 1..n /\ \A k \in 1..(n - 1) : k + 1 \in 1..n /\ k + 1 # 1 OBVIOUS
<1>3. Lists(s, Head(s)) BY <1>1, <1>2 DEF Lists
<1>4. \A x : Lists(u, x) => Lists(s, x) BY <1>1, <1>2 DEF Lists
<1>5. ASSUME Distinct(s) PROVE Distinct(u) /\ ~Lists(u, Head(s))
  <2>1. ~Lists(u, Head(s)) BY <1>1, <1>2, <1>5 DEF Lists, Distinct
  <2>2. ASSUME NEW j \in 1..(n - 1), NEW k \in 1..(n - 1), u[j] = u[k] PROVE j = k
    <3>1. j + 1 = k + 1 BY <1>1, <1>2, <1>5, <2>2 DEF Distinct
    <3> QED BY <3>1
  <2> QED BY <1>1, <2>1, <2>2 DEF Distinct
<1> QED BY <1>1, <1>3, <1>4, <1>5 DEF u

LEMMA MembersInit == Init => MembersInv
<1> SUFFICES ASSUME Init PROVE MembersInv OBVIOUS
<1>1. Len(<<>>) = 0 BY EmptySeq
<1>2. /\ \A w \in Workers : conn[w].at = "new" /\ conn[w].todo = <<>>
      /\ \A w \in Workers, p \in Paths : cleaner[w][p].at = "idle"
      /\ \A t \in Tools : groupOf[t] = Nobody
      /\ \A t \in Tools, g \in Workers : members[t][g] = <<>>
  BY DEF Init
<1>3. OnlyOpen /\ ToolsOnce /\ ListedOnce
  BY <1>1, <1>2 DEF OnlyOpen, ToolsOnce, ListedOnce, Distinct
<1>4. Unfounded BY <1>2, DaemonAssumption DEF Unfounded, Joining
<1>5. JoinsOnce BY <1>1, <1>2 DEF JoinsOnce, Lists
<1>6. Unlisted BY <1>2 DEF Unlisted, Passed
<1> QED BY <1>3, <1>4, <1>5, <1>6 DEF MembersInv

\* What is fixed when the ConnectWorker handler of v takes a step: the other
\* handlers, and v's own cleanups, which cannot have begun.
LEMMA OneRegisters ==
    ASSUME OnlyOpen, NEW v \in Workers, UNCHANGED cleaner, conn[v].at # "open",
           \A u \in Workers : u # v => conn'[u] = conn[u]
    PROVE  /\ OnlyOpen'
           /\ \A u \in Workers, t \in Tools : u # v =>
                (Ahead(u, t)' <=> Ahead(u, t)) /\ (Joining(u, t)' <=> Joining(u, t))
           /\ \A t \in Tools, p \in Paths : ~Passed(v, p, t)
           /\ \A u \in Workers, t \in Tools, p \in Paths : Passed(u, p, t)' <=> Passed(u, p, t)
<1>1. \A p \in Paths : cleaner[v][p].at = "idle" BY DEF OnlyOpen
<1>2. OnlyOpen' BY <1>1 DEF OnlyOpen
<1> QED BY <1>1, <1>2 DEF Ahead, Joining, Passed

\* A step of a ConnectWorker handler that neither maps nor joins a group.
LEMMA MembersConn ==
    ASSUME MembersInv, NEW v \in Workers, UNCHANGED <<groupOf, members, cleaner>>,
           conn[v].at # "open", \A u \in Workers : u # v => conn'[u] = conn[u],
           Distinct(conn'[v].todo),
           \A t \in Tools : (Ahead(v, t)' => Ahead(v, t)) /\ ~Joining(v, t)'
    PROVE  MembersInv'
<1>1. OnlyOpen' BY OneRegisters DEF MembersInv
<1>2. /\ \A u \in Workers, t \in Tools : Ahead(u, t)' => Ahead(u, t)
      /\ \A u \in Workers, t \in Tools :
           Joining(u, t)' => u # v /\ conn'[u].group = conn[u].group /\ Joining(u, t)
      /\ \A u \in Workers, t \in Tools, p \in Paths : Passed(u, p, t)' <=> Passed(u, p, t)
  BY OneRegisters DEF MembersInv
<1>3. ToolsOnce' BY DEF MembersInv, ToolsOnce
<1>4. Unfounded' BY <1>2 DEF MembersInv, Unfounded
<1>5. JoinsOnce' BY <1>2 DEF MembersInv, JoinsOnce
<1>6. ListedOnce' BY DEF MembersInv, ListedOnce
<1>7. Unlisted' BY <1>2 DEF MembersInv, Unlisted
<1> QED BY <1>1, <1>3, <1>4, <1>5, <1>6, <1>7 DEF MembersInv

LEMMA MembersEntry ==
    ASSUME TypeOK, MembersInv, NEW v \in Workers, RegisterEntry(v)
    PROVE  MembersInv'
<1> DEFINE todo == conn[v].todo
           t == Head(todo)
<1>0. /\ conn[v].at = "entry" /\ conn[v] \in Conn /\ todo # <<>> /\ t \in Tools
      /\ todo \in Seq(Tools \cup {BlankTool}) /\ UNCHANGED <<members, cleaner>>
  <2>1. conn[v].at = "entry" /\ conn[v] \in Conn /\ todo # <<>> /\ t # BlankTool
    BY DEF RegisterEntry, TypeOK, LocalsSet
  <2>2. todo \in Seq(Tools \cup {BlankTool}) BY <2>1 DEF Conn
  <2> QED BY <2>1, <2>2, HeadTailProperties DEF RegisterEntry
<1>1. PICK g \in Workers :
        /\ g = v \/ g = groupOf[t]
        /\ groupOf[t] # Nobody => g = groupOf[t]
        /\ groupOf' = [groupOf EXCEPT ![t] = g]
        /\ conn' = [conn EXCEPT ![v] = [@ EXCEPT !.at = "add", !.group = g]]
  BY <1>0 DEF RegisterEntry, TypeOK
<1>2. /\ conn'[v].at = "add" /\ conn'[v].todo = todo /\ conn'[v].group = g
      /\ \A u \in Workers : u # v => conn'[u] = conn[u]
  BY <1>0, <1>1 DEF TypeOK, Conn
<1>3. /\ groupOf'[t] = g /\ \A x \in Tools : x # t => groupOf'[x] = groupOf[x]
  BY <1>0, <1>1 DEF TypeOK
<1>4. /\ Lists(todo, t) /\ ~Lists(Tail(todo), t)
      /\ \A x : Lists(Tail(todo), x) => Lists(todo, x)
  BY <1>0, TailElements DEF MembersInv, ToolsOnce
<1>5. Ahead(v, t) BY <1>0, <1>4 DEF Ahead
<1> HIDE DEF t, todo
<1>6. /\ OnlyOpen'
      /\ \A u \in Workers, x \in Tools : u # v =>
           (Ahead(u, x)' <=> Ahead(u, x)) /\ (Joining(u, x)' <=> Joining(u, x))
      /\ \A x \in Tools, p \in Paths : ~Passed(v, p, x)
      /\ \A u \in Workers, x \in Tools, p \in Paths : Passed(u, p, x)' <=> Passed(u, p, x)
  BY <1>0, <1>2, OneRegisters DEF MembersInv
<1>7. /\ \A x \in Tools : Ahead(v, x)' => Ahead(v, x) /\ x # t
      /\ \A x \in Tools : Joining(v, x)' => x = t
  BY <1>0, <1>2, <1>4 DEF Ahead, Joining, t, todo
<1>8. ToolsOnce' BY <1>2 DEF MembersInv, ToolsOnce, todo
<1>9. Unfounded'
  <2> SUFFICES ASSUME NEW u \in Workers, NEW x \in Tools, Ahead(u, x)'
               PROVE  /\ groupOf'[x] # u /\ members[x][u] = <<>>
                      /\ \A z \in Workers : Joining(z, x)' => conn'[z].group # u
    BY <1>0 DEF Unfounded
  <2>1. Ahead(u, x) /\ (u = v => x # t) BY <1>6, <1>7
  <2>2. /\ groupOf[x] # u /\ members[x][u] = <<>>
        /\ \A z \in Workers : Joining(z, x) => conn[z].group # u
    BY <2>1 DEF MembersInv, Unfounded
  <2>3. x = t => g # u BY <1>1, <2>1, <2>2
  <2>4. groupOf'[x] # u BY <1>3, <2>2, <2>3
  <2>5. ASSUME NEW z \in Workers, Joining(z, x)' PROVE conn'[z].group # u
    <3>1. CASE z = v BY <1>2, <1>7, <2>3, <2>5, <3>1
    <3>2. CASE z # v BY <1>2, <1>6, <2>2, <2>5, <3>2
    <3> QED BY <3>1, <3>2
  <2> QED BY <2>2, <2>4, <2>5
<1>10. JoinsOnce'
  <2>1. \A u \in Workers, x \in Tools :
          Ahead(u, x)' \/ Joining(u, x)' => Ahead(u, x) \/ Joining(u, x)
    BY <1>5, <1>6, <1>7
  <2> QED BY <1>0, <2>1 DEF MembersInv, JoinsOnce
<1>11. ListedOnce' BY <1>0 DEF MembersInv, ListedOnce
<1>12. Unlisted'
  <2> SUFFICES ASSUME NEW w \in Workers, NEW p \in Paths, NEW x \in Tools, Passed(w, p, x),
                      groupOf'[x] # Nobody
               PROVE  ~Lists(members[x][groupOf'[x]], w)
    BY <1>0, <1>6 DEF Unlisted
  <2>1. CASE groupOf'[x] = groupOf[x] BY <2>1 DEF MembersInv, Unlisted
  <2>2. CASE groupOf'[x] # groupOf[x]
    <3>1. x = t /\ groupOf'[x] = v BY <1>1, <1>3, <2>2
    <3>2. members[t][v] = <<>> BY <1>0, <1>5 DEF MembersInv, Unfounded
    <3> QED BY <3>1, <3>2, EmptySeq DEF Lists
  <2> QED BY <2>1, <2>2
<1> QED BY <1>6, <1>8, <1>9, <1>10, <1>11, <1>12 DEF MembersInv

LEMMA MembersAdd ==
    ASSUME TypeOK, MembersInv, NEW v \in Workers, RegisterAdd(v)
    PROVE  MembersInv'
<1> DEFINE todo == conn[v].todo
           t == Head(todo)
           g == conn[v].group
           s == members[t][g]
<1>0. /\ conn[v].at = "add" /\ conn[v] \in Conn /\ todo # <<>> /\ t \in Tools /\ g \in Workers
      /\ todo \in Seq(Tools \cup {BlankTool}) /\ UNCHANGED <<groupOf, cleaner>>
      /\ s \in Seq(Workers)
  BY DEF RegisterAdd, TypeOK, LocalsSet, Conn
<1>1. /\ members' = [members EXCEPT ![t][g] = Append(s, v)]
      /\ conn' = [conn EXCEPT ![v].at = "def"]
  BY DEF RegisterAdd
<1>2. /\ conn'[v].at = "def" /\ conn'[v].todo = todo
      /\ \A u \in Workers : u # v => conn'[u] = conn[u]
  BY <1>0, <1>1 DEF TypeOK, Conn
<1>3. /\ members'[t][g] = Append(s, v)
      /\ \A x \in Tools, h \in Workers : (x # t \/ h # g) => members'[x][h] = members[x][h]
  BY <1>0, <1>1 DEF TypeOK
<1>4. /\ ~Lists(Tail(todo), t) BY <1>0, TailElements DEF MembersInv, ToolsOnce
<1>5. Joining(v, t) BY <1>0 DEF Joining
<1>6. ~Lists(s, v) BY <1>0, <1>5 DEF MembersInv, JoinsOnce
<1>7. /\ \A x : Lists(members'[t][g], x) => x = v \/ Lists(s, x)
      /\ Distinct(members'[t][g])
  <2>1. Distinct(s) BY <1>0 DEF MembersInv, ListedOnce
  <2> HIDE DEF s
  <2> QED BY <1>0, <1>3, <1>6, <2>1, AppendElements
<1> HIDE DEF s
<1>8. /\ OnlyOpen'
      /\ \A u \in Workers, x \in Tools : u # v =>
           (Ahead(u, x)' <=> Ahead(u, x)) /\ (Joining(u, x)' <=> Joining(u, x))
      /\ \A x \in Tools, p \in Paths : ~Passed(v, p, x)
      /\ \A u \in Workers, x \in Tools, p \in Paths : Passed(u, p, x)' <=> Passed(u, p, x)
  BY <1>0, <1>2, OneRegisters DEF MembersInv
<1>9. /\ \A x \in Tools : Ahead(v, x)' => Ahead(v, x) /\ x # t
      /\ \A x \in Tools : ~Joining(v, x)'
  BY <1>0, <1>2, <1>4 DEF Ahead, Joining
<1> HIDE DEF t, todo, g
\* Only v is a new member, and only of the group that it joins.
<1>m. \A x \in Tools, h \in Workers : \A y :
        Lists(members'[x][h], y) => (y = v /\ x = t /\ h = g) \/ Lists(members[x][h], y)
  BY <1>3, <1>7 DEF s
<1>10. ToolsOnce' BY <1>2 DEF MembersInv, ToolsOnce, todo
<1>11. Unfounded'
  <2> SUFFICES ASSUME NEW u \in Workers, NEW x \in Tools, Ahead(u, x)'
               PROVE  /\ groupOf[x] # u /\ members'[x][u] = <<>>
                      /\ \A z \in Workers : Joining(z, x)' => conn'[z].group # u
    BY <1>0 DEF Unfounded
  <2>1. Ahead(u, x) /\ (u = v => x # t) BY <1>8, <1>9
  <2>2. /\ groupOf[x] # u /\ members[x][u] = <<>>
        /\ \A z \in Workers : Joining(z, x) => conn[z].group # u
    BY <2>1 DEF MembersInv, Unfounded
  <2>3. x = t => g # u BY <1>5, <2>2 DEF g
  <2>4. members'[x][u] = <<>> BY <1>3, <2>2, <2>3
  <2>5. \A z \in Workers : Joining(z, x)' => conn'[z].group # u BY <1>2, <1>8, <1>9, <2>2
  <2> QED BY <2>2, <2>4, <2>5
<1>12. JoinsOnce'
  <2> SUFFICES ASSUME NEW u \in Workers, NEW x \in Tools, Ahead(u, x)' \/ Joining(u, x)',
                      NEW h \in Workers
               PROVE  ~Lists(members'[x][h], u)
    BY DEF JoinsOnce
  <2>1. (Ahead(u, x) \/ Joining(u, x)) /\ (u = v => x # t) BY <1>8, <1>9
  <2>2. ~Lists(members[x][h], u) BY <2>1 DEF MembersInv, JoinsOnce
  <2> QED BY <1>m, <2>1, <2>2
<1>13. ListedOnce' BY <1>3, <1>7 DEF MembersInv, ListedOnce
<1>14. Unlisted'
  <2> SUFFICES ASSUME NEW w \in Workers, NEW p \in Paths, NEW x \in Tools, Passed(w, p, x),
                      groupOf[x] # Nobody
               PROVE  ~Lists(members'[x][groupOf[x]], w)
    BY <1>0, <1>8 DEF Unlisted
  <2>1. w # v BY <1>8
  <2>2. groupOf[x] \in Workers BY DEF TypeOK
  <2>3. ~Lists(members[x][groupOf[x]], w) BY DEF MembersInv, Unlisted
  <2> QED BY <1>m, <2>1, <2>2, <2>3
<1> QED BY <1>8, <1>10, <1>11, <1>12, <1>13, <1>14 DEF MembersInv

LEMMA MembersRegister ==
    ASSUME TypeOK, MembersInv, NEW v \in Workers, Register(v)
    PROVE  MembersInv'
<1>0. conn[v] \in Conn /\ conn[v].todo \in Seq(Tools \cup {BlankTool}) BY DEF TypeOK, Conn
<1>1. Distinct(<<>>) BY EmptySeq DEF Distinct
<1>2. CASE RefuseWorker(v)
  <2>1. /\ conn[v].at = "new" /\ conn'[v].at = "refused" /\ conn'[v].todo = conn[v].todo
        /\ \A u \in Workers : u # v => conn'[u] = conn[u]
        /\ UNCHANGED <<groupOf, members, cleaner>>
    BY <1>2, <1>0 DEF RefuseWorker, TypeOK, Conn, regVars
  <2>2. Distinct(conn'[v].todo) BY <2>1 DEF MembersInv, ToolsOnce
  <2>3. \A t \in Tools : ~Ahead(v, t)' /\ ~Joining(v, t)' BY <2>1 DEF Ahead, Joining
  <2> QED BY <2>1, <2>2, <2>3, MembersConn
<1>3. CASE AcceptWorker(v)
  <2>1. PICK o \in Offerings :
          /\ conn[v].at = "new" /\ conn'[v].at = AtTool(o) /\ conn'[v].todo = o
          /\ \A u \in Workers : u # v => conn'[u] = conn[u]
          /\ UNCHANGED <<groupOf, members, cleaner>>
    BY <1>3 DEF AcceptWorker, TypeOK, regVars
  <2>2. Distinct(conn'[v].todo) BY <2>1, DaemonAssumption DEF Distinct
  <2>3. \A t \in Tools : Ahead(v, t) /\ ~Joining(v, t)' BY <2>1 DEF Ahead, Joining, AtTool
  <2> QED BY <2>1, <2>2, <2>3, MembersConn
<1>4. CASE RegisterBlank(v)
  <2>1. /\ conn[v].at = "entry" /\ conn'[v].at = "refused" /\ conn'[v].todo = <<>>
        /\ \A u \in Workers : u # v => conn'[u] = conn[u]
        /\ UNCHANGED <<groupOf, members, cleaner>>
    BY <1>4, <1>0 DEF RegisterBlank, TypeOK, Conn, regVars
  <2>3. \A t \in Tools : ~Ahead(v, t)' /\ ~Joining(v, t)' BY <2>1 DEF Ahead, Joining
  <2> QED BY <1>1, <2>1, <2>3, MembersConn
<1>5. CASE RegisterDef(v)
  <2> DEFINE rest == Tail(conn[v].todo)
  <2>1. /\ conn[v].at = "def" /\ conn'[v].at = AtTool(rest) /\ conn'[v].todo = rest
        /\ \A u \in Workers : u # v => conn'[u] = conn[u]
        /\ UNCHANGED <<groupOf, members, cleaner>>
    BY <1>5 DEF RegisterDef, TypeOK
  <2>2. conn[v].todo # <<>> BY <2>1 DEF TypeOK, LocalsSet
  <2>3. Distinct(rest) BY <1>0, <2>2, TailElements DEF MembersInv, ToolsOnce
  <2> HIDE DEF rest
  <2>4. \A t \in Tools : (Ahead(v, t)' => Lists(rest, t)) /\ ~Joining(v, t)'
    BY <2>1 DEF Ahead, Joining, AtTool
  <2>5. \A t \in Tools : Lists(rest, t) => Ahead(v, t) BY <2>1 DEF Ahead, rest
  <2> QED BY <2>1, <2>3, <2>4, <2>5, MembersConn
<1> QED BY <1>2, <1>3, <1>4, <1>5, MembersEntry, MembersAdd DEF Register

PassedAt(r, t) ==
    \/ r.at \in {"dropGroup", "dropDef", "take", "flush", "done"}
    \/ r.at \in {"remove", "count"} /\ t \notin r.todo

\* A step of one cleanup of an open worker: groups only lose members, and it
\* gets past a tool only when the group mapped to it does not list the worker.
LEMMA MembersCleanFrame ==
    ASSUME TypeOK, MembersInv, NEW w \in Workers, NEW p \in Paths, NEW r,
           cleaner' = [cleaner EXCEPT ![w][p] = r], conn' = conn, conn[w].at = "open",
           \A t \in Tools, g \in Workers :
               /\ Distinct(members'[t][g])
               /\ \A y : Lists(members'[t][g], y) => Lists(members[t][g], y)
               /\ members[t][g] = <<>> => members'[t][g] = <<>>,
           \A t \in Tools : groupOf'[t] \in {groupOf[t], Nobody},
           \A t \in Tools : PassedAt(r, t) /\ groupOf[t] # Nobody =>
               Passed(w, p, t) \/ ~Lists(members'[t][groupOf[t]], w)
    PROVE  MembersInv'
<1>1. /\ cleaner'[w][p] = r
      /\ \A v \in Workers, q \in Paths : v # w \/ q # p => cleaner'[v][q] = cleaner[v][q]
  BY DEF TypeOK
<1>2. OnlyOpen' BY <1>1 DEF MembersInv, OnlyOpen
<1>3. ToolsOnce' BY DEF MembersInv, ToolsOnce
<1>4. \A v \in Workers, t \in Tools : (Ahead(v, t)' <=> Ahead(v, t)) /\ (Joining(v, t)' <=> Joining(v, t))
  BY DEF Ahead, Joining
<1>5. Unfounded'
  <2> SUFFICES ASSUME NEW v \in Workers, NEW t \in Tools, Ahead(v, t)
               PROVE  /\ groupOf'[t] # v /\ members'[t][v] = <<>>
                      /\ \A u \in Workers : Joining(u, t) => conn[u].group # v
    BY <1>4 DEF Unfounded
  <2>1. /\ groupOf[t] # v /\ members[t][v] = <<>>
        /\ \A u \in Workers : Joining(u, t) => conn[u].group # v
    BY DEF MembersInv, Unfounded
  <2> QED BY <2>1, DaemonAssumption
<1>6. JoinsOnce' BY <1>4 DEF MembersInv, JoinsOnce
<1>7. ListedOnce' BY DEF ListedOnce
<1>8. Unlisted'
  <2> SUFFICES ASSUME NEW v \in Workers, NEW q \in Paths, NEW t \in Tools, Passed(v, q, t)',
                      groupOf'[t] # Nobody
               PROVE  ~Lists(members'[t][groupOf'[t]], v)
    BY DEF Unlisted
  <2>1. groupOf'[t] = groupOf[t] /\ groupOf[t] \in Workers BY DEF TypeOK
  <2>2. Passed(v, q, t) => ~Lists(members'[t][groupOf[t]], v)
    BY <2>1 DEF MembersInv, Unlisted
  <2>3. CASE v = w /\ q = p
    <3>1. PassedAt(r, t) BY <1>1, <2>3 DEF Passed, PassedAt
    <3> QED BY <2>1, <2>2, <2>3, <3>1
  <2>4. CASE v # w \/ q # p
    <3>1. Passed(v, q, t) BY <1>1, <2>4 DEF Passed
    <3> QED BY <2>1, <2>2, <3>1
  <2> QED BY <2>3, <2>4
<1> QED BY <1>2, <1>3, <1>5, <1>6, <1>7, <1>8 DEF MembersInv

LEMMA MembersClean ==
    ASSUME TypeOK, MembersInv, NEW w \in Workers, NEW p \in Paths,
           BeginClean(w, p) \/ CleanStep(w, p)
    PROVE  MembersInv'
<1> DEFINE k == cleaner[w][p]
<1>0. /\ k \in Cleaner /\ k.todo \subseteq Tools
      /\ k = [at |-> k.at, todo |-> k.todo, cur |-> k.cur, emptied |-> k.emptied,
              taken |-> k.taken]
  BY DEF TypeOK, Cleaner
<1>1. conn[w].at = "open" /\ conn' = conn
  <2>1. CASE BeginClean(w, p) BY <2>1 DEF BeginClean
  <2>2. CASE CleanStep(w, p)
    <3>1. k.at # "idle" /\ conn' = conn
      BY <2>2 DEF CleanStep, CleanRemove, CleanCount, CleanDropGroup, CleanDropDef, CleanTake,
                  CleanFlush, CleanEnd
    <3> QED BY <3>1 DEF MembersInv, OnlyOpen
  <2> QED BY <2>1, <2>2
\* All steps but the removal leave the groups alone ...
<1>s. members' = members =>
        \A t \in Tools, g \in Workers :
            /\ Distinct(members'[t][g])
            /\ \A y : Lists(members'[t][g], y) => Lists(members[t][g], y)
            /\ members[t][g] = <<>> => members'[t][g] = <<>>
  BY DEF MembersInv, ListedOnce
\* ... and all that come after the loop have passed every tool.
<1>p. k.at \in {"dropGroup", "dropDef", "take", "flush", "done"} =>
        \A t \in Tools : Passed(w, p, t)
  BY DEF Passed
<1>2. CASE BeginClean(w, p)
  <2> DEFINE r == [k EXCEPT !.at = AtGroup(Tools, {}), !.todo = Tools]
  <2>1. cleaner' = [cleaner EXCEPT ![w][p] = r] /\ UNCHANGED <<groupOf, members>>
    BY <1>2 DEF BeginClean, regVars
  <2>2. r.at = AtGroup(Tools, {}) /\ r.todo = Tools BY <1>0
  <2> HIDE DEF r
  <2>3. \A t \in Tools : ~PassedAt(r, t) BY <2>2 DEF PassedAt, AtGroup
  <2> QED BY <1>1, <1>s, <2>1, <2>3, MembersCleanFrame
<1>3. CASE CleanRemove(w, p)
  <2>1. PICK t \in k.todo :
          LET rest == k.todo \ {t} IN
          IF groupOf[t] = Nobody
          THEN /\ cleaner' = [cleaner EXCEPT
                     ![w][p] = [@ EXCEPT !.at = AtGroup(rest, cleaner[w][p].emptied),
                                         !.todo = rest]]
               /\ UNCHANGED members
          ELSE /\ members' = [members EXCEPT ![t][groupOf[t]] = Without(@, w)]
               /\ cleaner' = [cleaner EXCEPT
                     ![w][p] = [@ EXCEPT !.at = "count", !.todo = rest, !.cur = t]]
    BY <1>3 DEF CleanRemove
  <2>2. t \in Tools /\ k.at = "remove" /\ groupOf' = groupOf BY <1>0, <1>3 DEF CleanRemove
  <2>3. \A x \in Tools : x \notin k.todo => Passed(w, p, x) BY <2>2 DEF Passed
  <2>4. CASE groupOf[t] = Nobody
    <3> DEFINE r == [k EXCEPT !.at = AtGroup(k.todo \ {t}, k.emptied), !.todo = k.todo \ {t}]
    <3>1. cleaner' = [cleaner EXCEPT ![w][p] = r] /\ members' = members BY <2>1, <2>4
    <3>2. r.at = AtGroup(k.todo \ {t}, k.emptied) /\ r.todo = k.todo \ {t} BY <1>0
    <3> HIDE DEF r
    <3>3. \A x \in Tools : PassedAt(r, x) => x \notin k.todo \ {t}
      BY <3>2 DEF PassedAt, AtGroup
    <3>4. \A x \in Tools : PassedAt(r, x) /\ groupOf[x] # Nobody => Passed(w, p, x)
      BY <2>3, <2>4, <3>3
    <3> QED BY <1>1, <1>s, <2>2, <3>1, <3>4, MembersCleanFrame
  <2>5. CASE groupOf[t] # Nobody
    <3> DEFINE r == [k EXCEPT !.at = "count", !.todo = k.todo \ {t}, !.cur = t]
    <3> PICK g \in Workers : g = groupOf[t] BY <2>2, <2>5 DEF TypeOK
    <3>1. /\ cleaner' = [cleaner EXCEPT ![w][p] = r]
          /\ members' = [members EXCEPT ![t][g] = Without(@, w)]
      BY <2>1, <2>5
    <3>2. /\ members'[t][g] = Without(members[t][g], w)
          /\ \A x \in Tools, h \in Workers : x # t \/ h # g => members'[x][h] = members[x][h]
      BY <2>2, <3>1 DEF TypeOK
    <3>3. members[t][g] \in Seq(Workers) /\ Distinct(members[t][g])
      BY <2>2 DEF TypeOK, MembersInv, ListedOnce
    <3>4. /\ ~Lists(members'[t][g], w) /\ Distinct(members'[t][g])
          /\ \A y : Lists(members'[t][g], y) => Lists(members[t][g], y)
      BY <3>2, <3>3, WithoutElements
    <3>5. Without(<<>>, w) = <<>> BY EmptySeq DEF Without
    <3>6. \A x \in Tools, h \in Workers :
            /\ Distinct(members'[x][h])
            /\ \A y : Lists(members'[x][h], y) => Lists(members[x][h], y)
            /\ members[x][h] = <<>> => members'[x][h] = <<>>
      <4> SUFFICES ASSUME NEW x \in Tools, NEW h \in Workers
                   PROVE  /\ Distinct(members'[x][h])
                          /\ \A y : Lists(members'[x][h], y) => Lists(members[x][h], y)
                          /\ members[x][h] = <<>> => members'[x][h] = <<>>
        OBVIOUS
      <4>1. CASE x = t /\ h = g BY <3>2, <3>4, <3>5, <4>1
      <4>2. CASE x # t \/ h # g
        <5>1. members'[x][h] = members[x][h] BY <3>2, <4>2
        <5> QED BY <5>1 DEF MembersInv, ListedOnce
      <4> QED BY <4>1, <4>2
    <3>7. r.at = "count" /\ r.todo = k.todo \ {t} BY <1>0
    <3> HIDE DEF r
    <3>8. \A x \in Tools : PassedAt(r, x) => Passed(w, p, x) \/ x = t
      BY <2>3, <3>7 DEF PassedAt
    <3>9. \A x \in Tools : PassedAt(r, x) /\ groupOf[x] # Nobody =>
             Passed(w, p, x) \/ ~Lists(members'[x][groupOf[x]], w)
      BY <3>4, <3>8
    <3>10. cleaner' = [cleaner EXCEPT ![w][p] = r] BY <3>1
    <3>11. \A x \in Tools : groupOf'[x] \in {groupOf[x], Nobody} BY <2>2
    <3> QED BY <1>1, <3>6, <3>9, <3>10, <3>11, MembersCleanFrame
  <2> QED BY <2>4, <2>5
<1>4. CASE CleanCount(w, p)
  <2>1. PICK em :
          cleaner' = [cleaner EXCEPT
              ![w][p] = [k EXCEPT !.at = AtGroup(k.todo, em), !.cur = Nobody, !.emptied = em]]
    BY <1>4 DEF CleanCount
  <2> DEFINE r == [k EXCEPT !.at = AtGroup(k.todo, em), !.cur = Nobody, !.emptied = em]
  <2>2. r.at = AtGroup(k.todo, em) /\ r.todo = k.todo BY <1>0
  <2>3. UNCHANGED <<groupOf, members>> /\ k.at = "count" BY <1>4 DEF CleanCount, regVars
  <2>4. cleaner' = [cleaner EXCEPT ![w][p] = r] BY <2>1
  <2> HIDE DEF r
  <2>5. \A x \in Tools : PassedAt(r, x) => Passed(w, p, x)
    BY <2>2, <2>3 DEF PassedAt, Passed, AtGroup
  <2> QED BY <1>1, <1>s, <2>3, <2>4, <2>5, MembersCleanFrame
<1>5. CASE CleanDropGroup(w, p) \/ CleanDropDef(w, p) \/ CleanTake(w, p) \/ CleanFlush(w, p)
           \/ CleanEnd(w, p)
  <2>1. k.at \in {"dropGroup", "dropDef", "take", "flush", "done"} /\ members' = members
    BY <1>5 DEF CleanDropGroup, CleanDropDef, CleanTake, CleanFlush, CleanEnd, regVars
  <2>2. \A t \in Tools : groupOf'[t] \in {groupOf[t], Nobody}
    BY <1>5 DEF CleanDropGroup, CleanDropDef, CleanTake, CleanFlush, CleanEnd, regVars, TypeOK
  <2>3. PICK r : cleaner' = [cleaner EXCEPT ![w][p] = r]
    BY <1>5 DEF CleanDropGroup, CleanDropDef, CleanTake, CleanFlush, CleanEnd
  <2>4. \A t \in Tools : Passed(w, p, t) BY <1>p, <2>1
  <2>5. \A t \in Tools, g \in Workers :
            /\ Distinct(members'[t][g])
            /\ \A y : Lists(members'[t][g], y) => Lists(members[t][g], y)
            /\ members[t][g] = <<>> => members'[t][g] = <<>>
    BY <1>s, <2>1
  <2> QED BY <1>1, <2>2, <2>3, <2>4, <2>5, MembersCleanFrame
<1> QED BY <1>2, <1>3, <1>4, <1>5 DEF CleanStep

LEMMA MembersInvariant == Spec => []MembersInv
<1>1. MembersInv /\ TypeOK /\ [Next]_vars => MembersInv'
  <2> SUFFICES ASSUME MembersInv, TypeOK, [Next]_vars PROVE MembersInv' OBVIOUS
  <2>1. ASSUME UNCHANGED <<groupOf, members, conn, cleaner>> PROVE MembersInv'
    BY <2>1 DEF MembersInv, OnlyOpen, ToolsOnce, Unfounded, Ahead, Joining, JoinsOnce,
                ListedOnce, Unlisted, Passed
  <2>2. ASSUME NEW c \in Calls,
               (\E t \in Tools : Invoke(c, t)) \/ InvokeStep(c) \/ InvokeTimeout(c) \/ InvokeCancel(c)
        PROVE  MembersInv'
    BY <2>1, <2>2 DEF Invoke, InvokeStep, InvokeGroup, InvokePick, InvokeInsert, InvokeTrack,
         InvokeSend, InvokeReply, InvokeTimeout, InvokeCancel, regVars
  <2>3. ASSUME NEW w \in Workers, DeliverTask(w) \/ \E c \in Calls : Answer(w, c)
        PROVE  MembersInv'
    BY <2>1, <2>3 DEF DeliverTask, Answer, regVars
  <2>4. CASE Next
    BY <2>2, <2>3, <2>4, MembersRegister, MembersClean DEF Next
  <2>5. CASE UNCHANGED vars BY <2>1, <2>5 DEF vars
  <2> QED BY <2>4, <2>5
<1> QED BY <1>1, MembersInit, Typing, PTL DEF Spec

\* Once the member-removal loop of disconnect_worker is over, get_next_worker on
\* a mapped group never returns the worker, whatever other workers registered,
\* reconnected or were cleaned up meanwhile, and on whichever of its two paths.
THEOREM DepartedStaysUnreachable == Spec => []DepartedUnreachable
<1>1. MembersInv => DepartedUnreachable
  BY DEF MembersInv, Unlisted, Passed, Lists, DepartedUnreachable
<1> QED BY <1>1, MembersInvariant, PTL
=============================================================================
