---------------------------- MODULE DynamicPlans ----------------------------
(***************************************************************************)
(* POST /api/run: code that is in no graph, and the cache of its plans     *)
(* (tinypipe-server/src/state.rs).  One action is what happens under one   *)
(* lock of the cache; compiling falls between them.                        *)
(***************************************************************************)
EXTENDS Naturals, Sequences

CONSTANTS
    DynCodes,   \* sources
    HashOf,     \* fnv1a of each; two sources may have one hash
    Capacity,   \* DYNAMIC_PLAN_CAPACITY
    Runners     \* requests to run code

ASSUME DynamicPlansAssumption == Capacity \in Nat \ {0}

VARIABLES
    dynPlans,  \* AppState.dynamic_plans, the entry inserted first at the head
    running    \* the requests: the code asked for and the plan taken

dynamicVars == <<dynPlans, running>>

IdleRun == [at |-> "idle", code |-> "", plan |-> ""]

\* The plan of an entry and of a request is named by the code it was compiled from.
DynEntry == [key : {HashOf[code] : code \in DynCodes}, code : DynCodes, plan : DynCodes]
DynRun   == [at : {"idle", "compile", "run"}, code : DynCodes \cup {""}, plan : DynCodes \cup {""}]

DynamicTypeOK ==
    /\ dynPlans \in Seq(DynEntry)
    /\ running \in [Runners -> DynRun]
    /\ \A r \in Runners : running[r].at # "idle" => running[r].code \in DynCodes

DynamicInit == dynPlans = <<>> /\ running = [r \in Runners |-> IdleRun]

Held(code) == {i \in DOMAIN dynPlans : dynPlans[i].key = HashOf[code]}

\* Under the read lock.  The hash is an address: the source is compared.
LookPlan(r, code) ==
    LET hit == {i \in Held(code) : dynPlans[i].code = code} IN
    /\ running[r].at = "idle"
    /\ running' = [running EXCEPT ![r] =
           IF hit # {}
           THEN [at |-> "run", code |-> code, plan |-> dynPlans[CHOOSE i \in hit : TRUE].plan]
           ELSE [at |-> "compile", code |-> code, plan |-> ""]]
    /\ UNCHANGED dynPlans

\* HashMap::insert replaces the entry of that key, of which there is at most one.
Without(s, key) ==
    IF \E i \in 1..Len(s) : s[i].key = key
    THEN LET i == CHOOSE j \in 1..Len(s) : s[j].key = key
         IN  SubSeq(s, 1, i - 1) \o SubSeq(s, i + 1, Len(s))
    ELSE s

\* Mutant: room is made once there is too much.
CachePlanLate(r) ==
    LET code == running[r].code
        room == IF Len(dynPlans) > Capacity THEN Tail(dynPlans) ELSE dynPlans
    IN
    /\ running[r].at = "compile"
    /\ dynPlans' = Append(Without(room, HashOf[code]),
                       [key |-> HashOf[code], code |-> code, plan |-> code])
    /\ running' = [running EXCEPT ![r].at = "run", ![r].plan = code]

\* cache_dynamic_plan, under the write lock: at the capacity the oldest entry goes,
\* even when the key is there already; an entry of that key is replaced.
CachePlan(r) ==
    LET code == running[r].code
        room == IF Len(dynPlans) >= Capacity THEN Tail(dynPlans) ELSE dynPlans
    IN
    /\ running[r].at = "compile"
    /\ dynPlans' = Append(Without(room, HashOf[code]),
                       [key |-> HashOf[code], code |-> code, plan |-> code])
    /\ running' = [running EXCEPT ![r].at = "run", ![r].plan = code]

EndRun(r) ==
    /\ running[r].at = "run"
    /\ running' = [running EXCEPT ![r] = IdleRun]
    /\ UNCHANGED dynPlans

DynamicStep ==
    \E r \in Runners : CachePlan(r) \/ EndRun(r) \/ \E code \in DynCodes : LookPlan(r, code)

DynamicLost == dynPlans' = <<>> /\ running' = [r \in Runners |-> IdleRun]

-----------------------------------------------------------------------------
\* Of the inductive invariant: an entry's plan is that of its source.
EntriesRight == \A i \in DOMAIN dynPlans : dynPlans[i].plan = dynPlans[i].code

\* A hash collision never gives the wrong plan (state.rs:27): a request runs the plan
\* of its own source, whoever replaced or evicted entries meanwhile; and the cache
\* holds at most its capacity, one entry for a hash, whoever compiled at the same time.
DynamicPlansSound ==
    /\ \A r \in Runners : running[r].at = "run" => running[r].plan = running[r].code
    /\ Len(dynPlans) <= Capacity
    /\ \A i, j \in DOMAIN dynPlans : dynPlans[i].key = dynPlans[j].key => i = j
=============================================================================
