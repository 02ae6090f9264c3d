------------------------------ MODULE MCServer ------------------------------
(***************************************************************************)
(* One server on small instances.  The requests to published paths and     *)
(* those to execute graphs share only the store and the requests that      *)
(* change it, those to run code share nothing: a behaviour has one kind.   *)
(***************************************************************************)
EXTENDS Server, TLC

CONSTANTS
    g1, g2, A, B, D, P, Q, S, a1, a2, v1, c1, x, i1,
    Focuses  \* a subset of {"routes", "calls", "code"}

VARIABLE focus

Keep  == [keys |-> HttpKeys, route |-> x, method |-> "GET", ttl |-> 60]
NoMeta == [keys |-> {}, route |-> "", method |-> "", ttl |-> 0]

\* A and B publish one path, both with a cache; D lacks a key.
Metas == [code \in Codes |->
    CASE code = A -> Keep
      [] code = B -> [Keep EXCEPT !.method = "DELETE"]
      [] code = D -> [Keep EXCEPT !.keys = @ \ {"http_public"}]
      [] OTHER    -> NoMeta]

\* P calls the second graph, and S itself; Q reads a variable that is not set.
Calls == [code \in Codes |-> IF code \in {P, S} THEN <<"n2">> ELSE <<>>]
Needs == [code \in Codes |-> IF code = Q THEN {"URL"} ELSE {}]
OneSet == {<<"n1", "URL">>}

TwoNames == (g1 :> "n1") @@ (g2 :> "n2")

\* What is asked of each graph: the first calls, the second is called and changed.
\* (There, what is deployed matters to nobody, and the process is not killed.)
CallCodes(g) == IF g = g1 THEN {P} ELSE {Q, S}

Init == ServerInit /\ focus \in Focuses

Next ==
    /\ ServerNext
    /\ UNCHANGED focus
    /\ \/ /\ focus = "routes"
          /\ \A c \in Callers : ~Active(c)'
          /\ \A a \in Workers : admin'[a].code \in {A, B, D, None}
          /\ running' = running
       \/ /\ focus = "calls"
          /\ server' = "down" => server = "down"
          /\ \A v \in Visitors : visit'[v].at = "idle"
          /\ running' = running
          /\ \A a \in Workers : LET r == admin'[a] IN
               /\ r.at # "deploy" /\ (r.at \in {"update", "rollback"} => r.g # g1)
               /\ r.code = None \/ r.code \in CallCodes(r.g)
       \/ /\ focus = "code"
          /\ \A c \in Callers : ~Active(c)'
          /\ \A a \in Admins : admin'[a].at = "idle"

\* Of four sources two have one hash; two plans are kept.
Sources == {"c1", "c2", "c3", "c4"}
Hashes  == ("c1" :> 1) @@ ("c2" :> 1) @@ ("c3" :> 2) @@ ("c4" :> 3)

mcVars   == <<serverVars, focus>>
Spec     == Init /\ [][Next]_mcVars
FairSpec == Spec /\ PublishFairness
=============================================================================
