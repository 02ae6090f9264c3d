---------------------------- MODULE PausedProofs ----------------------------
(***************************************************************************)
(* Proofs about runs that are paused and resumed: PausedRun.               *)
(***************************************************************************)
EXTENDS PausedRun, TLAPS, FiniteSetTheorems, WellFoundedInduction

-----------------------------------------------------------------------------
(* Recursive functions over the natural numbers.                           *)

LEMMA Least ==
    ASSUME NEW T, T \subseteq Nat, T # {}
    PROVE  \E x \in T : \A y \in T : x <= y
<1>1. PICK x \in T : \A y \in T : <<y, x>> \notin OpToRel(<, Nat)
  BY NatLessThanWellFounded, WFMin
<1>2. \A m, k \in Nat : m < k => <<m, k>> \in OpToRel(<, Nat)
  BY DEF OpToRel
<1>3. \A y \in T : ~(y < x)
  BY <1>1, <1>2, Zenon
<1> QED BY <1>3

LEMMA Greatest ==
    ASSUME NEW m \in Nat, NEW T, T \subseteq 0..m, T # {}
    PROVE  \E x \in T : \A y \in T : y <= x
<1> DEFINE D == {m - y : y \in T}
<1>1. D \subseteq Nat /\ D # {}
  <2>1. ASSUME NEW y \in T PROVE m - y \in Nat
    <3>1. y \in 0..m OBVIOUS
    <3> QED BY <3>1
  <2>2. PICK y \in T : TRUE OBVIOUS
  <2>3. m - y \in D BY <2>2
  <2> QED BY <2>1, <2>3
<1>2. PICK d \in D : \A e \in D : d <= e
  <2> HIDE DEF D
  <2> QED BY <1>1, Least
<1> PICK x \in T : d = m - x
  OBVIOUS
<1>3. ASSUME NEW y \in T PROVE y <= x
  BY <1>2, m - y \in D
<1> QED BY <1>3

\* Induction over the natural numbers, of a set and not of an operator.
LEMMA Induction ==
    ASSUME NEW P, 0 \in P, \A n \in Nat : n \in P => n + 1 \in P
    PROVE  Nat \subseteq P
<1> SUFFICES ASSUME Nat \ P # {} PROVE FALSE
  OBVIOUS
<1>1. PICK n \in Nat \ P : \A m \in Nat \ P : n <= m
  BY Least, Nat \ P \subseteq Nat
<1>2. n # 0 /\ n - 1 \in Nat /\ (n - 1) + 1 = n
  OBVIOUS
<1>3. n - 1 \in P
  BY <1>1, <1>2
<1> QED BY <1>2, <1>3

Iterates(f, X, x0, step, N) ==
    /\ f \in [0..N -> X]
    /\ f[0] = x0
    /\ \A k \in 1..N : f[k] = step[<<k, f[k - 1]>>]

LEMMA Recursion ==
    ASSUME NEW X, NEW x0 \in X, NEW step \in [Nat \X X -> X], NEW N \in Nat
    PROVE  \E f : Iterates(f, X, x0, step, N)
<1> DEFINE Upto(n, f) == f[0] = x0 /\ \A k \in 1..n : f[k] = step[<<k, f[k - 1]>>]
           P == {n \in Nat : \E f \in [0..n -> X] : Upto(n, f)}
<1>1. 0 \in P
  <2> DEFINE f == [k \in 0..0 |-> x0]
  <2>1. f \in [0..0 -> X] /\ f[0] = x0
    OBVIOUS
  <2>2. \A k \in 1..0 : FALSE
    OBVIOUS
  <2> HIDE DEF f
  <2>3. Upto(0, f) BY <2>1, <2>2
  <2> HIDE DEF Upto
  <2> QED BY <2>1, <2>3
<1>2. ASSUME NEW n \in Nat, n \in P PROVE n + 1 \in P
  <2> PICK f \in [0..n -> X] : Upto(n, f)
    BY <1>2
  <2> DEFINE g == [k \in 0..n + 1 |-> IF k = n + 1 THEN step[<<n + 1, f[n]>>] ELSE f[k]]
  <2>1. step[<<n + 1, f[n]>>] \in X
    OBVIOUS
  <2>2. g \in [0..n + 1 -> X]
    BY <2>1
  <2>3. g[0] = x0 /\ g[n + 1] = step[<<n + 1, g[n]>>] /\ \A k \in 0..n : g[k] = f[k]
    <3>1. \A k \in 0..n : g[k] = f[k] OBVIOUS
    <3>2. g[n + 1] = step[<<n + 1, f[n]>>] OBVIOUS
    <3>3. f[0] = x0 /\ 0 \in 0..n /\ n \in 0..n OBVIOUS
    <3> HIDE DEF g
    <3> QED BY <3>1, <3>2, <3>3
  <2>4. ASSUME NEW k \in 1..n + 1 PROVE g[k] = step[<<k, g[k - 1]>>]
    <3>1. CASE k = n + 1 BY <2>3, <3>1
    <3>2. CASE k # n + 1
      <4>1. k \in 1..n /\ k - 1 \in 0..n /\ k \in 0..n BY <3>2
      <4>2. g[k] = f[k] /\ g[k - 1] = f[k - 1] BY <2>3, <4>1
      <4> QED BY <4>1, <4>2
    <3> QED BY <3>1, <3>2
  <2>5. Upto(n + 1, g)
    BY <2>3, <2>4
  <2> HIDE DEF g, Upto
  <2> QED BY <2>2, <2>5
<1>3. Nat \subseteq P
  <2> HIDE DEF P
  <2> QED BY <1>1, <1>2, Induction
<1> QED BY <1>3 DEF Iterates

-----------------------------------------------------------------------------
(* The elements of a sequence that are in a set.                           *)

\* What is picked of the first k elements of s: those in S, in their order.
PicksUpto(s, S, k, q) ==
    /\ q \in Seq(Range(s) \cap S)
    /\ Range(q) = {s[i] : i \in 1..k} \cap S
    /\ \A i, j \in DOMAIN q : i < j => \E a, b \in 1..k : a < b /\ s[a] = q[i] /\ s[b] = q[j]

LEMMA PickedUnfolds ==
    ASSUME NEW A, NEW s \in Seq(A), NEW S
    PROVE  /\ Picked(s, S)[0] = <<>>
           /\ \A k \in 1..Len(s) :
                  Picked(s, S)[k] = IF s[k] \in S THEN Append(Picked(s, S)[k - 1], s[k])
                                    ELSE Picked(s, S)[k - 1]
<1> DEFINE x(e) == e[1] \in 1..Len(s) /\ s[e[1]] \in S
           step == [e \in Nat \X Seq(A) |-> IF x(e) THEN Append(e[2], s[e[1]]) ELSE e[2]]
           Unfolds(f) == f = [k \in 0..Len(s) |->
                                 IF k = 0 THEN <<>>
                                 ELSE IF s[k] \in S THEN Append(f[k - 1], s[k]) ELSE f[k - 1]]
<1>1. step \in [Nat \X Seq(A) -> Seq(A)]
  <2>1. ASSUME NEW e \in Nat \X Seq(A) PROVE step[e] \in Seq(A)
    OBVIOUS
  <2> QED BY <2>1
<1>2. <<>> \in Seq(A) /\ Len(s) \in Nat
  OBVIOUS
<1>3. PICK f : Iterates(f, Seq(A), <<>>, step, Len(s))
  <2> DEFINE x0 == <<>>
  <2>1. step \in [Nat \X Seq(A) -> Seq(A)] /\ x0 \in Seq(A) /\ Len(s) \in Nat BY <1>1, <1>2
  <2> HIDE DEF step, x0
  <2>2. \E f : Iterates(f, Seq(A), x0, step, Len(s)) BY <2>1, Recursion
  <2> QED BY <2>2 DEF x0
<1>4. ASSUME NEW k \in 1..Len(s)
      PROVE  f[k] = IF s[k] \in S THEN Append(f[k - 1], s[k]) ELSE f[k - 1]
  <2>1. k \in Nat /\ f[k - 1] \in Seq(A) /\ f[k] = step[<<k, f[k - 1]>>]
    <3>1. k \in Nat /\ k - 1 \in 0..Len(s) BY <1>2
    <3> HIDE DEF step
    <3> QED BY <1>3, <3>1 DEF Iterates
  <2> QED BY <2>1
<1>5. Unfolds(f)
  <2> DEFINE g == [k \in 0..Len(s) |->
                      IF k = 0 THEN <<>>
                      ELSE IF s[k] \in S THEN Append(f[k - 1], s[k]) ELSE f[k - 1]]
  <2>1. ASSUME NEW k \in 0..Len(s) PROVE f[k] = g[k]
    <3>1. CASE k = 0 BY <1>3, <3>1 DEF Iterates
    <3>2. CASE k # 0
      <4>1. k \in 1..Len(s) BY <3>2
      <4> QED BY <1>4, <4>1, <3>2
    <3> QED BY <3>1, <3>2
  <2>2. f = [k \in 0..Len(s) |-> f[k]] BY <1>3 DEF Iterates
  <2> QED BY <2>1, <2>2
<1>6. Unfolds(Picked(s, S))
  BY <1>5 DEF Picked
<1> DEFINE h == Picked(s, S)
<1>7. Unfolds(h) BY <1>6
<1> HIDE DEF h
<1>8. h[0] = <<>> BY <1>2, <1>7
<1>9. ASSUME NEW k \in 1..Len(s)
      PROVE  h[k] = IF s[k] \in S THEN Append(h[k - 1], s[k]) ELSE h[k - 1]
  <2>1. k \in 0..Len(s) /\ k # 0 BY <1>2
  <2> QED BY <1>7, <2>1
<1> QED BY <1>8, <1>9 DEF h

LEMMA PickedPicks ==
    ASSUME NEW A, NEW s \in Seq(A), NEW S
    PROVE  \A k \in 0..Len(s) : PicksUpto(s, S, k, Picked(s, S)[k])
<1> DEFINE f == Picked(s, S)
           P == {k \in Nat : k <= Len(s) => PicksUpto(s, S, k, f[k])}
<1>0. /\ f[0] = <<>>
      /\ \A k \in 1..Len(s) :
             f[k] = IF s[k] \in S THEN Append(f[k - 1], s[k]) ELSE f[k - 1]
  BY PickedUnfolds
<1> HIDE DEF f
<1>1. 0 \in P
  <2>1. 1..0 = {} /\ <<>> \in Seq(Range(s) \cap S) /\ DOMAIN <<>> = {}
    OBVIOUS
  <2>2. Range(<<>>) = {} /\ {s[i] : i \in 1..0} = {}
    BY <2>1 DEF Range
  <2> QED BY <1>0, <2>1, <2>2 DEF PicksUpto
<1>2. ASSUME NEW k \in Nat, k \in P PROVE k + 1 \in P
  <2> SUFFICES ASSUME k + 1 <= Len(s) PROVE PicksUpto(s, S, k + 1, f[k + 1])
    OBVIOUS
  <2> DEFINE q == f[k]
             x == s[k + 1]
  <2>1. /\ PicksUpto(s, S, k, q) /\ x \in Range(s)
        /\ f[k + 1] = IF x \in S THEN Append(q, x) ELSE q
    BY <1>0, <1>2 DEF Range
  <2> HIDE DEF q, x
  <2>2. {s[i] : i \in 1..k + 1} = {s[i] : i \in 1..k} \cup {x}
    BY DEF x
  <2>3. CASE x \notin S
    <3>1. f[k + 1] = q BY <2>1, <2>3
    <3>2. {s[i] : i \in 1..k + 1} \cap S = {s[i] : i \in 1..k} \cap S BY <2>2, <2>3
    <3>3. ASSUME NEW i \in DOMAIN q, NEW j \in DOMAIN q, i < j
          PROVE  \E a, b \in 1..k + 1 : a < b /\ s[a] = q[i] /\ s[b] = q[j]
      <4> PICK a \in 1..k, b \in 1..k : a < b /\ s[a] = q[i] /\ s[b] = q[j]
        BY <2>1, <3>3 DEF PicksUpto
      <4> QED OBVIOUS
    <3>4. PicksUpto(s, S, k + 1, q) BY <2>1, <3>2, <3>3 DEF PicksUpto
    <3> QED BY <3>1, <3>4
  <2>4. CASE x \in S
    <3> DEFINE r == Append(q, x)
    <3>1. /\ q \in Seq(Range(s) \cap S) /\ r \in Seq(Range(s) \cap S) /\ f[k + 1] = r
          /\ Len(q) \in Nat /\ DOMAIN r = 1..Len(q) + 1 /\ DOMAIN q = 1..Len(q)
          /\ r[Len(q) + 1] = x /\ \A i \in 1..Len(q) : r[i] = q[i]
      BY <2>1, <2>4 DEF PicksUpto
    <3> HIDE DEF r
    <3>2. Range(r) = Range(q) \cup {x}
      <4>1. ASSUME NEW y \in Range(r) PROVE y \in Range(q) \cup {x}
        BY <3>1, <4>1 DEF Range
      <4>2. ASSUME NEW i \in DOMAIN q PROVE q[i] \in Range(r)
        BY <3>1 DEF Range
      <4>3. Len(q) + 1 \in DOMAIN r BY <3>1
      <4>4. x \in Range(r) BY <3>1, <4>3, Zenon DEF Range
      <4> QED BY <4>1, <4>2, <4>4 DEF Range
    <3>3. ASSUME NEW i \in DOMAIN r, NEW j \in DOMAIN r, i < j
          PROVE  \E a, b \in 1..k + 1 : a < b /\ s[a] = r[i] /\ s[b] = r[j]
      <4>1. i \in 1..Len(q) /\ r[i] = q[i] /\ q[i] \in Range(q) BY <3>1, <3>3 DEF Range
      <4>2. CASE j \in 1..Len(q)
        <5> PICK a \in 1..k, b \in 1..k : a < b /\ s[a] = q[i] /\ s[b] = q[j]
          BY <2>1, <3>1, <3>3, <4>1, <4>2 DEF PicksUpto
        <5> QED BY <3>1, <4>1, <4>2
      <4>3. CASE j = Len(q) + 1
        <5> PICK a \in 1..k : s[a] = q[i]
          BY <2>1, <4>1 DEF PicksUpto
        <5> QED BY <3>1, <4>1, <4>3 DEF x
      <4> QED BY <3>1, <4>2, <4>3
    <3>4. Range(r) = {s[i] : i \in 1..k + 1} \cap S
      <4>1. Range(q) = {s[i] : i \in 1..k} \cap S BY <2>1 DEF PicksUpto
      <4> QED BY <2>2, <2>4, <3>2, <4>1
    <3>5. PicksUpto(s, S, k + 1, r) BY <3>1, <3>3, <3>4, Zenon DEF PicksUpto
    <3> QED BY <3>1, <3>5
  <2> QED BY <2>3, <2>4
<1>3. Nat \subseteq P
  <2> HIDE DEF P
  <2> QED BY <1>1, <1>2, Induction
<1> QED BY <1>3 DEF f

Distinct(s) == \A i, j \in DOMAIN s : s[i] = s[j] => i = j

LEMMA InOrderIs ==
    ASSUME NEW A, NEW s \in Seq(A), NEW S
    PROVE  /\ InOrder(s, S) \in Seq(A \cap S)
           /\ Range(InOrder(s, S)) = Range(s) \cap S
<1> DEFINE q == InOrder(s, S)
<1>1. PicksUpto(s, S, Len(s), q)
  BY PickedPicks DEF InOrder
<1> HIDE DEF q
<1>2. Range(s) = {s[i] : i \in 1..Len(s)} /\ Range(s) \cap S \subseteq A \cap S
  BY DEF Range
<1>3. q \in Seq(A \cap S) /\ Range(q) = Range(s) \cap S
  BY <1>1, <1>2 DEF PicksUpto
<1> QED BY <1>3 DEF q

LEMMA InOrderKeepsOrder ==
    ASSUME NEW A, NEW s \in Seq(A), NEW S
    PROVE  \A i, j \in DOMAIN InOrder(s, S) : i < j =>
               \E a, b \in DOMAIN s : a < b /\ s[a] = InOrder(s, S)[i] /\ s[b] = InOrder(s, S)[j]
<1> DEFINE q == InOrder(s, S)
<1>1. PicksUpto(s, S, Len(s), q)
  BY PickedPicks DEF InOrder
<1> HIDE DEF q
<1>2. \A i, j \in DOMAIN q :
          i < j => \E a, b \in 1..Len(s) : a < b /\ s[a] = q[i] /\ s[b] = q[j]
  BY <1>1, Zenon DEF PicksUpto
<1>3. DOMAIN s = 1..Len(s)
  OBVIOUS
<1>4. \A i, j \in DOMAIN q :
          i < j => \E a, b \in DOMAIN s : a < b /\ s[a] = q[i] /\ s[b] = q[j]
  BY <1>2, <1>3
<1> QED BY <1>4 DEF q

LEMMA InOrderDistinct ==
    ASSUME NEW A, NEW s \in Seq(A), NEW S, Distinct(s)
    PROVE  Distinct(InOrder(s, S))
<1> DEFINE q == InOrder(s, S)
<1>1. q \in Seq(A \cap S) /\ \A i, j \in DOMAIN q :
          i < j => \E a, b \in DOMAIN s : a < b /\ s[a] = q[i] /\ s[b] = q[j]
  BY InOrderIs, InOrderKeepsOrder
<1> HIDE DEF q
<1>2. ASSUME NEW i \in DOMAIN q, NEW j \in DOMAIN q, q[i] = q[j] PROVE i = j
  <2>1. i \in Nat /\ j \in Nat BY <1>1
  <2>2. \A a, b \in DOMAIN s : a < b => s[a] # s[b] BY DEF Distinct
  <2>3. ~(i < j) BY <1>1, <1>2, <2>2
  <2>4. ~(j < i) BY <1>1, <1>2, <2>2
  <2> QED BY <2>1, <2>3, <2>4
<1> QED BY <1>2 DEF q, Distinct


-----------------------------------------------------------------------------
(* Reachable nodes.                                                        *)

LEMMA VisitedUnfolds ==
    ASSUME NEW p, Graph(p), NEW S, S \subseteq DOMAIN p.nodes
    PROVE  /\ Visited(p, S)[0] = S
           /\ \A k \in 1..Len(p.nodes) :
                  Visited(p, S)[k] = UNION {{n} \cup Successors(p, n) : n \in Visited(p, S)[k - 1]}
           /\ \A k \in 0..Len(p.nodes) : Visited(p, S)[k] \subseteq DOMAIN p.nodes
<1> DEFINE N == Len(p.nodes)
           X == SUBSET DOMAIN p.nodes
           grown(T) == UNION {{n} \cup Successors(p, n) : n \in T}
           step == [e \in Nat \X X |-> grown(e[2])]
           Unfolds(f) == f = [k \in 0..Len(p.nodes) |-> IF k = 0 THEN S ELSE
                                 UNION {{n} \cup Successors(p, n) : n \in f[k - 1]}]
<1>1. N \in Nat
  BY DEF Graph
<1>2. ASSUME NEW T \in X PROVE grown(T) \in X
  <2>1. ASSUME NEW n \in T PROVE Successors(p, n) \subseteq DOMAIN p.nodes
    BY DEF Graph, Successors, OutEdges
  <2> QED BY <2>1
<1>3. step \in [Nat \X X -> X]
  <2> HIDE DEF grown, X
  <2> QED BY <1>2
<1>4. PICK f : Iterates(f, X, S, step, N)
  <2>1. S \in X OBVIOUS
  <2> HIDE DEF step, X, N
  <2> QED BY <1>1, <1>3, <2>1, Recursion
<1>5. f \in [0..N -> X] /\ f[0] = S
  BY <1>4 DEF Iterates
<1>6. ASSUME NEW k \in 1..N PROVE f[k] = grown(f[k - 1])
  <2>1. k \in Nat /\ k - 1 \in 0..N BY <1>1
  <2>2. f[k] = step[<<k, f[k - 1]>>] /\ f[k - 1] \in X
    <3> HIDE DEF step, X
    <3> QED BY <1>4, <1>5, <2>1 DEF Iterates
  <2> HIDE DEF grown, X
  <2> QED BY <2>1, <2>2 DEF step
<1>7. Unfolds(f)
  <2> DEFINE g == [k \in 0..N |-> IF k = 0 THEN S ELSE grown(f[k - 1])]
  <2>1. ASSUME NEW k \in 0..N PROVE f[k] = g[k]
    <3> HIDE DEF grown
    <3>1. k = 0 \/ k \in 1..N BY <1>1
    <3> QED BY <1>5, <1>6, <3>1
  <2>2. f = [k \in 0..N |-> f[k]] BY <1>5
  <2> QED BY <2>1, <2>2
<1>8. Unfolds(Visited(p, S))
  BY <1>7 DEF Visited
<1> DEFINE h == Visited(p, S)
<1>9. h[0] = S /\ \A k \in 1..N : h[k] = grown(h[k - 1])
  <2>1. Unfolds(h) BY <1>8
  <2> HIDE DEF h
  <2>2. h[0] = S BY <1>1, <2>1
  <2>3. ASSUME NEW k \in 1..N PROVE h[k] = grown(h[k - 1])
    <3>1. k \in 0..N /\ k # 0 BY <1>1
    <3> QED BY <2>1, <3>1
  <2> QED BY <2>2, <2>3
<1>10. \A k \in 0..N : h[k] \in X
  <2> HIDE DEF h, grown, X, N
  <2> DEFINE P == {k \in Nat : k <= N => h[k] \in X}
  <2>1. 0 \in P
    <3>1. S \in X BY DEF X
    <3> QED BY <1>9, <3>1
  <2>2. ASSUME NEW k \in Nat, k \in P PROVE k + 1 \in P
    <3> SUFFICES ASSUME k + 1 <= N PROVE h[k + 1] \in X OBVIOUS
    <3>1. k + 1 \in 1..N /\ (k + 1) - 1 = k /\ k <= N BY <1>1
    <3>2. h[k] \in X BY <2>2, <3>1
    <3> QED BY <1>2, <1>9, <3>1, <3>2
  <2>3. Nat \subseteq P
    <3> HIDE DEF P
    <3> QED BY <2>1, <2>2, Induction
  <2> QED BY <1>1, <2>3
<1> HIDE DEF h
<1> QED BY <1>9, <1>10 DEF h


-----------------------------------------------------------------------------
(* Kahn's algorithm.                                                       *)

KahnStates(p) ==
    [ready : Seq(DOMAIN p.nodes), degree : [DOMAIN p.nodes -> Int], done : Seq(DOMAIN p.nodes)]

\* The edges into t that are not followed yet.
Unfollowed(p, done, t) ==
    {i \in DOMAIN p.edges : p.edges[i].to = t /\ p.edges[i].from \notin Range(done)}

\* A node comes after those that its edges come from.
Ordered(p, order) ==
    \A i \in DOMAIN p.edges : \A b \in DOMAIN order :
        order[b] = p.edges[i].to => \E a \in DOMAIN order : a < b /\ order[a] = p.edges[i].from

\* A node is ready or done when all edges into it are followed, and it is one of
\* them once.
KahnInv(p, s) ==
    /\ s \in KahnStates(p)
    /\ Distinct(s.ready) /\ Distinct(s.done)
    /\ Range(s.ready) \cap Range(s.done) = {}
    /\ \A t \in DOMAIN p.nodes :
           /\ s.degree[t] = Cardinality(Unfollowed(p, s.done, t))
           /\ t \in Range(s.ready) \cup Range(s.done) <=> Unfollowed(p, s.done, t) = {}
    /\ Ordered(p, s.done)

LEMMA GraphFacts ==
    ASSUME NEW p, Graph(p)
    PROVE  /\ Len(p.nodes) \in Nat /\ DOMAIN p.nodes = 1..Len(p.nodes)
           /\ Len(p.edges) \in Nat /\ DOMAIN p.edges = 1..Len(p.edges)
           /\ IsFiniteSet(DOMAIN p.nodes) /\ Cardinality(DOMAIN p.nodes) = Len(p.nodes)
           /\ IsFiniteSet(DOMAIN p.edges)
           /\ \A i \in DOMAIN p.edges : p.edges[i].from \in DOMAIN p.nodes
                                       /\ p.edges[i].to \in DOMAIN p.nodes
           /\ \A T \in SUBSET DOMAIN p.edges : IsFiniteSet(T) /\ Cardinality(T) \in Nat
<1>1. /\ Len(p.nodes) \in Nat /\ DOMAIN p.nodes = 1..Len(p.nodes)
      /\ Len(p.edges) \in Nat /\ DOMAIN p.edges = 1..Len(p.edges)
  BY DEF Graph
<1>2. /\ IsFiniteSet(DOMAIN p.nodes) /\ Cardinality(DOMAIN p.nodes) = Len(p.nodes)
      /\ IsFiniteSet(DOMAIN p.edges)
  <2>1. \A m \in Nat : IsFiniteSet(1..m) /\ Cardinality(1..m) = m
    <3> TAKE m \in Nat
    <3>1. 1 \in Int /\ m \in Int OBVIOUS
    <3>2. IsFiniteSet(1..m) /\ Cardinality(1..m) = IF 1 > m THEN 0 ELSE m - 1 + 1
      BY ONLY <3>1, FS_Interval
    <3> QED BY <3>2
  <2> QED BY <1>1, <2>1
<1>3. \A T \in SUBSET DOMAIN p.edges : IsFiniteSet(T) /\ Cardinality(T) \in Nat
  BY <1>2, FS_Subset, FS_CardinalityType
<1> QED BY <1>1, <1>2, <1>3 DEF Graph

LEMMA StartInv ==
    ASSUME NEW p, Graph(p)
    PROVE  KahnInv(p, Start(p))
<1> DEFINE s == Start(p)
           I == [n \in DOMAIN p.nodes |-> n]
           into(t) == {i \in DOMAIN p.edges : p.edges[i].to = t}
<1>1. I \in Seq(DOMAIN p.nodes) /\ Range(I) = DOMAIN p.nodes /\ Distinct(I)
  BY GraphFacts DEF Range, Distinct
<1>2. s.ready = InOrder(I, Roots(p)) /\ s.done = <<>> /\ s = [ready |-> s.ready, degree |-> s.degree, done |-> s.done]
  BY DEF Start
<1>3. /\ s.ready \in Seq(DOMAIN p.nodes \cap Roots(p)) /\ Distinct(s.ready)
      /\ Range(s.ready) = Roots(p)
  <2> HIDE DEF I, s
  <2>1. Range(s.ready) = Range(I) \cap Roots(p) BY <1>1, <1>2, InOrderIs
  <2>2. Roots(p) \subseteq DOMAIN p.nodes BY DEF Roots
  <2>3. s.ready \in Seq(DOMAIN p.nodes \cap Roots(p)) BY <1>1, <1>2, InOrderIs
  <2>4. Distinct(s.ready) BY <1>1, <1>2, InOrderDistinct
  <2>5. Range(s.ready) = Roots(p) BY <1>1, <2>1, <2>2
  <2> QED BY <2>3, <2>4, <2>5
<1>4. Range(s.done) = {} /\ s.done \in Seq(DOMAIN p.nodes) /\ DOMAIN s.done = {}
  BY <1>2 DEF Range
<1>5. s.degree = [t \in DOMAIN p.nodes |-> Cardinality(into(t))]
  BY DEF Start
<1>6. \A t : Unfollowed(p, s.done, t) = into(t)
  BY <1>4 DEF Unfollowed
<1>7. \A t : Cardinality(into(t)) \in Nat
  BY GraphFacts
<1>8. \A t \in DOMAIN p.nodes : t \in Roots(p) <=> into(t) = {}
  BY DEF Roots
<1> HIDE DEF s, into
<1>9. s \in KahnStates(p)
  <2>1. s.degree \in [DOMAIN p.nodes -> Int] BY <1>5, <1>7
  <2>2. s.ready \in Seq(DOMAIN p.nodes) BY <1>3
  <2> QED BY <1>2, <1>4, <2>1, <2>2 DEF KahnStates
<1>10. Distinct(s.done) /\ Ordered(p, s.done)
  BY <1>4 DEF Distinct, Ordered
<1> QED BY <1>3, <1>4, <1>5, <1>6, <1>8, <1>9, <1>10 DEF KahnInv, s


LEMMA Appended ==
    ASSUME NEW A, NEW s \in Seq(A), NEW x \in A
    PROVE  /\ Append(s, x) \in Seq(A)
           /\ Len(Append(s, x)) = Len(s) + 1
           /\ Range(Append(s, x)) = Range(s) \cup {x}
           /\ Distinct(s) /\ x \notin Range(s) => Distinct(Append(s, x))
<1> DEFINE r == Append(s, x)
<1>1. /\ r \in Seq(A) /\ Len(s) \in Nat /\ Len(r) = Len(s) + 1
      /\ DOMAIN s = 1..Len(s) /\ DOMAIN r = 1..Len(s) + 1
      /\ r[Len(s) + 1] = x /\ \A i \in 1..Len(s) : r[i] = s[i]
  OBVIOUS
<1> HIDE DEF r
<1>2. Range(r) = Range(s) \cup {x}
  <2>1. ASSUME NEW i \in DOMAIN r PROVE r[i] \in Range(s) \cup {x} BY <1>1 DEF Range
  <2>2. ASSUME NEW i \in DOMAIN s PROVE s[i] \in Range(r) BY <1>1 DEF Range
  <2>3. Len(s) + 1 \in DOMAIN r BY <1>1
  <2>4. x \in Range(r) BY <1>1, <2>3, Zenon DEF Range
  <2>5. Range(r) = {r[i] : i \in DOMAIN r} /\ Range(s) = {s[i] : i \in DOMAIN s} BY DEF Range
  <2> QED BY <2>1, <2>2, <2>4, <2>5
<1>3. ASSUME Distinct(s), x \notin Range(s), NEW i \in DOMAIN r, NEW j \in DOMAIN r, r[i] = r[j]
      PROVE  i = j
  <2>1. \A k \in 1..Len(s) : r[k] # x BY <1>1, <1>3 DEF Range
  <2>2. CASE i = Len(s) + 1 BY <1>1, <1>3, <2>1, <2>2
  <2>3. CASE j = Len(s) + 1 BY <1>1, <1>3, <2>1, <2>3
  <2>4. CASE i \in 1..Len(s) /\ j \in 1..Len(s) BY <1>1, <1>3, <2>4 DEF Distinct
  <2> QED BY <1>1, <2>2, <2>3, <2>4
<1> QED BY <1>1, <1>2, <1>3 DEF r, Distinct

LEMMA Concatenated ==
    ASSUME NEW A, NEW s \in Seq(A), NEW t \in Seq(A)
    PROVE  /\ s \o t \in Seq(A)
           /\ Range(s \o t) = Range(s) \cup Range(t)
           /\ Distinct(s) /\ Distinct(t) /\ Range(s) \cap Range(t) = {} => Distinct(s \o t)
<1> DEFINE r == s \o t
           m == Len(s)
<1>1. /\ r \in Seq(A) /\ m \in Nat /\ Len(t) \in Nat
      /\ DOMAIN s = 1..m /\ DOMAIN t = 1..Len(t) /\ DOMAIN r = 1..m + Len(t)
      /\ \A i \in 1..m : r[i] = s[i]
      /\ \A i \in 1..m + Len(t) : i \notin 1..m => r[i] = t[i - m]
  OBVIOUS
<1> HIDE DEF r, m
<1>2. \A i \in DOMAIN r : \/ i \in DOMAIN s /\ r[i] = s[i]
                          \/ i \notin DOMAIN s /\ i - m \in DOMAIN t /\ r[i] = t[i - m]
  <2> TAKE i \in DOMAIN r
  <2>1. i \in 1..m + Len(t) BY <1>1
  <2>2. CASE i \in 1..m
    <3>1. i \in DOMAIN s /\ r[i] = s[i] BY <1>1, <2>2
    <3> QED BY <3>1
  <2>3. CASE i \notin 1..m
    <3>1. i - m \in 1..Len(t) BY <1>1, <2>1, <2>3
    <3> QED BY <1>1, <2>1, <2>3, <3>1
  <2> QED BY <2>2, <2>3
<1>3. \A i \in DOMAIN s : i \in DOMAIN r /\ r[i] = s[i]
  BY <1>1
<1>4. \A i \in DOMAIN t : m + i \in DOMAIN r /\ r[m + i] = t[i]
  <2> TAKE i \in DOMAIN t
  <2>1. m + i \in 1..m + Len(t) /\ m + i \notin 1..m /\ (m + i) - m = i BY <1>1
  <2> QED BY <1>1, <2>1
<1>5. Range(r) = Range(s) \cup Range(t)
  <2>1. /\ Range(r) = {r[i] : i \in DOMAIN r} /\ Range(s) = {s[i] : i \in DOMAIN s}
        /\ Range(t) = {t[i] : i \in DOMAIN t}
    BY DEF Range
  <2>2. \A i \in DOMAIN r : r[i] \in Range(s) \cup Range(t) BY <1>2, <2>1
  <2>3. \A i \in DOMAIN s : s[i] \in Range(r)
    <3> TAKE i \in DOMAIN s
    <3>1. r[i] \in Range(r) BY <1>3, <2>1
    <3> QED BY <1>3, <3>1
  <2>4. \A i \in DOMAIN t : t[i] \in Range(r)
    <3> TAKE i \in DOMAIN t
    <3>1. r[m + i] \in Range(r) BY <1>4, <2>1
    <3> QED BY <1>4, <3>1
  <2> QED BY <2>1, <2>2, <2>3, <2>4
<1>6. ASSUME Distinct(s), Distinct(t), Range(s) \cap Range(t) = {},
             NEW i \in DOMAIN r, NEW j \in DOMAIN r, r[i] = r[j]
      PROVE  i = j
  <2>1. \A k \in DOMAIN s, l \in DOMAIN t : s[k] # t[l] BY <1>6 DEF Range
  <2>2. CASE i \in DOMAIN s /\ j \in DOMAIN s BY <1>3, <1>6, <2>2 DEF Distinct
  <2>3. CASE i \notin DOMAIN s /\ j \notin DOMAIN s
    <3>1. i - m = j - m BY <1>2, <1>6, <2>3 DEF Distinct
    <3> QED BY <1>1, <3>1
  <2>4. CASE i \in DOMAIN s /\ j \notin DOMAIN s
    <3>1. r[i] = s[i] /\ r[j] = t[j - m] /\ j - m \in DOMAIN t BY <1>2, <2>4
    <3> QED BY <1>6, <2>1, <2>4, <3>1
  <2>5. CASE i \notin DOMAIN s /\ j \in DOMAIN s
    <3>1. r[j] = s[j] /\ r[i] = t[i - m] /\ i - m \in DOMAIN t BY <1>2, <2>5
    <3> QED BY <1>6, <2>1, <2>5, <3>1
  <2> QED BY <2>2, <2>3, <2>4, <2>5
<1> QED BY <1>1, <1>5, <1>6 DEF r, Distinct

LEMMA WithoutLast ==
    ASSUME NEW A, NEW s \in Seq(A), s # <<>>, Distinct(s)
    PROVE  LET front == SubSeq(s, 1, Len(s) - 1)
           IN  /\ s[Len(s)] \in Range(s) /\ s[Len(s)] \in A
               /\ front \in Seq(A) /\ Distinct(front)
               /\ Range(front) = Range(s) \ {s[Len(s)]}
<1> DEFINE r == SubSeq(s, 1, Len(s) - 1)
           m == Len(s)
<1>1. /\ m \in Nat /\ m # 0 /\ DOMAIN s = 1..m /\ s[m] \in A
      /\ r \in Seq(A) /\ DOMAIN r = 1..m - 1
      /\ \A i \in 1..m - 1 : r[i] = s[i]
  OBVIOUS
<1> HIDE DEF r, m
<1>2. m \in DOMAIN s /\ \A i \in DOMAIN s : i = m \/ i \in DOMAIN r
  BY <1>1
<1>3. \A i \in DOMAIN r : i \in DOMAIN s /\ i # m /\ r[i] = s[i]
  BY <1>1
<1>4. /\ Range(r) = {r[i] : i \in DOMAIN r} /\ Range(s) = {s[i] : i \in DOMAIN s}
  BY DEF Range
<1>5. Distinct(r) BY <1>3 DEF Distinct
<1>6. s[m] \in Range(s) BY <1>2, <1>4
<1>7. Range(r) = Range(s) \ {s[m]}
  <2>1. \A i \in DOMAIN r : s[i] # s[m] BY <1>2, <1>3 DEF Distinct
  <2>2. Range(r) \subseteq Range(s) \ {s[m]} BY <1>3, <1>4, <2>1
  <2>3. \A i \in DOMAIN s : s[i] = s[m] \/ s[i] \in Range(r)
    <3> TAKE i \in DOMAIN s
    <3>1. CASE i \in DOMAIN r
      <4>1. r[i] \in Range(r) BY <1>4, <3>1
      <4> QED BY <1>3, <3>1, <4>1
    <3> QED BY <1>2, <3>1
  <2> QED BY <1>4, <2>2, <2>3
<1> QED BY <1>1, <1>5, <1>6, <1>7 DEF r, m


\* The step of the algorithm.
LEMMA PopInv ==
    ASSUME NEW p, Graph(p), NEW s, KahnInv(p, s), s.ready # <<>>
    PROVE  KahnInv(p, Pop(p, s)) /\ Len(Pop(p, s).done) = Len(s.done) + 1
<1> DEFINE N == DOMAIN p.nodes
           E == DOMAIN p.edges
           n == s.ready[Len(s.ready)]
           degree == [t \in N |-> s.degree[t] - Cardinality(EdgesOf(p, n, t))]
           F == Freeing(p, n, degree)
           I == [i \in E |-> i]
           freed == InOrder(I, F)
           front == SubSeq(s.ready, 1, Len(s.ready) - 1)
           new == [i \in DOMAIN freed |-> p.edges[freed[i]].to]
           ready == front \o new
           done == Append(s.done, n)
           left(t) == Unfollowed(p, s.done, t)
           edges(t) == EdgesOf(p, n, t)
<1>0. Pop(p, s) = [ready |-> ready, degree |-> degree, done |-> done]
  BY DEF Pop
<1>1. /\ s.ready \in Seq(N) /\ s.done \in Seq(N) /\ s.degree \in [N -> Int]
      /\ Distinct(s.ready) /\ Distinct(s.done) /\ Range(s.ready) \cap Range(s.done) = {}
      /\ \A t \in N : /\ s.degree[t] = Cardinality(left(t))
                      /\ t \in Range(s.ready) \cup Range(s.done) <=> left(t) = {}
      /\ Ordered(p, s.done)
  BY DEF KahnInv, KahnStates
<1>2. /\ n \in N /\ n \in Range(s.ready) /\ n \notin Range(s.done)
      /\ front \in Seq(N) /\ Distinct(front) /\ Range(front) = Range(s.ready) \ {n}
  <2>1. /\ n \in N /\ n \in Range(s.ready)
        /\ front \in Seq(N) /\ Distinct(front) /\ Range(front) = Range(s.ready) \ {n}
    BY <1>1, WithoutLast
  <2> QED BY <1>1, <2>1
<1>3. /\ done \in Seq(N) /\ Distinct(done) /\ Len(done) = Len(s.done) + 1
      /\ Range(done) = Range(s.done) \cup {n}
  <2> HIDE DEF n, N
  <2>1. s.done \in Seq(N) /\ n \in N /\ Distinct(s.done) /\ n \notin Range(s.done) BY <1>1, <1>2
  <2>2. done \in Seq(N) /\ Len(done) = Len(s.done) + 1 BY <2>1, Appended
  <2>3. Range(done) = Range(s.done) \cup {n} BY <2>1, Appended
  <2>4. Distinct(done) BY <2>1, Appended
  <2> QED BY <2>2, <2>3, <2>4
<1> HIDE DEF n, front, done
<1>4. ASSUME NEW t \in N
      PROVE  /\ Unfollowed(p, done, t) = left(t) \ edges(t)
             /\ edges(t) \subseteq left(t) /\ left(t) \subseteq E
  BY <1>2, <1>3 DEF Unfollowed, EdgesOf
<1>5. /\ degree \in [N -> Int]
      /\ \A t \in N : degree[t] = Cardinality(Unfollowed(p, done, t))
  <2>1. ASSUME NEW t \in N
        PROVE  degree[t] = Cardinality(Unfollowed(p, done, t)) /\ degree[t] \in Int
    <3>1. /\ IsFiniteSet(left(t)) /\ Cardinality(left(t)) \in Nat
          /\ Cardinality(edges(t)) \in Nat
      BY <1>4, GraphFacts
    <3>2. Cardinality(left(t) \ edges(t)) = Cardinality(left(t)) - Cardinality(left(t) \cap edges(t))
      BY <3>1, FS_Difference
    <3>3. left(t) \cap edges(t) = edges(t) BY <1>4
    <3>4. degree[t] = Cardinality(left(t)) - Cardinality(edges(t)) BY <1>1
    <3>5. Cardinality(Unfollowed(p, done, t)) = Cardinality(left(t) \ edges(t)) BY <1>4
    <3>6. Cardinality(left(t) \cap edges(t)) = Cardinality(edges(t)) BY <3>3
    <3> HIDE DEF left, edges, degree
    <3>7. Cardinality(Unfollowed(p, done, t)) = Cardinality(left(t)) - Cardinality(edges(t))
      BY <3>2, <3>5, <3>6
    <3> QED BY <3>1, <3>4, <3>7
  <2> QED BY <2>1
<1> HIDE DEF degree
<1>6. \A t \in N : degree[t] = 0 <=> Unfollowed(p, done, t) = {}
  <2> TAKE t \in N
  <2>1. IsFiniteSet(Unfollowed(p, done, t)) BY <1>4, GraphFacts
  <2> QED BY <1>5, <2>1, FS_EmptySet
<1>7. freed \in Seq(F) /\ Range(freed) = F /\ Distinct(freed)
  <2>1. I \in Seq(E) /\ Range(I) = E /\ Distinct(I)
    BY GraphFacts DEF Range, Distinct
  <2>2. F \subseteq E BY DEF Freeing
  <2> HIDE DEF I, F
  <2>3. freed \in Seq(E \cap F) BY <2>1, InOrderIs
  <2>4. Range(freed) = Range(I) \cap F BY <2>1, InOrderIs
  <2>5. Distinct(freed) BY <2>1, InOrderDistinct
  <2>6. E \cap F = F BY <2>2
  <2> QED BY <2>1, <2>3, <2>4, <2>5, <2>6
<1> HIDE DEF freed
<1>8. \A i \in F : /\ i \in E /\ p.edges[i].to \in N /\ i \in edges(p.edges[i].to)
                   /\ degree[p.edges[i].to] = 0
                   /\ \A j \in edges(p.edges[i].to) : j <= i
  BY GraphFacts DEF Freeing, EdgesOf
<1>9. ASSUME NEW t \in N
      PROVE  (\E i \in F : p.edges[i].to = t) <=> edges(t) # {} /\ degree[t] = 0
  <2>1. ASSUME edges(t) # {}, degree[t] = 0 PROVE \E i \in F : p.edges[i].to = t
    <3>1. edges(t) \subseteq 0..Len(p.edges) /\ Len(p.edges) \in Nat BY GraphFacts DEF EdgesOf
    <3>2. PICK i \in edges(t) : \A j \in edges(t) : j <= i BY <2>1, <3>1, Greatest
    <3>3. i \in E /\ p.edges[i].from = n /\ p.edges[i].to = t BY <3>2 DEF EdgesOf
    <3> QED BY <2>1, <3>2, <3>3 DEF Freeing
  <2> QED BY <1>8, <2>1
<1> HIDE DEF F
<1>10. /\ new \in Seq(N) /\ Distinct(new)
       /\ \A t : t \in Range(new) <=> \E i \in F : p.edges[i].to = t
  <2>1. \A k \in DOMAIN freed : freed[k] \in F /\ p.edges[freed[k]].to \in N
    BY <1>7, <1>8
  <2>2. Len(freed) \in Nat /\ DOMAIN freed = 1..Len(freed) BY <1>7
  <2>3. new \in Seq(N) BY <2>1, <2>2
  <2>4. ASSUME NEW k \in DOMAIN new, NEW l \in DOMAIN new, new[k] = new[l] PROVE k = l
    <3>1. k \in DOMAIN freed /\ l \in DOMAIN freed OBVIOUS
    <3>2. p.edges[freed[k]].to = p.edges[freed[l]].to BY <2>4
    <3>3. freed[k] <= freed[l] /\ freed[l] <= freed[k] BY <1>8, <2>1, <3>1, <3>2
    <3>4. freed[k] \in Nat /\ freed[l] \in Nat BY <1>8, <2>1, <3>1, GraphFacts
    <3>5. freed[k] = freed[l] BY <3>3, <3>4
    <3> QED BY <1>7, <3>1, <3>5 DEF Distinct
  <2>5. ASSUME NEW t PROVE t \in Range(new) <=> \E i \in F : p.edges[i].to = t
    <3>1. t \in Range(new) <=> \E k \in DOMAIN freed : p.edges[freed[k]].to = t BY DEF Range
    <3>2. F = {freed[k] : k \in DOMAIN freed} BY <1>7 DEF Range
    <3> QED BY <3>1, <3>2
  <2> QED BY <2>3, <2>4, <2>5 DEF Distinct
<1> HIDE DEF new
<1>11. \A t \in N : t \in Range(new) <=> edges(t) # {} /\ Unfollowed(p, done, t) = {}
  BY <1>6, <1>9, <1>10
<1>12. Range(new) \subseteq N /\ Range(new) \cap (Range(s.ready) \cup Range(s.done)) = {}
  <2>1. Range(new) \subseteq N BY <1>10 DEF Range
  <2>2. \A t \in Range(new) : left(t) # {} BY <1>4, <1>11, <2>1
  <2> QED BY <1>1, <2>1, <2>2
<1>13. /\ ready \in Seq(N) /\ Range(ready) = Range(front) \cup Range(new) /\ Distinct(ready)
  <2>1. Range(front) \cap Range(new) = {} BY <1>2, <1>12
  <2> QED BY <1>2, <1>10, <2>1, Concatenated
<1> HIDE DEF ready
<1>14. Range(ready) \cap Range(done) = {}
  BY <1>1, <1>2, <1>3, <1>12, <1>13
<1>15. ASSUME NEW t \in N
       PROVE  t \in Range(ready) \cup Range(done) <=> Unfollowed(p, done, t) = {}
  <2>1. t \in Range(ready) \cup Range(done)
        <=> t \in Range(s.ready) \cup Range(s.done) \/ t \in Range(new)
    BY <1>2, <1>3, <1>13
  <2>2. t \in Range(s.ready) \cup Range(s.done) <=> left(t) = {} BY <1>1
  <2>3. t \in Range(new) <=> edges(t) # {} /\ Unfollowed(p, done, t) = {} BY <1>11
  <2> HIDE DEF left, edges
  <2> QED BY <1>4, <2>1, <2>2, <2>3
<1>16. Ordered(p, done)
  <2> SUFFICES ASSUME NEW i \in E, NEW b \in DOMAIN done, done[b] = p.edges[i].to
               PROVE  \E a \in DOMAIN done : a < b /\ done[a] = p.edges[i].from
    BY DEF Ordered
  <2>1. /\ Len(s.done) \in Nat /\ DOMAIN s.done = 1..Len(s.done)
        /\ DOMAIN done = 1..Len(s.done) + 1 /\ done[Len(s.done) + 1] = n
        /\ \A k \in 1..Len(s.done) : done[k] = s.done[k]
    BY <1>1 DEF done
  <2>2. CASE b \in 1..Len(s.done)
    <3> PICK a \in DOMAIN s.done : a < b /\ s.done[a] = p.edges[i].from
      BY <1>1, <2>1, <2>2 DEF Ordered
    <3> QED BY <2>1
  <2>3. CASE b = Len(s.done) + 1
    <3>1. left(n) = {} BY <1>1, <1>2
    <3>2. p.edges[i].from \in Range(s.done) BY <2>1, <2>3, <3>1 DEF Unfollowed
    <3> PICK a \in DOMAIN s.done : s.done[a] = p.edges[i].from BY <3>2 DEF Range
    <3> QED BY <2>1, <2>3
  <2> QED BY <2>1, <2>2, <2>3
<1>17. [ready |-> ready, degree |-> degree, done |-> done] \in KahnStates(p)
  BY <1>3, <1>5, <1>13 DEF KahnStates
<1> HIDE DEF N, E
<1>18. KahnInv(p, [ready |-> ready, degree |-> degree, done |-> done])
  BY <1>3, <1>5, <1>13, <1>14, <1>15, <1>16, <1>17 DEF KahnInv, N
<1> QED BY <1>0, <1>3, <1>18


LEMMA KahnUnfolds ==
    ASSUME NEW p, Graph(p)
    PROVE  /\ Kahn(p)[0] = Start(p)
           /\ \A k \in 1..Len(p.nodes) :
                  Kahn(p)[k] = IF Kahn(p)[k - 1].ready = <<>> THEN Kahn(p)[k - 1]
                               ELSE Pop(p, Kahn(p)[k - 1])
<1> DEFINE N == Len(p.nodes)
           X == {s \in KahnStates(p) : KahnInv(p, s)}
           turn(s) == IF s.ready = <<>> THEN s ELSE Pop(p, s)
           step == [e \in Nat \X X |-> turn(e[2])]
           Unfolds(f) == f = [k \in 0..Len(p.nodes) |->
                                 IF k = 0 THEN Start(p)
                                 ELSE IF f[k - 1].ready = <<>> THEN f[k - 1] ELSE Pop(p, f[k - 1])]
<1>1. N \in Nat
  BY GraphFacts
<1>2. ASSUME NEW s \in X PROVE turn(s) \in X
  <2>1. CASE s.ready = <<>> BY <2>1
  <2>2. CASE s.ready # <<>>
    <3>1. KahnInv(p, Pop(p, s)) BY <2>2, PopInv
    <3> QED BY <2>2, <3>1 DEF KahnInv
  <2> QED BY <2>1, <2>2
<1>3. Start(p) \in X
  BY StartInv DEF KahnInv
<1> HIDE DEF X
<1>4. step \in [Nat \X X -> X]
  <2> HIDE DEF turn
  <2> QED BY <1>2
<1>5. PICK f : Iterates(f, X, Start(p), step, N)
  <2> HIDE DEF step, N
  <2> QED BY <1>1, <1>3, <1>4, Recursion
<1>6. f \in [0..N -> X] /\ f[0] = Start(p)
  BY <1>5 DEF Iterates
<1>7. ASSUME NEW k \in 1..N PROVE f[k] = turn(f[k - 1])
  <2>1. k \in Nat /\ k - 1 \in 0..N BY <1>1
  <2>2. f[k] = step[<<k, f[k - 1]>>] /\ f[k - 1] \in X
    <3> HIDE DEF step
    <3> QED BY <1>5, <1>6, <2>1 DEF Iterates
  <2> HIDE DEF turn
  <2> QED BY <2>1, <2>2 DEF step
<1>8. Unfolds(f)
  <2> DEFINE g == [k \in 0..N |-> IF k = 0 THEN Start(p) ELSE turn(f[k - 1])]
  <2>1. ASSUME NEW k \in 0..N PROVE f[k] = g[k]
    <3> HIDE DEF turn
    <3>1. k = 0 \/ k \in 1..N BY <1>1
    <3> QED BY <1>6, <1>7, <3>1
  <2>2. f = [k \in 0..N |-> f[k]] BY <1>6
  <2> QED BY <2>1, <2>2
<1>9. Unfolds(Kahn(p))
  BY <1>8 DEF Kahn
<1> DEFINE h == Kahn(p)
<1>10. h[0] = Start(p) /\ \A k \in 1..N : h[k] = turn(h[k - 1])
  <2>1. Unfolds(h) BY <1>9
  <2> HIDE DEF h
  <2>2. h[0] = Start(p) BY <1>1, <2>1
  <2>3. ASSUME NEW k \in 1..N PROVE h[k] = turn(h[k - 1])
    <3>1. k \in 0..N /\ k # 0 BY <1>1
    <3> QED BY <2>1, <3>1
  <2> QED BY <2>2, <2>3
<1> HIDE DEF h
<1> QED BY <1>10 DEF h

\* After k turns k nodes are done, or none is ready.
LEMMA KahnGoesOn ==
    ASSUME NEW p, Graph(p)
    PROVE  \A k \in 0..Len(p.nodes) :
               /\ KahnInv(p, Kahn(p)[k])
               /\ Len(Kahn(p)[k].done) = k \/ Kahn(p)[k].ready = <<>>
<1> DEFINE h == Kahn(p)
           N == Len(p.nodes)
           Going(k) == KahnInv(p, h[k]) /\ (Len(h[k].done) = k \/ h[k].ready = <<>>)
           P == {k \in Nat : k <= N => Going(k)}
<1>1. /\ N \in Nat /\ h[0] = Start(p)
      /\ \A k \in 1..N : h[k] = IF h[k - 1].ready = <<>> THEN h[k - 1] ELSE Pop(p, h[k - 1])
  BY GraphFacts, KahnUnfolds
<1> HIDE DEF h, N
<1>2. 0 \in P
  <2>1. KahnInv(p, Start(p)) BY StartInv
  <2>2. Start(p).done = <<>> /\ Len(<<>>) = 0 BY DEF Start
  <2> QED BY <1>1, <2>1, <2>2
<1>3. ASSUME NEW k \in Nat, k \in P PROVE k + 1 \in P
  <2> SUFFICES ASSUME k + 1 <= N PROVE Going(k + 1) OBVIOUS
  <2>1. k + 1 \in 1..N /\ (k + 1) - 1 = k /\ k <= N BY <1>1
  <2>2. Going(k) BY <1>3, <2>1
  <2>3. h[k + 1] = IF h[k].ready = <<>> THEN h[k] ELSE Pop(p, h[k]) BY <1>1, <2>1
  <2>4. CASE h[k].ready = <<>> BY <2>2, <2>3, <2>4
  <2>5. CASE h[k].ready # <<>>
    <3>1. KahnInv(p, Pop(p, h[k])) /\ Len(Pop(p, h[k]).done) = Len(h[k].done) + 1
      BY <2>2, <2>5, PopInv
    <3>2. Len(h[k].done) = k BY <2>2, <2>5
    <3> QED BY <2>3, <2>5, <3>1, <3>2
  <2> QED BY <2>4, <2>5
<1>4. Nat \subseteq P
  <2> HIDE DEF P
  <2> QED BY <1>2, <1>3, Induction
<1>5. \A k \in 0..N : Going(k)
  <2> HIDE DEF Going
  <2> QED BY <1>1, <1>4
<1> QED BY <1>5 DEF h, N

\* The order is of different nodes, each after those its edges come from; it leaves out
\* nodes only if each of them waits for another one that it leaves out.
LEMMA OrderIs ==
    ASSUME NEW p, Graph(p)
    PROVE  LET o == TopologicalOrder(p)
           IN  /\ o \in Seq(DOMAIN p.nodes) /\ Distinct(o) /\ Ordered(p, o)
               /\ \/ Len(o) = Len(p.nodes)
                  \/ \A t \in DOMAIN p.nodes \ Range(o) :
                         \E i \in DOMAIN p.edges :
                             p.edges[i].to = t /\ p.edges[i].from \notin Range(o)
<1> DEFINE s == Kahn(p)[Len(p.nodes)]
<1>1. KahnInv(p, s) /\ (Len(s.done) = Len(p.nodes) \/ s.ready = <<>>)
  BY GraphFacts, KahnGoesOn
<1>2. TopologicalOrder(p) = s.done
  BY DEF TopologicalOrder
<1> HIDE DEF s
<1>3. s.done \in Seq(DOMAIN p.nodes) /\ Distinct(s.done) /\ Ordered(p, s.done)
  BY <1>1 DEF KahnInv, KahnStates
<1>4. ASSUME s.ready = <<>>, NEW t \in DOMAIN p.nodes \ Range(s.done)
      PROVE  \E i \in DOMAIN p.edges : p.edges[i].to = t /\ p.edges[i].from \notin Range(s.done)
  <2>1. Range(s.ready) = {} BY <1>4 DEF Range
  <2>2. Unfollowed(p, s.done, t) # {} BY <1>1, <2>1 DEF KahnInv
  <2> QED BY <2>2 DEF Unfollowed
<1> QED BY <1>1, <1>2, <1>3, <1>4


-----------------------------------------------------------------------------
(* Plans that are run.                                                     *)

LEMMA WholeOrder ==
    ASSUME NEW p, Graph(p), NEW o \in Seq(DOMAIN p.nodes), Distinct(o)
    PROVE  Len(o) = Len(p.nodes) <=> Range(o) = DOMAIN p.nodes
<1> DEFINE N == DOMAIN p.nodes
           D == 1..Len(o)
<1>1. /\ Len(o) \in Nat /\ o \in [D -> N] /\ IsFiniteSet(N) /\ Cardinality(N) = Len(p.nodes)
      /\ DOMAIN o = D
  BY GraphFacts
<1>2. Cardinality(D) = Len(o)
  <2>1. 1 \in Int /\ Len(o) \in Int BY <1>1
  <2>2. Cardinality(1..Len(o)) = IF 1 > Len(o) THEN 0 ELSE Len(o) - 1 + 1 BY ONLY <2>1, FS_Interval
  <2> QED BY <1>1, <2>2
<1>3. o \in Injection(D, N)
  BY <1>1 DEF Distinct, Injection, IsInjective
<1>4. Cardinality(D) = Cardinality(N) <=> o \in Surjection(D, N)
  BY <1>1, <1>3, FS_Injection
<1>5. o \in Surjection(D, N) <=> Range(o) = N
  BY <1>1 DEF Surjection, Range
<1> QED BY <1>1, <1>2, <1>4, <1>5

\* The reason for a refusal: nodes that wait for each other in a circle.
Circular(p, U) == /\ U \subseteq DOMAIN p.nodes /\ U # {}
                  /\ \A t \in U : \E i \in DOMAIN p.edges : p.edges[i].to = t /\ p.edges[i].from \in U

LEMMA NoCircle ==
    ASSUME NEW p, NEW o \in Seq(DOMAIN p.nodes), Ordered(p, o), Range(o) = DOMAIN p.nodes,
           NEW U, Circular(p, U)
    PROVE  FALSE
<1> DEFINE T == {b \in DOMAIN o : o[b] \in U}
<1>1. T \subseteq Nat /\ DOMAIN o \subseteq Nat
  OBVIOUS
<1>2. T # {}
  <2> PICK t \in U : t \in Range(o) BY DEF Circular
  <2> QED BY DEF Range
<1>3. PICK b \in T : \A c \in T : b <= c
  <2> HIDE DEF T
  <2> QED BY <1>1, <1>2, Least
<1> PICK i \in DOMAIN p.edges : p.edges[i].to = o[b] /\ p.edges[i].from \in U
  BY DEF Circular
<1> PICK a \in DOMAIN o : a < b /\ o[a] = p.edges[i].from
  BY DEF Ordered
<1>4. a \in T /\ a \in Nat /\ b \in Nat
  BY <1>1
<1> QED BY <1>3, <1>4

\* topological_order refuses a plan for a cycle and for nothing else: what is left of
\* it is nodes of which each waits for another one (compiled_executor.rs 1874-1913).
THEOREM RefusedForACycle ==
    \A i \in DOMAIN Plans :
        Prepared(i, Plans[i]) \notin PreparedPlans <=> \E U : Circular(Plans[i], U)
<1> TAKE i \in DOMAIN Plans
<1> DEFINE p == Plans[i]
           o == TopologicalOrder(p)
<1>1. Graph(p)
  BY PlansAssumption
<1>2. Prepared(i, p) \in PreparedPlans <=> Len(o) = Len(p.nodes)
  BY DEF PreparedPlans, Prepared
<1> HIDE DEF p
<1>3. /\ o \in Seq(DOMAIN p.nodes) /\ Distinct(o) /\ Ordered(p, o)
      /\ \/ Len(o) = Len(p.nodes)
         \/ \A t \in DOMAIN p.nodes \ Range(o) :
                \E j \in DOMAIN p.edges : p.edges[j].to = t /\ p.edges[j].from \notin Range(o)
  BY <1>1, OrderIs
<1> HIDE DEF o
<1>4. Len(o) = Len(p.nodes) <=> Range(o) = DOMAIN p.nodes
  BY <1>1, <1>3, WholeOrder
<1>5. ASSUME Len(o) # Len(p.nodes) PROVE Circular(p, DOMAIN p.nodes \ Range(o))
  <2>1. Range(o) \subseteq DOMAIN p.nodes BY <1>3 DEF Range
  <2>2. \A j \in DOMAIN p.edges : p.edges[j].from \in DOMAIN p.nodes BY <1>1, GraphFacts
  <2> QED BY <1>3, <1>4, <1>5, <2>1, <2>2 DEF Circular
<1>6. ASSUME Len(o) = Len(p.nodes), NEW U, Circular(p, U) PROVE FALSE
  BY <1>3, <1>4, <1>6, NoCircle
<1>7. Len(o) # Len(p.nodes) <=> \E U : Circular(p, U)
  BY <1>5, <1>6
<1> QED BY <1>2, <1>7 DEF p

\* What edges lead to from S comes after a node of S.
LEMMA ReachedAfter ==
    ASSUME NEW p, Graph(p), NEW S, S \subseteq DOMAIN p.nodes,
           NEW o \in Seq(DOMAIN p.nodes), Ordered(p, o)
    PROVE  /\ Reachable(p, S) \subseteq DOMAIN p.nodes
           /\ \A b \in DOMAIN o : o[b] \in Reachable(p, S) =>
                  \E a \in DOMAIN o : a <= b /\ o[a] \in S
<1> DEFINE h == Visited(p, S)
           N == Len(p.nodes)
           After(k) == \A b \in DOMAIN o : o[b] \in h[k] => \E a \in DOMAIN o : a <= b /\ o[a] \in S
           P == {k \in Nat : k <= N => After(k)}
<1>1. /\ N \in Nat /\ h[0] = S /\ DOMAIN o \subseteq Nat
      /\ \A k \in 1..N : h[k] = UNION {{n} \cup Successors(p, n) : n \in h[k - 1]}
      /\ h[N] \subseteq DOMAIN p.nodes
  <2>1. N \in Nat BY GraphFacts
  <2>2. h[0] = S /\ \A k \in 1..N : h[k] = UNION {{n} \cup Successors(p, n) : n \in h[k - 1]}
    BY VisitedUnfolds
  <2>3. N \in 0..N BY <2>1
  <2>4. h[N] \subseteq DOMAIN p.nodes BY <2>3, VisitedUnfolds
  <2>5. DOMAIN o \subseteq Nat OBVIOUS
  <2> HIDE DEF h, N
  <2> QED BY <2>1, <2>2, <2>4, <2>5
<1>2. Reachable(p, S) = h[N]
  BY DEF Reachable
<1> HIDE DEF h, N
<1>3. 0 \in P
  <2>1. After(0)
    <3> TAKE b \in DOMAIN o
    <3>1. b <= b BY <1>1
    <3> QED BY <1>1, <3>1
  <2> QED BY <2>1
<1>4. ASSUME NEW k \in Nat, k \in P PROVE k + 1 \in P
  <2> SUFFICES ASSUME k + 1 <= N, NEW b \in DOMAIN o, o[b] \in h[k + 1]
               PROVE  \E a \in DOMAIN o : a <= b /\ o[a] \in S
    OBVIOUS
  <2>1. k + 1 \in 1..N /\ (k + 1) - 1 = k /\ k <= N BY <1>1
  <2>2. After(k) BY <1>4, <2>1
  <2>3. PICK n \in h[k] : o[b] \in {n} \cup Successors(p, n)
    <3>1. h[k + 1] = UNION {{n} \cup Successors(p, n) : n \in h[k]} BY <1>1, <2>1
    <3> QED BY <3>1
  <2>4. CASE o[b] = n BY <2>2, <2>3, <2>4
  <2>5. CASE o[b] \in Successors(p, n)
    <3> PICK i \in DOMAIN p.edges : p.edges[i].from = n /\ p.edges[i].to = o[b]
      BY <2>5 DEF Successors, OutEdges
    <3> PICK c \in DOMAIN o : c < b /\ o[c] = n BY DEF Ordered
    <3> PICK a \in DOMAIN o : a <= c /\ o[a] \in S BY <2>2, <2>3
    <3>1. a \in Nat /\ b \in Nat /\ c \in Nat BY <1>1
    <3>2. a <= b BY <3>1
    <3> QED BY <3>2
  <2> QED BY <2>3, <2>4, <2>5
<1>5. Nat \subseteq P
  <2> HIDE DEF P
  <2> QED BY <1>3, <1>4, Induction
<1>6. After(N)
  <2> HIDE DEF After
  <2> QED BY <1>1, <1>5
<1> QED BY <1>1, <1>2, <1>6

\* No node of a loop's body leads back to the LOOP.
LEMMA BodyLeadsOn ==
    ASSUME NEW p, Graph(p), NEW l \in DOMAIN p.nodes, NEW o \in Seq(DOMAIN p.nodes),
           Distinct(o), Ordered(p, o), NEW j \in DOMAIN p.edges, p.edges[j].to = l,
           p.edges[j].from \in LoopBody(p, l), p.edges[j].from \in Range(o)
    PROVE  FALSE
<1> DEFINE S == Entries(p, l, "data")
<1>1. /\ S \subseteq DOMAIN p.nodes
      /\ \A s \in S : \E i \in DOMAIN p.edges : p.edges[i].from = l /\ p.edges[i].to = s
  BY GraphFacts DEF Entries, OutEdges
<1>2. p.edges[j].from \in Reachable(p, S)
  BY DEF LoopBody
<1> HIDE DEF S
<1>3. DOMAIN o \subseteq Nat
  OBVIOUS
<1> PICK b \in DOMAIN o : o[b] = p.edges[j].from
  BY DEF Range
<1>4. PICK a \in DOMAIN o : a <= b /\ o[a] \in S
  BY <1>1, <1>2, ReachedAfter
<1> PICK i \in DOMAIN p.edges : p.edges[i].from = l /\ p.edges[i].to = o[a]
  BY <1>1, <1>4
<1> PICK c \in DOMAIN o : c < a /\ o[c] = l
  BY DEF Ordered
<1> PICK d \in DOMAIN o : d < c /\ o[d] = o[b]
  BY DEF Ordered
<1>5. d = b BY DEF Distinct
<1>6. a \in Nat /\ b \in Nat /\ c \in Nat BY <1>3
<1> QED BY <1>4, <1>5, <1>6

\* What the checks before a run make of a plan: an order of all its nodes that follows
\* the edges; bodies and groups in that order; a body that does not lead back to its
\* LOOP; groups of one branch.
LEMMA PlansArePrepared ==
    \A p \in PreparedPlans :
        /\ p.order \in Seq(DOMAIN p.nodes) /\ Distinct(p.order) /\ Ordered(p, p.order)
        /\ Range(p.order) = DOMAIN p.nodes
        /\ \A l \in DOMAIN p.bodies :
               /\ p.bodies[l] \in Seq(DOMAIN p.nodes)
               /\ \A j \in DOMAIN p.edges :
                      p.edges[j].to = l => p.edges[j].from \notin Range(p.bodies[l])
        /\ \A n \in DOMAIN p.groups :
               /\ IsFiniteSet(DOMAIN p.groups[n]) /\ DOMAIN p.groups[n] \subseteq Nat
               /\ \A b \in DOMAIN p.groups[n] :
                      p.groups[n][b] \in Seq({m \in DOMAIN p.nodes : p.nodes[m].branch = b})
<1> TAKE p \in PreparedPlans
<1> PICK i \in DOMAIN Plans : p = Prepared(i, Plans[i])
  BY DEF PreparedPlans
<1> DEFINE g == Plans[i]
           o == TopologicalOrder(g)
           ops(x) == {n \in DOMAIN g.nodes : g.nodes[n].op = x}
           fork(n) == Region(g, n)
<1>1. Graph(g)
  BY PlansAssumption
<1>2. /\ p.nodes = g.nodes /\ p.edges = g.edges /\ p.order = o
      /\ p.bodies = [l \in ops("Loop") |-> InOrder(o, LoopBody(g, l))]
      /\ p.groups = [n \in ops("Parallel") |->
                        [b \in {g.nodes[m].branch : m \in fork(n)} \ {None} |->
                            InOrder(o, {m \in fork(n) : g.nodes[m].branch = b})]]
      /\ Len(o) = Len(g.nodes)
  BY DEF PreparedPlans, Prepared
<1> HIDE DEF g
<1>3. o \in Seq(DOMAIN g.nodes) /\ Distinct(o) /\ Ordered(g, o)
  BY <1>1, OrderIs
<1> HIDE DEF o
<1>4. Range(o) = DOMAIN g.nodes
  BY <1>1, <1>2, <1>3, WholeOrder
<1>5. Ordered(p, o)
  BY <1>2, <1>3 DEF Ordered
<1>6. ASSUME NEW l \in DOMAIN p.bodies
      PROVE  /\ p.bodies[l] \in Seq(DOMAIN p.nodes)
             /\ \A j \in DOMAIN p.edges :
                    p.edges[j].to = l => p.edges[j].from \notin Range(p.bodies[l])
  <2>1. l \in DOMAIN g.nodes /\ p.bodies[l] = InOrder(o, LoopBody(g, l)) BY <1>2
  <2>2. InOrder(o, LoopBody(g, l)) \in Seq(DOMAIN g.nodes \cap LoopBody(g, l)) BY <1>3, InOrderIs
  <2>3. Range(InOrder(o, LoopBody(g, l))) = Range(o) \cap LoopBody(g, l) BY <1>3, InOrderIs
  <2>4. p.bodies[l] \in Seq(DOMAIN p.nodes) BY <1>2, <2>1, <2>2
  <2>5. ASSUME NEW j \in DOMAIN g.edges, g.edges[j].to = l, g.edges[j].from \in Range(p.bodies[l])
        PROVE  FALSE
    <3>1. g.edges[j].from \in Range(o) /\ g.edges[j].from \in LoopBody(g, l) BY <2>1, <2>3, <2>5
    <3> QED BY <1>1, <1>3, <2>1, <2>5, <3>1, BodyLeadsOn
  <2> QED BY <1>2, <2>4, <2>5
<1>7. ASSUME NEW n \in DOMAIN p.groups
      PROVE  /\ IsFiniteSet(DOMAIN p.groups[n]) /\ DOMAIN p.groups[n] \subseteq Nat
             /\ \A b \in DOMAIN p.groups[n] :
                    p.groups[n][b] \in Seq({m \in DOMAIN p.nodes : p.nodes[m].branch = b})
  <2> DEFINE R == Region(g, n)
             B == {g.nodes[m].branch : m \in R} \ {None}
             mine(b) == {m \in R : g.nodes[m].branch = b}
  <2>1. DOMAIN p.groups[n] = B /\ \A b \in B : p.groups[n][b] = InOrder(o, mine(b))
    <3>1. n \in ops("Parallel") BY <1>2
    <3> HIDE DEF ops
    <3>2. p.groups[n] = [b \in B |-> InOrder(o, mine(b))] BY <1>2, <3>1
    <3> HIDE DEF B, mine
    <3> QED BY <3>2
  <2>2. R \subseteq DOMAIN g.nodes
    <3>1. Successors(g, n) \subseteq DOMAIN g.nodes BY <1>1, GraphFacts DEF Successors, OutEdges
    <3> QED BY <1>1, <1>3, <3>1, ReachedAfter DEF Region
  <2> HIDE DEF R
  <2>3. B \subseteq Nat BY <1>1, <2>2 DEF Graph
  <2>4. IsFiniteSet(B)
    <3> DEFINE C == {g.nodes[m].branch : m \in R}
               f == [m \in R |-> g.nodes[m].branch]
    <3>1. IsFiniteSet(R) BY <1>1, <2>2, GraphFacts, FS_Subset
    <3>2. f \in Surjection(R, C) BY DEF Surjection
    <3>3. IsFiniteSet(C) BY <3>1, <3>2, FS_Surjection
    <3> QED BY <3>3, FS_Subset
  <2>5. ASSUME NEW b \in B
        PROVE  InOrder(o, mine(b)) \in Seq({m \in DOMAIN g.nodes : g.nodes[m].branch = b})
    <3>1. InOrder(o, mine(b)) \in Seq(DOMAIN g.nodes \cap mine(b)) BY <1>3, InOrderIs
    <3>2. DOMAIN g.nodes \cap mine(b) \subseteq {m \in DOMAIN g.nodes : g.nodes[m].branch = b} OBVIOUS
    <3> HIDE DEF mine
    <3> QED BY <3>1, <3>2
  <2> HIDE DEF B, mine
  <2>6. IsFiniteSet(DOMAIN p.groups[n]) /\ DOMAIN p.groups[n] \subseteq Nat BY <2>1, <2>3, <2>4
  <2>7. p.nodes = g.nodes BY <1>2
  <2> HIDE DEF ops, fork
  <2>8. ASSUME NEW b \in DOMAIN p.groups[n]
        PROVE  p.groups[n][b] \in Seq({m \in DOMAIN p.nodes : p.nodes[m].branch = b})
    BY <2>1, <2>5, <2>7
  <2> QED BY <2>6, <2>8
<1> QED BY <1>2, <1>3, <1>4, <1>5, <1>6, <1>7


-----------------------------------------------------------------------------
(* The plan.                                                               *)

\* What the assumptions say of the plan of a run.
PlanFacts ==
    /\ plan.id \in Nat
    /\ Nodes \subseteq Nat
    /\ plan.order \in Seq(Nodes)
    /\ IsFiniteSet(DOMAIN plan.edges)
    /\ DOMAIN plan.edges \subseteq Nat
    /\ \A e \in Links : e.to \in Nodes
    /\ \A l \in Nodes : Node(l).op = "Loop" =>
           Body(l) \in Seq(Nodes) /\ \A e \in Links : e.to = l => e.from \notin InBody(l)
    /\ \A n \in Nodes : Node(n).op = "Parallel" =>
           /\ IsFiniteSet(BranchesOf(n)) /\ BranchesOf(n) \subseteq Nat
           /\ None \notin BranchesOf(n)
           /\ \A b \in BranchesOf(n) :
                  Group(n, b) \in Seq(Nodes) /\ \A i \in DOMAIN Group(n, b) :
                      Node(Group(n, b)[i]).branch = b
    /\ BodiesKeepTheirVariable =>
           \A l \in Nodes : Node(l).op = "Loop" =>
               \A n \in InBody(l) : Node(l).out \notin Node(n).leaks \cup {Node(n).out}

LEMMA PlanIsSound == ASSUME plan \in PreparedPlans PROVE PlanFacts
<1>1. PICK i \in DOMAIN Plans : plan = Prepared(i, Plans[i])
  BY DEF PreparedPlans
<1>2. /\ plan.id = i
      /\ plan.nodes = Plans[i].nodes
      /\ plan.edges = Plans[i].edges
      /\ DOMAIN plan.bodies = {n \in Nodes : Node(n).op = "Loop"}
      /\ DOMAIN plan.groups = {n \in Nodes : Node(n).op = "Parallel"}
      /\ \A n \in DOMAIN plan.groups : None \notin DOMAIN plan.groups[n]
  <2> DEFINE p == Plans[i]
             ops(x) == {n \in DOMAIN p.nodes : p.nodes[n].op = x}
             branches(n) == {p.nodes[m].branch : m \in Region(p, n)} \ {None}
             group(n, b) == InOrder(TopologicalOrder(p), {m \in Region(p, n) : p.nodes[m].branch = b})
             body(l) == InOrder(TopologicalOrder(p), LoopBody(p, l))
  <2>1. /\ plan.id = i /\ plan.nodes = p.nodes /\ plan.edges = p.edges
        /\ plan.bodies = [l \in ops("Loop") |-> body(l)]
        /\ plan.groups = [n \in ops("Parallel") |-> [b \in branches(n) |-> group(n, b)]]
    BY <1>1 DEF Prepared
  <2>2. \A n : None \notin branches(n) OBVIOUS
  <2>3. ops("Loop") = {n \in Nodes : Node(n).op = "Loop"}
        /\ ops("Parallel") = {n \in Nodes : Node(n).op = "Parallel"}
    BY <2>1 DEF Nodes, Node
  <2> HIDE DEF ops, branches, group, body
  <2>4. DOMAIN plan.bodies = ops("Loop") /\ DOMAIN plan.groups = ops("Parallel") BY <2>1
  <2>5. \A n \in DOMAIN plan.groups : DOMAIN plan.groups[n] = branches(n) BY <2>1, <2>4
  <2> QED BY <2>1, <2>2, <2>3, <2>4, <2>5
<1>3. /\ plan.id \in Nat
      /\ Nodes \subseteq Nat
      /\ IsFiniteSet(DOMAIN plan.edges)
      /\ DOMAIN plan.edges \subseteq Nat
      /\ \A e \in Links : e.to \in Nodes
  <2> DEFINE p == Plans[i]
  <2>1. Graph(p) /\ i \in Nat BY PlansAssumption
  <2> HIDE DEF p
  <2>2. /\ DOMAIN p.nodes = 1..Len(p.nodes) /\ IsFiniteSet(DOMAIN p.edges)
        /\ DOMAIN p.edges = 1..Len(p.edges)
        /\ \A j \in DOMAIN p.edges : p.edges[j].to \in DOMAIN p.nodes
    BY <2>1, GraphFacts
  <2>3. plan.id = i /\ plan.nodes = p.nodes /\ plan.edges = p.edges BY <1>2 DEF p
  <2>4. 1..Len(p.nodes) \subseteq Nat /\ 1..Len(p.edges) \subseteq Nat OBVIOUS
  <2>5. \A e \in Links : e.to \in Nodes BY <2>2, <2>3 DEF Nodes, Links, Edge
  <2> QED BY <2>1, <2>2, <2>3, <2>4, <2>5 DEF Nodes
<1>4. /\ plan.order \in Seq(Nodes)
      /\ \A l \in DOMAIN plan.bodies :
             /\ plan.bodies[l] \in Seq(Nodes)
             /\ \A j \in DOMAIN plan.edges :
                    plan.edges[j].to = l => plan.edges[j].from \notin Range(plan.bodies[l])
      /\ \A n \in DOMAIN plan.groups :
             /\ IsFiniteSet(DOMAIN plan.groups[n]) /\ DOMAIN plan.groups[n] \subseteq Nat
             /\ \A b \in DOMAIN plan.groups[n] :
                    plan.groups[n][b] \in Seq({m \in Nodes : Node(m).branch = b})
  BY PlansArePrepared DEF Nodes, Node
<1>5. ASSUME NEW l \in Nodes, Node(l).op = "Loop"
      PROVE  Body(l) \in Seq(Nodes) /\ \A e \in Links : e.to = l => e.from \notin InBody(l)
  BY <1>2, <1>4, <1>5 DEF Body, InBody, Links, Edge
<1>6. ASSUME NEW n \in Nodes, Node(n).op = "Parallel"
      PROVE  /\ IsFiniteSet(BranchesOf(n)) /\ BranchesOf(n) \subseteq Nat
             /\ None \notin BranchesOf(n)
             /\ \A b \in BranchesOf(n) :
                    Group(n, b) \in Seq(Nodes) /\ \A k \in DOMAIN Group(n, b) :
                        Node(Group(n, b)[k]).branch = b
  <2>1. n \in DOMAIN plan.groups
    BY <1>2, <1>6
  <2>2. ASSUME NEW b \in BranchesOf(n)
        PROVE  Group(n, b) \in Seq(Nodes) /\ \A k \in DOMAIN Group(n, b) :
                   Node(Group(n, b)[k]).branch = b
    <3>1. Group(n, b) \in Seq({m \in Nodes : Node(m).branch = b})
      BY <1>4, <2>1, <2>2 DEF Group, BranchesOf
    <3>2. \A k \in DOMAIN Group(n, b) : Group(n, b)[k] \in {m \in Nodes : Node(m).branch = b}
      BY <3>1
    <3>. QED
      BY <3>1, <3>2
  <2>. QED
    BY <1>2, <1>4, <2>1, <2>2 DEF BranchesOf
<1>7. ASSUME BodiesKeepTheirVariable, NEW l \in Nodes, Node(l).op = "Loop", NEW n \in InBody(l)
      PROVE  Node(l).out \notin Node(n).leaks \cup {Node(n).out}
  <2>1. l \in DOMAIN plan.bodies
    BY <1>2, <1>7
  <2>. QED
    BY <1>7, <2>1 DEF BodiesKeepTheirVariable, InBody, Body, Node
<1>. QED
  BY <1>3, <1>4, <1>5, <1>6, <1>7 DEF PlanFacts

NatLess == {ss \in Nat \X Nat : ss[1] < ss[2]}

\* Of some naturals there is a smallest one, and of finitely many a largest.
LEMMA SmallestIsThere ==
  ASSUME NEW S \in SUBSET Nat, S # {}
  PROVE  Smallest(S) \in S /\ \A y \in S : Smallest(S) <= y
<1>1. IsWellFoundedOn(NatLess, Nat)
  BY NatLessThanWellFounded DEF NatLess, OpToRel
<1>2. PICK x \in S : \A y \in S : ~ (<<y, x>> \in NatLess)
  BY <1>1, WFMin
<1>3. ASSUME NEW y \in S, y < x PROVE <<y, x>> \in NatLess
  <2>. DEFINE ss == <<y, x>>
  <2>1. ss \in Nat \X Nat /\ ss[1] = y /\ ss[2] = x
    OBVIOUS
  <2>. HIDE DEF ss
  <2>2. ss \in NatLess
    BY <1>3, <2>1 DEF NatLess
  <2>. QED
    BY <2>2 DEF ss
<1>4. ASSUME NEW y \in S PROVE x <= y
  <2>1. x \in Nat /\ y \in Nat
    OBVIOUS
  <2>2. ~ (y < x)
    BY <1>2, <1>3
  <2>. QED
    BY <2>1, <2>2
<1>. QED
  BY <1>4 DEF Smallest

LEMMA LargestIsThere ==
  ASSUME NEW S \in SUBSET Nat, S # {}, IsFiniteSet(S)
  PROVE  Largest(S) \in S
<1>. DEFINE Above(x) == {y \in S : x < y}
            C == {Cardinality(Above(x)) : x \in S}
<1>1. ASSUME NEW x \in S PROVE IsFiniteSet(Above(x)) /\ Cardinality(Above(x)) \in Nat
  BY FS_Subset, FS_CardinalityType
<1>2. C \in SUBSET Nat /\ C # {} /\ \A k \in C : \E x \in S : k = Cardinality(Above(x))
  BY <1>1
<1>3. PICK x \in S : \A y \in S : Cardinality(Above(x)) <= Cardinality(Above(y))
  <2>1. \A y \in S : Cardinality(Above(y)) \in C
    OBVIOUS
  <2>. HIDE DEF C
  <2>2. Smallest(C) \in C /\ \A k \in C : Smallest(C) <= k
    BY <1>2, SmallestIsThere
  <2>. QED
    BY <1>2, <2>1, <2>2
<1>4. ASSUME NEW y \in S, x < y PROVE FALSE
  <2>1. Above(y) \in SUBSET Above(x)
    <3>1. ASSUME NEW z \in S, y < z PROVE x < z
      <4>1. x \in Nat /\ y \in Nat /\ z \in Nat
        OBVIOUS
      <4>. QED
        BY <1>4, <3>1, <4>1
    <3>. QED
      BY <3>1
  <2>2. y \in Above(x)
    BY <1>4
  <2>3. y \notin Above(y)
    <3>1. y \in Nat
      OBVIOUS
    <3>. QED
      BY <3>1
  <2>4. IsFiniteSet(Above(x)) /\ Cardinality(Above(x)) \in Nat /\ Cardinality(Above(y)) \in Nat
    BY <1>1
  <2>. HIDE DEF Above
  <2>5. Cardinality(Above(y)) <= Cardinality(Above(x)) /\ Cardinality(Above(y)) # Cardinality(Above(x))
    BY <2>1, <2>2, <2>3, <2>4, FS_Subset
  <2>. QED
    BY <1>3, <2>4, <2>5
<1>5. ASSUME NEW y \in S PROVE y <= x
  <2>1. x \in Nat /\ y \in Nat
    OBVIOUS
  <2>. QED
    BY <1>4, <2>1
<1>. QED
  BY <1>5 DEF Largest

-----------------------------------------------------------------------------
(* Runners: every part of a step keeps them Sound.                         *)

\* The cursors stay, and of the outputs only that of n changes.
SameCursor(r, x) ==
    /\ x.todo = r.todo /\ x.at = r.at /\ x.loop = r.loop
    /\ x.skipped = r.skipped /\ x.failed = r.failed

OnlyOutput(r, x, n) ==
    \A m : m # n => /\ m \in DOMAIN x.outputs <=> m \in DOMAIN r.outputs
                    /\ m \in DOMAIN r.outputs => x.outputs[m] = r.outputs[m]

LEMMA SpentSound ==
  ASSUME NEW r, Sound(r)
  PROVE  /\ Sound(Spent(r)) /\ SameCursor(r, Spent(r))
         /\ Spent(r).outputs = r.outputs /\ Spent(r).ctx = r.ctx
<1>. DEFINE x == Spent(r)
<1>1. x = [r EXCEPT !.count = x.count] /\ x.count = r.count + 1
  BY DEF Spent, Sound, WholeRunner
<1>. HIDE DEF x
<1>. QED
  BY <1>1 DEF x, Sound, WholeRunner, SameCursor

LEMMA EffectSound ==
  ASSUME NEW r, Sound(r), NEW n, NEW saw, NEW got
  PROVE  /\ Sound(Effect(r, n, saw, got)) /\ SameCursor(r, Effect(r, n, saw, got))
         /\ Effect(r, n, saw, got).outputs = r.outputs /\ Effect(r, n, saw, got).ctx = r.ctx
<1>. DEFINE x == Effect(r, n, saw, got)
<1>1. x = [r EXCEPT !.trace = x.trace]
  BY DEF Effect, Sound, WholeRunner
<1>. HIDE DEF x
<1>. QED
  BY <1>1 DEF x, Sound, WholeRunner, SameCursor

LEMMA YieldsSound ==
  ASSUME NEW r, Sound(r), NEW n \in Nodes, NEW saw, NEW got \in Nat
  PROVE  LET x == Yields(r, n, saw, got)
         IN  /\ Sound(x) /\ SameCursor(r, x) /\ OnlyOutput(r, x, n) /\ x.ctx = r.ctx
             /\ x.outputs[n].got = got
<1>. DEFINE x == Yields(r, n, saw, got)
<1>1. /\ x = [r EXCEPT !.outputs = x.outputs]
      /\ x.outputs = [m \in DOMAIN r.outputs \cup {n} |->
                         IF m = n THEN Output(saw, got) ELSE r.outputs[m]]
  BY DEF Yields, Sound, WholeRunner, Put, PutAll
<1>2. Output(saw, got).got = got
  BY DEF Output
<1>. HIDE DEF x
<1>. QED
  BY <1>1, <1>2 DEF x, Sound, WholeRunner, SameCursor, OnlyOutput

LEMMA SetWhole ==
  ASSUME NEW c, WholeContext(c), NEW b, NEW S, NEW v
  PROVE  WholeContext(Set(c, b, S, v))
<1>1. CASE b = None
  <2>. DEFINE d == [c EXCEPT !.vars = PutAll(c.vars, S, v)]
  <2>1. WholeContext(d)
    BY DEF WholeContext
  <2>. QED
    BY <1>1, <2>1 DEF Set
<1>2. CASE b # None
  <2>. DEFINE t == Put(c.scopes, b,
                       PutAll(IF b \in DOMAIN c.scopes THEN c.scopes[b] ELSE NoVars, S, v))
              d == [c EXCEPT !.scopes = t]
  <2>1. Set(c, b, S, v) = d
    BY <1>2 DEF Set
  <2>. HIDE DEF t
  <2>2. WholeContext(d)
    BY DEF WholeContext
  <2>. QED
    BY <2>1, <2>2
<1>. QED
  BY <1>1, <1>2

LEMMA PutMaps == ASSUME NEW f, NEW S, NEW v PROVE Mapping(PutAll(f, S, v))
  BY DEF PutAll, Mapping

LEMMA PutIsThere ==
  ASSUME NEW f, NEW S, NEW v, NEW u \in S
  PROVE  /\ u \in DOMAIN PutAll(f, S, v)
         /\ PutAll(f, S, v)[u] = v
         /\ Mapping(PutAll(f, S, v))
<1>1. u \in DOMAIN PutAll(f, S, v) /\ PutAll(f, S, v)[u] = v
  BY DEF PutAll
<1>. QED
  BY <1>1, PutMaps

LEMMA PutBeside ==
  ASSUME NEW f, NEW S, NEW v, NEW u \in DOMAIN f, u \notin S
  PROVE  /\ u \in DOMAIN PutAll(f, S, v)
         /\ PutAll(f, S, v)[u] = f[u]
         /\ Mapping(PutAll(f, S, v))
<1>1. u \in DOMAIN PutAll(f, S, v) /\ PutAll(f, S, v)[u] = f[u]
  BY DEF PutAll
<1>. QED
  BY <1>1, PutMaps

LEMMA SetIsThere ==
  ASSUME NEW c, WholeContext(c), NEW b, NEW u, NEW y
  PROVE  Has(Set(c, b, {u}, y), b, u, y)
<1>1. CASE b = None
  <2>. DEFINE g == PutAll(c.vars, {u}, y)
  <2>1. Set(c, b, {u}, y).vars = g
    BY <1>1 DEF Set, WholeContext
  <2>2. u \in DOMAIN g /\ g[u] = y /\ Mapping(g)
    BY PutIsThere
  <2>. HIDE DEF g
  <2>. QED
    BY <1>1, <2>1, <2>2 DEF Has
<1>2. CASE b # None
  <2>. DEFINE old == IF b \in DOMAIN c.scopes THEN c.scopes[b] ELSE NoVars
              g == PutAll(old, {u}, y)
              t == PutAll(c.scopes, {b}, g)
  <2>1. Set(c, b, {u}, y).scopes = t
    BY <1>2 DEF Set, Put, WholeContext
  <2>2. u \in DOMAIN g /\ g[u] = y /\ Mapping(g)
    BY PutIsThere
  <2>. HIDE DEF g
  <2>3. b \in DOMAIN t /\ t[b] = g /\ Mapping(t)
    BY PutIsThere
  <2>. HIDE DEF t
  <2>. QED
    BY <1>2, <2>1, <2>2, <2>3 DEF Has
<1>. QED
  BY <1>1, <1>2

\* To set it again changes nothing.
LEMMA HasIsSet ==
  ASSUME NEW c, WholeContext(c), NEW b, NEW u, NEW y, Has(c, b, u, y)
  PROVE  Set(c, b, {u}, y) = c
<1>1. CASE b = None
  <2>1. PutAll(c.vars, {u}, y) = c.vars
    BY <1>1 DEF Has, PutAll, Mapping
  <2>2. Set(c, b, {u}, y) = [c EXCEPT !.vars = c.vars]
    BY <1>1, <2>1 DEF Set
  <2>. QED
    BY <2>2 DEF WholeContext
<1>2. CASE b # None
  <2>1. PutAll(c.scopes[b], {u}, y) = c.scopes[b]
    BY <1>2 DEF Has, PutAll, Mapping
  <2>2. PutAll(c.scopes, {b}, c.scopes[b]) = c.scopes
    BY <1>2 DEF Has, PutAll, Mapping
  <2>3. Set(c, b, {u}, y) = [c EXCEPT !.scopes = c.scopes]
    BY <1>2, <2>1, <2>2 DEF Set, Put, Has
  <2>. QED
    BY <2>3 DEF WholeContext
<1>. QED
  BY <1>1, <1>2

\* Other variables are set beside it.
LEMMA SetBeside ==
  ASSUME NEW c, WholeContext(c), NEW b, NEW u, NEW y, Has(c, b, u, y),
         NEW S, u \notin S, NEW v
  PROVE  Has(Set(c, b, S, v), b, u, y)
<1>1. CASE b = None
  <2>. DEFINE g == PutAll(c.vars, S, v)
  <2>1. Set(c, b, S, v).vars = g
    BY <1>1 DEF Set, WholeContext
  <2>2. u \in DOMAIN g /\ g[u] = y /\ Mapping(g)
    BY <1>1, PutBeside DEF Has
  <2>. HIDE DEF g
  <2>. QED
    BY <1>1, <2>1, <2>2 DEF Has
<1>2. CASE b # None
  <2>. DEFINE g == PutAll(c.scopes[b], S, v)
              t == PutAll(c.scopes, {b}, g)
  <2>1. Set(c, b, S, v).scopes = t
    BY <1>2 DEF Set, Put, WholeContext, Has
  <2>2. u \in DOMAIN g /\ g[u] = y /\ Mapping(g)
    BY <1>2, PutBeside DEF Has
  <2>. HIDE DEF g
  <2>3. b \in DOMAIN t /\ t[b] = g /\ Mapping(t)
    BY PutIsThere
  <2>. HIDE DEF t
  <2>. QED
    BY <1>2, <2>1, <2>2, <2>3 DEF Has
<1>. QED
  BY <1>1, <1>2

LEMMA ContextSound ==
  ASSUME NEW r, Sound(r), NEW c, WholeContext(c)
  PROVE  LET x == [r EXCEPT !.ctx = c]
         IN  Sound(x) /\ SameCursor(r, x) /\ x.outputs = r.outputs /\ x.ctx = c
<1>. DEFINE x == [r EXCEPT !.ctx = c]
<1>1. x = [r EXCEPT !.ctx = c] /\ x.ctx = c
  BY DEF Sound, WholeRunner
<1>. HIDE DEF x
<1>. QED
  BY <1>1 DEF x, Sound, WholeRunner, SameCursor

\* The variables that a node does not write are kept.
KeepsVar(r, x, b, u) == \A y : Has(r.ctx, b, u, y) => Has(x.ctx, b, u, y)

LEMMA ComputedSound ==
  ASSUME NEW r, Sound(r), NEW b, NEW n \in Nodes, NEW got \in Nat
  PROVE  LET x == Computed(r, b, n, got)
         IN  /\ Sound(x) /\ SameCursor(r, x) /\ OnlyOutput(r, x, n)
             /\ \A u : u \notin Node(n).leaks \cup {Node(n).out} => KeepsVar(r, x, b, u)
<1>. DEFINE value == ValueOf(r, b, n)
            moved == IF Node(n).site = 0 THEN r ELSE Effect(r, n, Sees(r, b, n), got)
            told  == IF Node(n).leaks = {} THEN moved
                     ELSE [moved EXCEPT !.ctx = Leaked(moved.ctx, b, n)]
            wrote == IF Node(n).out = None THEN told
                     ELSE [told EXCEPT !.ctx = Set(told.ctx, b, {Node(n).out}, value)]
            x     == Yields(wrote, n, value, got)
<1>1. Computed(r, b, n, got) = x
  BY DEF Computed
<1>. HIDE DEF value
<1>2. /\ Sound(moved) /\ SameCursor(r, moved) /\ moved.outputs = r.outputs /\ moved.ctx = r.ctx
  BY EffectSound DEF SameCursor
<1>. HIDE DEF moved
<1>3. /\ Sound(told) /\ SameCursor(r, told) /\ told.outputs = r.outputs
      /\ \A u : u \notin Node(n).leaks => KeepsVar(r, told, b, u)
  <2>. DEFINE c == Leaked(moved.ctx, b, n)
  <2>1. WholeContext(moved.ctx)
    BY <1>2 DEF Sound
  <2>2. /\ WholeContext(c)
        /\ \A u, y : u \notin Node(n).leaks /\ Has(moved.ctx, b, u, y) => Has(c, b, u, y)
    BY <2>1, SetWhole, SetBeside DEF Leaked
  <2>. HIDE DEF c
  <2>3. CASE Node(n).leaks = {}
    BY <1>2, <2>3 DEF KeepsVar
  <2>4. CASE Node(n).leaks # {}
    <3>1. told = [moved EXCEPT !.ctx = c]
      BY <2>4 DEF c
    <3>. HIDE DEF told
    <3>2. /\ Sound(told) /\ SameCursor(moved, told) /\ told.outputs = moved.outputs
          /\ told.ctx = c
      BY <1>2, <2>2, <3>1, ContextSound
    <3>3. SameCursor(r, told) /\ told.outputs = r.outputs
      BY <1>2, <3>2 DEF SameCursor
    <3>4. ASSUME NEW u, u \notin Node(n).leaks, NEW y, Has(r.ctx, b, u, y)
          PROVE  Has(told.ctx, b, u, y)
      <4>1. Has(moved.ctx, b, u, y)
        BY <1>2, <3>4 DEF KeepsVar
      <4>2. u \notin Node(n).leaks
        BY <3>4
      <4>. QED
        BY <2>2, <3>2, <4>1, <4>2
    <3>5. \A u : u \notin Node(n).leaks => KeepsVar(r, told, b, u)
      BY <3>4, Zenon DEF KeepsVar
    <3>. QED
      BY <3>2, <3>3, <3>5
  <2>. QED
    BY <2>3, <2>4
<1>. HIDE DEF told
<1>4. /\ Sound(wrote) /\ SameCursor(r, wrote) /\ wrote.outputs = r.outputs
      /\ \A u : u \notin Node(n).leaks \cup {Node(n).out} => KeepsVar(r, wrote, b, u)
  <2>. DEFINE c == Set(told.ctx, b, {Node(n).out}, value)
  <2>1. WholeContext(told.ctx)
    BY <1>3 DEF Sound
  <2>2. /\ WholeContext(c)
        /\ \A u, y : u \notin {Node(n).out} /\ Has(told.ctx, b, u, y) => Has(c, b, u, y)
    BY <2>1, SetWhole, SetBeside
  <2>. HIDE DEF c
  <2>3. CASE Node(n).out = None
    BY <1>3, <2>3
  <2>4. CASE Node(n).out # None
    <3>1. wrote = [told EXCEPT !.ctx = c]
      BY <2>4 DEF c
    <3>. HIDE DEF wrote
    <3>2. /\ Sound(wrote) /\ SameCursor(told, wrote) /\ wrote.outputs = told.outputs
          /\ wrote.ctx = c
      BY <1>3, <2>2, <3>1, ContextSound
    <3>3. SameCursor(r, wrote) /\ wrote.outputs = r.outputs
      BY <1>3, <3>2 DEF SameCursor
    <3>4. ASSUME NEW u, u \notin Node(n).leaks \cup {Node(n).out}, NEW y, Has(r.ctx, b, u, y)
          PROVE  Has(wrote.ctx, b, u, y)
      <4>1. Has(told.ctx, b, u, y)
        BY <1>3, <3>4 DEF KeepsVar
      <4>2. u \notin {Node(n).out}
        BY <3>4
      <4>. QED
        BY <2>2, <3>2, <4>1, <4>2
    <3>5. \A u : u \notin Node(n).leaks \cup {Node(n).out} => KeepsVar(r, wrote, b, u)
      BY <3>4, Zenon DEF KeepsVar
    <3>. QED
      BY <3>2, <3>3, <3>5
  <2>. QED
    BY <2>3, <2>4
<1>. HIDE DEF wrote
<1>5. Sound(x) /\ SameCursor(wrote, x) /\ OnlyOutput(wrote, x, n) /\ x.ctx = wrote.ctx
  BY <1>4, YieldsSound
<1>. HIDE DEF x
<1>. QED
  BY <1>1, <1>4, <1>5 DEF SameCursor, OnlyOutput, KeepsVar

LEMMA ValuesAreNumbers == ASSUME NEW n, NEW got \in Values(n) PROVE got \in Nat
  BY BoundsAssumption DEF Values

\* A node that the main pass and loops run alike.
LEMMA RanSound ==
  ASSUME NEW r, Sound(r), NEW b, NEW n \in Nodes, NEW x \in Ran(r, b, n)
  PROVE  /\ Sound(x) /\ SameCursor(r, x) /\ OnlyOutput(r, x, n)
         /\ \A u : u \notin Node(n).leaks \cup {Node(n).out} => KeepsVar(r, x, b, u)
<1>1. \/ x = r
      \/ \E got \in Nat : x = Computed(r, b, n, got)
  BY ValuesAreNumbers DEF Ran, ReadInput
<1>2. CASE x = r
  BY <1>2 DEF SameCursor, OnlyOutput, KeepsVar
<1>3. CASE \E got \in Nat : x = Computed(r, b, n, got)
  <2>1. PICK got \in Nat : x = Computed(r, b, n, got)
    BY <1>3
  <2>. QED
    BY <2>1, ComputedSound
<1>. QED
  BY <1>1, <1>2, <1>3

LEMMA CountsAreNumbers ==
  ASSUME PlanFacts, NEW S \in SUBSET DOMAIN plan.edges
  PROVE  Cardinality(S) \in Nat
  BY FS_Subset, FS_CardinalityType DEF PlanFacts

LEMMA PropagatedSound ==
  ASSUME PlanFacts, NEW r, Sound(r), NEW n
  PROVE  LET x == Propagated(r, n)
         IN  Sound(x) /\ SameCursor(r, x) /\ x.outputs = r.outputs /\ x.ctx = r.ctx
<1>. DEFINE E == r.enabled \cup {e.to : e \in {e \in OutOf(n) : e.kind = "data" => ~Opposed(r, e)}}
            f == [t \in DOMAIN r.satisfied |-> r.satisfied[t] + Cardinality(Controls({n}, t))]
<1>1. Propagated(r, n) = [r EXCEPT !.enabled = E, !.satisfied = f]
  BY DEF Propagated
<1>2. E \in SUBSET Nodes
  BY DEF Sound, PlanFacts, OutOf
<1>3. ASSUME NEW t PROVE Cardinality(Controls({n}, t)) \in Nat
  <2>1. Controls({n}, t) \in SUBSET DOMAIN plan.edges
    BY DEF Controls
  <2>. QED
    BY <2>1, CountsAreNumbers
<1>4. f \in [Nodes -> Nat]
  <2>1. DOMAIN r.satisfied = Nodes /\ \A t \in Nodes : r.satisfied[t] \in Nat
    BY DEF Sound
  <2>2. \A t \in Nodes : r.satisfied[t] + Cardinality(Controls({n}, t)) \in Nat
    BY <1>3, <2>1
  <2>. QED
    BY <2>1, <2>2
<1>. HIDE DEF E, f
<1>. DEFINE x == Propagated(r, n)
<1>5. x = [r EXCEPT !.enabled = E, !.satisfied = f]
  BY <1>1
<1>. HIDE DEF x
<1>6. Sound(x) /\ SameCursor(r, x) /\ x.outputs = r.outputs /\ x.ctx = r.ctx
  BY <1>2, <1>4, <1>5 DEF Sound, WholeRunner, SameCursor
<1>. QED
  BY <1>6 DEF x

LEMMA AnsweredSound ==
  ASSUME PlanFacts, NEW r, Sound(r), NEW n \in Nodes
  PROVE  Sound(Answered(r, n)) /\ SameCursor(r, Answered(r, n))
<1>. DEFINE saw == Returned(r, n, UNION {Get(r.ctx, Node(n).branch, v) : v \in DOMAIN r.ctx.vars})
            y == Yields(Effect(r, n, saw, 0), n, saw, 0)
            z == [y EXCEPT !.result = saw]
<1>1. Answered(r, n) = Propagated(z, n)
  BY DEF Answered
<1>. HIDE DEF saw
<1>2. Sound(y) /\ SameCursor(r, y)
  BY EffectSound, YieldsSound DEF SameCursor
<1>. HIDE DEF y
<1>3. Sound(z) /\ SameCursor(y, z)
  <2>1. z = [y EXCEPT !.result = saw]
    OBVIOUS
  <2>. HIDE DEF z
  <2>. QED
    BY <1>2, <2>1 DEF Sound, WholeRunner, SameCursor
<1>. HIDE DEF z
<1>4. Sound(Propagated(z, n)) /\ SameCursor(z, Propagated(z, n))
  BY <1>3, PropagatedSound
<1>. QED
  BY <1>1, <1>2, <1>3, <1>4 DEF SameCursor

LEMMA SwitchedSound ==
  ASSUME PlanFacts, NEW r, Sound(r), NEW n \in Nodes, NEW c
  PROVE  Sound(Switched(r, n, c)) /\ SameCursor(r, Switched(r, n, c))
<1>. DEFINE out  == {i \in DOMAIN plan.edges : Edge(i).from = n}
            hit  == {i \in out : Edge(i).when = c}
            free == {i \in out : Edge(i).when \in {"always", "default"} /\ \A k \in hit : i < k}
            got  == IF c = None THEN 0 ELSE Cardinality({i \in out : \E j \in hit : i <= j})
            saw  == Sees(r, Node(n).branch, n)
            y    == Effect(Yields(r, n, saw, got), n, saw, got)
            E    == y.enabled \cup {Edge(i).to : i \in hit \cup free}
            x    == [y EXCEPT !.enabled = E]
<1>1. Switched(r, n, c) = x
  BY DEF Switched
<1>2. got \in Nat
  <2>1. {i \in out : \E j \in hit : i <= j} \in SUBSET DOMAIN plan.edges
    OBVIOUS
  <2>. QED
    BY <2>1, CountsAreNumbers
<1>3. \A i \in hit \cup free : Edge(i).to \in Nodes
  BY DEF PlanFacts, Links
<1>. HIDE DEF saw, got, hit, free
<1>4. Sound(y) /\ SameCursor(r, y)
  BY <1>2, EffectSound, YieldsSound DEF SameCursor
<1>. HIDE DEF y
<1>5. E \in SUBSET Nodes
  BY <1>3, <1>4 DEF Sound
<1>. HIDE DEF E
<1>6. x = [y EXCEPT !.enabled = E]
  OBVIOUS
<1>. HIDE DEF x
<1>7. Sound(x) /\ SameCursor(y, x)
  BY <1>4, <1>5, <1>6 DEF Sound, WholeRunner, SameCursor
<1>. QED
  BY <1>1, <1>4, <1>7 DEF SameCursor

LEMMA MergedSound ==
  ASSUME PlanFacts, NEW r, Sound(r), NEW n \in Nodes
  PROVE  Sound(Merged(r, n)) /\ SameCursor(r, Merged(r, n))
<1>. DEFINE c == MergeBranches(r.ctx)
            y == [r EXCEPT !.ctx = c]
            seen == UNION {c.vars[v] : v \in DOMAIN c.vars}
            z == Yields(y, n, seen, 0)
<1>1. Merged(r, n) = Propagated(z, n)
  BY DEF Merged
<1>2. WholeContext(c)
  BY DEF MergeBranches, WholeContext
<1>. HIDE DEF c, seen
<1>3. Sound(y) /\ SameCursor(r, y)
  BY <1>2, ContextSound
<1>. HIDE DEF y
<1>4. Sound(z) /\ SameCursor(y, z)
  BY <1>3, YieldsSound
<1>. HIDE DEF z
<1>5. Sound(Propagated(z, n)) /\ SameCursor(z, Propagated(z, n))
  BY <1>4, PropagatedSound
<1>. QED
  BY <1>1, <1>3, <1>4, <1>5 DEF SameCursor

-----------------------------------------------------------------------------
(* PARALLEL.                                                               *)

LEMMA ChildrenAreNodes == ASSUME PlanFacts, NEW n PROVE Children(n) \subseteq Nodes
  BY DEF PlanFacts, Children, OutOf

LEMMA GroupsAreNodes ==
  ASSUME PlanFacts, NEW n \in Nodes, Node(n).op = "Parallel", NEW b \in BranchesOf(n)
  PROVE  Group(n, b) \in Seq(Nodes) /\ Range(Group(n, b)) \subseteq Nodes
<1>1. Group(n, b) \in Seq(Nodes)
  BY DEF PlanFacts
<1>. QED
  BY <1>1 DEF Range

LEMMA ForkedSound ==
  ASSUME PlanFacts, NEW r, Sound(r), NEW n \in Nodes, Node(n).op = "Parallel"
  PROVE  LET x == Forked(r, n)
         IN  /\ Sound(x)
             /\ x.todo = r.todo /\ x.at = r.at /\ x.loop = r.loop /\ x.failed = r.failed
<1>. DEFINE y == Yields(r, n, Unset, 0)
            c == EnterParallel(r.ctx)
            S == UNION {Range(Group(n, b)) : b \in BranchesOf(n)}
            x == Forked(r, n)
<1>1. Sound(y) /\ SameCursor(r, y) /\ y.ctx = r.ctx
  BY YieldsSound
<1>2. WholeContext(c)
  <2>1. c = [r.ctx EXCEPT !.parent = r.ctx.vars, !.scopes = NoVars] /\ WholeContext(r.ctx)
    BY DEF EnterParallel, Sound
  <2>. QED
    BY <2>1 DEF WholeContext
<1>3. S \subseteq Nodes
  BY GroupsAreNodes
<1>4. Children(n) \subseteq Nodes
  BY ChildrenAreNodes
<1>5. x = [y EXCEPT !.ctx = c, !.enabled = @ \cup Children(n), !.skipped = @ \cup S]
  BY DEF Forked
<1>. HIDE DEF x, y, c, S
<1>6. Sound(x)
  BY <1>1, <1>2, <1>3, <1>4, <1>5 DEF Sound, WholeRunner, SameCursor
<1>7. x.todo = y.todo /\ x.at = y.at /\ x.loop = y.loop /\ x.failed = y.failed
  BY <1>1, <1>5 DEF Sound, WholeRunner
<1>. QED
  BY <1>1, <1>6, <1>7 DEF x, SameCursor

LEMMA ThreadSound ==
  ASSUME PlanFacts, NEW r, Sound(r), NEW n, NEW mine \in Seq(Nodes)
  PROVE  LET x == Thread(r, n, mine)
         IN  Sound(x) /\ x.todo = mine /\ x.at = 1 /\ x.loop = r.loop /\ x.failed = r.failed
<1>. DEFINE E == Children(n) \cap Range(mine)
            S == r.skipped \ Range(mine)
            x == Thread(r, n, mine)
<1>1. E \subseteq Nodes
  BY ChildrenAreNodes
<1>2. S \subseteq Nodes
  BY DEF Sound
<1>3. x = [r EXCEPT !.todo = mine, !.at = 1, !.count = 0, !.result = None,
                    !.enabled = E, !.skipped = S]
  BY DEF Thread
<1>. HIDE DEF x, E, S
<1>4. x.enabled = E /\ x.skipped = S /\ x.todo = mine /\ x.at = 1 /\ x.count = 0
  BY <1>3 DEF Sound, WholeRunner
<1>5. /\ x.loop = r.loop /\ x.ctx = r.ctx /\ x.outputs = r.outputs
      /\ x.satisfied = r.satisfied /\ x.failed = r.failed
  BY <1>3 DEF Sound, WholeRunner
<1>6. WholeRunner(x)
  BY <1>3 DEF Sound, WholeRunner
<1>7. Sound(x)
  BY <1>1, <1>2, <1>4, <1>5, <1>6 DEF Sound
<1>. QED
  BY <1>4, <1>5, <1>7 DEF x

\* The nodes that threads ran are finitely many.
LEMMA RunsAreFinite ==
  ASSUME NEW T \in SUBSET Nat, IsFiniteSet(T), NEW c \in [T -> Nat]
  PROVE  Cardinality(UNION {{b} \X (1..c[b]) : b \in T}) \in Nat
<1>. DEFINE one(b) == {b} \X (1..c[b])
            all == {one(b) : b \in T}
            f == [b \in T |-> one(b)]
<1>1. IsFiniteSet(all)
  <2>1. f \in Surjection(T, all)
    BY DEF Surjection
  <2>. HIDE DEF f, all
  <2>. QED
    BY <2>1, FS_Surjection
<1>2. ASSUME NEW b \in T PROVE IsFiniteSet(one(b))
  <2>1. IsFiniteSet({b})
    BY FS_Singleton
  <2>2. IsFiniteSet(1..c[b])
    BY FS_Interval
  <2>. QED
    BY <2>1, <2>2, FS_Product
<1>3. \A S \in all : IsFiniteSet(S)
  BY <1>2
<1>. HIDE DEF all
<1>4. IsFiniteSet(UNION all)
  BY <1>1, <1>3, FS_UNION
<1>5. Cardinality(UNION all) \in Nat
  BY <1>4, FS_CardinalityType
<1>. QED
  BY <1>5 DEF all

LEMMA JoinedSound ==
  ASSUME PlanFacts, NEW all, None \in DOMAIN all, IsFiniteSet(DOMAIN all),
         DOMAIN all \ {None} \subseteq Nat, \A w \in DOMAIN all : Sound(all[w])
  PROVE  Sound(Joined(all)) /\ SameCursor(all[None], Joined(all))
<1>. DEFINE main      == all[None]
            threads   == DOMAIN all \ {None}
            each      == UNION {{b} \X (1..all[b].count) : b \in threads}
            gave      == {b \in threads : all[b].result # None}
            made(n)   == {b \in threads : Produced(all[b], n)}
            raised(n) == {b \in threads : all[b].satisfied[n] > main.satisfied[n]}
            wrote     == {b \in threads : b \in DOMAIN all[b].ctx.scopes}
            C == main.count + Cardinality(each)
            T == JoinedTrace(all)
            O == [n \in UNION {DOMAIN all[w].outputs : w \in DOMAIN all} |->
                     IF Produced(main, n) THEN main.outputs[n]
                     ELSE all[Smallest(made(n))].outputs[n]]
            E == main.enabled \cup UNION {all[b].enabled : b \in threads}
            S == [n \in Nodes |-> IF raised(n) = {} THEN main.satisfied[n]
                                  ELSE all[Largest(raised(n))].satisfied[n]]
            X == [main.ctx EXCEPT !.scopes = [b \in DOMAIN main.ctx.scopes \cup wrote |->
                      IF b \in wrote THEN all[b].ctx.scopes[b] ELSE main.ctx.scopes[b]]]
            R == IF main.result # None \/ gave = {} THEN main.result ELSE all[Smallest(gave)].result
            x == Joined(all)
<1>2. Sound(main) /\ \A b \in threads : Sound(all[b])
  OBVIOUS
<1>1. x = [main EXCEPT !.count = C, !.trace = T, !.outputs = O, !.enabled = E,
                       !.satisfied = S, !.ctx = X, !.result = R]
  BY Zenon DEF Joined
<1>3. IsFiniteSet(threads) /\ threads \in SUBSET Nat
  BY FS_Subset
<1>4. C \in Nat
  <2>. DEFINE c == [b \in threads |-> all[b].count]
  <2>1. c \in [threads -> Nat] /\ main.count \in Nat
    BY <1>2 DEF Sound
  <2>2. each = UNION {{b} \X (1..c[b]) : b \in threads}
    OBVIOUS
  <2>. HIDE DEF c, each, threads
  <2>3. Cardinality(each) \in Nat
    BY <1>3, <2>1, <2>2, RunsAreFinite
  <2>. QED
    BY <2>1, <2>3
<1>5. DOMAIN O \subseteq Nodes /\ \A n \in DOMAIN O : O[n].got \in Nat
  <2>1. DOMAIN O \subseteq Nodes
    BY DEF Sound
  <2>2. ASSUME NEW n \in DOMAIN O PROVE O[n].got \in Nat
    <3>1. CASE Produced(main, n)
      BY <1>2, <3>1 DEF Sound, Produced
    <3>2. CASE ~Produced(main, n)
      <4>1. made(n) # {} /\ made(n) \in SUBSET Nat
        BY <3>2 DEF Produced
      <4>2. Smallest(made(n)) \in made(n)
        BY <4>1, SmallestIsThere
      <4>3. PICK b \in threads : b = Smallest(made(n)) /\ Produced(all[b], n)
        BY <4>2
      <4>4. O[n] = all[b].outputs[n]
        BY <3>2, <4>3
      <4>. QED
        BY <1>2, <4>3, <4>4 DEF Sound, Produced
    <3>. QED
      BY <3>1, <3>2
  <2>. QED
    BY <2>1, <2>2
<1>6. E \subseteq Nodes
  BY DEF Sound
<1>7. S \in [Nodes -> Nat]
  <2>1. ASSUME NEW n \in Nodes PROVE S[n] \in Nat
    <3>1. CASE raised(n) = {}
      BY <1>2, <3>1 DEF Sound
    <3>2. CASE raised(n) # {}
      <4>1. IsFiniteSet(raised(n)) /\ raised(n) \in SUBSET Nat
        BY <1>3, FS_Subset
      <4>2. Largest(raised(n)) \in raised(n)
        BY <3>2, <4>1, LargestIsThere
      <4>3. PICK b \in threads : b = Largest(raised(n))
        BY <4>2
      <4>. QED
        BY <1>2, <3>2, <4>3 DEF Sound
    <3>. QED
      BY <3>1, <3>2
  <2>. QED
    BY <2>1
<1>8. WholeContext(X)
  <2>. DEFINE t == [b \in DOMAIN main.ctx.scopes \cup wrote |->
                       IF b \in wrote THEN all[b].ctx.scopes[b] ELSE main.ctx.scopes[b]]
  <2>1. X = [main.ctx EXCEPT !.scopes = t] /\ WholeContext(main.ctx)
    BY <1>2 DEF Sound
  <2>. HIDE DEF t, X
  <2>. QED
    BY <2>1 DEF WholeContext
<1>. HIDE DEF x, C, T, O, E, S, X, R, threads, main
<1>9. /\ x.count = C /\ x.outputs = O /\ x.enabled = E /\ x.satisfied = S /\ x.ctx = X
      /\ SameCursor(main, x)
  BY <1>1, <1>2 DEF Sound, WholeRunner, SameCursor
<1>10. WholeRunner(x)
  BY <1>1, <1>2 DEF Sound, WholeRunner
<1>11. Sound(x)
  BY <1>2, <1>4, <1>5, <1>6, <1>7, <1>8, <1>9, <1>10 DEF Sound, SameCursor
<1>. QED
  BY <1>9, <1>11 DEF x, main

-----------------------------------------------------------------------------
(* LOOP.                                                                   *)

\* The bound of a LOOP is read from outputs of nodes outside its body.
LEMMA BoundStays ==
  ASSUME PlanFacts, NEW l \in Nodes, Node(l).op = "Loop", NEW r, NEW x,
         \A m : m \notin InBody(l) =>
             /\ m \in DOMAIN x.outputs <=> m \in DOMAIN r.outputs
             /\ m \in DOMAIN r.outputs => x.outputs[m] = r.outputs[m]
  PROVE  Bound(x, l) = Bound(r, l)
<1>. DEFINE into(y) == {i \in DOMAIN plan.edges :
                           /\ Edge(i).to = l /\ Edge(i).kind = "data" /\ Produced(y, Edge(i).from)
                           /\ Node(Edge(i).from).op \in {"Calc", "Call"}}
<1>1. \A i \in DOMAIN plan.edges : Edge(i).to = l => Edge(i).from \notin InBody(l)
  BY DEF PlanFacts, Links
<1>2. into(x) = into(r)
  BY <1>1 DEF Produced
<1>3. LoopRange(x, l) = LoopRange(r, l)
  <2>1. CASE into(r) = {}
    BY <1>2, <2>1 DEF LoopRange
  <2>2. CASE into(r) # {}
    <3>1. into(r) \in SUBSET Nat
      BY DEF PlanFacts
    <3>2. Smallest(into(r)) \in into(r)
      BY <2>2, <3>1, SmallestIsThere
    <3>3. PICK i \in into(r) : i = Smallest(into(r))
      BY <3>2
    <3>4. x.outputs[Edge(i).from] = r.outputs[Edge(i).from]
      BY <1>1 DEF Produced
    <3>5. LoopRange(r, l) = r.outputs[Edge(i).from] /\ LoopRange(x, l) = x.outputs[Edge(i).from]
      BY <1>2, <2>2, <3>3 DEF LoopRange
    <3>. QED
      BY <3>4, <3>5
  <2>. QED
    BY <2>1, <2>2
<1>. QED
  BY <1>3 DEF Bound

LEMMA BoundIsNumber ==
  ASSUME PlanFacts, NEW r, Sound(r), NEW l PROVE Bound(r, l) \in Nat
<1>. DEFINE into == {i \in DOMAIN plan.edges :
                        /\ Edge(i).to = l /\ Edge(i).kind = "data" /\ Produced(r, Edge(i).from)
                        /\ Node(Edge(i).from).op \in {"Calc", "Call"}}
<1>1. LoopRange(r, l).got \in Nat
  <2>1. CASE into = {}
    BY <2>1, BoundsAssumption DEF LoopRange, Output
  <2>2. CASE into # {}
    <3>1. into \in SUBSET Nat
      BY DEF PlanFacts
    <3>2. Smallest(into) \in into
      BY <2>2, <3>1, SmallestIsThere
    <3>3. PICK i \in into : i = Smallest(into)
      BY <3>2
    <3>4. LoopRange(r, l) = r.outputs[Edge(i).from]
      BY <2>2, <3>3 DEF LoopRange
    <3>. QED
      BY <3>4 DEF Sound, Produced
  <2>. QED
    BY <2>1, <2>2
<1>. QED
  BY <1>1 DEF Bound

-----------------------------------------------------------------------------
(* Cursors: steps of a runner.                                             *)

\* What a step of a runner leaves of it.
StepsTo(r, x) == Orderly(x) /\ x.todo = r.todo /\ x.failed = r.failed

LEMMA OutOfLoopOrderly ==
  ASSUME NEW r, Sound(r), r.loop = None, r.at \in 1..Len(r.todo) + 1
  PROVE  Orderly(r)
<1>1. InItsLoop(r)
  BY DEF InItsLoop, LoopOK
<1>2. TargetSet(r)
  BY DEF TargetSet, InTurn
<1>. QED
  BY <1>1, <1>2 DEF Orderly

LEMMA OnwardOrderly ==
  ASSUME NEW r, Sound(r), r.loop = None, r.at \in 1..Len(r.todo)
  PROVE  StepsTo(r, Onward(r))
<1>. DEFINE x == Onward(r)
<1>1. x = [r EXCEPT !.at = r.at + 1]
  BY DEF Onward
<1>. HIDE DEF x
<1>2. /\ x.at = r.at + 1 /\ x.loop = None /\ x.todo = r.todo /\ x.failed = r.failed
      /\ x.outputs = r.outputs /\ x.enabled = r.enabled /\ x.skipped = r.skipped
      /\ x.satisfied = r.satisfied /\ x.count = r.count /\ x.ctx = r.ctx
  BY <1>1 DEF Sound, WholeRunner
<1>3. WholeRunner(x)
  BY <1>1 DEF Sound, WholeRunner
<1>4. Sound(x)
  BY <1>2, <1>3 DEF Sound
<1>5. x.at \in 1..Len(x.todo) + 1
  BY <1>2 DEF Sound
<1>6. Orderly(x)
  BY <1>2, <1>4, <1>5, OutOfLoopOrderly
<1>. QED
  BY <1>2, <1>6 DEF x, StepsTo

\* A node of the body changes no output but its own, and not the bound.
LEMMA BodyOrderly ==
  ASSUME PlanFacts, NEW r, Orderly(r), r.loop # None, NEW x, Sound(x), SameCursor(r, x),
         NEW n \in InBody(r.loop.node), OnlyOutput(r, x, n),
         \A u : u \notin Node(n).leaks \cup {Node(n).out} =>
                    KeepsVar(r, x, Node(r.loop.node).branch, u)
  PROVE  StepsTo(r, x)
<1>1. r.loop.node \in Nodes /\ Node(r.loop.node).op = "Loop"
  BY DEF Orderly, InItsLoop, LoopOK
<1>2. \A m : m \notin InBody(r.loop.node) =>
          /\ m \in DOMAIN x.outputs <=> m \in DOMAIN r.outputs
          /\ m \in DOMAIN r.outputs => x.outputs[m] = r.outputs[m]
  BY DEF OnlyOutput
<1>3. Bound(x, r.loop.node) = Bound(r, r.loop.node)
  BY <1>1, <1>2, BoundStays
<1>4. InItsLoop(x)
  BY <1>3 DEF Orderly, InItsLoop, LoopOK, SameCursor, Here, TurnEnded
<1>5. ASSUME BodiesKeepTheirVariable PROVE TargetSet(x)
  <2>. DEFINE l == r.loop.node
              y == {<<Node(l).site, r.loop.iteration>>}
  <2>1. KeepsVar(r, x, Node(l).branch, Node(l).out)
    BY <1>1, <1>5 DEF PlanFacts
  <2>2. InTurn(r) => Has(r.ctx, Node(l).branch, Node(l).out, y)
    BY <1>5 DEF Orderly, TargetSet
  <2>3. x.loop = r.loop
    BY DEF SameCursor
  <2>. HIDE DEF y
  <2>4. InTurn(r) => Has(x.ctx, Node(l).branch, Node(l).out, y)
    BY <2>1, <2>2 DEF KeepsVar
  <2>. QED
    BY <2>3, <2>4 DEF TargetSet, InTurn, y
<1>. QED
  BY <1>4, <1>5 DEF StepsTo, Orderly, SameCursor

\* The cursor in a loop moves.
LEMMA MovedOrderly ==
  ASSUME PlanFacts, NEW r, Sound(r), InItsLoop(r), r.loop # None, r.at \in 1..Len(r.todo) + 1,
         NEW i \in -1..r.loop.max, NEW k \in 1..Len(Body(r.loop.node)) + 1,
         k <= Len(Body(r.loop.node)) => i \in 0..r.loop.max - 1,
         \/ i = r.loop.iteration /\ (BodiesKeepTheirVariable => TargetSet(r))
         \/ i = r.loop.max
         \/ Has(r.ctx, Node(r.loop.node).branch, Node(r.loop.node).out,
                {<<Node(r.loop.node).site, i>>}),
         NEW x, x = [r EXCEPT !.loop = [r.loop EXCEPT !.iteration = i, !.at = k]]
  PROVE  StepsTo(r, x)
<1>. DEFINE j == [r.loop EXCEPT !.iteration = i, !.at = k]
<1>1. r.loop \in [node : Nodes, iteration : Int, at : Nat, max : Nat]
  BY DEF InItsLoop
<1>2. Body(r.loop.node) \in Seq(Nodes)
  BY <1>1 DEF PlanFacts, InItsLoop, LoopOK
<1>3. /\ j.node = r.loop.node /\ j.max = r.loop.max /\ j.iteration = i /\ j.at = k
      /\ j \in [node : Nodes, iteration : Int, at : Nat, max : Nat]
  <2>1. i \in Int /\ k \in Nat
    BY <1>1, <1>2
  <2>. QED
    BY <1>1, <2>1
<1>. HIDE DEF j
<1>4. x = [r EXCEPT !.loop = j]
  BY DEF j
<1>5. /\ x.at = r.at /\ x.loop = j /\ x.todo = r.todo /\ x.failed = r.failed
      /\ x.outputs = r.outputs /\ x.enabled = r.enabled /\ x.skipped = r.skipped
      /\ x.satisfied = r.satisfied /\ x.count = r.count /\ x.ctx = r.ctx
  BY <1>4 DEF Sound, WholeRunner
<1>6. WholeRunner(x)
  BY <1>4 DEF Sound, WholeRunner
<1>7. Sound(x)
  BY <1>5, <1>6 DEF Sound
<1>8. Bound(x, r.loop.node) = Bound(r, r.loop.node)
  BY <1>5 DEF Bound, LoopRange, Produced
<1>9. LoopOK(x)
  <2>1. /\ r.loop.node = Here(r) /\ Node(r.loop.node).op = "Loop" /\ r.loop.max \in Nat
    BY DEF InItsLoop, LoopOK
  <2>2. Here(x) = Here(r)
    BY <1>5 DEF Here
  <2>. QED
    BY <1>3, <1>5, <2>1, <2>2 DEF LoopOK, TurnEnded
<1>10. InItsLoop(x)
  BY <1>1, <1>3, <1>5, <1>8, <1>9 DEF InItsLoop
<1>11. ASSUME BodiesKeepTheirVariable PROVE TargetSet(x)
  <2>1. r.loop.max \in Nat
    BY <1>1
  <2>2. InTurn(x) => i \in 0..r.loop.max - 1
    BY <1>3, <1>5 DEF InTurn
  <2>3. CASE i = r.loop.iteration /\ TargetSet(r)
    BY <1>3, <1>5, <2>3 DEF TargetSet, InTurn
  <2>4. CASE i = r.loop.max
    <3>1. ~InTurn(x)
      BY <2>1, <2>2, <2>4
    <3>. QED
      BY <3>1 DEF TargetSet
  <2>5. CASE Has(r.ctx, Node(r.loop.node).branch, Node(r.loop.node).out,
                 {<<Node(r.loop.node).site, i>>})
    BY <1>3, <1>5, <2>5 DEF TargetSet
  <2>. QED
    BY <1>11, <2>3, <2>4, <2>5
<1>. QED
  BY <1>5, <1>7, <1>10, <1>11 DEF StepsTo, Orderly

LEMMA EnteredOrderly ==
  ASSUME PlanFacts, NEW r, Sound(r), r.at \in 1..Len(r.todo),
         NEW l, l = Here(r), Node(l).op = "Loop"
  PROVE  StepsTo(r, Looping(r, l, -1, Len(Body(l)) + 1))
<1>. DEFINE x == Looping(r, l, -1, Len(Body(l)) + 1)
            j == [node |-> l, iteration |-> -1, at |-> Len(Body(l)) + 1, max |-> Bound(r, l)]
            S == r.skipped \cup InBody(l)
<1>1. l \in Nodes
  BY DEF Sound, Here
<1>2. Body(l) \in Seq(Nodes) /\ InBody(l) \subseteq Nodes
  <2>1. Body(l) \in Seq(Nodes)
    BY <1>1 DEF PlanFacts
  <2>. QED
    BY <2>1 DEF InBody, Range
<1>3. Bound(r, l) \in Nat
  BY BoundIsNumber
<1>4. /\ j \in [node : Nodes, iteration : Int, at : Nat, max : Nat]
      /\ j.node = l /\ j.iteration = -1 /\ j.at = Len(Body(l)) + 1 /\ j.max = Bound(r, l)
  BY <1>1, <1>2, <1>3
<1>5. S \subseteq Nodes /\ InBody(l) \subseteq S
  BY <1>2 DEF Sound
<1>6. x = [r EXCEPT !.skipped = S, !.loop = j]
  BY DEF Looping
<1>. HIDE DEF x, j, S
<1>7. /\ x.at = r.at /\ x.loop = j /\ x.todo = r.todo /\ x.failed = r.failed
      /\ x.outputs = r.outputs /\ x.enabled = r.enabled /\ x.skipped = S
      /\ x.satisfied = r.satisfied /\ x.count = r.count /\ x.ctx = r.ctx
  BY <1>6 DEF Sound, WholeRunner
<1>8. WholeRunner(x)
  BY <1>6 DEF Sound, WholeRunner
<1>9. Sound(x)
  BY <1>5, <1>7, <1>8 DEF Sound
<1>10. Bound(x, l) = Bound(r, l)
  BY <1>7 DEF Bound, LoopRange, Produced
<1>11. LoopOK(x)
  <2>1. Here(x) = l
    BY <1>7 DEF Here
  <2>. QED
    BY <1>2, <1>3, <1>4, <1>7, <2>1 DEF LoopOK, TurnEnded
<1>12. InItsLoop(x)
  BY <1>4, <1>5, <1>7, <1>10, <1>11 DEF InItsLoop
<1>13. TargetSet(x)
  BY <1>4, <1>7 DEF TargetSet, InTurn
<1>. QED
  BY <1>7, <1>9, <1>12, <1>13 DEF x, StepsTo, Orderly

\* After the loop the cursor is past it.
LEMMA FinishedOrderly ==
  ASSUME PlanFacts, NEW r, Orderly(r), r.loop # None,
         NEW got \in [Unread(r) -> 0..MaxBound]
  PROVE  StepsTo(r, Onward(Finished(r, got)))
<1>. DEFINE l == r.loop.node
            x == Finished(r, got)
            O == [n \in DOMAIN r.outputs \cup Unread(r) \cup {l} |->
                     IF n = l THEN Output(Unset, 0)
                     ELSE IF n \in Unread(r)
                          THEN Output(ValueOf(r, Node(l).branch, n), got[n])
                          ELSE r.outputs[n]]
            fed   == {n \in Nodes \ r.skipped :
                         /\ DataInto(n) # {}
                         /\ \A e \in DataInto(n) : e.from \in InBody(l)}
            after == {e \in OutOf(l) : e.to \notin InBody(l)}
            E == r.enabled \cup fed \cup {e.to : e \in after}
            p == Propagated(r, l)
            S == p.satisfied
<1>1. /\ l \in Nodes /\ Node(l).op = "Loop" /\ r.at \in 1..Len(r.todo)
      /\ Sound(r)
  BY DEF Orderly, InItsLoop, LoopOK, Sound
<1>2. InBody(l) \subseteq Nodes
  <2>1. Body(l) \in Seq(Nodes)
    BY <1>1 DEF PlanFacts
  <2>. QED
    BY <2>1 DEF InBody, Range
<1>3. DOMAIN O \subseteq Nodes
  BY <1>1, <1>2 DEF Sound, Unread
<1>4. \A n \in DOMAIN O : O[n].got \in Nat
  <2>1. \A n \in Unread(r) : got[n] \in Nat
    BY BoundsAssumption
  <2>. QED
    BY <1>1, <2>1 DEF Sound, Output
<1>5. E \subseteq Nodes
  BY <1>1 DEF Sound, PlanFacts, OutOf
<1>6. S \in [Nodes -> Nat]
  <2>1. Sound(p)
    BY <1>1, PropagatedSound
  <2>. HIDE DEF p
  <2>. QED
    BY <2>1 DEF Sound
<1>7. x = [r EXCEPT !.loop = None, !.outputs = O, !.enabled = E, !.satisfied = S]
  <2>1. x = [r EXCEPT !.loop = None, !.outputs = O,
                      !.enabled = @ \cup fed \cup {e.to : e \in after}, !.satisfied = S]
    BY Zenon DEF Finished
  <2>. HIDE DEF x, O, fed, after, S
  <2>. QED
    BY <1>1, <2>1 DEF Sound, WholeRunner
<1>. HIDE DEF x, O, E, S
<1>8. /\ x.at = r.at /\ x.loop = None /\ x.todo = r.todo /\ x.failed = r.failed
      /\ x.outputs = O /\ x.enabled = E /\ x.skipped = r.skipped
      /\ x.satisfied = S /\ x.count = r.count /\ x.ctx = r.ctx
  BY <1>1, <1>7 DEF Sound, WholeRunner
<1>9. WholeRunner(x)
  BY <1>1, <1>7 DEF Sound, WholeRunner
<1>10. Sound(x)
  BY <1>1, <1>3, <1>4, <1>5, <1>6, <1>8, <1>9 DEF Sound
<1>11. StepsTo(x, Onward(x))
  BY <1>1, <1>8, <1>10, OnwardOrderly
<1>. QED
  BY <1>8, <1>11 DEF StepsTo, x

LEMMA FinishedLoop ==
  ASSUME PlanFacts, NEW r, Orderly(r), NEW got
  PROVE  Onward(Finished(r, got)).loop = None
<1>. DEFINE x == Finished(r, got)
<1>1. x.loop = None /\ DOMAIN x = DOMAIN r
  BY DEF Finished, Orderly, Sound, WholeRunner
<1>. HIDE DEF x
<1>2. Onward(x).loop = x.loop
  BY <1>1 DEF Onward, Orderly, Sound, WholeRunner
<1>. QED
  BY <1>1, <1>2 DEF x

LEMMA FailedOrderly ==
  ASSUME PlanFacts, NEW r, Orderly(r), NEW k \in Nat,
         NEW x, x = [r EXCEPT !.count = k, !.failed = TRUE]
  PROVE  Orderly(x) /\ x.todo = r.todo
<1>1. /\ x.at = r.at /\ x.loop = r.loop /\ x.todo = r.todo /\ x.failed = TRUE
      /\ x.outputs = r.outputs /\ x.enabled = r.enabled /\ x.skipped = r.skipped
      /\ x.satisfied = r.satisfied /\ x.count = k /\ x.ctx = r.ctx
  BY DEF Orderly, Sound, WholeRunner
<1>2. WholeRunner(x)
  BY DEF Orderly, Sound, WholeRunner
<1>3. Sound(x)
  BY <1>1, <1>2 DEF Orderly, Sound
<1>4. x.loop # None => Bound(x, r.loop.node) = Bound(r, r.loop.node)
  BY <1>1 DEF Bound, LoopRange, Produced
<1>5. InItsLoop(x)
  BY <1>1, <1>4 DEF Orderly, InItsLoop, LoopOK, Here, TurnEnded
<1>6. TargetSet(r) => TargetSet(x)
  BY <1>1 DEF TargetSet, InTurn
<1>. QED
  BY <1>1, <1>3, <1>5, <1>6 DEF Orderly

LEMMA TurnedOrderly ==
  ASSUME PlanFacts, NEW r, Orderly(r), r.loop # None, r.loop.iteration + 1 < r.loop.max
  PROVE  StepsTo(r, Turned(r))
<1>. DEFINE l == r.loop.node
            i == r.loop.iteration + 1
            c == Set(r.ctx, Node(l).branch, {Node(l).out}, {<<Node(l).site, i>>})
            y == [r EXCEPT !.ctx = c]
            x == [y EXCEPT !.loop = [y.loop EXCEPT !.iteration = i, !.at = 1]]
<1>1. WholeContext(c)
  BY SetWhole DEF Orderly, Sound
<1>. HIDE DEF c
<1>2. Sound(y) /\ SameCursor(r, y) /\ y.outputs = r.outputs /\ y.ctx = c
  BY <1>1, ContextSound DEF Orderly
<1>3. Turned(r) = x
  BY Zenon DEF Turned, SetTarget, c
<1>. HIDE DEF y
<1>4. y.loop = r.loop /\ y.at = r.at /\ y.todo = r.todo /\ y.skipped = r.skipped
  BY <1>2 DEF SameCursor
<1>5. InItsLoop(y)
  <2>1. y.loop # None => Bound(y, r.loop.node) = Bound(r, r.loop.node)
    BY <1>2 DEF Bound, LoopRange, Produced
  <2>. QED
    BY <1>4, <2>1 DEF Orderly, InItsLoop, LoopOK, Here, TurnEnded
<1>6. i \in -1..y.loop.max /\ i \in 0..y.loop.max - 1 /\ 1 \in 1..Len(Body(y.loop.node)) + 1
  <2>1. /\ r.loop.iteration \in -1..r.loop.max /\ r.loop.max \in Nat
        /\ r.loop.node \in Nodes /\ Node(r.loop.node).op = "Loop"
    BY DEF Orderly, InItsLoop, LoopOK
  <2>2. Body(r.loop.node) \in Seq(Nodes)
    BY <2>1 DEF PlanFacts
  <2>. QED
    BY <1>4, <2>1, <2>2
<1>7. Has(y.ctx, Node(y.loop.node).branch, Node(y.loop.node).out, {<<Node(y.loop.node).site, i>>})
  <2>. DEFINE v == {<<Node(l).site, i>>}
  <2>1. WholeContext(r.ctx) /\ y.ctx = c
    BY <1>2 DEF Orderly, Sound
  <2>2. c = Set(r.ctx, Node(l).branch, {Node(l).out}, v)
    BY DEF c
  <2>. HIDE DEF v
  <2>3. Has(c, Node(l).branch, Node(l).out, v)
    BY <2>1, <2>2, SetIsThere
  <2>. QED
    BY <1>4, <2>1, <2>3 DEF v
<1>8. y.at \in 1..Len(y.todo) + 1 /\ y.loop # None
  BY <1>4 DEF Orderly
<1>. HIDE DEF i, x
<1>9. StepsTo(y, x)
  BY <1>2, <1>4, <1>5, <1>6, <1>7, <1>8, MovedOrderly DEF x
<1>. QED
  BY <1>2, <1>3, <1>9 DEF StepsTo, SameCursor

-----------------------------------------------------------------------------
(* Steps of the run: each but PARALLEL, Join and a failure moves one runner. *)

Moves(w) == Works(w) /\ \E x : StepsTo(runs[w], x) /\ Becomes(w, x)

LEMMA NodeIsThere ==
  ASSUME RunInv, NEW w \in DOMAIN runs, AtNode(w)
  PROVE  /\ PlanFacts /\ Orderly(runs[w]) /\ Sound(runs[w]) /\ Works(w)
         /\ runs[w].loop = None /\ runs[w].at \in 1..Len(runs[w].todo)
         /\ Here(runs[w]) \in Nodes
<1>1. PlanFacts /\ Orderly(runs[w]) /\ Sound(runs[w])
  BY PlanIsSound DEF RunInv, Orderly
<1>2. runs[w].loop = None /\ runs[w].at \in 1..Len(runs[w].todo)
  <2>1. runs[w].at \in 1..Len(runs[w].todo) + 1 /\ runs[w].todo \in Seq(Nodes)
    BY <1>1 DEF Orderly, Sound
  <2>. QED
    BY <2>1 DEF AtNode
<1>3. Here(runs[w]) \in Nodes
  BY <1>1, <1>2 DEF Sound, Here
<1>. QED
  BY <1>1, <1>2, <1>3 DEF AtNode

LEMMA NodeMoves ==
  ASSUME RunInv, NEW w \in DOMAIN runs, AtNode(w),
         NEW x, Sound(x), x.todo = runs[w].todo, x.at = runs[w].at,
         x.loop = runs[w].loop, x.failed = runs[w].failed, Becomes(w, Onward(x))
  PROVE  Moves(w)
<1>1. /\ Works(w) /\ x.loop = None /\ x.at \in 1..Len(x.todo)
  BY NodeIsThere
<1>2. StepsTo(x, Onward(x))
  BY <1>1, OnwardOrderly
<1>3. StepsTo(runs[w], Onward(x))
  BY <1>2 DEF StepsTo
<1>. QED
  BY <1>1, <1>3 DEF Moves

LEMMA PassMoves == ASSUME RunInv, NEW w \in DOMAIN runs, Pass(w) PROVE Moves(w)
  BY NodeIsThere, NodeMoves DEF Pass

LEMMA SpentHere ==
  ASSUME RunInv, NEW w \in DOMAIN runs, AtNode(w)
  PROVE  LET y == Spent(runs[w])
         IN  /\ PlanFacts /\ Sound(y) /\ SameCursor(runs[w], y) /\ y.loop = None
             /\ y.at \in 1..Len(y.todo) /\ Here(y) = Here(runs[w]) /\ Here(y) \in Nodes
<1>. DEFINE y == Spent(runs[w])
<1>1. Sound(y) /\ SameCursor(runs[w], y)
  BY NodeIsThere, SpentSound
<1>. HIDE DEF y
<1>2. y.at = runs[w].at /\ y.todo = runs[w].todo /\ y.loop = runs[w].loop
  BY <1>1 DEF SameCursor
<1>3. Here(y) = Here(runs[w])
  BY <1>2 DEF Here
<1>. QED
  BY <1>1, <1>2, <1>3, NodeIsThere DEF y

LEMMA ExecuteMoves == ASSUME RunInv, NEW w \in DOMAIN runs, Execute(w) PROVE Moves(w)
<1>. DEFINE y == Spent(runs[w])
            n == Here(runs[w])
            b == Node(n).branch
<1>1. AtNode(w)
  BY DEF Execute, Starts
<1>2. PlanFacts /\ Sound(y) /\ SameCursor(runs[w], y) /\ n \in Nodes
  BY <1>1, SpentHere, NodeIsThere
<1>3. PICK x \in Ran(y, b, n) : Becomes(w, Onward(Propagated(x, n)))
  BY DEF Execute
<1>. HIDE DEF y, n, b
<1>4. Sound(x) /\ SameCursor(y, x)
  BY <1>2, <1>3, RanSound
<1>5. Sound(Propagated(x, n)) /\ SameCursor(x, Propagated(x, n))
  BY <1>2, <1>4, PropagatedSound
<1>. DEFINE z == Propagated(x, n)
<1>. HIDE DEF z
<1>6. /\ Sound(z) /\ z.todo = runs[w].todo /\ z.at = runs[w].at
      /\ z.loop = runs[w].loop /\ z.failed = runs[w].failed
  BY <1>2, <1>4, <1>5 DEF z, SameCursor
<1>7. Becomes(w, Onward(z))
  BY <1>3 DEF z
<1>. QED
  BY <1>1, <1>6, <1>7, NodeMoves

LEMMA ActMoves == ASSUME RunInv, NEW w \in DOMAIN runs, Act(w) PROVE Moves(w)
<1>. DEFINE y == Spent(runs[w])
            n == Here(runs[w])
            z == Answered(y, n)
<1>1. AtNode(w)
  BY DEF Act, Starts
<1>2. PlanFacts /\ Sound(y) /\ SameCursor(runs[w], y) /\ n \in Nodes
  BY <1>1, SpentHere, NodeIsThere
<1>3. Becomes(w, Onward(z))
  BY DEF Act
<1>. HIDE DEF y, n
<1>4. Sound(z) /\ SameCursor(y, z)
  BY <1>2, AnsweredSound
<1>. HIDE DEF z
<1>. QED
  BY <1>1, <1>2, <1>3, <1>4, NodeMoves DEF SameCursor

LEMMA SwitchMoves == ASSUME RunInv, NEW w \in DOMAIN runs, Switch(w) PROVE Moves(w)
<1>. DEFINE y == Spent(runs[w])
            n == Here(runs[w])
<1>1. AtNode(w)
  BY DEF Switch, Starts
<1>2. PlanFacts /\ Sound(y) /\ SameCursor(runs[w], y) /\ n \in Nodes
  BY <1>1, SpentHere, NodeIsThere
<1>3. PICK c : Becomes(w, Onward(Switched(y, n, c)))
  BY DEF Switch
<1>. DEFINE z == Switched(y, n, c)
<1>. HIDE DEF y, n
<1>4. Sound(z) /\ SameCursor(y, z)
  BY <1>2, SwitchedSound
<1>5. Becomes(w, Onward(z))
  BY <1>3
<1>. HIDE DEF z
<1>. QED
  BY <1>1, <1>2, <1>4, <1>5, NodeMoves DEF SameCursor

LEMMA MergeMoves == ASSUME RunInv, NEW w \in DOMAIN runs, Merge(w) PROVE Moves(w)
<1>. DEFINE y == Spent(runs[w])
            n == Here(runs[w])
            z == Merged(y, n)
<1>1. AtNode(w)
  BY DEF Merge, Starts
<1>2. PlanFacts /\ Sound(y) /\ SameCursor(runs[w], y) /\ n \in Nodes
  BY <1>1, SpentHere, NodeIsThere
<1>3. Becomes(w, Onward(z))
  BY DEF Merge
<1>. HIDE DEF y, n
<1>4. Sound(z) /\ SameCursor(y, z)
  BY <1>2, MergedSound
<1>. HIDE DEF z
<1>. QED
  BY <1>1, <1>2, <1>3, <1>4, NodeMoves DEF SameCursor

LEMMA EnterMoves == ASSUME RunInv, NEW w \in DOMAIN runs, Enter(w) PROVE Moves(w)
<1>. DEFINE r == runs[w]
            l == Here(r)
            range == LoopRange(r, l)
            y == Spent(r)
            z == Effect(y, l, range.saw, range.got)
            x == Looping(z, l, -1, Len(Body(l)) + 1)
<1>1. AtNode(w) /\ Node(l).op = "Loop" /\ Works(w) /\ Becomes(w, x)
  BY DEF Enter, Starts, AtNode
<1>2. /\ PlanFacts /\ Sound(y) /\ SameCursor(r, y) /\ y.at \in 1..Len(y.todo) /\ l = Here(y)
  BY <1>1, SpentHere
<1>. HIDE DEF range, y, l
<1>3. Sound(z) /\ SameCursor(y, z)
  BY <1>2, EffectSound
<1>. HIDE DEF z
<1>4. z.at \in 1..Len(z.todo) /\ l = Here(z)
  BY <1>2, <1>3 DEF SameCursor, Here
<1>5. StepsTo(z, x)
  BY <1>1, <1>2, <1>3, <1>4, EnteredOrderly
<1>. HIDE DEF x
<1>6. StepsTo(r, x)
  BY <1>2, <1>3, <1>5 DEF StepsTo, SameCursor
<1>. QED
  BY <1>1, <1>6 DEF Moves

LEMMA LoopIsThere ==
  ASSUME RunInv, NEW w \in DOMAIN runs, InLoop(w)
  PROVE  LET r == runs[w]
         IN  /\ PlanFacts /\ Orderly(r) /\ Sound(r) /\ Works(w) /\ r.loop # None
             /\ r.loop.node \in Nodes /\ Node(r.loop.node).op = "Loop"
             /\ Body(r.loop.node) \in Seq(Nodes) /\ r.loop.max \in Nat
             /\ r.loop.iteration \in -1..r.loop.max
             /\ r.loop.at \in 1..Len(Body(r.loop.node)) + 1
             /\ ~TurnEnded(r) => r.loop.iteration \in 0..r.loop.max - 1
             /\ r.loop \in [node : Nodes, iteration : Int, at : Nat, max : Nat]
             /\ InBody(r.loop.node) \subseteq r.skipped
<1>1. PlanFacts /\ Orderly(runs[w])
  BY PlanIsSound DEF RunInv
<1>. QED
  BY <1>1 DEF InLoop, Orderly, InItsLoop, LoopOK, PlanFacts

\* A node of the body is about to run.
LEMMA BodyIsThere ==
  ASSUME RunInv, NEW w \in DOMAIN runs, AtBody(w)
  PROVE  LET r == runs[w]
         IN  /\ BodyNode(r) \in InBody(r.loop.node) /\ BodyNode(r) \in Nodes
             /\ r.loop.iteration \in 0..r.loop.max - 1
             /\ r.loop.at \in 1..Len(Body(r.loop.node))
<1>. DEFINE r == runs[w]
<1>1. InLoop(w) /\ r.loop.at <= Len(Body(r.loop.node))
  <2>1. InLoop(w) /\ ~ (r.loop.at > Len(Body(r.loop.node)))
    BY DEF AtBody, TurnEnded
  <2>. QED
    BY <2>1, LoopIsThere
<1>2. r.loop.at \in 1..Len(Body(r.loop.node)) /\ Body(r.loop.node) \in Seq(Nodes)
  BY <1>1, LoopIsThere
<1>3. r.loop.iteration \in 0..r.loop.max - 1
  BY <1>1, LoopIsThere DEF AtBody
<1>. QED
  BY <1>2, <1>3 DEF BodyNode, InBody, Range

\* The runner after a node of the body did its part.
LEMMA BodyMoves ==
  ASSUME RunInv, NEW w \in DOMAIN runs, InLoop(w),
         NEW z, StepsTo(runs[w], z), z.loop = runs[w].loop,
         NEW i \in -1..z.loop.max, NEW k \in 1..Len(Body(z.loop.node)) + 1,
         k <= Len(Body(z.loop.node)) => i \in 0..z.loop.max - 1,
         i = z.loop.iteration \/ i = z.loop.max,
         NEW x, x = [z EXCEPT !.loop = [z.loop EXCEPT !.iteration = i, !.at = k]],
         Becomes(w, x)
  PROVE  Moves(w)
<1>1. PlanFacts /\ Orderly(z) /\ z.loop # None /\ Works(w)
  BY LoopIsThere DEF StepsTo
<1>2. /\ Sound(z) /\ InItsLoop(z) /\ z.at \in 1..Len(z.todo) + 1
      /\ BodiesKeepTheirVariable => TargetSet(z)
  BY <1>1 DEF Orderly
<1>3. StepsTo(z, x)
  BY <1>1, <1>2, MovedOrderly
<1>. QED
  BY <1>1, <1>3 DEF Moves, StepsTo

LEMMA TurnMoves == ASSUME RunInv, NEW w \in DOMAIN runs, Turn(w) PROVE Moves(w)
<1>1. PlanFacts /\ Orderly(runs[w]) /\ runs[w].loop # None /\ Works(w)
  BY LoopIsThere DEF Turn
<1>2. runs[w].loop.iteration + 1 < runs[w].loop.max /\ Becomes(w, Turned(runs[w]))
  BY DEF Turn
<1>3. StepsTo(runs[w], Turned(runs[w]))
  BY <1>1, <1>2, TurnedOrderly
<1>. QED
  BY <1>1, <1>2, <1>3 DEF Moves

\* The three ways a cursor moves in a loop.
LEMMA CursorMoves ==
  ASSUME NEW z, z.loop \in [node : Nodes, iteration : Int, at : Nat, max : Nat], WholeRunner(z)
  PROVE  LET e == Len(Body(z.loop.node)) + 1
             to(i, k) == [z EXCEPT !.loop = [z.loop EXCEPT !.iteration = i, !.at = k]]
         IN  /\ NextInBody(z) = to(z.loop.iteration, z.loop.at + 1)
             /\ EndTurn(z) = to(z.loop.iteration, e)
             /\ EndLoop(z) = to(z.loop.max, e)
<1>. DEFINE e == Len(Body(z.loop.node)) + 1
            to(i, k) == [z EXCEPT !.loop = [z.loop EXCEPT !.iteration = i, !.at = k]]
<1>. HIDE DEF e
<1>1. NextInBody(z) = to(z.loop.iteration, z.loop.at + 1)
  BY DEF NextInBody, WholeRunner
<1>2. EndTurn(z) = to(z.loop.iteration, e)
  BY DEF EndTurn, WholeRunner, e
<1>3. EndLoop(z) = to(z.loop.max, e)
  <2>1. EndLoop(z) = [to(z.loop.iteration, e) EXCEPT !.loop.iteration = z.loop.max]
    BY <1>2, Zenon DEF EndLoop
  <2>2. to(z.loop.iteration, e).loop = [z.loop EXCEPT !.iteration = z.loop.iteration, !.at = e]
    BY DEF WholeRunner
  <2>. QED
    BY <2>1, <2>2 DEF WholeRunner
<1>. QED
  BY <1>1, <1>2, <1>3 DEF e

LEMMA PassInBodyMoves == ASSUME RunInv, NEW w \in DOMAIN runs, PassInBody(w) PROVE Moves(w)
<1>. DEFINE z == runs[w]
            x == NextInBody(z)
            i == z.loop.iteration
            k == z.loop.at + 1
<1>1. InLoop(w) /\ AtBody(w) /\ Becomes(w, x)
  BY DEF PassInBody, AtBody
<1>2. StepsTo(z, z)
  BY <1>1, LoopIsThere DEF StepsTo
<1>3. z.loop \in [node : Nodes, iteration : Int, at : Nat, max : Nat] /\ WholeRunner(z)
  BY <1>1, LoopIsThere DEF Sound
<1>4. /\ i \in -1..z.loop.max /\ k \in 1..Len(Body(z.loop.node)) + 1
      /\ i \in 0..z.loop.max - 1 /\ i = z.loop.iteration
  BY <1>1, <1>3, LoopIsThere, BodyIsThere
<1>5. x = [z EXCEPT !.loop = [z.loop EXCEPT !.iteration = i, !.at = k]]
  BY <1>3, CursorMoves
<1>. HIDE DEF x, i, k
<1>. QED
  BY <1>1, <1>2, <1>4, <1>5, BodyMoves

LEMMA SpentInBody ==
  ASSUME RunInv, NEW w \in DOMAIN runs, AtBody(w)
  PROVE  LET r == runs[w]
             y == Spent(r)
         IN  /\ InLoop(w) /\ StepsTo(r, y) /\ SameCursor(r, y) /\ y.outputs = r.outputs
             /\ y.ctx = r.ctx /\ y.loop # None /\ BodyNode(y) = BodyNode(r)
<1>. DEFINE r == runs[w]
            y == Spent(r)
            n == BodyNode(r)
<1>1. /\ InLoop(w) /\ PlanFacts /\ Orderly(r) /\ Sound(r) /\ r.loop # None
      /\ n \in InBody(r.loop.node)
  BY LoopIsThere, BodyIsThere DEF AtBody
<1>2. Sound(y) /\ SameCursor(r, y) /\ y.outputs = r.outputs /\ y.ctx = r.ctx
  BY <1>1, SpentSound
<1>. HIDE DEF y, n
<1>3. OnlyOutput(r, y, n) /\ \A u : KeepsVar(r, y, Node(r.loop.node).branch, u)
  BY <1>2 DEF OnlyOutput, KeepsVar
<1>4. StepsTo(r, y)
  BY <1>1, <1>2, <1>3, BodyOrderly
<1>5. BodyNode(y) = BodyNode(r) /\ y.loop # None
  BY <1>1, <1>2 DEF BodyNode, SameCursor
<1>. QED
  BY <1>1, <1>2, <1>4, <1>5 DEF y

\* A node of the body that yields at most its own output.
LEMMA BodyNodeMoves ==
  ASSUME RunInv, NEW w \in DOMAIN runs, AtBody(w),
         NEW z, Sound(z), SameCursor(Spent(runs[w]), z),
         OnlyOutput(Spent(runs[w]), z, BodyNode(runs[w])),
         \A u : u \notin Node(BodyNode(runs[w])).leaks \cup {Node(BodyNode(runs[w])).out} =>
                    KeepsVar(Spent(runs[w]), z, Node(runs[w].loop.node).branch, u),
         Becomes(w, NextInBody(z)) \/ Becomes(w, EndTurn(z)) \/ Becomes(w, EndLoop(z))
  PROVE  Moves(w)
<1>. DEFINE r == runs[w]
            y == Spent(r)
            n == BodyNode(r)
            e == Len(Body(z.loop.node)) + 1
<1>1. /\ InLoop(w) /\ StepsTo(r, y) /\ SameCursor(r, y) /\ y.loop # None
      /\ PlanFacts /\ n \in InBody(r.loop.node)
  BY SpentInBody, LoopIsThere, BodyIsThere DEF AtBody
<1>. HIDE DEF y, n
<1>2. StepsTo(y, z) /\ SameCursor(r, z)
  <2>1. /\ Orderly(y) /\ n \in InBody(y.loop.node) /\ SameCursor(y, z) /\ OnlyOutput(y, z, n)
        /\ \A u : u \notin Node(n).leaks \cup {Node(n).out} =>
                      KeepsVar(y, z, Node(y.loop.node).branch, u)
    BY <1>1 DEF StepsTo, SameCursor, y, n
  <2>2. StepsTo(y, z)
    BY <1>1, <2>1, BodyOrderly
  <2>. QED
    BY <1>1, <2>1, <2>2 DEF SameCursor
<1>3. StepsTo(r, z) /\ z.loop = r.loop
  BY <1>1, <1>2 DEF StepsTo, SameCursor
<1>4. /\ z.loop \in [node : Nodes, iteration : Int, at : Nat, max : Nat] /\ WholeRunner(z)
      /\ Body(z.loop.node) \in Seq(Nodes)
  BY <1>1, <1>3, LoopIsThere DEF Sound
<1>5. /\ z.loop.iteration \in -1..z.loop.max /\ z.loop.iteration \in 0..z.loop.max - 1
      /\ z.loop.at + 1 \in 1..e
  <2>1. /\ r.loop.iteration \in 0..r.loop.max - 1 /\ r.loop.at \in 1..Len(Body(r.loop.node))
    BY BodyIsThere
  <2>. QED
    BY <1>3, <1>4, <2>1
<1>6. z.loop.max \in -1..z.loop.max /\ e \in 1..e
  BY <1>4, <1>5
<1>. HIDE DEF e
<1>7. CASE Becomes(w, NextInBody(z))
  <2>. DEFINE i == z.loop.iteration
              k == z.loop.at + 1
              x == NextInBody(z)
  <2>1. x = [z EXCEPT !.loop = [z.loop EXCEPT !.iteration = i, !.at = k]] /\ Becomes(w, x)
    BY <1>4, <1>7, CursorMoves
  <2>2. /\ i \in -1..z.loop.max /\ k \in 1..Len(Body(z.loop.node)) + 1
        /\ i \in 0..z.loop.max - 1 /\ i = z.loop.iteration
    BY <1>5 DEF e
  <2>. HIDE DEF x, i, k
  <2>. QED
    BY <1>1, <1>3, <2>1, <2>2, BodyMoves
<1>8. CASE Becomes(w, EndTurn(z))
  <2>. DEFINE i == z.loop.iteration
              x == EndTurn(z)
  <2>1. x = [z EXCEPT !.loop = [z.loop EXCEPT !.iteration = i, !.at = e]] /\ Becomes(w, x)
    BY <1>4, <1>8, CursorMoves DEF e
  <2>2. /\ i \in -1..z.loop.max /\ e \in 1..Len(Body(z.loop.node)) + 1
        /\ i \in 0..z.loop.max - 1 /\ i = z.loop.iteration
    BY <1>5, <1>6 DEF e
  <2>. HIDE DEF x, i
  <2>. QED
    BY <1>1, <1>3, <2>1, <2>2, BodyMoves
<1>9. CASE Becomes(w, EndLoop(z))
  <2>. DEFINE i == z.loop.max
              x == EndLoop(z)
  <2>1. x = [z EXCEPT !.loop = [z.loop EXCEPT !.iteration = i, !.at = e]] /\ Becomes(w, x)
    BY <1>4, <1>9, CursorMoves DEF e
  <2>2. /\ i \in -1..z.loop.max /\ e \in 1..Len(Body(z.loop.node)) + 1
        /\ ~ (e <= Len(Body(z.loop.node))) /\ i = z.loop.max
    BY <1>4, <1>6 DEF e
  <2>. HIDE DEF x, i
  <2>. QED
    BY <1>1, <1>3, <2>1, <2>2, BodyMoves DEF e
<1>. QED
  BY <1>7, <1>8, <1>9

LEMMA ExecuteInBodyMoves == ASSUME RunInv, NEW w \in DOMAIN runs, ExecuteInBody(w) PROVE Moves(w)
<1>. DEFINE y == Spent(runs[w])
            n == BodyNode(y)
            b == Node(y.loop.node).branch
<1>1. AtBody(w)
  BY DEF ExecuteInBody, StartsInBody
<1>2. Sound(y) /\ n = BodyNode(runs[w]) /\ n \in Nodes
  BY <1>1, SpentInBody, BodyIsThere DEF StepsTo, Orderly
<1>3. PICK x \in Ran(y, b, n) : Becomes(w, NextInBody(x))
  BY DEF ExecuteInBody
<1>. HIDE DEF n, b
<1>4. /\ Sound(x) /\ SameCursor(y, x) /\ OnlyOutput(y, x, n)
      /\ \A u : u \notin Node(n).leaks \cup {Node(n).out} => KeepsVar(y, x, b, u)
  BY <1>2, <1>3, RanSound
<1>5. b = Node(runs[w].loop.node).branch
  BY <1>1, SpentInBody DEF b, SameCursor
<1>. QED
  BY <1>1, <1>2, <1>3, <1>4, <1>5, BodyNodeMoves

LEMMA LeaveMoves == ASSUME RunInv, NEW w \in DOMAIN runs, Leave(w) PROVE Moves(w)
<1>. DEFINE y == Spent(runs[w])
            n == BodyNode(runs[w])
            saw == Returned(y, n, Unset)
            z == IF Node(n).op = "Break" THEN y ELSE Yields(Effect(y, n, saw, 0), n, saw, 0)
<1>1. AtBody(w)
  BY DEF Leave, StartsInBody
<1>2. Sound(y) /\ n \in Nodes
  BY <1>1, SpentInBody, BodyIsThere DEF StepsTo, Orderly
<1>3. Becomes(w, EndLoop(z))
  BY DEF Leave, Left
<1>. HIDE DEF n, saw
<1>4. Sound(z) /\ SameCursor(y, z) /\ OnlyOutput(y, z, n) /\ z.ctx = y.ctx
  <2>1. CASE Node(n).op = "Break"
    BY <1>2, <2>1 DEF SameCursor, OnlyOutput
  <2>2. CASE Node(n).op # "Break"
    <3>. DEFINE e == Effect(y, n, saw, 0)
    <3>1. Sound(e) /\ SameCursor(y, e) /\ e.outputs = y.outputs /\ e.ctx = y.ctx
      BY <1>2, EffectSound
    <3>2. z = Yields(e, n, saw, 0)
      BY <2>2
    <3>. HIDE DEF e, z
    <3>3. Sound(z) /\ SameCursor(e, z) /\ OnlyOutput(e, z, n) /\ z.ctx = e.ctx
      BY <1>2, <3>1, <3>2, YieldsSound
    <3>. QED
      BY <3>1, <3>3 DEF SameCursor, OnlyOutput
  <2>. QED
    BY <2>1, <2>2
<1>. HIDE DEF z
<1>5. \A u : KeepsVar(y, z, Node(runs[w].loop.node).branch, u)
  BY <1>4 DEF KeepsVar
<1>. QED
  BY <1>1, <1>3, <1>4, <1>5, BodyNodeMoves DEF n

LEMMA ContinueMoves == ASSUME RunInv, NEW w \in DOMAIN runs, Continue(w) PROVE Moves(w)
<1>. DEFINE y == Spent(runs[w])
            n == BodyNode(runs[w])
<1>1. AtBody(w) /\ Becomes(w, EndTurn(y))
  BY DEF Continue, StartsInBody
<1>2. /\ Sound(y) /\ SameCursor(y, y) /\ OnlyOutput(y, y, n)
      /\ \A u : KeepsVar(y, y, Node(runs[w].loop.node).branch, u)
  BY <1>1, SpentInBody DEF StepsTo, Orderly, SameCursor, OnlyOutput, KeepsVar
<1>. QED
  BY <1>1, <1>2, BodyNodeMoves

LEMMA IgnoreMoves == ASSUME RunInv, NEW w \in DOMAIN runs, Ignore(w) PROVE Moves(w)
<1>. DEFINE y == Spent(runs[w])
            n == BodyNode(runs[w])
            z == Yields(y, n, Unset, 0)
<1>1. AtBody(w)
  BY DEF Ignore, StartsInBody
<1>2. Sound(y) /\ n \in Nodes /\ n = BodyNode(y)
  BY <1>1, SpentInBody, BodyIsThere DEF StepsTo, Orderly
<1>3. Becomes(w, NextInBody(z))
  BY <1>2 DEF Ignore
<1>. HIDE DEF n
<1>4. Sound(z) /\ SameCursor(y, z) /\ OnlyOutput(y, z, n) /\ z.ctx = y.ctx
  BY <1>2, YieldsSound
<1>. HIDE DEF z
<1>5. \A u : KeepsVar(y, z, Node(runs[w].loop.node).branch, u)
  BY <1>4 DEF KeepsVar
<1>. QED
  BY <1>1, <1>3, <1>4, <1>5, BodyNodeMoves DEF n

LEMMA FinishMoves == ASSUME RunInv, NEW w \in DOMAIN runs, Finish(w) PROVE Moves(w)
<1>1. PlanFacts /\ Orderly(runs[w]) /\ runs[w].loop # None /\ Works(w)
  BY LoopIsThere DEF Finish
<1>2. PICK got \in [Unread(runs[w]) -> 0..MaxBound] : Becomes(w, Onward(Finished(runs[w], got)))
  BY DEF Finish
<1>3. StepsTo(runs[w], Onward(Finished(runs[w], got)))
  BY <1>1, FinishedOrderly
<1>. QED
  BY <1>1, <1>2, <1>3 DEF Moves

Walks(w) == \/ Pass(w) \/ Execute(w) \/ Act(w) \/ Switch(w) \/ Merge(w)
            \/ Enter(w) \/ Turn(w) \/ PassInBody(w) \/ ExecuteInBody(w) \/ Leave(w)
            \/ Continue(w) \/ Ignore(w) \/ Finish(w)

LEMMA WalksMove == ASSUME RunInv, NEW w \in DOMAIN runs, Walks(w) PROVE Moves(w)
  BY PassMoves, ExecuteMoves, ActMoves, SwitchMoves, MergeMoves, EnterMoves, TurnMoves,
     PassInBodyMoves, ExecuteInBodyMoves, LeaveMoves, ContinueMoves, IgnoreMoves, FinishMoves,
     Zenon DEF Walks

-----------------------------------------------------------------------------
(* The invariant of a run.                                                 *)

LEMMA OrderlyStays == ASSUME plan' = plan, NEW r PROVE Orderly(r)' <=> Orderly(r)
<1>1. /\ Sound(r)' <=> Sound(r)
      /\ InItsLoop(r)' <=> InItsLoop(r)
  BY DEF Sound, InItsLoop, LoopOK, WholeRunner, WholeContext, Nodes, Node, Body, TurnEnded,
         InBody, Bound, LoopRange, OutOf, Links, Edge, Here, Produced
<1>2. TargetSet(r)' <=> TargetSet(r)
  BY DEF TargetSet, InTurn, Node
<1>. QED
  BY <1>1, <1>2 DEF Orderly

\* What the invariant says of the runners, for a function of them.
RunnersInv(R, s) ==
    /\ None \in DOMAIN R
    /\ R = [w \in DOMAIN R |-> R[w]]
    /\ \A w \in DOMAIN R : Orderly(R[w])
    /\ \A b \in DOMAIN R \ {None} : \A i \in DOMAIN R[b].todo : Node(R[b].todo[i]).branch = b
    /\ R[None].todo = plan.order
    /\ DOMAIN R # {None} =>
           /\ R[None].loop = None /\ ~R[None].failed /\ R[None].at <= Len(R[None].todo)
           /\ Node(Here(R[None])).op = "Parallel"
           /\ DOMAIN R \ {None} \subseteq BranchesOf(Here(R[None]))
    /\ R[None].failed => s = "failed"

LEMMA RunInvIs ==
  RunInv <=> /\ plan \in PreparedPlans /\ status \in {"running", "completed", "failed"}
             /\ RunnersInv(runs, status)
  BY DEF RunInv, RunnersInv, Threads

LEMMA RunInvPrime ==
  ASSUME plan' = plan, plan \in PreparedPlans, status' \in {"running", "completed", "failed"},
         NEW R, R = runs', RunnersInv(R, status')
  PROVE  RunInv'
<1>1. \A w \in DOMAIN R : Orderly(R[w])'
  BY OrderlyStays DEF RunnersInv
<1>2. (plan \in PreparedPlans)'
  OBVIOUS
<1>. QED
  BY <1>1, <1>2 DEF RunInv, Threads, RunnersInv, Here, Node, BranchesOf

\* One runner changes.
LEMMA RunnerChanges ==
  ASSUME NEW Q, NEW s, RunnersInv(Q, s), NEW w \in DOMAIN Q, w = None => DOMAIN Q = {None},
         NEW x, Orderly(x), x.todo = Q[w].todo,
         NEW t, w = None => (x.failed => t = "failed"), w # None => t = s
  PROVE  RunnersInv([Q EXCEPT ![w] = x], t)
<1>. DEFINE R == [Q EXCEPT ![w] = x]
<1>1. /\ DOMAIN R = DOMAIN Q /\ R = [v \in DOMAIN R |-> R[v]]
      /\ \A v \in DOMAIN Q : R[v] = IF v = w THEN x ELSE Q[v]
  BY DEF RunnersInv
<1>. HIDE DEF R
<1>2. None \in DOMAIN R /\ \A v \in DOMAIN R : Orderly(R[v]) /\ R[v].todo = Q[v].todo
  BY <1>1 DEF RunnersInv
<1>3. \A b \in DOMAIN R \ {None} : \A i \in DOMAIN R[b].todo : Node(R[b].todo[i]).branch = b
  BY <1>1, <1>2 DEF RunnersInv
<1>4. R[None].todo = plan.order
  BY <1>2 DEF RunnersInv
<1>5. CASE DOMAIN R = {None}
  <2>1. w = None /\ R[None] = x
    BY <1>1, <1>5
  <2>. QED
    BY <1>1, <1>2, <1>3, <1>4, <1>5, <2>1 DEF RunnersInv
<1>6. CASE DOMAIN R # {None}
  <2>1. w # None /\ R[None] = Q[None] /\ t = s
    BY <1>1, <1>6 DEF RunnersInv
  <2>. QED
    BY <1>1, <1>2, <1>3, <1>4, <1>6, <2>1 DEF RunnersInv
<1>. QED
  BY <1>5, <1>6 DEF R

LEMMA MovesInv == ASSUME RunInv, NEW w \in DOMAIN runs, Moves(w) PROVE RunInv'
<1>1. PICK x : StepsTo(runs[w], x) /\ Becomes(w, x)
  BY DEF Moves
<1>. DEFINE R == [runs EXCEPT ![w] = x]
<1>2. /\ runs' = R /\ plan' = plan /\ status' = status
      /\ Orderly(x) /\ x.todo = runs[w].todo /\ x.failed = runs[w].failed
      /\ (w = None => DOMAIN runs = {None}) /\ ~runs[w].failed
  BY <1>1 DEF Becomes, StepsTo, Moves, Works
<1>3. RunnersInv(R, status')
  BY <1>2, RunInvIs, RunnerChanges
<1>4. plan \in PreparedPlans /\ status' \in {"running", "completed", "failed"}
  BY <1>2 DEF RunInv
<1>. HIDE DEF R
<1>. QED
  BY <1>2, <1>3, <1>4, RunInvPrime

LEMMA FailInv == ASSUME RunInv, NEW w \in DOMAIN runs, Fail(w) PROVE RunInv'
<1>. DEFINE r == runs[w]
            x == [r EXCEPT !.count = r.count + 1, !.failed = TRUE]
            R == [runs EXCEPT ![w] = x]
<1>1. Works(w) /\ plan' = plan /\ status' = IF w = None THEN "failed" ELSE status
  BY DEF Fail, Running, AtNode, AtBody, InLoop
<1>2. PlanFacts /\ Orderly(r)
  BY PlanIsSound DEF RunInv
<1>3. runs' = R
  <2>1. WholeRunner(r)
    BY <1>2 DEF Orderly, Sound
  <2>. QED
    BY <2>1 DEF Fail, WholeRunner
<1>4. Orderly(x) /\ x.todo = r.todo
  <2>1. r.count + 1 \in Nat
    BY <1>2 DEF Orderly, Sound
  <2>. QED
    BY <1>2, <2>1, FailedOrderly
<1>. HIDE DEF x
<1>5. RunnersInv(R, status')
  BY <1>1, <1>4, RunInvIs, RunnerChanges DEF Works
<1>6. plan \in PreparedPlans /\ status' \in {"running", "completed", "failed"}
  BY <1>1 DEF RunInv
<1>. HIDE DEF R
<1>. QED
  BY <1>1, <1>3, <1>5, <1>6, RunInvPrime

LEMMA ForkInv == ASSUME RunInv, NEW w \in DOMAIN runs, Fork(w) PROVE RunInv'
<1>. DEFINE n == Here(runs[w])
            y == Spent(runs[w])
            r == Forked(y, n)
            B == BranchesOf(n)
            R == [b \in {None} \cup B |-> IF b = None THEN r ELSE Thread(r, n, Group(n, b))]
<1>1. w = None /\ AtNode(w) /\ Node(n).op = "Parallel" /\ Works(w)
  BY DEF Fork, Starts, AtNode
<1>2. /\ PlanFacts /\ Sound(y) /\ SameCursor(runs[w], y) /\ n \in Nodes
      /\ runs[w].loop = None /\ runs[w].at \in 1..Len(runs[w].todo) /\ ~runs[w].failed
  BY <1>1, SpentHere, NodeIsThere DEF Works
<1>3. \/ Becomes(w, Onward(r))
      \/ runs' = R /\ UNCHANGED <<plan, status>>
  BY DEF Fork
<1>. HIDE DEF n, y
<1>4. Sound(r) /\ r.todo = y.todo /\ r.at = y.at /\ r.loop = y.loop /\ r.failed = y.failed
  BY <1>1, <1>2, ForkedSound
<1>. HIDE DEF r
<1>5. /\ r.todo = runs[w].todo /\ r.at = runs[w].at /\ r.loop = runs[w].loop
      /\ r.failed = runs[w].failed
  BY <1>2, <1>4 DEF SameCursor
<1>6. CASE Becomes(w, Onward(r))
  <2>1. Moves(w)
    BY <1>1, <1>4, <1>5, <1>6, NodeMoves
  <2>. QED
    BY <2>1, MovesInv
<1>7. CASE runs' = R /\ UNCHANGED <<plan, status>>
  <2>1. None \notin B /\ \A b \in B : Group(n, b) \in Seq(Nodes)
    BY <1>1, <1>2 DEF PlanFacts
  <2>2. \A b \in B : \A i \in DOMAIN Group(n, b) : Node(Group(n, b)[i]).branch = b
    BY <1>1, <1>2 DEF PlanFacts
  <2>3. r.todo = plan.order /\ r.at \in 1..Len(r.todo) /\ r.loop = None /\ ~r.failed
    BY <1>1, <1>2, <1>5 DEF RunInv, Threads
  <2>4. Here(r) = n
    BY <1>5 DEF Here, n
  <2>5. Orderly(r)
    <3>1. r.at \in 1..Len(r.todo) + 1
      BY <1>4, <2>3 DEF Sound
    <3>. QED
      BY <1>4, <2>3, <3>1, OutOfLoopOrderly
  <2>6. ASSUME NEW b \in B
        PROVE  LET t == Thread(r, n, Group(n, b))
               IN  Orderly(t) /\ t.todo = Group(n, b)
    <3>. DEFINE t == Thread(r, n, Group(n, b))
    <3>1. /\ Sound(t) /\ t.todo = Group(n, b) /\ t.at = 1 /\ t.loop = None
      BY <1>2, <1>4, <2>1, <2>3, ThreadSound
    <3>. HIDE DEF t
    <3>2. t.at \in 1..Len(t.todo) + 1
      BY <3>1 DEF Sound
    <3>3. Orderly(t)
      BY <3>1, <3>2, OutOfLoopOrderly
    <3>. QED
      BY <3>1, <3>3 DEF t
  <2>7. /\ DOMAIN R = {None} \cup B /\ R = [v \in DOMAIN R |-> R[v]] /\ R[None] = r
        /\ \A b \in B : R[b] = Thread(r, n, Group(n, b))
    BY <2>1
  <2>. HIDE DEF R
  <2>8. \A v \in DOMAIN R : Orderly(R[v])
    BY <2>5, <2>6, <2>7
  <2>9. \A b \in DOMAIN R \ {None} : \A i \in DOMAIN R[b].todo : Node(R[b].todo[i]).branch = b
    BY <2>2, <2>6, <2>7
  <2>10. RunnersInv(R, status')
    BY <1>1, <2>3, <2>4, <2>7, <2>8, <2>9 DEF RunnersInv
  <2>11. plan \in PreparedPlans /\ status' \in {"running", "completed", "failed"}
    BY <1>7 DEF RunInv
  <2>. QED
    BY <1>7, <2>10, <2>11, RunInvPrime
<1>. QED
  BY <1>3, <1>6, <1>7

LEMMA JoinInv == ASSUME RunInv, Join PROVE RunInv'
<1>. DEFINE main == runs[None]
            n == Here(main)
            failed == \E b \in DOMAIN runs \ {None} : runs[b].failed
            x == IF failed THEN [main EXCEPT !.failed = TRUE] ELSE Onward(Joined(runs))
            R == [w \in {None} |-> x]
<1>1. /\ runs' = R /\ plan' = plan /\ DOMAIN runs # {None} /\ None \in DOMAIN runs
      /\ status' = IF failed THEN "failed" ELSE "running"
  BY DEF Join
<1>2. /\ PlanFacts /\ Orderly(main) /\ Sound(main) /\ main.loop = None /\ ~main.failed
      /\ main.at \in 1..Len(main.todo) /\ main.todo = plan.order /\ n \in Nodes
      /\ Node(n).op = "Parallel" /\ DOMAIN runs \ {None} \subseteq BranchesOf(n)
  <2>1. PlanFacts /\ Orderly(main) /\ Sound(main)
    BY PlanIsSound DEF RunInv, Orderly
  <2>2. /\ main.loop = None /\ ~main.failed /\ main.at <= Len(main.todo)
        /\ main.todo = plan.order
        /\ Node(n).op = "Parallel" /\ DOMAIN runs \ {None} \subseteq BranchesOf(n)
    BY <1>1 DEF RunInv, Threads
  <2>3. main.at \in 1..Len(main.todo)
    BY <2>1, <2>2 DEF Orderly, Sound
  <2>4. n \in Nodes
    BY <2>1, <2>3 DEF Sound, Here
  <2>. QED
    BY <2>1, <2>2, <2>3, <2>4
<1>3. Orderly(x) /\ x.todo = main.todo /\ (x.failed => status' = "failed")
  <2>1. CASE failed
    <3>. DEFINE z == [main EXCEPT !.count = main.count, !.failed = TRUE]
    <3>1. main.count \in Nat /\ WholeRunner(main)
      BY <1>2 DEF Sound
    <3>2. Orderly(z) /\ z.todo = main.todo
      BY <1>2, <3>1, FailedOrderly
    <3>3. x = z
      BY <2>1, <3>1 DEF WholeRunner
    <3>. HIDE DEF z, x
    <3>. QED
      BY <1>1, <2>1, <3>2, <3>3
  <2>2. CASE ~failed
    <3>1. IsFiniteSet(BranchesOf(n)) /\ BranchesOf(n) \subseteq Nat
      BY <1>2 DEF PlanFacts
    <3>2. IsFiniteSet(DOMAIN runs \ {None}) /\ DOMAIN runs \ {None} \subseteq Nat
      BY <1>2, <3>1, FS_Subset
    <3>3. IsFiniteSet(DOMAIN runs)
      <4>1. DOMAIN runs = (DOMAIN runs \ {None}) \cup {None}
        BY <1>1
      <4>. QED
        BY <3>2, <4>1, FS_AddElement
    <3>4. \A w \in DOMAIN runs : Sound(runs[w])
      BY DEF RunInv, Orderly
    <3>. DEFINE z == Joined(runs)
    <3>5. Sound(z) /\ SameCursor(main, z)
      BY <1>1, <1>2, <3>2, <3>3, <3>4, JoinedSound
    <3>6. x = Onward(z)
      BY <2>2
    <3>. HIDE DEF z, x
    <3>7. z.loop = None /\ z.at \in 1..Len(z.todo) /\ z.todo = main.todo /\ z.failed = main.failed
      BY <1>2, <3>5 DEF SameCursor
    <3>8. StepsTo(z, x)
      BY <3>5, <3>6, <3>7, OnwardOrderly
    <3>. QED
      BY <1>2, <3>7, <3>8 DEF StepsTo
  <2>. QED
    BY <2>1, <2>2
<1>. HIDE DEF x
<1>4. RunnersInv(R, status')
  BY <1>2, <1>3 DEF RunnersInv
<1>5. plan \in PreparedPlans /\ status' \in {"running", "completed", "failed"}
  BY <1>1 DEF RunInv
<1>. HIDE DEF R
<1>. QED
  BY <1>1, <1>4, <1>5, RunInvPrime

LEMMA CompleteInv == ASSUME RunInv, Complete PROVE RunInv'
<1>. DEFINE R == runs
<1>1. RunnersInv(R, status) /\ ~R[None].failed
  BY RunInvIs DEF Complete, Works
<1>2. runs' = R /\ plan' = plan /\ status' = "completed"
  BY DEF Complete
<1>3. plan \in PreparedPlans
  BY DEF RunInv
<1>. HIDE DEF R
<1>4. RunnersInv(R, status')
  BY <1>1 DEF RunnersInv
<1>. QED
  BY <1>2, <1>3, <1>4, RunInvPrime

LEMMA NextInv == ASSUME RunInv, Next PROVE RunInv'
<1>1. CASE Join
  BY <1>1, JoinInv
<1>2. CASE Complete
  BY <1>2, CompleteInv
<1>3. ASSUME NEW w \in DOMAIN runs, Step(w) PROVE RunInv'
  <2>1. Walks(w) \/ Fork(w) \/ Fail(w)
    BY <1>3, Zenon DEF Step, Walks
  <2>2. Walks(w) => RunInv'
    BY WalksMove, MovesInv
  <2>. QED
    BY <2>1, <2>2, ForkInv, FailInv
<1>. QED
  BY <1>1, <1>2, <1>3 DEF Next

LEMMA InitInv == ASSUME Init PROVE RunInv
<1>. DEFINE c == [vars |-> [v \in Plans[plan.id].params |-> Given], parent |-> None,
                  scopes |-> NoVars]
            r == Runner(plan.order, c, Roots(plan))
<1>1. PlanFacts /\ plan \in PreparedPlans /\ status = "running" /\ runs = [w \in {None} |-> r]
  BY PlanIsSound DEF Init
<1>2. Roots(plan) \subseteq Nodes /\ WholeContext(c) /\ plan.order \in Seq(Nodes)
  BY <1>1 DEF Roots, Nodes, WholeContext, PlanFacts
<1>. HIDE DEF c
<1>3. /\ r.todo = plan.order /\ r.at = 1 /\ r.loop = None /\ r.failed = FALSE /\ r.ctx = c
      /\ r.outputs = NoVars /\ r.enabled = Roots(plan) /\ r.skipped = {} /\ r.count = 0
      /\ r.satisfied = [n \in Nodes |-> 0] /\ WholeRunner(r)
  BY DEF Runner, WholeRunner
<1>. HIDE DEF r
<1>4. Sound(r)
  <2>1. DOMAIN NoVars = {} /\ 0 \in Nat
    BY DEF NoVars
  <2>. QED
    BY <1>2, <1>3, <2>1 DEF Sound
<1>5. r.at \in 1..Len(r.todo) + 1
  BY <1>2, <1>3
<1>6. Orderly(r)
  BY <1>3, <1>4, <1>5, OutOfLoopOrderly
<1>7. RunnersInv(runs, status)
  BY <1>1, <1>3, <1>6 DEF RunnersInv
<1>. QED
  BY <1>1, <1>7, RunInvIs

-----------------------------------------------------------------------------
(* Checkpoints.                                                            *)

\* Nothing of a runner is lost: what is not in the checkpoint, the plan says, and
\* the bound of the loop is what its range still says.
LEMMA RestoredIsTheRunner ==
  ASSUME PlanFacts, NEW r, Orderly(r), r.todo = plan.order, ~r.failed
  PROVE  Restored(Checkpoint(r)) = r
<1>. DEFINE c == Checkpoint(r)
            q == [todo |-> plan.order, at |-> c.position, loop |-> None,
                  ctx |-> c.ctx, outputs |-> c.outputs, enabled |-> c.enabled,
                  satisfied |-> c.satisfied, skipped |-> c.skipped, count |-> c.count,
                  result |-> c.result, trace |-> c.trace, failed |-> FALSE]
            j == [node |-> r.loop.node, iteration |-> r.loop.iteration, at |-> r.loop.at]
<1>1. WholeRunner(r) /\ r.failed = FALSE
  BY DEF Orderly, Sound
<1>2. /\ c.position = r.at /\ c.ctx = r.ctx /\ c.outputs = r.outputs /\ c.enabled = r.enabled
      /\ c.satisfied = r.satisfied /\ c.skipped = r.skipped /\ c.count = r.count
      /\ c.result = r.result /\ c.trace = r.trace
      /\ c.loop = IF r.loop = None THEN None ELSE j
  BY DEF Checkpoint
<1>3. Restored(c) = IF c.loop = None THEN q ELSE Looping(q, c.loop.node, c.loop.iteration, c.loop.at)
  BY Zenon DEF Restored
<1>. HIDE DEF c, j
<1>4. /\ q.at = r.at /\ q.todo = r.todo /\ q.ctx = r.ctx /\ q.outputs = r.outputs
      /\ q.enabled = r.enabled /\ q.satisfied = r.satisfied /\ q.skipped = r.skipped
      /\ q.count = r.count /\ q.result = r.result /\ q.trace = r.trace /\ q.failed = r.failed
      /\ q.loop = None /\ WholeRunner(q)
  BY <1>1, <1>2 DEF WholeRunner
<1>. HIDE DEF q
<1>5. CASE r.loop = None
  <2>1. q = r
    BY <1>1, <1>4, <1>5 DEF WholeRunner
  <2>. QED
    BY <1>2, <1>3, <1>5, <2>1 DEF c
<1>6. CASE r.loop # None
  <2>1. /\ r.loop \in [node : Nodes, iteration : Int, at : Nat, max : Nat]
        /\ r.loop.max = Bound(r, r.loop.node) /\ InBody(r.loop.node) \subseteq r.skipped
    BY <1>6 DEF Orderly, InItsLoop
  <2>2. j \in [node : Nat, iteration : Int, at : Nat]
    BY <2>1 DEF PlanFacts, j
  <2>3. j # None /\ c.loop = j
    BY <1>2, <1>6, <2>2, NoneAssumption
  <2>4. Bound(q, r.loop.node) = r.loop.max
    BY <1>4, <2>1 DEF Bound, LoopRange, Produced
  <2>5. j.node = r.loop.node /\ j.iteration = r.loop.iteration /\ j.at = r.loop.at
    BY DEF j
  <2>. DEFINE m == [node |-> r.loop.node, iteration |-> r.loop.iteration,
                    at |-> r.loop.at, max |-> Bound(q, r.loop.node)]
  <2>6. m = r.loop
    BY <2>1, <2>4
  <2>7. Restored(c) = [q EXCEPT !.skipped = q.skipped \cup InBody(r.loop.node), !.loop = m]
    BY <1>3, <2>3, <2>5 DEF Looping
  <2>8. q.skipped \cup InBody(r.loop.node) = r.skipped
    BY <1>4, <2>1
  <2>. HIDE DEF m
  <2>9. Restored(c) = [q EXCEPT !.skipped = r.skipped, !.loop = r.loop]
    BY <2>6, <2>7, <2>8
  <2>10. [q EXCEPT !.skipped = r.skipped, !.loop = r.loop] = r
    BY <1>1, <1>4 DEF WholeRunner
  <2>. QED
    BY <2>9, <2>10 DEF c
<1>. QED
  BY <1>5, <1>6

LEMMA NextKeepsPlan == ASSUME Next PROVE plan' = plan
  BY DEF Next, Step, Pass, Execute, Act, Switch, Merge, Enter, Turn, PassInBody, ExecuteInBody,
         Leave, Continue, Ignore, Finish, Fork, Fail, Join, Complete, Becomes

LEMMA RestoredStays == ASSUME plan' = plan, NEW c PROVE Restored(c)' = Restored(c)
  BY DEF Restored, Looping, Bound, LoopRange, OutOf, Links, Edge, Node, Produced, InBody, Body

LEMMA InTurnStays == ASSUME NEW r PROVE InTurn(r)' <=> InTurn(r)
  BY DEF InTurn

\* What the invariant says of a checkpoint, for a runner of the main pass.
LEMMA SavedInvPrime ==
  ASSUME plan' = plan, PlanFacts, status' = "running", DOMAIN runs' = {None},
         NEW r, r = runs'[None], Orderly(r), r.todo = plan.order, ~r.failed,
         r.at <= Len(plan.order), r.loop = None \/ InTurn(r),
         saved' = Checkpoint(r), midLoop' = FALSE
  PROVE  SavedInv'
<1>1. Restored(Checkpoint(r))' = Restored(Checkpoint(r))
  <2>1. PICK c : c = Checkpoint(r)
    OBVIOUS
  <2>2. Restored(c)' = Restored(c)
    BY RestoredStays
  <2>3. Checkpoint(r)' = Checkpoint(r)
    BY DEF Checkpoint
  <2>. QED
    BY <2>1, <2>2, <2>3
<1>2. Restored(Checkpoint(r))' = r
  BY <1>1, RestoredIsTheRunner
<1>3. InTurn(r)' <=> InTurn(r)
  BY InTurnStays
<1>4. Checkpoint(r)' = Checkpoint(r)
  BY DEF Checkpoint
<1>. QED
  BY <1>2, <1>3, <1>4 DEF SavedInv

\* A pause in a body is one in the middle of a turn.
LEMMA BodyKeepsTurn ==
  ASSUME RunInv, Next, AfterBody, status' = "running"
  PROVE  InTurn(runs'[None])
<1>. DEFINE r == runs[None]
            y == Spent(r)
            n == BodyNode(r)
<1>1. r.loop # None /\ None \in DOMAIN runs /\ DOMAIN runs = {None}
  BY DEF RunInv, Threads, AfterBody
<1>2. Step(None)
  BY <1>1 DEF Next, Join, Complete
<1>3. ~AtNode(None)
  BY <1>1 DEF AtNode
<1>4. Turn(None) \/ PassInBody(None) \/ ExecuteInBody(None) \/ Ignore(None)
  <2>1. ~Finish(None)
    <3>1. ASSUME Finish(None) PROVE FALSE
      <4>1. PlanFacts /\ Orderly(r)
        BY PlanIsSound, <1>1 DEF RunInv
      <4>2. PICK got \in [Unread(r) -> 0..MaxBound] : Becomes(None, Onward(Finished(r, got)))
        BY <3>1 DEF Finish
      <4>3. Onward(Finished(r, got)).loop = None
        BY <1>1, <4>1, <4>2, FinishedLoop
      <4>. QED
        BY <1>1, <4>2, <4>3 DEF Becomes, AfterBody
    <3>. QED
      BY <3>1
  <2>2. ~Leave(None) /\ ~Continue(None)
    BY DEF Leave, Continue, StartsInBody, AfterBody
  <2>3. ~Fail(None)
    BY DEF Fail
  <2>. QED
    BY <1>2, <1>3, <2>1, <2>2, <2>3
    DEF Step, Pass, Execute, Act, Switch, Merge, Enter, Fork, Starts
<1>5. /\ Sound(r) /\ WholeRunner(r) /\ r.count \in Nat
      /\ r.loop \in [node : Nodes, iteration : Int, at : Nat, max : Nat]
  BY <1>1 DEF RunInv, Orderly, InItsLoop, Sound
<1>6. runs'[None].count # r.count
  BY <1>5 DEF AfterBody
<1>7. ~Turn(None)
  <2>1. Turned(r).count = r.count
    BY <1>5 DEF Turned, SetTarget, WholeRunner
  <2>. QED
    BY <1>1, <1>6, <2>1 DEF Turn, Becomes
<1>8. ~PassInBody(None)
  <2>1. NextInBody(r).count = r.count
    BY <1>5 DEF NextInBody, WholeRunner
  <2>. QED
    BY <1>1, <1>6, <2>1 DEF PassInBody, Becomes
<1>9. AtBody(None)
  BY <1>4, <1>7, <1>8 DEF ExecuteInBody, Ignore, StartsInBody
<1>10. PICK z : Sound(z) /\ z.loop = r.loop /\ runs'[None] = NextInBody(z)
  <2>1. /\ Sound(y) /\ SameCursor(r, y) /\ n = BodyNode(y) /\ n \in Nodes
    BY <1>1, <1>9, SpentInBody, BodyIsThere DEF StepsTo, Orderly
  <2>2. CASE ExecuteInBody(None)
    <3>. DEFINE b == Node(y.loop.node).branch
    <3>1. PICK x \in Ran(y, b, n) : Becomes(None, NextInBody(x))
      BY <2>1, <2>2 DEF ExecuteInBody
    <3>. HIDE DEF y, n, b
    <3>2. Sound(x) /\ SameCursor(y, x)
      BY <2>1, <3>1, RanSound
    <3>. QED
      BY <1>1, <2>1, <3>1, <3>2 DEF SameCursor, Becomes
  <2>3. CASE Ignore(None)
    <3>. DEFINE x == Yields(y, n, Unset, 0)
    <3>1. Becomes(None, NextInBody(x))
      BY <2>1, <2>3 DEF Ignore
    <3>. HIDE DEF y, n
    <3>2. Sound(x) /\ SameCursor(y, x)
      BY <2>1, YieldsSound
    <3>. HIDE DEF x
    <3>. QED
      BY <1>1, <2>1, <3>1, <3>2 DEF SameCursor, Becomes
  <2>. QED
    BY <1>4, <1>7, <1>8, <2>2, <2>3
<1>11. NextInBody(z).loop = [r.loop EXCEPT !.at = r.loop.at + 1]
  BY <1>10 DEF NextInBody, Sound, WholeRunner
<1>12. r.loop.iteration \in 0..r.loop.max - 1
  BY <1>1, <1>9, BodyIsThere
<1>13. /\ [r.loop EXCEPT !.at = r.loop.at + 1].iteration = r.loop.iteration
       /\ [r.loop EXCEPT !.at = r.loop.at + 1].max = r.loop.max
  BY <1>5
<1>. QED
  BY <1>10, <1>11, <1>12, <1>13 DEF InTurn, AfterBody

LEMMA PauseInv == ASSUME PausedInv, Pause PROVE PausedInv'
<1>1. RunInv' /\ plan' = plan
  BY NextInv, NextKeepsPlan DEF PausedInv, Pause
<1>2. PICK r : r = runs'[None]
  OBVIOUS
<1>3. /\ PlanFacts /\ Orderly(r) /\ r.todo = plan.order /\ (r.failed => status' = "failed")
  <2>1. PlanFacts
    BY PlanIsSound DEF PausedInv, RunInv
  <2>2. Orderly(r)' /\ r.todo = plan'.order /\ (r.failed => status' = "failed")
    BY <1>1, <1>2 DEF RunInv, Threads
  <2>. QED
    BY <1>1, <2>1, <2>2, OrderlyStays
<1>4. status' = "running" /\ DOMAIN runs' = {None} /\ saved' = Checkpoint(r) /\ midLoop' = FALSE
  BY <1>2 DEF Pause
<1>5. r.at <= Len(plan.order) /\ (r.loop = None \/ InTurn(r))
  <2>1. CASE AfterNode
    BY <1>2, <2>1 DEF AfterNode
  <2>2. CASE AfterBody
    <3>1. InTurn(runs'[None])
      BY <2>2, BodyKeepsTurn DEF PausedInv, Pause
    <3>2. InTurn(r)
      BY <1>2, <3>1
    <3>3. r.loop # None /\ r.at <= Len(r.todo)
      BY <1>2, <1>3, <2>2 DEF AfterBody, Orderly, InItsLoop
    <3>. QED
      BY <1>3, <3>2, <3>3
  <2>. QED
    BY <2>1, <2>2 DEF Pause
<1>6. SavedInv'
  BY <1>1, <1>2, <1>3, <1>4, <1>5, SavedInvPrime
<1>. QED
  BY <1>1, <1>6 DEF PausedInv

LEMMA GoOnInv == ASSUME PausedInv, GoOn PROVE PausedInv'
<1>1. RunInv' /\ saved' = None /\ (midLoop' => runs'[None].loop # None)
  BY NextInv DEF PausedInv, GoOn
<1>. QED
  BY <1>1 DEF PausedInv, SavedInv

\* The runner that resume goes on with is the one that was paused, with its loop's
\* variable set once more.
LEMMA ResumedOrderly ==
  ASSUME PausedInv, saved # None
  PROVE  /\ Orderly(Resumed(saved)) /\ Resumed(saved).todo = plan.order
         /\ ~Resumed(saved).failed
         /\ (saved.loop = None <=> Resumed(saved).loop = None)
         /\ saved.loop = None => Resumed(saved) = runs[None]
         /\ BodiesKeepTheirVariable => Resumed(saved) = runs[None]
<1>. DEFINE r == runs[None]
            l == r.loop.node
            i == r.loop.iteration
            v == {<<Node(l).site, i>>}
            c == Set(r.ctx, Node(l).branch, {Node(l).out}, v)
            x == [r EXCEPT !.ctx = c]
<1>1. /\ PlanFacts /\ Orderly(r) /\ Sound(r) /\ WholeRunner(r) /\ WholeContext(r.ctx)
      /\ r.todo = plan.order /\ ~r.failed
      /\ saved = Checkpoint(r) /\ Restored(saved) = r /\ (r.loop = None \/ InTurn(r))
  BY PlanIsSound DEF PausedInv, SavedInv, RunInv, Threads, Orderly, Sound
<1>2. CASE r.loop = None
  <2>1. saved.loop = None
    BY <1>1, <1>2 DEF Checkpoint
  <2>2. Resumed(saved) = r
    BY <1>1, <2>1 DEF Resumed
  <2>. QED
    BY <1>1, <1>2, <2>1, <2>2
<1>3. CASE r.loop # None
  <2>. DEFINE j == [node |-> r.loop.node, iteration |-> r.loop.iteration, at |-> r.loop.at]
  <2>1. saved.loop = j
    BY <1>1, <1>3 DEF Checkpoint
  <2>2. r.loop \in [node : Nodes, iteration : Int, at : Nat, max : Nat]
    BY <1>1, <1>3 DEF Orderly, InItsLoop
  <2>3. j \in [node : Nat, iteration : Int, at : Nat]
    BY <1>1, <2>2 DEF PlanFacts
  <2>4. j # None /\ j.node = l /\ j.iteration = i
    BY <2>3, NoneAssumption
  <2>5. Resumed(saved) = SetTarget(r, l, i)
    BY <1>1, <2>1, <2>4 DEF Resumed
  <2>6. SetTarget(r, l, i) = x
    BY Zenon DEF SetTarget
  <2>7. WholeContext(c)
    BY <1>1, SetWhole
  <2>8. InTurn(r)
    BY <1>1, <1>3
  <2>9. Has(c, Node(l).branch, Node(l).out, v)
    BY <1>1, SetIsThere
  <2>10. BodiesKeepTheirVariable => c = r.ctx
    <3>1. BodiesKeepTheirVariable => Has(r.ctx, Node(l).branch, Node(l).out, v)
      BY <1>1, <2>8 DEF Orderly, TargetSet
    <3>. HIDE DEF v
    <3>. QED
      BY <1>1, <3>1, HasIsSet
  <2>. HIDE DEF c
  <2>11. BodiesKeepTheirVariable => x = r
    BY <1>1, <2>10 DEF WholeRunner
  <2>12. Sound(x) /\ SameCursor(r, x) /\ x.outputs = r.outputs /\ x.ctx = c
    BY <1>1, <2>7, ContextSound
  <2>. HIDE DEF x
  <2>13. x.loop = r.loop /\ x.at = r.at /\ x.todo = r.todo /\ x.failed = r.failed
         /\ x.skipped = r.skipped
    BY <2>12 DEF SameCursor
  <2>14. Bound(x, l) = Bound(r, l)
    BY <2>12 DEF Bound, LoopRange, Produced
  <2>15. InItsLoop(x)
    <3>1. InItsLoop(r)
      BY <1>1 DEF Orderly
    <3>. HIDE DEF l, i
    <3>2. Bound(x, r.loop.node) = Bound(r, r.loop.node)
      BY <2>14 DEF l
    <3>. HIDE DEF r
    <3>. QED
      BY <2>13, <3>1, <3>2 DEF InItsLoop, LoopOK, Here, TurnEnded
  <2>16. TargetSet(x)
    BY <2>9, <2>12, <2>13 DEF TargetSet
  <2>17. Orderly(x)
    BY <1>1, <2>12, <2>13, <2>15, <2>16 DEF Orderly
  <2>. QED
    BY <1>1, <1>3, <2>1, <2>4, <2>5, <2>6, <2>11, <2>13, <2>17
<1>. QED
  BY <1>2, <1>3

LEMMA ResumeInv == ASSUME PausedInv, Resume PROVE PausedInv'
<1>. DEFINE x == Resumed(saved)
            R == [w \in {None} |-> x]
<1>1. /\ Orderly(x) /\ x.todo = plan.order /\ ~x.failed /\ (saved.loop = None <=> x.loop = None)
  BY ResumedOrderly DEF Resume
<1>2. runs' = R /\ plan' = plan /\ status' = status /\ saved' = None /\ midLoop' = (saved.loop # None)
  BY DEF Resume
<1>. HIDE DEF x
<1>3. RunnersInv(R, status')
  BY <1>1 DEF RunnersInv
<1>4. plan \in PreparedPlans /\ status' \in {"running", "completed", "failed"}
  BY <1>2 DEF PausedInv, RunInv
<1>5. runs'[None] = x
  BY <1>2
<1>. HIDE DEF R
<1>6. RunInv'
  BY <1>2, <1>3, <1>4, RunInvPrime
<1>7. SavedInv'
  BY <1>1, <1>2, <1>5 DEF SavedInv
<1>. QED
  BY <1>6, <1>7 DEF PausedInv

LEMMA StutterInv == ASSUME PausedInv, UNCHANGED allVars PROVE PausedInv'
<1>1. /\ plan' = plan /\ status' = status /\ runs' = runs /\ saved' = saved /\ midLoop' = midLoop
  BY DEF allVars
<1>. DEFINE R == runs
<1>2. RunnersInv(R, status) /\ plan \in PreparedPlans /\ status \in {"running", "completed", "failed"}
  BY RunInvIs DEF PausedInv
<1>3. R = runs' /\ RunnersInv(R, status')
  BY <1>1, <1>2
<1>. HIDE DEF R
<1>4. RunInv'
  BY <1>1, <1>2, <1>3, RunInvPrime
<1>5. SavedInv'
  <2>1. \A c : Restored(c)' = Restored(c)
    BY <1>1, RestoredStays
  <2>2. \A r : InTurn(r)' <=> InTurn(r)
    BY InTurnStays
  <2>. QED
    BY <1>1, <2>1, <2>2 DEF PausedInv, SavedInv, Checkpoint
<1>. QED
  BY <1>4, <1>5 DEF PausedInv

\* The invariant: cursors and outputs stay in the plan, a loop's bound is what its
\* range says, threads are those of the PARALLEL the main pass stands at, and a
\* checkpoint stands for the runner it was made of.
THEOREM PausedInvariant == SpecPaused => []PausedInv
<1>1. InitPaused => PausedInv
  BY InitInv DEF InitPaused, PausedInv, SavedInv
<1>2. PausedInv /\ [NextPaused]_allVars => PausedInv'
  BY GoOnInv, PauseInv, ResumeInv, StutterInv DEF NextPaused
<1>. QED
  BY <1>1, <1>2, PTL DEF SpecPaused

\* Types, and that cursors stay in the plan, in the body of their loop and at
\* their LOOP: PausedTypeOK.
THEOREM PausedTyping == SpecPaused => []PausedTypeOK
<1>1. PausedInv => PausedTypeOK
  <2>. SUFFICES ASSUME PausedInv PROVE PausedTypeOK
    OBVIOUS
  <2>1. PlanFacts /\ RunInv /\ SavedInv
    BY PlanIsSound DEF PausedInv, RunInv
  <2>2. \A w \in DOMAIN runs : RunnerOK(runs[w])
    BY <2>1 DEF RunInv, Orderly, Sound, InItsLoop, RunnerOK
  <2>3. TypeOK
    BY <2>1, <2>2 DEF PlanFacts, RunInv, Threads, TypeOK
  <2>4. saved # None => saved.position \in 1..Len(plan.order)
    <3>1. runs[None].at \in 1..Len(runs[None].todo) + 1 /\ runs[None].todo = plan.order
          /\ plan.order \in Seq(Nodes)
      BY <2>1 DEF RunInv, Orderly, Threads, PlanFacts
    <3>2. saved # None => saved.position = runs[None].at /\ runs[None].at <= Len(plan.order)
      BY <2>1 DEF SavedInv, Checkpoint
    <3>. QED
      BY <3>1, <3>2
  <2>. QED
    BY <2>1, <2>3, <2>4 DEF SavedInv, PausedTypeOK
<1>. QED
  BY <1>1, PausedInvariant, PTL
-----------------------------------------------------------------------------
(* Refinement: a run that is paused and resumed is a run without a pause.   *)

\* What a runner computes does not depend on how the runners are kept: each
\* operator of the run without a pause is the one of the run.
LEMMA SameOperators ==
    /\ \A r : Uninterrupted!Here(r) = Here(r)
    /\ \A n : Uninterrupted!Node(n) = Node(n)
    /\ \A n : Uninterrupted!Body(n) = Body(n)
    /\ \A r, n : Uninterrupted!Ready(r, n) <=> Ready(r, n)
    /\ \A r, n : Uninterrupted!BranchMismatch(r, n) <=> BranchMismatch(r, n)
    /\ \A r : Uninterrupted!Spent(r) = Spent(r)
    /\ \A r : Uninterrupted!Onward(r) = Onward(r)
    /\ \A n : Uninterrupted!Values(n) = Values(n)
    /\ \A r, b, n : Uninterrupted!Sees(r, b, n) = Sees(r, b, n)
    /\ \A r, b, n : Uninterrupted!ValueOf(r, b, n) = ValueOf(r, b, n)
    /\ \A c, b, n : Uninterrupted!Leaked(c, b, n) = Leaked(c, b, n)
    /\ \A c, b, S, v : Uninterrupted!Set(c, b, S, v) = Set(c, b, S, v)
    /\ \A r, n, s, k : Uninterrupted!Effect(r, n, s, k) = Effect(r, n, s, k)
    /\ \A r, n, s, k : Uninterrupted!Yields(r, n, s, k) = Yields(r, n, s, k)
    /\ \A r, b, n, g : Uninterrupted!Computed(r, b, n, g) = Computed(r, b, n, g)
    /\ \A r, b, n : Uninterrupted!ReadInput(r, b, n) = ReadInput(r, b, n)
    /\ \A r, b, n : Uninterrupted!Ran(r, b, n) = Ran(r, b, n)
    /\ \A r, n : Uninterrupted!Propagated(r, n) = Propagated(r, n)
    /\ \A r, n : Uninterrupted!Answered(r, n) = Answered(r, n)
    /\ \A n : Uninterrupted!Cases(n) = Cases(n)
    /\ \A r, n, c : Uninterrupted!Switched(r, n, c) = Switched(r, n, c)
    /\ \A r, n : Uninterrupted!Merged(r, n) = Merged(r, n)
    /\ \A r, n : Uninterrupted!LoopRange(r, n) = LoopRange(r, n)
    /\ \A r, n, i, k : Uninterrupted!Looping(r, n, i, k) = Looping(r, n, i, k)
    /\ \A r : Uninterrupted!TurnEnded(r) <=> TurnEnded(r)
    /\ \A r : Uninterrupted!Turned(r) = Turned(r)
    /\ \A r : Uninterrupted!BodyNode(r) = BodyNode(r)
    /\ \A r : Uninterrupted!NextInBody(r) = NextInBody(r)
    /\ \A r : Uninterrupted!EndTurn(r) = EndTurn(r)
    /\ \A r, n : Uninterrupted!Left(r, n) = Left(r, n)
    /\ \A r : Uninterrupted!Unread(r) = Unread(r)
    /\ \A r, got : Uninterrupted!Finished(r, got) = Finished(r, got)
    /\ \A n : Uninterrupted!BranchesOf(n) = BranchesOf(n)
    /\ \A n, b : Uninterrupted!Group(n, b) = Group(n, b)
    /\ \A r, n : Uninterrupted!Forked(r, n) = Forked(r, n)
    /\ \A r, n, mine : Uninterrupted!Thread(r, n, mine) = Thread(r, n, mine)
    /\ \A r : Uninterrupted!Ended(r) <=> Ended(r)
    /\ \A all : Uninterrupted!Joined(all) = Joined(all)
    /\ \A todo, ctx, enabled : Uninterrupted!Runner(todo, ctx, enabled) = Runner(todo, ctx, enabled)
    /\ \A p : Uninterrupted!Roots(p) = Roots(p)
<1>1. \A r : Uninterrupted!Here(r) = Here(r)
  BY DEF Here, Uninterrupted!Here
<1>2. \A n : Uninterrupted!Node(n) = Node(n)
  BY DEF Node, Uninterrupted!Node
<1>3. \A n : Uninterrupted!Body(n) = Body(n)
  BY DEF Body, Uninterrupted!Body
<1>4. \A r, n : Uninterrupted!Ready(r, n) <=> Ready(r, n)
  BY DEF Ready, Uninterrupted!Ready, BranchMismatch, Uninterrupted!BranchMismatch,
     Cardinality, Uninterrupted!Cardinality, Controls, Uninterrupted!Controls, Nodes,
     Uninterrupted!Nodes, DataPredMissing, Uninterrupted!DataPredMissing, DataInto,
     Uninterrupted!DataInto, Node, Uninterrupted!Node, Opposed, Uninterrupted!Opposed,
     Produced, Uninterrupted!Produced, Edge, Uninterrupted!Edge, InLoops,
     Uninterrupted!InLoops, IsBranchDead, Uninterrupted!IsBranchDead, Links,
     Uninterrupted!Links, InBody, Uninterrupted!InBody, Range, Uninterrupted!Range,
     Body, Uninterrupted!Body
<1>5. \A r, n : Uninterrupted!BranchMismatch(r, n) <=> BranchMismatch(r, n)
  BY DEF BranchMismatch, Uninterrupted!BranchMismatch, DataInto, Uninterrupted!DataInto,
     Node, Uninterrupted!Node, Opposed, Uninterrupted!Opposed, Produced,
     Uninterrupted!Produced, Links, Uninterrupted!Links, Edge, Uninterrupted!Edge
<1>6. \A r : Uninterrupted!Spent(r) = Spent(r)
  BY DEF Spent, Uninterrupted!Spent
<1>7. \A r : Uninterrupted!Onward(r) = Onward(r)
  BY DEF Onward, Uninterrupted!Onward
<1>8. \A n : Uninterrupted!Values(n) = Values(n)
  BY DEF Values, Uninterrupted!Values, Node, Uninterrupted!Node
<1>9. \A r, b, n : Uninterrupted!Sees(r, b, n) = Sees(r, b, n)
  BY DEF Sees, Uninterrupted!Sees, Get, Uninterrupted!Get, Node, Uninterrupted!Node,
     Unset, Uninterrupted!Unset
<1>10. \A r, b, n : Uninterrupted!ValueOf(r, b, n) = ValueOf(r, b, n)
  BY DEF ValueOf, Uninterrupted!ValueOf, Node, Uninterrupted!Node, Sees,
     Uninterrupted!Sees, Cardinality, Uninterrupted!Cardinality, Get, Uninterrupted!Get,
     Unset, Uninterrupted!Unset
<1>11. \A c, b, n : Uninterrupted!Leaked(c, b, n) = Leaked(c, b, n)
  BY DEF Leaked, Uninterrupted!Leaked, Set, Uninterrupted!Set, Node, Uninterrupted!Node,
     PutAll, Uninterrupted!PutAll, Put, Uninterrupted!Put, NoVars, Uninterrupted!NoVars,
     Unset, Uninterrupted!Unset
<1>12. \A c, b, S, v : Uninterrupted!Set(c, b, S, v) = Set(c, b, S, v)
  BY DEF Set, Uninterrupted!Set, PutAll, Uninterrupted!PutAll, Put, Uninterrupted!Put,
     NoVars, Uninterrupted!NoVars, Unset, Uninterrupted!Unset
<1>13. \A r, n, s, k : Uninterrupted!Effect(r, n, s, k) = Effect(r, n, s, k)
  BY DEF Effect, Uninterrupted!Effect, Node, Uninterrupted!Node
<1>14. \A r, n, s, k : Uninterrupted!Yields(r, n, s, k) = Yields(r, n, s, k)
  BY DEF Yields, Uninterrupted!Yields, Put, Uninterrupted!Put, Output,
     Uninterrupted!Output, PutAll, Uninterrupted!PutAll
<1>15. \A r, b, n, g : Uninterrupted!Computed(r, b, n, g) = Computed(r, b, n, g)
  BY <1>2, <1>9, <1>10, <1>11, <1>12, <1>13, <1>14 DEF Computed, Uninterrupted!Computed
<1>16. \A r, b, n : Uninterrupted!ReadInput(r, b, n) = ReadInput(r, b, n)
  BY <1>9, <1>15 DEF ReadInput, Uninterrupted!ReadInput, Unset, Uninterrupted!Unset
<1>17. \A r, b, n : Uninterrupted!Ran(r, b, n) = Ran(r, b, n)
  BY <1>2, <1>8, <1>15, <1>16 DEF Ran, Uninterrupted!Ran
<1>18. \A r, n : Uninterrupted!Propagated(r, n) = Propagated(r, n)
  BY DEF Propagated, Uninterrupted!Propagated, OutOf, Uninterrupted!OutOf, Opposed,
     Uninterrupted!Opposed, Cardinality, Uninterrupted!Cardinality, Controls,
     Uninterrupted!Controls, Links, Uninterrupted!Links, Node, Uninterrupted!Node,
     Produced, Uninterrupted!Produced, Edge, Uninterrupted!Edge
<1>19. \A r, n : Uninterrupted!Answered(r, n) = Answered(r, n)
  BY DEF Answered, Uninterrupted!Answered, Returned, Uninterrupted!Returned, Get,
     Uninterrupted!Get, Node, Uninterrupted!Node, Propagated, Uninterrupted!Propagated,
     Yields, Uninterrupted!Yields, Effect, Uninterrupted!Effect, Edge,
     Uninterrupted!Edge, Produced, Uninterrupted!Produced, Largest,
     Uninterrupted!Largest, Unset, Uninterrupted!Unset, OutOf, Uninterrupted!OutOf,
     Opposed, Uninterrupted!Opposed, Cardinality, Uninterrupted!Cardinality, Controls,
     Uninterrupted!Controls, Put, Uninterrupted!Put, Output, Uninterrupted!Output,
     Links, Uninterrupted!Links, PutAll, Uninterrupted!PutAll
<1>20. \A n : Uninterrupted!Cases(n) = Cases(n)
  BY DEF Cases, Uninterrupted!Cases, OutOf, Uninterrupted!OutOf, Links,
     Uninterrupted!Links, Edge, Uninterrupted!Edge
<1>21. \A r, n, c : Uninterrupted!Switched(r, n, c) = Switched(r, n, c)
  BY DEF Switched, Uninterrupted!Switched, Edge, Uninterrupted!Edge, Cardinality,
     Uninterrupted!Cardinality, Sees, Uninterrupted!Sees, Node, Uninterrupted!Node,
     Effect, Uninterrupted!Effect, Yields, Uninterrupted!Yields, Get, Uninterrupted!Get,
     Put, Uninterrupted!Put, Output, Uninterrupted!Output, Unset, Uninterrupted!Unset,
     PutAll, Uninterrupted!PutAll
<1>22. \A r, n : Uninterrupted!Merged(r, n) = Merged(r, n)
  BY DEF Merged, Uninterrupted!Merged, MergeBranches, Uninterrupted!MergeBranches,
     Propagated, Uninterrupted!Propagated, Yields, Uninterrupted!Yields, Largest,
     Uninterrupted!Largest, NoVars, Uninterrupted!NoVars, OutOf, Uninterrupted!OutOf,
     Opposed, Uninterrupted!Opposed, Cardinality, Uninterrupted!Cardinality, Controls,
     Uninterrupted!Controls, Put, Uninterrupted!Put, Output, Uninterrupted!Output,
     Unset, Uninterrupted!Unset, Links, Uninterrupted!Links, Node, Uninterrupted!Node,
     Produced, Uninterrupted!Produced, Edge, Uninterrupted!Edge, PutAll,
     Uninterrupted!PutAll
<1>23. \A r, n : Uninterrupted!LoopRange(r, n) = LoopRange(r, n)
  BY DEF LoopRange, Uninterrupted!LoopRange, Edge, Uninterrupted!Edge, Produced,
     Uninterrupted!Produced, Node, Uninterrupted!Node, Output, Uninterrupted!Output,
     Unset, Uninterrupted!Unset, Smallest, Uninterrupted!Smallest
<1>24. \A r, n, i, k : Uninterrupted!Looping(r, n, i, k) = Looping(r, n, i, k)
  BY DEF Looping, Uninterrupted!Looping, InBody, Uninterrupted!InBody, Bound,
     Uninterrupted!Bound, Range, Uninterrupted!Range, Body, Uninterrupted!Body, OutOf,
     Uninterrupted!OutOf, LoopRange, Uninterrupted!LoopRange, Links,
     Uninterrupted!Links, Edge, Uninterrupted!Edge, Produced, Uninterrupted!Produced,
     Node, Uninterrupted!Node, Output, Uninterrupted!Output, Unset, Uninterrupted!Unset,
     Smallest, Uninterrupted!Smallest
<1>25. \A r : Uninterrupted!TurnEnded(r) <=> TurnEnded(r)
  BY DEF TurnEnded, Uninterrupted!TurnEnded, Body, Uninterrupted!Body
<1>26. \A r : Uninterrupted!Turned(r) = Turned(r)
  BY DEF Turned, Uninterrupted!Turned, SetTarget, Uninterrupted!SetTarget, Set,
     Uninterrupted!Set, Node, Uninterrupted!Node, PutAll, Uninterrupted!PutAll, Put,
     Uninterrupted!Put, NoVars, Uninterrupted!NoVars, Unset, Uninterrupted!Unset
<1>27. \A r : Uninterrupted!BodyNode(r) = BodyNode(r)
  BY DEF BodyNode, Uninterrupted!BodyNode, Body, Uninterrupted!Body
<1>28. \A r : Uninterrupted!NextInBody(r) = NextInBody(r)
  BY DEF NextInBody, Uninterrupted!NextInBody
<1>29. \A r : Uninterrupted!EndTurn(r) = EndTurn(r)
  BY DEF EndTurn, Uninterrupted!EndTurn, Body, Uninterrupted!Body
<1>30. \A r, n : Uninterrupted!Left(r, n) = Left(r, n)
  BY DEF Left, Uninterrupted!Left, Returned, Uninterrupted!Returned, Unset,
     Uninterrupted!Unset, EndLoop, Uninterrupted!EndLoop, Node, Uninterrupted!Node,
     Yields, Uninterrupted!Yields, Effect, Uninterrupted!Effect, Edge,
     Uninterrupted!Edge, Produced, Uninterrupted!Produced, Largest,
     Uninterrupted!Largest, EndTurn, Uninterrupted!EndTurn, Put, Uninterrupted!Put,
     Output, Uninterrupted!Output, Body, Uninterrupted!Body, PutAll,
     Uninterrupted!PutAll
<1>31. \A r : Uninterrupted!Unread(r) = Unread(r)
  BY DEF Unread, Uninterrupted!Unread, InBody, Uninterrupted!InBody, Node,
     Uninterrupted!Node, Produced, Uninterrupted!Produced, Range, Uninterrupted!Range,
     Body, Uninterrupted!Body, Get, Uninterrupted!Get, Unset, Uninterrupted!Unset
<1>32. \A r, got : Uninterrupted!Finished(r, got) = Finished(r, got)
  BY DEF Finished, Uninterrupted!Finished, Nodes, Uninterrupted!Nodes, DataInto,
     Uninterrupted!DataInto, InBody, Uninterrupted!InBody, OutOf, Uninterrupted!OutOf,
     Unread, Uninterrupted!Unread, Output, Uninterrupted!Output, Unset,
     Uninterrupted!Unset, ValueOf, Uninterrupted!ValueOf, Node, Uninterrupted!Node,
     Propagated, Uninterrupted!Propagated, Links, Uninterrupted!Links, Range,
     Uninterrupted!Range, Body, Uninterrupted!Body, Produced, Uninterrupted!Produced,
     Sees, Uninterrupted!Sees, Cardinality, Uninterrupted!Cardinality, Opposed,
     Uninterrupted!Opposed, Controls, Uninterrupted!Controls, Edge, Uninterrupted!Edge,
     Get, Uninterrupted!Get
<1>33. \A n : Uninterrupted!BranchesOf(n) = BranchesOf(n)
  BY DEF BranchesOf, Uninterrupted!BranchesOf
<1>34. \A n, b : Uninterrupted!Group(n, b) = Group(n, b)
  BY DEF Group, Uninterrupted!Group
<1>35. \A r, n : Uninterrupted!Forked(r, n) = Forked(r, n)
  BY DEF Forked, Uninterrupted!Forked, Yields, Uninterrupted!Yields, Unset,
     Uninterrupted!Unset, EnterParallel, Uninterrupted!EnterParallel, Children,
     Uninterrupted!Children, Range, Uninterrupted!Range, Group, Uninterrupted!Group,
     BranchesOf, Uninterrupted!BranchesOf, Put, Uninterrupted!Put, Output,
     Uninterrupted!Output, NoVars, Uninterrupted!NoVars, OutOf, Uninterrupted!OutOf,
     PutAll, Uninterrupted!PutAll, Links, Uninterrupted!Links, Edge, Uninterrupted!Edge
<1>36. \A r, n, mine : Uninterrupted!Thread(r, n, mine) = Thread(r, n, mine)
  BY DEF Thread, Uninterrupted!Thread, Range, Uninterrupted!Range, Children,
     Uninterrupted!Children, OutOf, Uninterrupted!OutOf, Links, Uninterrupted!Links,
     Edge, Uninterrupted!Edge
<1>37. \A r : Uninterrupted!Ended(r) <=> Ended(r)
  BY DEF Ended, Uninterrupted!Ended
<1>38. \A all : Uninterrupted!Joined(all) = Joined(all)
  BY DEF Joined, Uninterrupted!Joined, Produced, Uninterrupted!Produced, Cardinality,
     Uninterrupted!Cardinality, JoinedTrace, Uninterrupted!JoinedTrace, Smallest,
     Uninterrupted!Smallest, Nodes, Uninterrupted!Nodes, Largest, Uninterrupted!Largest
<1>39. \A todo, ctx, enabled : Uninterrupted!Runner(todo, ctx, enabled) = Runner(todo, ctx, enabled)
  BY DEF Runner, Uninterrupted!Runner, NoVars, Uninterrupted!NoVars, Nodes,
     Uninterrupted!Nodes, Unset, Uninterrupted!Unset
<1>40. \A p : Uninterrupted!Roots(p) = Roots(p)
  BY DEF Roots, Uninterrupted!Roots
<1>. QED
  BY <1>1, <1>2, <1>3, <1>4, <1>5, <1>6, <1>7, <1>8, <1>9, <1>10, <1>11, <1>12, <1>13,
     <1>14, <1>15, <1>16, <1>17, <1>18, <1>19, <1>20, <1>21, <1>22, <1>23, <1>24, <1>25,
     <1>26, <1>27, <1>28, <1>29, <1>30, <1>31, <1>32, <1>33, <1>34, <1>35, <1>36, <1>37,
     <1>38, <1>39, <1>40, Zenon

\* The steps of a run without a pause are steps of the run as it is seen through
\* its checkpoint, while nothing is saved.
LEMMA SameSteps ==
  ASSUME Runners = runs, Runners' = runs', NEW w, Step(w)
  PROVE  Uninterrupted!Step(w)
<1>1. Works(w) => Uninterrupted!Works(w)
  BY DEF Works, Uninterrupted!Works
<1>2. \A r : Becomes(w, r) => Uninterrupted!Becomes(w, r)
  BY DEF Becomes, Uninterrupted!Becomes
<1>3. AtNode(w) => Uninterrupted!AtNode(w)
  BY <1>1 DEF AtNode, Uninterrupted!AtNode
<1>4. \A op : Starts(w, op) => Uninterrupted!Starts(w, op)
  BY <1>3, SameOperators DEF Starts, Uninterrupted!Starts
<1>5. InLoop(w) => Uninterrupted!InLoop(w)
  BY <1>1 DEF InLoop, Uninterrupted!InLoop
<1>6. AtBody(w) => Uninterrupted!AtBody(w)
  BY <1>5, SameOperators DEF AtBody, Uninterrupted!AtBody
<1>7. \A op : StartsInBody(w, op) => Uninterrupted!StartsInBody(w, op)
  BY <1>6, SameOperators DEF StartsInBody, Uninterrupted!StartsInBody
<1>8. Pass(w) => Uninterrupted!Pass(w)
  BY <1>2, <1>3, SameOperators DEF Pass, Uninterrupted!Pass
<1>9. Execute(w) => Uninterrupted!Execute(w)
  BY <1>2, <1>4, SameOperators DEF Execute, Uninterrupted!Execute
<1>10. Act(w) => Uninterrupted!Act(w)
  BY <1>2, <1>4, SameOperators DEF Act, Uninterrupted!Act
<1>11. Switch(w) => Uninterrupted!Switch(w)
  BY <1>2, <1>4, SameOperators DEF Switch, Uninterrupted!Switch
<1>12. Merge(w) => Uninterrupted!Merge(w)
  BY <1>2, <1>4, SameOperators DEF Merge, Uninterrupted!Merge
<1>13. Enter(w) => Uninterrupted!Enter(w)
  BY <1>2, <1>4, SameOperators DEF Enter, Uninterrupted!Enter
<1>14. Turn(w) => Uninterrupted!Turn(w)
  BY <1>2, <1>5, SameOperators DEF Turn, Uninterrupted!Turn
<1>15. PassInBody(w) => Uninterrupted!PassInBody(w)
  BY <1>2, <1>6, SameOperators DEF PassInBody, Uninterrupted!PassInBody
<1>16. ExecuteInBody(w) => Uninterrupted!ExecuteInBody(w)
  BY <1>2, <1>7, SameOperators DEF ExecuteInBody, Uninterrupted!ExecuteInBody
<1>17. Leave(w) => Uninterrupted!Leave(w)
  BY <1>2, <1>7, SameOperators DEF Leave, Uninterrupted!Leave
<1>18. Continue(w) => Uninterrupted!Continue(w)
  BY <1>2, <1>7, SameOperators DEF Continue, Uninterrupted!Continue
<1>19. Ignore(w) => Uninterrupted!Ignore(w)
  BY <1>2, <1>7, SameOperators DEF Ignore, Uninterrupted!Ignore, Unset, Uninterrupted!Unset
<1>20. Finish(w) => Uninterrupted!Finish(w)
  BY <1>2, <1>5, SameOperators DEF Finish, Uninterrupted!Finish
<1>21. Fork(w) => Uninterrupted!Fork(w)
  BY <1>2, <1>4, SameOperators DEF Fork, Uninterrupted!Fork
<1>22. Fail(w) => Uninterrupted!Fail(w)
  BY <1>3, <1>6, SameOperators DEF Fail, Uninterrupted!Fail, Running, Uninterrupted!Running
<1>. QED
  BY <1>8, <1>9, <1>10, <1>11, <1>12, <1>13, <1>14, <1>15, <1>16, <1>17, <1>18, <1>19, <1>20, <1>21, <1>22, Zenon
     DEF Step, Uninterrupted!Step

\* So is every step: of the join and of the end of the run, too.
LEMMA SameNext ==
  ASSUME Runners = runs, Runners' = runs', Next
  PROVE  Uninterrupted!Next
<1>1. (\E w \in DOMAIN runs : Step(w)) => \E w \in DOMAIN Runners : Uninterrupted!Step(w)
  BY SameSteps
<1>2. Join => Uninterrupted!Join
  BY SameOperators DEF Join, Uninterrupted!Join
<1>3. Complete => Uninterrupted!Complete
  BY SameOperators DEF Complete, Uninterrupted!Complete, Works, Uninterrupted!Works
<1>. QED
  BY <1>1, <1>2, <1>3 DEF Next, Uninterrupted!Next

\* A run begins as a run without a pause does.
LEMMA SameInit ==
  ASSUME InitPaused
  PROVE  Uninterrupted!Init
<1>1. Uninterrupted!PreparedPlans = PreparedPlans
  <2>1. \A p, n : /\ Uninterrupted!OutEdges(p, n) = OutEdges(p, n)
                  /\ Uninterrupted!Successors(p, n) = Successors(p, n)
    BY DEF OutEdges, Uninterrupted!OutEdges, Successors, Uninterrupted!Successors
  <2>2. \A p, S : Uninterrupted!Reachable(p, S) = Reachable(p, S)
    BY DEF Reachable, Uninterrupted!Reachable, Visited, Uninterrupted!Visited,
       OutEdges, Uninterrupted!OutEdges, Successors, Uninterrupted!Successors
  <2>3. \A s, S : Uninterrupted!InOrder(s, S) = InOrder(s, S)
    BY DEF InOrder, Uninterrupted!InOrder, Picked, Uninterrupted!Picked
  <2>4. \A p : Uninterrupted!TopologicalOrder(p) = TopologicalOrder(p)
    <3>1. \A p : Uninterrupted!Roots(p) = Roots(p)
      BY DEF Roots, Uninterrupted!Roots
    <3>2. \A S : Uninterrupted!Cardinality(S) = Cardinality(S)
      BY DEF Cardinality, Uninterrupted!Cardinality
    <3>3. \A p : Uninterrupted!Start(p) = Start(p)
      BY <2>3, <3>1, <3>2 DEF Start, Uninterrupted!Start
    <3>4. ASSUME NEW p, NEW s PROVE Uninterrupted!Pop(p, s) = Pop(p, s)
      <4> DEFINE n      == s.ready[Len(s.ready)]
                 degree == [t \in DOMAIN p.nodes |-> s.degree[t] - Cardinality(EdgesOf(p, n, t))]
                 other  == [t \in DOMAIN p.nodes |->
                               s.degree[t] - Uninterrupted!Cardinality(Uninterrupted!EdgesOf(p, n, t))]
                 indices == [i \in DOMAIN p.edges |-> i]
      <4>1. \A t : Uninterrupted!EdgesOf(p, n, t) = EdgesOf(p, n, t)
        BY DEF EdgesOf, Uninterrupted!EdgesOf
      <4>2. other = degree
        BY <3>2, <4>1
      <4>3. Uninterrupted!Freeing(p, n, degree) = Freeing(p, n, degree)
        BY <4>1 DEF Freeing, Uninterrupted!Freeing
      <4>4. Uninterrupted!InOrder(indices, Uninterrupted!Freeing(p, n, other))
              = InOrder(indices, Freeing(p, n, degree))
        <5> HIDE DEF indices, degree, other
        <5> QED BY <2>3, <4>2, <4>3
      <4> QED
        BY <4>2, <4>4 DEF Pop, Uninterrupted!Pop
    <3>5. \A p : Uninterrupted!Kahn(p) = Kahn(p)
      BY <3>3, <3>4 DEF Kahn, Uninterrupted!Kahn
    <3>. QED
      BY <3>5 DEF TopologicalOrder, Uninterrupted!TopologicalOrder
  <2>5. \A p, l : Uninterrupted!LoopBody(p, l) = LoopBody(p, l)
    BY <2>2 DEF LoopBody, Uninterrupted!LoopBody, Entries, Uninterrupted!Entries,
       OutEdges, Uninterrupted!OutEdges
  <2>6. \A p, n : Uninterrupted!Region(p, n) = Region(p, n)
    BY <2>1, <2>2 DEF Region, Uninterrupted!Region
  <2>7. ASSUME NEW i, NEW p PROVE Uninterrupted!Prepared(i, p) = Prepared(i, p)
    <3> DEFINE order  == TopologicalOrder(p)
               other  == Uninterrupted!TopologicalOrder(p)
               ops(o) == {n \in DOMAIN p.nodes : p.nodes[n].op = o}
               labels(S) == {p.nodes[m].branch : m \in S} \ {None}
               on(S, b)  == {m \in S : p.nodes[m].branch = b}
               bodies == [l \in ops("Loop") |-> InOrder(order, LoopBody(p, l))]
               loops  == [l \in ops("Loop") |->
                             Uninterrupted!InOrder(other, Uninterrupted!LoopBody(p, l))]
               group(n) == [b \in labels(Region(p, n)) |-> InOrder(order, on(Region(p, n), b))]
               forks(n) == [b \in labels(Uninterrupted!Region(p, n)) |->
                               Uninterrupted!InOrder(other, on(Uninterrupted!Region(p, n), b))]
               groups == [n \in ops("Parallel") |-> group(n)]
               forked == [n \in ops("Parallel") |-> forks(n)]
    <3>1. other = order
      BY <2>4
    <3>2. loops = bodies
      BY <2>3, <2>5, <3>1
    <3>3. ASSUME NEW n PROVE forks(n) = group(n)
      <4>1. Uninterrupted!Region(p, n) = Region(p, n)
        BY <2>6
      <4> HIDE DEF labels, on, order, other
      <4> QED BY <2>3, <3>1, <4>1
    <3>4. forked = groups
      <4> HIDE DEF ops, group, forks
      <4> QED BY <3>3
    <3>5. Prepared(i, p) = [id |-> i, nodes |-> p.nodes, edges |-> p.edges, order |-> order,
                            bodies |-> bodies, groups |-> groups]
      BY Zenon DEF Prepared
    <3>6. Uninterrupted!Prepared(i, p)
            = [id |-> i, nodes |-> p.nodes, edges |-> p.edges, order |-> other,
               bodies |-> loops, groups |-> forked]
      BY Zenon DEF Uninterrupted!Prepared
    <3> HIDE DEF order, other, bodies, loops, groups, forked
    <3> QED BY <3>1, <3>2, <3>4, <3>5, <3>6
  <2>. QED
    BY <2>7 DEF PreparedPlans, Uninterrupted!PreparedPlans
<1>2. Runners = runs
  BY DEF InitPaused, Runners
<1>. QED
  BY <1>1, <1>2, SameOperators DEF InitPaused, Init, Uninterrupted!Init, Given,
     Uninterrupted!Given, NoVars, Uninterrupted!NoVars, Unset, Uninterrupted!Unset

\* The run that is seen through the checkpoint is the run.
LEMMA RunnersAreRuns == PausedInv => Runners = runs
<1>. SUFFICES ASSUME PausedInv, saved # None PROVE Runners = runs
  BY DEF Runners
<1>1. DOMAIN runs = {None} /\ Restored(saved) = runs[None] /\ runs = [w \in DOMAIN runs |-> runs[w]]
  BY DEF PausedInv, RunInv, SavedInv
<1>. QED
  BY <1>1 DEF Runners

\* Going on, with a pause or without one, is a step of a run without a pause, and
\* resume is none: it goes on with what was paused.
LEMMA SameRun ==
  ASSUME BodiesKeepTheirVariable, PausedInv, [NextPaused]_allVars,
         Runners = runs, Runners' = runs'
  PROVE  [Uninterrupted!Next]_(Uninterrupted!vars)
<1>1. CASE GoOn \/ Pause
  BY <1>1, SameNext DEF GoOn, Pause
<1>2. CASE Resume
  <2>1. runs' = [w \in {None} |-> runs[None]]
    BY <1>2, ResumedOrderly DEF Resume
  <2>2. runs' = runs
    BY <1>2, <2>1 DEF PausedInv, RunInv, SavedInv, Resume
  <2>. QED
    BY <1>2, <2>2 DEF Resume, Uninterrupted!vars
<1>3. CASE UNCHANGED allVars
  BY <1>3 DEF allVars, Uninterrupted!vars
<1>. QED
  BY <1>1, <1>2, <1>3 DEF NextPaused

\* What is picked of an order that follows the edges follows them.
LEMMA PickedFollows ==
    ASSUME NEW p, NEW o \in Seq(DOMAIN p.nodes), Distinct(o), Ordered(p, o), NEW S,
           NEW e \in DOMAIN p.edges, NEW i \in DOMAIN InOrder(o, S), NEW j \in DOMAIN InOrder(o, S),
           InOrder(o, S)[i] = p.edges[e].from, InOrder(o, S)[j] = p.edges[e].to
    PROVE  i < j
<1> DEFINE q == InOrder(o, S)
<1>1. q \in Seq(DOMAIN p.nodes \cap S) /\ Range(q) = Range(o) \cap S
  BY InOrderIs
<1>2. \A k, l \in DOMAIN q : k < l => \E a, b \in DOMAIN o : a < b /\ o[a] = q[k] /\ o[b] = q[l]
  BY InOrderKeepsOrder
<1>3. q[i] = p.edges[e].from /\ q[j] = p.edges[e].to /\ i \in DOMAIN q /\ j \in DOMAIN q
  OBVIOUS
<1> HIDE DEF q
<1>4. i \in Nat /\ j \in Nat /\ DOMAIN o \subseteq Nat
  BY <1>1, <1>3
<1>5. PICK b \in DOMAIN o : o[b] = q[j]
  BY <1>1, <1>3 DEF Range
<1>6. PICK a \in DOMAIN o : a < b /\ o[a] = q[i]
  BY <1>3, <1>5 DEF Ordered
<1>7. i # j
  BY <1>4, <1>5, <1>6 DEF Distinct
<1>8. ASSUME j < i PROVE FALSE
  <2> PICK c \in DOMAIN o, d \in DOMAIN o : c < d /\ o[c] = q[j] /\ o[d] = q[i]
    BY <1>2, <1>3, <1>8
  <2>1. c = b /\ d = a BY <1>5, <1>6 DEF Distinct
  <2> QED BY <1>4, <1>6, <2>1
<1> QED BY <1>4, <1>7, <1>8

\* Whatever the plan: PlanInOrder.
THEOREM PlansAreOrdered == SpecPaused => []PlanInOrder
<1>1. ASSUME plan \in PreparedPlans PROVE PlanInOrder
  <2> DEFINE o == plan.order
             lists == {o} \cup {Body(l) : l \in DOMAIN plan.bodies}
                      \cup UNION {{plan.groups[n][b] : b \in DOMAIN plan.groups[n]} : n \in DOMAIN plan.groups}
  <2> PICK i \in DOMAIN Plans : plan = Prepared(i, Plans[i])
    BY <1>1 DEF PreparedPlans
  <2> DEFINE g == Plans[i]
  <2>1. /\ o \in Seq(Nodes) /\ Distinct(o) /\ Ordered(plan, o) /\ Range(o) = Nodes
        /\ \A l \in DOMAIN plan.bodies : \A j \in DOMAIN plan.edges :
               plan.edges[j].to = l => plan.edges[j].from \notin Range(plan.bodies[l])
    BY <1>1, PlansArePrepared DEF Nodes
  <2>2. Len(o) = Cardinality(Nodes)
    <3>1. Graph(g) /\ plan.nodes = g.nodes BY PlansAssumption DEF Prepared
    <3>2. Len(o) = Len(plan.nodes) BY <1>1 DEF PreparedPlans
    <3> HIDE DEF g
    <3> QED BY <3>1, <3>2, GraphFacts DEF Nodes
  <2>3. /\ \A l \in DOMAIN plan.bodies : \E S : Body(l) = InOrder(o, S)
        /\ \A n \in DOMAIN plan.groups : \A b \in DOMAIN plan.groups[n] :
               \E S : plan.groups[n][b] = InOrder(o, S)
    BY DEF Prepared, Body
  <2>4. ASSUME NEW q, q = o \/ \E S : q = InOrder(o, S), NEW e \in DOMAIN plan.edges,
               NEW a \in DOMAIN q, NEW b \in DOMAIN q, q[a] = plan.edges[e].from, q[b] = plan.edges[e].to
        PROVE  a < b
    <3> HIDE DEF o
    <3>1. CASE q = o
      <4>1. PICK c \in DOMAIN o : c < b /\ o[c] = plan.edges[e].from
        BY <2>1, <2>4, <3>1 DEF Ordered
      <4>2. c = a BY <2>1, <2>4, <3>1, <4>1 DEF Distinct
      <4> QED BY <4>1, <4>2
    <3>2. ASSUME NEW S, q = InOrder(o, S) PROVE a < b
      BY <2>1, <2>4, <3>2, PickedFollows DEF Nodes
    <3> QED BY <2>4, <3>1, <3>2
  <2>5. \A q \in lists : q = o \/ \E S : q = InOrder(o, S)
    <3> HIDE DEF o
    <3> QED BY <2>3
  <2>6. \A x \in Links, q \in lists : \A a, b \in DOMAIN q : q[a] = x.from /\ q[b] = x.to => a < b
    <3> HIDE DEF lists, o
    <3> QED BY <2>4, <2>5 DEF Links, Edge
  <2>7. \A x \in Links : x.to \in DOMAIN plan.bodies => x.from \notin InBody(x.to)
    BY <2>1 DEF Links, Edge, InBody, Body
  <2> QED BY <2>1, <2>2, <2>6, <2>7 DEF PlanInOrder
<1>2. PausedInv => PlanInOrder
  BY <1>1 DEF PausedInv, RunInv
<1> QED BY <1>2, PausedInvariant, PTL

\* A run that is paused and resumed, wherever and however often, is a run without a
\* pause, of plans in which no node in a loop's body writes the loop's variable:
\* PauseTransparent.
THEOREM PauseIsTransparent ==
  ASSUME BodiesKeepTheirVariable
  PROVE  SpecPaused => PauseTransparent
<1>1. InitPaused => Uninterrupted!Init
  BY SameInit
<1>2. PausedInv' => (Runners = runs)'
  BY RunnersAreRuns, PTL
<1>3. PausedInv /\ PausedInv' /\ [NextPaused]_allVars => [Uninterrupted!Next]_(Uninterrupted!vars)
  BY <1>2, RunnersAreRuns, SameRun
<1>. QED
  BY <1>1, <1>3, PausedInvariant, PTL DEF SpecPaused, PauseTransparent, Uninterrupted!Safe
=============================================================================
