----------------------------- MODULE HttpProofs -----------------------------
(***************************************************************************)
(* Theorems about what clover2_http and its plugins keep between requests. *)
(* Router: for any patterns, paths and middleware. RateLimiter: for any    *)
(* rate and sizes. HttpSession: for any number of connections, requests    *)
(* and errors of the listener. NodeRegistry: for any nodes, requests,      *)
(* restarts and transitions. WsSession: for any number of messages and any *)
(* idle time.                                                              *)
(***************************************************************************)
EXTENDS HttpSession, Router, NodeRegistry, RateLimiter, WsSession, TLAPS, FiniteSetTheorems,
        SequenceTheorems, WellFoundedInduction

-----------------------------------------------------------------------------
(* Numbers.                                                                *)

LEMMA LeastNumber ==
    ASSUME NEW T, T \subseteq Nat, T # {}
    PROVE  \E n \in T : \A m \in T : n <= m
<1> DEFINE Below == OpToRel(<, Nat)
<1>1. IsWellFoundedOn(Below, Nat)
  BY NatLessThanWellFounded
<1>2. PICK n \in T : \A m \in T : <<m, n>> \notin Below
  BY <1>1, WFMin
<1>3. \A m \in T : ~(m < n)
  BY <1>2 DEF OpToRel
<1>4. QED
  BY <1>3

\* A set of numbers up to n that has 0 and with each number the next has all.
LEMMA CountUp ==
    ASSUME NEW n \in Nat, NEW T, 0 \in T, \A k \in 0 .. n : k < n /\ k \in T => k + 1 \in T
    PROVE  \A k \in 0 .. n : k \in T
<1> DEFINE Out == {k \in 0 .. n : k \notin T}
<1>1. SUFFICES ASSUME Out # {} PROVE FALSE
  OBVIOUS
<1>2. Out \subseteq Nat
  OBVIOUS
<1> HIDE DEF Out
<1>3. PICK m \in Out : \A k \in Out : m <= k
  BY <1>1, <1>2, LeastNumber
<1>4. m \in 0 .. n /\ m \notin T
  BY <1>3 DEF Out
<1>5. m # 0 /\ m - 1 \in 0 .. n /\ m - 1 < n /\ (m - 1) + 1 = m
  BY <1>4
<1>6. m - 1 \notin Out
  BY <1>3, <1>5
<1>7. m - 1 \in T
  BY <1>5, <1>6 DEF Out
<1>8. QED BY <1>4, <1>5, <1>7

\* A set of numbers with a bound has a greatest.
LEMMA GreatestNumber ==
    ASSUME NEW n \in Nat, NEW T, T \subseteq 1 .. n, T # {}
    PROVE  \E m \in T : \A k \in T : k <= m
<1> DEFINE D == {n - k : k \in T}
<1>1. D \subseteq Nat /\ D # {}
  <2>1. \A k \in T : n - k \in Nat
    OBVIOUS
  <2>2. \A k \in T : n - k \in D
    OBVIOUS
  <2>3. D \subseteq Nat
    BY <2>1
  <2> HIDE DEF D
  <2>4. QED BY <2>2, <2>3
<1>2. PICK d \in D : \A e \in D : d <= e
  <2> HIDE DEF D
  <2>1. QED BY <1>1, LeastNumber
<1>3. PICK m \in T : d = n - m
  BY <1>2
<1>4. \A k \in T : n - k \in D
  OBVIOUS
<1>5. \A k \in T : k <= m
  BY <1>2, <1>3, <1>4
<1>6. QED BY <1>5

-----------------------------------------------------------------------------
(* Router: patterns and tries.                                             *)

Token == [kind : {"static", "param", "all", "bad"}, name : STRING]
EdgeSet == [kind : {"static", "param", "all"}, name : STRING \cup {""}]

LEMMA EdgeIs ==
    ASSUME NEW t \in Token
    PROVE  /\ Edge(t) \in EdgeSet
           /\ t.kind \in {"param", "all"} => Edge(t) = Wild(t.kind)
           /\ t.kind \notin {"param", "all"} => Edge(t) = Static(t.name)
<1>1. t.kind \in {"static", "param", "all", "bad"} /\ t.name \in STRING
  BY DEF Token
<1>3. CASE t.kind \in {"param", "all"}
  <2>1. Edge(t) = Wild(t.kind)
    BY <1>3 DEF Edge
  <2>2. Wild(t.kind) \in EdgeSet
    BY <1>3 DEF Wild, EdgeSet
  <2>3. QED BY <1>3, <2>1, <2>2
<1>4. CASE t.kind \notin {"param", "all"}
  <2>1. Edge(t) = Static(t.name)
    BY <1>4 DEF Edge
  <2>2. Static(t.name) \in EdgeSet
    BY <1>1 DEF Static, EdgeSet
  <2>3. QED BY <1>4, <2>1, <2>2
<1>5. QED BY <1>3, <1>4

LEMMA EdgesDiffer ==
    ASSUME NEW n, NEW m
    PROVE  /\ Static(n).kind = "static" /\ Static(n).name = n
           /\ Wild("param").kind = "param" /\ Wild("all").kind = "all"
           /\ Static(n) # Wild("param") /\ Static(n) # Wild("all") /\ Wild("param") # Wild("all")
BY DEF Static, Wild

LEMMA WayIs ==
    ASSUME NEW p \in Seq(Token), NEW i \in 0 .. Len(p)
    PROVE  /\ Way(p, i) \in Seq(EdgeSet) /\ Len(Way(p, i)) = i
           /\ \A j \in 1 .. i : Way(p, i)[j] = Edge(p[j])
<1>1. \A j \in 1 .. i : Edge(p[j]) \in EdgeSet
  BY EdgeIs
<1>2. QED BY <1>1 DEF Way

LEMMA WayNext ==
    ASSUME NEW p \in Seq(Token), NEW i \in 1 .. Len(p)
    PROVE  Append(Way(p, i - 1), Edge(p[i])) = Way(p, i)
<1>1. i - 1 \in 0 .. Len(p) /\ (i - 1) + 1 = i
  OBVIOUS
<1>2. Way(p, i - 1) \in Seq(EdgeSet) /\ Len(Way(p, i - 1)) = i - 1
  BY <1>1, WayIs
<1>3. Edge(p[i]) \in EdgeSet
  BY EdgeIs
<1>4. QED BY <1>1, <1>2, <1>3 DEF Way

LEMMA WayEmpty == ASSUME NEW p PROVE Way(p, 0) = <<>>
BY DEF Way

\* What a token must be to get through insert().
Takes(trie, pattern, i) ==
    /\ pattern[i].kind # "bad"
    /\ pattern[i].kind = "all" => i = Len(pattern)
    /\ pattern[i].kind \in {"param", "all"} => ~Conflicts(trie, Way(pattern, i), pattern[i].name)

LEMMA AcceptedIs ==
    ASSUME NEW trie, NEW p \in Seq(Token)
    PROVE  Accepted(trie, p) \in 0 .. Len(p) /\ \A i \in 1 .. Accepted(trie, p) : Takes(trie, p, i)
<1> DEFINE Halts == {k \in 0 .. Len(p) : k < Len(p) => ~Takes(trie, p, k + 1)}
<1>1. Halts \subseteq Nat /\ Len(p) \in Halts
  OBVIOUS
<1>2. PICK n \in Halts : \A m \in Halts : n <= m
  <2> HIDE DEF Halts
  <2>1. QED BY <1>1, LeastNumber
<1>3. n \in 0 .. Len(p) /\ (n < Len(p) => ~Takes(trie, p, n + 1))
  BY <1>2
<1>4. ASSUME NEW i \in 1 .. n PROVE Takes(trie, p, i)
  <2>1. i - 1 \in 0 .. Len(p) /\ i - 1 < n /\ (i - 1) + 1 = i
    BY <1>3
  <2>2. i - 1 \notin Halts
    <3>1. ~(n <= i - 1)
      BY <1>3, <2>1
    <3> HIDE DEF Halts
    <3>2. QED BY <1>2, <3>1
  <2>3. QED BY <2>1, <2>2
<1>5. \E k \in 0 .. Len(p) : (\A i \in 1 .. k : Takes(trie, p, i)) /\ (k < Len(p) => ~Takes(trie, p, k + 1))
  BY <1>3, <1>4
<1>6. Accepted(trie, p) = CHOOSE k \in 0 .. Len(p) :
          (\A i \in 1 .. k : Takes(trie, p, i)) /\ (k < Len(p) => ~Takes(trie, p, k + 1))
  BY DEF Accepted, Takes
<1>7. QED BY <1>5, <1>6

\* Nodes that stand for any segment have a name.
TrieOK(t) ==
    /\ t \in [nodes : {t.nodes}, name : {t.name}, handler : {t.handler}]
    /\ DOMAIN t.name \subseteq t.nodes
    /\ \A n \in t.nodes : n # <<>> /\ n[Len(n)].kind \in {"param", "all"} => n \in DOMAIN t.name

LEMMA EmptyOK == TrieOK(EmptyTrie)
BY DEF TrieOK, EmptyTrie

LEMMA GrownIs ==
    ASSUME NEW t, TrieOK(t), NEW p \in Seq(Token)
    PROVE  LET g == Grown(t, p) IN
           /\ TrieOK(g) /\ g.handler = t.handler
           /\ g.nodes = t.nodes \cup {Way(p, i) : i \in 0 .. Accepted(t, p)}
           /\ \A n \in DOMAIN t.name : n \in DOMAIN g.name /\ g.name[n] = t.name[n]
           /\ \A i \in 1 .. Accepted(t, p) : p[i].kind \in {"param", "all"} => g.name[Way(p, i)] = p[i].name
<1> DEFINE g == Grown(t, p)
           named == {Way(p, i) : i \in {j \in 1 .. Accepted(t, p) : p[j].kind \in {"param", "all"}}}
<1>0. Accepted(t, p) \in 0 .. Len(p) /\ \A i \in 1 .. Accepted(t, p) : Takes(t, p, i)
  BY AcceptedIs
<1>1. /\ g.nodes = t.nodes \cup {Way(p, i) : i \in 0 .. Accepted(t, p)}
      /\ g.name = [n \in DOMAIN t.name \cup named |-> IF n \in DOMAIN t.name THEN t.name[n] ELSE p[Len(n)].name]
      /\ g.handler = t.handler
      /\ g \in [nodes : {g.nodes}, name : {g.name}, handler : {g.handler}]
  BY DEF TrieOK, Grown
<1> HIDE DEF g
<1>2. \A i \in 0 .. Accepted(t, p) : Way(p, i) \in Seq(EdgeSet) /\ Len(Way(p, i)) = i /\ \A j \in 1 .. i : Way(p, i)[j] = Edge(p[j])
  BY <1>0, WayIs
<1>3. \A n \in DOMAIN t.name : n \in DOMAIN g.name /\ g.name[n] = t.name[n]
  BY <1>1
<1>4. ASSUME NEW i \in 1 .. Accepted(t, p), p[i].kind \in {"param", "all"} PROVE g.name[Way(p, i)] = p[i].name
  <2>1. Len(Way(p, i)) = i /\ Way(p, i) # <<>> /\ Way(p, i)[i] = Edge(p[i])
    BY <1>0, <1>2
  <2>2. Edge(p[i]).kind \in {"param", "all"}
    <3>1. p[i] \in Token
      BY <1>0
    <3>2. QED BY <3>1, <1>4, EdgeIs, EdgesDiffer
  <2>3. CASE Way(p, i) \in DOMAIN t.name
    <3>1. ~Conflicts(t, Way(p, i), p[i].name)
      BY <1>0, <1>4 DEF Takes
    <3>2. t.name[Way(p, i)] = p[i].name
      BY <2>3, <3>1 DEF Conflicts, TrieOK
    <3>3. QED BY <3>2, <1>3, <2>3
  <2>4. CASE Way(p, i) \notin DOMAIN t.name
    <3>1. Way(p, i) \in named
      BY <1>4
    <3>2. QED BY <1>1, <2>1, <2>4, <3>1
  <2>5. QED BY <2>3, <2>4
<1>5. DOMAIN g.name \subseteq g.nodes
  BY <1>0, <1>1 DEF TrieOK
<1>6. ASSUME NEW n \in g.nodes, n # <<>>, n[Len(n)].kind \in {"param", "all"} PROVE n \in DOMAIN g.name
  <2>1. CASE n \in t.nodes
    BY <1>3, <1>6, <2>1 DEF TrieOK
  <2>2. CASE n \notin t.nodes
    <3>1. PICK i \in 0 .. Accepted(t, p) : n = Way(p, i)
      BY <1>1, <2>2
    <3>2. i # 0
      BY <1>6, <3>1, WayEmpty
    <3>3. i \in 1 .. Accepted(t, p) /\ i \in 1 .. Len(p)
      BY <1>0, <3>1, <3>2
    <3>4. Edge(p[i]).kind \in {"param", "all"}
      BY <1>2, <1>6, <3>1, <3>3
    <3>5. p[i] \in Token
      BY <3>3
    <3>6. p[i].kind \in {"param", "all"}
      BY <3>4, <3>5, EdgeIs, EdgesDiffer
    <3>7. n \in named
      BY <3>1, <3>3, <3>6
    <3>8. QED BY <1>1, <3>7
  <2>3. QED BY <2>1, <2>2
<1>7. TrieOK(g)
  BY <1>1, <1>5, <1>6 DEF TrieOK
<1>8. QED BY <1>1, <1>3, <1>4, <1>7 DEF g

-----------------------------------------------------------------------------
(* Registration.                                                           *)

\* A registered route has its way through the trie, with its own names on it.
Laid(t, p) ==
    /\ p \in Pattern /\ Edges(p) \in DOMAIN t.handler
    /\ \A i \in 1 .. Len(p) :
           /\ p[i].kind # "bad" /\ (p[i].kind = "all" => i = Len(p))
           /\ Way(p, i) \in t.nodes
           /\ p[i].kind \in {"param", "all"} => t.name[Way(p, i)] = p[i].name

RoutesLaid(t, ways, taken) ==
    /\ TrieOK(t) /\ ways = t.nodes
    /\ \A p \in taken : Laid(t, p)
    /\ \A n \in DOMAIN t.handler : t.handler[n] \in taken /\ Edges(t.handler[n]) = n

MiddlewareKept(t) ==
    /\ TrieOK(t)
    /\ \A n \in DOMAIN t.handler : t.handler[n] \in Seq(Middleware) /\ t.handler[n] # <<>>

RouterInv ==
    /\ routeTrie = [v \in Verb |-> routeTrie[v]] /\ routes = [v \in Verb |-> routes[v]]
    /\ planted = [v \in Verb |-> planted[v]]
    /\ \A v \in Verb : RoutesLaid(routeTrie[v], planted[v], routes[v])
    /\ MiddlewareKept(mwTrie) /\ mwDepth \in Nat

LEMMA PatternIs == ASSUME NEW p \in Pattern PROVE p \in Seq(Token)
BY RouterAssumption DEF Token

LEMMA InsertedIs ==
    ASSUME NEW t, TrieOK(t), NEW p \in Seq(Token), NEW h
    PROVE  LET n == Inserted(t, p, h) IN
           /\ TrieOK(n) /\ n.nodes = Grown(t, p).nodes /\ n.name = Grown(t, p).name
           /\ Throws(t, p) \/ Taken(t, p) => n.handler = t.handler
           /\ ~Throws(t, p) /\ ~Taken(t, p) => n.handler = Bound(t.handler, Edges(p), h)
<1> DEFINE g == Grown(t, p)
           n == Inserted(t, p, h)
<1>1. TrieOK(g) /\ g.handler = t.handler
  BY GrownIs
<1>2. CASE Throws(t, p) \/ Taken(t, p)
  <2>1. n = g
    BY <1>2 DEF Inserted
  <2>2. QED BY <1>1, <1>2, <2>1
<1>3. CASE ~Throws(t, p) /\ ~Taken(t, p)
  <2>1. n = [g EXCEPT !.handler = Bound(g.handler, Edges(p), h)]
    BY <1>3 DEF Inserted
  <2> HIDE DEF n
  <2>2. g \in [nodes : {g.nodes}, name : {g.name}, handler : {g.handler}]
    BY <1>1 DEF TrieOK
  <2> HIDE DEF g
  <2>3. n.nodes = g.nodes /\ n.name = g.name /\ n.handler = Bound(g.handler, Edges(p), h)
        /\ n \in [nodes : {n.nodes}, name : {n.name}, handler : {n.handler}]
    BY <2>1, <2>2
  <2>4. TrieOK(n)
    BY <1>1, <2>3 DEF TrieOK
  <2>5. QED BY <1>1, <1>3, <2>3, <2>4 DEF g, n
<1>4. QED BY <1>2, <1>3

LEMMA RouteAdded ==
    ASSUME NEW t, NEW ways, NEW taken, RoutesLaid(t, ways, taken), NEW p \in Pattern,
           NEW ways2, ways2 = ways \cup {Way(p, i) : i \in 0 .. Accepted(t, p)},
           NEW taken2, taken2 = taken \cup (IF Throws(t, p) THEN {} ELSE {p})
    PROVE  RoutesLaid(Inserted(t, p, p), ways2, taken2)
<1> DEFINE g == Grown(t, p)
           n == Inserted(t, p, p)
<1>0. p \in Seq(Token) /\ TrieOK(t)
  BY PatternIs DEF RoutesLaid
<1>1. /\ g.nodes = t.nodes \cup {Way(p, i) : i \in 0 .. Accepted(t, p)}
      /\ \A m \in DOMAIN t.name : m \in DOMAIN g.name /\ g.name[m] = t.name[m]
      /\ \A i \in 1 .. Accepted(t, p) : p[i].kind \in {"param", "all"} => g.name[Way(p, i)] = p[i].name
  BY <1>0, GrownIs
<1>2. /\ TrieOK(n) /\ n.nodes = g.nodes /\ n.name = g.name
      /\ Throws(t, p) \/ Taken(t, p) => n.handler = t.handler
      /\ ~Throws(t, p) /\ ~Taken(t, p) => n.handler = Bound(t.handler, Edges(p), p)
  BY <1>0, InsertedIs
<1>3. Accepted(t, p) \in 0 .. Len(p) /\ \A i \in 1 .. Accepted(t, p) : Takes(t, p, i)
  BY <1>0, AcceptedIs
<1> HIDE DEF g, n
<1>4. \A m \in DOMAIN t.handler : m \in DOMAIN n.handler /\ n.handler[m] = t.handler[m]
  <2>1. CASE Throws(t, p) \/ Taken(t, p)
    BY <1>2, <2>1
  <2>2. CASE ~Throws(t, p) /\ ~Taken(t, p)
    BY <1>2, <2>2 DEF Bound, Taken
  <2>3. QED BY <2>1, <2>2
<1>5. ASSUME NEW q \in taken PROVE Laid(n, q)
  <2>1. Laid(t, q)
    BY <1>5 DEF RoutesLaid
  <2>2. q \in Pattern /\ q \in Seq(Token) /\ Edges(q) \in DOMAIN n.handler
    BY <2>1, <1>4, PatternIs DEF Laid
  <2>3. ASSUME NEW i \in 1 .. Len(q)
        PROVE  /\ q[i].kind # "bad" /\ (q[i].kind = "all" => i = Len(q))
               /\ Way(q, i) \in n.nodes
               /\ q[i].kind \in {"param", "all"} => n.name[Way(q, i)] = q[i].name
    <3>1. /\ q[i].kind # "bad" /\ (q[i].kind = "all" => i = Len(q))
          /\ Way(q, i) \in t.nodes
          /\ q[i].kind \in {"param", "all"} => t.name[Way(q, i)] = q[i].name
      BY <2>1 DEF Laid
    <3>2. Way(q, i) \in n.nodes
      BY <3>1, <1>1, <1>2
    <3>3. ASSUME q[i].kind \in {"param", "all"} PROVE n.name[Way(q, i)] = q[i].name
      <4>1. i \in 0 .. Len(q) /\ q[i] \in Token
        BY <2>2
      <4>2. Len(Way(q, i)) = i /\ Way(q, i)[i] = Edge(q[i])
        BY <2>2, <4>1, WayIs
      <4>3. Way(q, i) # <<>> /\ Way(q, i)[Len(Way(q, i))].kind \in {"param", "all"}
        BY <3>3, <4>1, <4>2, EdgeIs, EdgesDiffer
      <4>4. Way(q, i) \in DOMAIN t.name
        BY <1>0, <3>1, <4>3 DEF TrieOK
      <4>5. QED BY <1>1, <1>2, <3>1, <3>3, <4>4
    <3>4. QED BY <3>1, <3>2, <3>3
  <2>4. QED BY <2>2, <2>3 DEF Laid
<1>6. ASSUME ~Throws(t, p) PROVE Laid(n, p) /\ Edges(p) \in DOMAIN n.handler
  <2>1. Accepted(t, p) = Len(p)
    BY <1>3, <1>6 DEF Throws
  <2>2. Edges(p) \in DOMAIN n.handler
    <3>1. CASE Taken(t, p)
      BY <1>4, <3>1 DEF Taken
    <3>2. CASE ~Taken(t, p)
      BY <1>2, <1>6, <3>2 DEF Bound
    <3>3. QED BY <3>1, <3>2
  <2>3. ASSUME NEW i \in 1 .. Len(p)
        PROVE  /\ p[i].kind # "bad" /\ (p[i].kind = "all" => i = Len(p))
               /\ Way(p, i) \in n.nodes
               /\ p[i].kind \in {"param", "all"} => n.name[Way(p, i)] = p[i].name
    <3>1. p[i].kind # "bad" /\ (p[i].kind = "all" => i = Len(p))
      BY <1>3, <2>1 DEF Takes
    <3>2. Way(p, i) \in n.nodes
      <4>1. i \in 0 .. Accepted(t, p)
        BY <2>1
      <4>2. QED BY <1>1, <1>2, <4>1
    <3>3. p[i].kind \in {"param", "all"} => n.name[Way(p, i)] = p[i].name
      BY <1>1, <1>2, <2>1
    <3>4. QED BY <3>1, <3>2, <3>3
  <2>4. QED BY <2>2, <2>3 DEF Laid
<1>7. ASSUME NEW m \in DOMAIN n.handler PROVE n.handler[m] \in taken2 /\ Edges(n.handler[m]) = m
  <2>1. CASE m \in DOMAIN t.handler
    BY <1>4, <2>1 DEF RoutesLaid
  <2>2. CASE m \notin DOMAIN t.handler
    <3>1. ~Throws(t, p) /\ ~Taken(t, p)
      BY <1>2, <1>7, <2>2
    <3>2. m = Edges(p) /\ n.handler[m] = p
      BY <1>2, <1>7, <2>2, <3>1 DEF Bound
    <3>3. QED BY <3>1, <3>2
  <2>3. QED BY <2>1, <2>2
<1>8. ways2 = n.nodes
  BY <1>1, <1>2 DEF RoutesLaid
<1>9. \A q \in taken2 : Laid(n, q)
  BY <1>5, <1>6
<1>10. QED BY <1>2, <1>7, <1>8, <1>9 DEF RoutesLaid, n

LEMMA MiddlewareAdded ==
    ASSUME MiddlewareKept(mwTrie), mwDepth \in Nat, NEW p \in Pattern, NEW m \in Middleware, AddMiddleware(p, m)
    PROVE  MiddlewareKept(mwTrie') /\ mwDepth' \in Nat
<1>0. p \in Seq(Token) /\ TrieOK(mwTrie)
  BY PatternIs DEF MiddlewareKept
<1>1. mwDepth' \in Nat
  BY <1>0 DEF AddMiddleware
<1>2. <<m>> \in Seq(Middleware) /\ <<m>> # <<>>
  OBVIOUS
<1>3. CASE Throws(mwTrie, p)
  <2>1. mwTrie' = Grown(mwTrie, p)
    BY <1>3 DEF AddMiddleware
  <2>2. TrieOK(Grown(mwTrie, p)) /\ Grown(mwTrie, p).handler = mwTrie.handler
    BY <1>0, GrownIs
  <2>3. QED BY <1>1, <2>1, <2>2 DEF MiddlewareKept
<1>4. CASE ~Throws(mwTrie, p) /\ Taken(mwTrie, p)
  <2>1. mwTrie' = [mwTrie EXCEPT !.handler[Edges(p)] = Append(@, m)]
    BY <1>4 DEF AddMiddleware
  <2>2. mwTrie \in [nodes : {mwTrie.nodes}, name : {mwTrie.name}, handler : {mwTrie.handler}]
    BY <1>0 DEF TrieOK
  <2> DEFINE n == mwTrie'
  <2>3. /\ n.nodes = mwTrie.nodes /\ n.name = mwTrie.name
        /\ n.handler = [mwTrie.handler EXCEPT ![Edges(p)] = Append(@, m)]
        /\ n \in [nodes : {n.nodes}, name : {n.name}, handler : {n.handler}]
    BY <2>1, <2>2
  <2>4. TrieOK(n)
    BY <1>0, <2>3 DEF TrieOK
  <2>5. ASSUME NEW e \in DOMAIN n.handler PROVE n.handler[e] \in Seq(Middleware) /\ n.handler[e] # <<>>
    <3>1. e \in DOMAIN mwTrie.handler /\ mwTrie.handler[e] \in Seq(Middleware) /\ mwTrie.handler[e] # <<>>
      BY <2>3 DEF MiddlewareKept
    <3>2. Append(mwTrie.handler[e], m) \in Seq(Middleware) /\ Append(mwTrie.handler[e], m) # <<>>
      BY <3>1
    <3>3. n.handler[e] \in {mwTrie.handler[e], Append(mwTrie.handler[e], m)}
      BY <2>3, <3>1
    <3>4. QED BY <3>1, <3>2, <3>3
  <2>6. QED BY <1>1, <2>4, <2>5 DEF MiddlewareKept
<1>5. CASE ~Throws(mwTrie, p) /\ ~Taken(mwTrie, p)
  <2>1. mwTrie' = Inserted(mwTrie, p, <<m>>)
    BY <1>5 DEF AddMiddleware
  <2> DEFINE n == Inserted(mwTrie, p, <<m>>)
  <2>2. TrieOK(n) /\ n.handler = Bound(mwTrie.handler, Edges(p), <<m>>)
    BY <1>0, <1>5, InsertedIs
  <2> HIDE DEF n
  <2>3. \A e \in DOMAIN n.handler : n.handler[e] \in Seq(Middleware) /\ n.handler[e] # <<>>
    BY <1>2, <2>2 DEF Bound, MiddlewareKept
  <2>4. QED BY <1>1, <2>1, <2>2, <2>3 DEF MiddlewareKept, n
<1>6. QED BY <1>3, <1>4, <1>5

LEMMA RouterKept == RouterInv /\ [RouterNext]_routerVars => RouterInv'
<1> SUFFICES ASSUME RouterInv, [RouterNext]_routerVars PROVE RouterInv'
  OBVIOUS
<1>1. ASSUME NEW v \in Verb, NEW p \in Pattern, AddHttpRoute(v, p) PROVE RouterInv'
  <2>1. /\ routeTrie' = [routeTrie EXCEPT ![v] = Inserted(routeTrie[v], p, p)]
        /\ routes' = [routes EXCEPT ![v] = routes[v] \cup (IF Throws(routeTrie[v], p) THEN {} ELSE {p})]
        /\ planted' = [planted EXCEPT ![v] = planted[v] \cup {Way(p, i) : i \in 0 .. Accepted(routeTrie[v], p)}]
        /\ mwTrie' = mwTrie /\ mwDepth' = mwDepth
    BY <1>1 DEF AddHttpRoute
  <2>2. /\ routeTrie'[v] = Inserted(routeTrie[v], p, p)
        /\ routes'[v] = routes[v] \cup (IF Throws(routeTrie[v], p) THEN {} ELSE {p})
        /\ planted'[v] = planted[v] \cup {Way(p, i) : i \in 0 .. Accepted(routeTrie[v], p)}
    BY <2>1 DEF RouterInv
  <2>3. RoutesLaid(routeTrie[v], planted[v], routes[v])
    BY DEF RouterInv
  <2>4. RoutesLaid(routeTrie'[v], planted'[v], routes'[v])
    BY <2>2, <2>3, RouteAdded
  <2>5. \A w \in Verb : w # v => /\ routeTrie'[w] = routeTrie[w] /\ planted'[w] = planted[w]
                                 /\ routes'[w] = routes[w]
    BY <2>1 DEF RouterInv
  <2>6. \A w \in Verb : RoutesLaid(routeTrie'[w], planted'[w], routes'[w])
    BY <2>4, <2>5 DEF RouterInv
  <2>7. routeTrie' = [w \in Verb |-> routeTrie'[w]] /\ routes' = [w \in Verb |-> routes'[w]]
        /\ planted' = [w \in Verb |-> planted'[w]]
    BY <2>1 DEF RouterInv
  <2>8. MiddlewareKept(mwTrie') /\ mwDepth' \in Nat
    BY <2>1 DEF RouterInv
  <2>9. QED BY <2>6, <2>7, <2>8 DEF RouterInv, RoutesLaid, MiddlewareKept, TrieOK, Laid
<1>2. ASSUME NEW p \in Pattern, NEW m \in Middleware, AddMiddleware(p, m) PROVE RouterInv'
  <2>1. MiddlewareKept(mwTrie') /\ mwDepth' \in Nat
    BY <1>2, MiddlewareAdded DEF RouterInv
  <2>2. UNCHANGED <<routeTrie, routes, planted>>
    BY <1>2 DEF AddMiddleware
  <2>3. QED BY <2>1, <2>2 DEF RouterInv, RoutesLaid, MiddlewareKept, TrieOK, Laid
<1>3. CASE UNCHANGED routerVars
  BY <1>3 DEF RouterInv, routerVars, RoutesLaid, MiddlewareKept, TrieOK, Laid
<1>4. QED BY <1>1, <1>2, <1>3 DEF RouterNext

LEMMA RouterStarts == RouterInit => RouterInv
<1>1. DOMAIN <<>> = {}
  OBVIOUS
<1>2. RoutesLaid(EmptyTrie, {<<>>}, {})
  BY <1>1, EmptyOK DEF RoutesLaid, EmptyTrie
<1>3. MiddlewareKept(EmptyTrie)
  BY <1>1, EmptyOK DEF MiddlewareKept, EmptyTrie
<1>4. QED BY <1>2, <1>3 DEF RouterInit, RouterInv

-----------------------------------------------------------------------------
(* Search.                                                                 *)

Outset == [node |-> <<>>, params |-> <<>>, found |-> TRUE, done |-> FALSE]

LEMMA WalkIs ==
    ASSUME NEW trie, NEW segs, Len(segs) \in Nat
    PROVE  /\ Walk(trie, segs)[0] = Outset
           /\ \A i \in 1 .. Len(segs) :
                  Walk(trie, segs)[i] = Step(trie, segs, Walk(trie, segs)[i - 1], i)
<1> DEFINE Right(h, n) == h = [i \in 0 .. n |-> IF i = 0 THEN Outset ELSE Step(trie, segs, h[i - 1], i)]
           T == {n \in 0 .. Len(segs) : \E h : Right(h, n)}
<1>1. 0 \in T
  <2> DEFINE h == [i \in 0 .. 0 |-> Outset]
  <2>1. Right(h, 0)
    OBVIOUS
  <2>2. 0 \in 0 .. Len(segs)
    OBVIOUS
  <2> HIDE DEF Right
  <2>3. QED BY <2>1, <2>2
<1>2. ASSUME NEW n \in 0 .. Len(segs), n < Len(segs), n \in T PROVE n + 1 \in T
  <2>1. PICK h : Right(h, n)
    BY <1>2
  <2> DEFINE k == [i \in 0 .. (n + 1) |-> IF i = n + 1 THEN Step(trie, segs, h[n], n + 1) ELSE h[i]]
  <2>2. \A i \in 0 .. n : k[i] = h[i]
    OBVIOUS
  <2>3. ASSUME NEW i \in 0 .. (n + 1)
        PROVE  k[i] = IF i = 0 THEN Outset ELSE Step(trie, segs, k[i - 1], i)
    <3>1. CASE i = n + 1
      <4>1. i # 0 /\ i - 1 = n /\ n \in 0 .. n /\ i - 1 \in 0 .. n
        BY <3>1
      <4>2. k[i - 1] = h[n]
        BY <2>2, <4>1
      <4>3. k[i] = Step(trie, segs, h[n], n + 1)
        BY <3>1
      <4>4. QED BY <3>1, <4>1, <4>2, <4>3
    <3>2. CASE i # n + 1 /\ i = 0
      <4>1. h[i] = Outset
        BY <2>1, <3>2
      <4>2. QED BY <2>2, <3>2, <4>1
    <3>3. CASE i # n + 1 /\ i # 0
      <4>1. i \in 0 .. n /\ i - 1 \in 0 .. n
        BY <3>3
      <4>2. h[i] = Step(trie, segs, h[i - 1], i)
        BY <2>1, <3>3, <4>1
      <4>3. k[i] = h[i] /\ k[i - 1] = h[i - 1]
        BY <2>2, <4>1
      <4>4. QED BY <3>3, <4>2, <4>3
    <3>4. QED BY <3>1, <3>2, <3>3
  <2>4. DOMAIN k = 0 .. (n + 1) /\ k = [i \in 0 .. (n + 1) |-> k[i]]
    OBVIOUS
  <2> HIDE DEF k
  <2>5. Right(k, n + 1)
    BY <2>3, <2>4
  <2>6. n + 1 \in 0 .. Len(segs)
    BY <1>2
  <2> HIDE DEF Right
  <2>7. QED BY <2>5, <2>6
<1>3. Len(segs) \in T
  <2>1. Len(segs) \in 0 .. Len(segs)
    OBVIOUS
  <2>2. \A n \in 0 .. Len(segs) : n < Len(segs) /\ n \in T => n + 1 \in T
    BY <1>2
  <2> HIDE DEF T
  <2>3. QED BY <1>1, <2>1, <2>2, CountUp
<1>4. PICK h : Right(h, Len(segs))
  BY <1>3
<1> DEFINE w == Walk(trie, segs)
<1>5. w = [i \in 0 .. Len(segs) |-> IF i = 0 THEN Outset ELSE Step(trie, segs, w[i - 1], i)]
  BY <1>4 DEF Walk, Outset
<1> HIDE DEF w
<1>6. w[0] = Outset
  BY <1>5
<1>7. \A i \in 1 .. Len(segs) : w[i] = Step(trie, segs, w[i - 1], i)
  BY <1>5
<1>8. QED BY <1>6, <1>7 DEF w

\* A place of the loop, with any parameters.
Place(a) == a \in [node : Seq(EdgeSet), params : {a.params}, found : BOOLEAN, done : BOOLEAN]

\* One turn: where it leads, by the children of the node.
Turn(trie, segs, i, a, b) ==
    /\ Place(b)
    /\ a.done => b = a
    /\ ~a.done /\ Append(a.node, Static(segs[i])) \in trie.nodes =>
           b.node = Append(a.node, Static(segs[i])) /\ b.params = a.params /\ b.found = a.found /\ ~b.done
    /\ ~a.done /\ Append(a.node, Static(segs[i])) \notin trie.nodes
               /\ Append(a.node, Wild("param")) \in trie.nodes =>
           /\ b.node = Append(a.node, Wild("param"))
           /\ b.params = Bound(a.params, trie.name[b.node], <<segs[i]>>)
           /\ b.found = a.found /\ ~b.done
    /\ ~a.done /\ Append(a.node, Static(segs[i])) \notin trie.nodes
               /\ Append(a.node, Wild("param")) \notin trie.nodes
               /\ Append(a.node, Wild("all")) \in trie.nodes =>
           /\ b.node = Append(a.node, Wild("all"))
           /\ b.params = Bound(a.params, trie.name[b.node], SubSeq(segs, i, Len(segs)))
           /\ b.found = a.found /\ b.done
    /\ ~a.done /\ Append(a.node, Static(segs[i])) \notin trie.nodes
               /\ Append(a.node, Wild("param")) \notin trie.nodes
               /\ Append(a.node, Wild("all")) \notin trie.nodes =>
           b.done /\ ~b.found /\ b.node = a.node

LEMMA StepIs ==
    ASSUME NEW trie, NEW segs \in Seq(STRING), NEW a, Place(a), NEW i \in 1 .. Len(segs),
           NEW b, b = Step(trie, segs, a, i)
    PROVE  Turn(trie, segs, i, a, b)
<1>1. Static(segs[i]) \in EdgeSet /\ Wild("param") \in EdgeSet /\ Wild("all") \in EdgeSet
  <2>1. segs[i] \in STRING
    BY ElementOfSeq
  <2>2. QED BY <2>1 DEF Static, Wild, EdgeSet
<1> DEFINE s == Append(a.node, Static(segs[i]))
           p == Append(a.node, Wild("param"))
           l == Append(a.node, Wild("all"))
<1>2. s \in Seq(EdgeSet) /\ p \in Seq(EdgeSet) /\ l \in Seq(EdgeSet) /\ a.node \in Seq(EdgeSet)
      /\ a.found \in BOOLEAN /\ a.done \in BOOLEAN
  BY <1>1 DEF Place
<1>3. CASE a.done
  BY <1>3 DEF Step, Turn
<1>4. CASE ~a.done /\ s \in trie.nodes
  <2>1. b = [a EXCEPT !.node = s]
    BY <1>4 DEF Step
  <2> HIDE DEF s, p, l, Turn
  <2>2. b.node = s /\ b.params = a.params /\ b.found = a.found /\ b.done = a.done
        /\ b \in [node : {s}, params : {a.params}, found : BOOLEAN, done : BOOLEAN]
    BY <2>1, <1>2 DEF Place
  <2>3. Place(b)
    BY <1>2, <2>2 DEF Place
  <2>4. QED BY <1>4, <2>2, <2>3 DEF s, p, l, Turn
<1>5. CASE ~a.done /\ s \notin trie.nodes /\ p \in trie.nodes
  <2> DEFINE q == Bound(a.params, trie.name[p], <<segs[i]>>)
  <2>1. b = [a EXCEPT !.node = p, !.params = q]
    BY <1>5 DEF Step
  <2> HIDE DEF s, p, l, q, Turn
  <2>2. b.node = p /\ b.params = q /\ b.found = a.found /\ b.done = a.done
        /\ b \in [node : {p}, params : {q}, found : BOOLEAN, done : BOOLEAN]
    BY <2>1, <1>2 DEF Place
  <2>3. Place(b)
    BY <1>2, <2>2 DEF Place
  <2>4. QED BY <1>5, <2>2, <2>3 DEF s, p, l, q, Turn
<1>6. CASE ~a.done /\ s \notin trie.nodes /\ p \notin trie.nodes /\ l \in trie.nodes
  <2> DEFINE q == Bound(a.params, trie.name[l], SubSeq(segs, i, Len(segs)))
  <2>1. b = [a EXCEPT !.node = l, !.done = TRUE, !.params = q]
    BY <1>6 DEF Step
  <2> HIDE DEF s, p, l, q, Turn
  <2>2. b.node = l /\ b.params = q /\ b.found = a.found /\ b.done = TRUE
        /\ b \in [node : {l}, params : {q}, found : BOOLEAN, done : BOOLEAN]
    BY <2>1, <1>2 DEF Place
  <2>3. Place(b)
    BY <1>2, <2>2 DEF Place
  <2>4. QED BY <1>6, <2>2, <2>3 DEF s, p, l, q, Turn
<1>7. CASE ~a.done /\ s \notin trie.nodes /\ p \notin trie.nodes /\ l \notin trie.nodes
  <2>1. b = [a EXCEPT !.found = FALSE, !.done = TRUE]
    BY <1>7 DEF Step
  <2> HIDE DEF s, p, l, Turn
  <2>2. b.node = a.node /\ b.params = a.params /\ b.found = FALSE /\ b.done = TRUE
        /\ b \in [node : {a.node}, params : {a.params}, found : BOOLEAN, done : BOOLEAN]
    BY <2>1, <1>2 DEF Place
  <2>3. Place(b)
    BY <1>2, <2>2 DEF Place
  <2>4. QED BY <1>7, <2>2, <2>3 DEF s, p, l, Turn
<1>8. QED BY <1>3, <1>4, <1>5, <1>6, <1>7

Upto(node, j) == [k \in 1 .. j |-> node[k]]

Grows(node, e, n) ==
    /\ n \in Seq(EdgeSet) /\ Len(n) = Len(node) + 1 /\ n[Len(n)] = e
    /\ \A j \in 1 .. Len(node) : n[j] = node[j]
    /\ \A j \in 0 .. Len(node) : Upto(n, j) = Upto(node, j)
    /\ Upto(node, Len(node)) = node /\ Upto(n, Len(n)) = n

LEMMA NodeGrows ==
    ASSUME NEW node \in Seq(EdgeSet), NEW e \in EdgeSet
    PROVE  Grows(node, e, Append(node, e))
<1> DEFINE n == Append(node, e)
<1>1. n \in Seq(EdgeSet) /\ Len(n) = Len(node) + 1 /\ n[Len(n)] = e /\ \A j \in 1 .. Len(node) : n[j] = node[j]
  OBVIOUS
<1>2. \A j \in 0 .. Len(node) : Upto(n, j) = Upto(node, j)
  BY <1>1 DEF Upto
<1>3. \A s \in Seq(EdgeSet) : Upto(s, Len(s)) = s
  BY DEF Upto
<1>4. QED BY <1>1, <1>2, <1>3 DEF Grows

\* An edge on the way search() took is the first it could take.
Preferred(t, segs, node, j) ==
    \/ node[j] = Static(segs[j])
    \/ /\ node[j] \in {Wild("param"), Wild("all")}
       /\ Append(Upto(node, j - 1), Static(segs[j])) \notin t.nodes
       /\ node[j] = Wild("all") => Append(Upto(node, j - 1), Wild("param")) \notin t.nodes

\* What the handler of a node is given.
Wilds(node) == {j \in 1 .. Len(node) : node[j].kind # "static"}
NameAt(t, node, j) == t.name[Upto(node, j)]
Given(segs, node, j) == IF node[j].kind = "all" THEN SubSeq(segs, j, Len(segs)) ELSE <<segs[j]>>
Named(t, segs, node, params) ==
    /\ DOMAIN params = {NameAt(t, node, j) : j \in Wilds(node)}
    /\ \A j \in Wilds(node) :
           (\A k \in Wilds(node) : k > j => NameAt(t, node, k) # NameAt(t, node, j)) =>
               params[NameAt(t, node, j)] = Given(segs, node, j)

LEMMA NamedStatic ==
    ASSUME NEW t, NEW segs, NEW node \in Seq(EdgeSet), NEW e \in EdgeSet, e.kind = "static",
           NEW params, Named(t, segs, node, params)
    PROVE  Named(t, segs, Append(node, e), params)
<1> DEFINE n == Append(node, e)
<1>0. Grows(node, e, n)
  BY NodeGrows
<1> HIDE DEF n
<1>1. /\ n \in Seq(EdgeSet) /\ Len(n) = Len(node) + 1 /\ n[Len(n)] = e
      /\ \A j \in 1 .. Len(node) : n[j] = node[j]
      /\ \A j \in 0 .. Len(node) : Upto(n, j) = Upto(node, j)
  BY <1>0 DEF Grows
<1>2. Wilds(n) = Wilds(node)
  BY <1>1 DEF Wilds
<1>3. \A j \in Wilds(node) : NameAt(t, n, j) = NameAt(t, node, j) /\ Given(segs, n, j) = Given(segs, node, j)
  BY <1>1 DEF Wilds, NameAt, Given
<1>4. Named(t, segs, n, params)
  BY <1>2, <1>3 DEF Named
<1>5. QED BY <1>4 DEF n

LEMMA NamedWild ==
    ASSUME NEW t, NEW segs, NEW node \in Seq(EdgeSet), NEW e \in EdgeSet, e.kind # "static",
           NEW params, Named(t, segs, node, params), NEW n, n = Append(node, e),
           NEW x, x = t.name[n], NEW y, y = Given(segs, n, Len(n))
    PROVE  Named(t, segs, n, Bound(params, x, y))
<1>1. /\ n \in Seq(EdgeSet) /\ Len(n) = Len(node) + 1 /\ n[Len(n)] = e
      /\ \A j \in 1 .. Len(node) : n[j] = node[j]
      /\ \A j \in 0 .. Len(node) : Upto(n, j) = Upto(node, j)
      /\ Upto(n, Len(n)) = n
  <2>1. Grows(node, e, n)
    BY NodeGrows
  <2>2. QED BY <2>1 DEF Grows
<1> DEFINE q == Bound(params, x, y)
<1>2. Wilds(n) = Wilds(node) \cup {Len(n)}
  BY <1>1 DEF Wilds
<1>3. \A j \in Wilds(node) : NameAt(t, n, j) = NameAt(t, node, j) /\ Given(segs, n, j) = Given(segs, node, j)
  BY <1>1 DEF Wilds, NameAt, Given
<1>4. NameAt(t, n, Len(n)) = x
  BY <1>1 DEF NameAt
<1>5. DOMAIN q = DOMAIN params \cup {x} /\ q[x] = y /\ \A z \in DOMAIN params : z # x => q[z] = params[z]
  BY DEF Bound
<1> HIDE DEF q
<1>6. DOMAIN q = {NameAt(t, n, j) : j \in Wilds(n)}
  BY <1>2, <1>3, <1>4, <1>5 DEF Named
<1>7. ASSUME NEW j \in Wilds(n), \A k \in Wilds(n) : k > j => NameAt(t, n, k) # NameAt(t, n, j)
      PROVE  q[NameAt(t, n, j)] = Given(segs, n, j)
  <2>1. CASE j = Len(n)
    BY <1>4, <1>5, <2>1
  <2>2. CASE j # Len(n)
    <3>1. j \in Wilds(node) /\ j < Len(n) /\ Len(n) \in Wilds(n)
      BY <1>1, <1>2, <2>2 DEF Wilds
    <3>2. NameAt(t, n, j) # x
      BY <1>4, <1>7, <3>1
    <3>3. \A k \in Wilds(node) : k > j => NameAt(t, node, k) # NameAt(t, node, j)
      BY <1>2, <1>3, <1>7, <3>1
    <3>4. params[NameAt(t, node, j)] = Given(segs, node, j)
      BY <3>1, <3>3 DEF Named
    <3>5. NameAt(t, node, j) \in DOMAIN params
      BY <3>1 DEF Named
    <3>6. QED BY <1>3, <1>5, <3>1, <3>2, <3>4, <3>5
  <2>3. QED BY <2>1, <2>2
<1>8. QED BY <1>6, <1>7 DEF Named, q

\* The loop after i segments.
WalkHolds(t, segs, i, a) ==
    /\ Place(a)
    /\ ~a.done => a.found /\ Len(a.node) = i
    /\ a.done /\ a.found => Len(a.node) \in 1 .. i /\ a.node[Len(a.node)] = Wild("all")
    /\ a.found => /\ \A j \in 1 .. Len(a.node) :
                         /\ Preferred(t, segs, a.node, j)
                         /\ a.node[j] = Wild("all") => j = Len(a.node) /\ a.done
                  /\ Named(t, segs, a.node, a.params)

LEMMA PreferredGrows ==
    ASSUME NEW t, NEW segs, NEW node \in Seq(EdgeSet), NEW e \in EdgeSet, NEW n, n = Append(node, e),
           \A j \in 1 .. Len(node) : Preferred(t, segs, node, j),
           Preferred(t, segs, n, Len(n))
    PROVE  \A j \in 1 .. Len(n) : Preferred(t, segs, n, j)
<1>1. /\ n \in Seq(EdgeSet) /\ Len(n) = Len(node) + 1
      /\ \A j \in 1 .. Len(node) : n[j] = node[j]
      /\ \A j \in 0 .. Len(node) : Upto(n, j) = Upto(node, j)
  <2>1. Grows(node, e, n)
    BY NodeGrows
  <2>2. QED BY <2>1 DEF Grows
<1>2. ASSUME NEW j \in 1 .. Len(n) PROVE Preferred(t, segs, n, j)
  <2>1. CASE j = Len(n)
    BY <2>1
  <2>2. CASE j # Len(n)
    <3>1. j \in 1 .. Len(node) /\ j - 1 \in 0 .. Len(node)
      BY <1>1, <2>2
    <3>2. n[j] = node[j] /\ Upto(n, j - 1) = Upto(node, j - 1)
      BY <1>1, <3>1
    <3>3. Preferred(t, segs, node, j)
      BY <3>1
    <3>4. QED BY <3>2, <3>3 DEF Preferred
  <2>3. QED BY <2>1, <2>2
<1>3. QED BY <1>2

LEMMA WalkStarts == ASSUME NEW t, NEW segs PROVE WalkHolds(t, segs, 0, Outset)
<1>1. <<>> \in Seq(EdgeSet) /\ Len(<<>>) = 0 /\ DOMAIN <<>> = {}
  OBVIOUS
<1>2. Outset.node = <<>> /\ Outset.params = <<>> /\ Outset.found = TRUE /\ Outset.done = FALSE
  BY DEF Outset
<1>3. Place(Outset)
  BY <1>1, <1>2 DEF Place, Outset
<1>4. Wilds(<<>>) = {}
  BY <1>1 DEF Wilds
<1>5. Named(t, segs, <<>>, <<>>)
  BY <1>1, <1>4 DEF Named
<1>6. QED BY <1>1, <1>2, <1>3, <1>5 DEF WalkHolds

LEMMA WalkGoesOn ==
    ASSUME NEW t, NEW segs \in Seq(STRING), NEW i \in 1 .. Len(segs), NEW a, WalkHolds(t, segs, i - 1, a),
           NEW b, b = Step(t, segs, a, i)
    PROVE  WalkHolds(t, segs, i, b)
<1>0. Place(a) /\ i - 1 \in Nat /\ (i - 1) + 1 = i
  BY DEF WalkHolds
<1>1. a.node \in Seq(EdgeSet) /\ a.found \in BOOLEAN /\ a.done \in BOOLEAN
  BY <1>0 DEF Place
<1>2. Turn(t, segs, i, a, b) /\ Place(b)
  <2>1. Turn(t, segs, i, a, b)
    BY <1>0, StepIs
  <2>2. QED BY <2>1 DEF Turn
<1>3. Static(segs[i]) \in EdgeSet /\ Wild("param") \in EdgeSet /\ Wild("all") \in EdgeSet
  <2>1. segs[i] \in STRING
    BY ElementOfSeq
  <2>2. QED BY <2>1 DEF Static, Wild, EdgeSet
<1>4. CASE a.done
  <2>1. b = a
    BY <1>2, <1>4 DEF Turn
  <2>2. QED BY <1>0, <1>4, <2>1 DEF WalkHolds
<1>5. ASSUME ~a.done PROVE a.found /\ Len(a.node) = i - 1 /\ Named(t, segs, a.node, a.params)
                           /\ (\A j \in 1 .. Len(a.node) : Preferred(t, segs, a.node, j) /\ a.node[j] # Wild("all"))
  BY <1>5 DEF WalkHolds
<1> DEFINE s == Append(a.node, Static(segs[i]))
           p == Append(a.node, Wild("param"))
           l == Append(a.node, Wild("all"))
<1>6. ASSUME NEW e \in EdgeSet, ~a.done, b.node = Append(a.node, e), b.found = a.found,
             b.done <=> e = Wild("all"),
             Preferred(t, segs, b.node, i), Named(t, segs, b.node, b.params)
      PROVE  WalkHolds(t, segs, i, b)
  <2>1. /\ b.node \in Seq(EdgeSet) /\ Len(b.node) = i /\ b.node[i] = e
        /\ \A j \in 1 .. Len(a.node) : b.node[j] = a.node[j]
    <3>1. Grows(a.node, e, b.node)
      BY <1>1, <1>6, NodeGrows
    <3>2. QED BY <1>0, <1>5, <1>6, <3>1 DEF Grows
  <2>2. \A j \in 1 .. Len(b.node) : Preferred(t, segs, b.node, j)
    <3>1. \A j \in 1 .. Len(a.node) : Preferred(t, segs, a.node, j)
      BY <1>5, <1>6
    <3>2. Preferred(t, segs, b.node, Len(b.node))
      BY <1>6, <2>1
    <3>3. QED BY <1>1, <1>6, <3>1, <3>2, PreferredGrows
  <2>3. \A j \in 1 .. Len(b.node) : b.node[j] = Wild("all") => j = Len(b.node) /\ b.done
    BY <1>5, <1>6, <2>1
  <2>4. QED BY <1>2, <1>5, <1>6, <2>1, <2>2, <2>3 DEF WalkHolds
<1>7. ASSUME NEW e \in EdgeSet, ~a.done, b.node = Append(a.node, e)
      PROVE  Len(b.node) = i /\ b.node[i] = e /\ Upto(b.node, i - 1) = a.node
  <2>1. Grows(a.node, e, b.node)
    BY <1>1, <1>7, NodeGrows
  <2>2. Len(b.node) = i /\ b.node[i] = e
    BY <1>0, <1>5, <1>7, <2>1 DEF Grows
  <2>3. Len(a.node) \in 0 .. Len(a.node)
    BY <1>1
  <2>4. Upto(b.node, Len(a.node)) = a.node
    BY <2>1, <2>3 DEF Grows
  <2>5. QED BY <1>5, <1>7, <2>2, <2>4
<1>8. CASE ~a.done /\ s \in t.nodes
  <2>1. b.node = s /\ b.params = a.params /\ b.found = a.found /\ ~b.done
    BY <1>2, <1>8 DEF Turn
  <2>2. Preferred(t, segs, b.node, i)
    BY <1>3, <1>7, <1>8, <2>1 DEF Preferred
  <2>3. Named(t, segs, b.node, b.params)
    BY <1>1, <1>3, <1>5, <1>8, <2>1, NamedStatic, EdgesDiffer
  <2>4. QED BY <1>3, <1>6, <1>8, <2>1, <2>2, <2>3, EdgesDiffer
<1>9. CASE ~a.done /\ s \notin t.nodes /\ p \in t.nodes
  <2>1. b.node = p /\ b.params = Bound(a.params, t.name[b.node], <<segs[i]>>) /\ b.found = a.found /\ ~b.done
    BY <1>2, <1>9 DEF Turn
  <2>2. Len(b.node) = i /\ b.node[i] = Wild("param") /\ Upto(b.node, i - 1) = a.node
    BY <1>3, <1>7, <1>9, <2>1
  <2>3. Preferred(t, segs, b.node, i)
    BY <1>9, <2>2, EdgesDiffer DEF Preferred
  <2>4. Given(segs, b.node, Len(b.node)) = <<segs[i]>>
    BY <2>2, EdgesDiffer DEF Given
  <2>5. Named(t, segs, b.node, b.params)
    <3>1. Wild("param").kind # "static" /\ Named(t, segs, a.node, a.params)
      BY <1>5, <1>9, EdgesDiffer
    <3>2. b.node = Append(a.node, Wild("param"))
      BY <2>1
    <3>3. Named(t, segs, b.node, Bound(a.params, t.name[b.node], Given(segs, b.node, Len(b.node))))
      BY <1>1, <1>3, <3>1, <3>2, NamedWild
    <3>4. QED BY <2>1, <2>4, <3>3
  <2>6. QED BY <1>3, <1>6, <1>9, <2>1, <2>3, <2>5, EdgesDiffer
<1>10. CASE ~a.done /\ s \notin t.nodes /\ p \notin t.nodes /\ l \in t.nodes
  <2>1. b.node = l /\ b.params = Bound(a.params, t.name[b.node], SubSeq(segs, i, Len(segs))) /\ b.found = a.found /\ b.done
    BY <1>2, <1>10 DEF Turn
  <2>2. Len(b.node) = i /\ b.node[i] = Wild("all") /\ Upto(b.node, i - 1) = a.node
    BY <1>3, <1>7, <1>10, <2>1
  <2>3. Preferred(t, segs, b.node, i)
    BY <1>10, <2>2 DEF Preferred
  <2>4. Given(segs, b.node, Len(b.node)) = SubSeq(segs, i, Len(segs))
    BY <2>2, EdgesDiffer DEF Given
  <2>5. Named(t, segs, b.node, b.params)
    <3>1. Wild("all").kind # "static" /\ Named(t, segs, a.node, a.params)
      BY <1>5, <1>10, EdgesDiffer
    <3>2. b.node = Append(a.node, Wild("all"))
      BY <2>1
    <3>3. Named(t, segs, b.node, Bound(a.params, t.name[b.node], Given(segs, b.node, Len(b.node))))
      BY <1>1, <1>3, <3>1, <3>2, NamedWild
    <3>4. QED BY <2>1, <2>4, <3>3
  <2>6. QED BY <1>3, <1>6, <1>10, <2>1, <2>3, <2>5
<1>11. CASE ~a.done /\ s \notin t.nodes /\ p \notin t.nodes /\ l \notin t.nodes
  <2>1. b.done /\ ~b.found
    BY <1>2, <1>11 DEF Turn
  <2>2. QED BY <1>2, <2>1 DEF WalkHolds
<1>12. QED BY <1>1, <1>4, <1>8, <1>9, <1>10, <1>11

LEMMA WalkEnds ==
    ASSUME NEW t, NEW segs \in Seq(STRING)
    PROVE  \A i \in 0 .. Len(segs) : WalkHolds(t, segs, i, Walk(t, segs)[i])
<1> DEFINE T == {i \in 0 .. Len(segs) : WalkHolds(t, segs, i, Walk(t, segs)[i])}
<1>0. Len(segs) \in Nat
  OBVIOUS
<1>1. Walk(t, segs)[0] = Outset /\ \A i \in 1 .. Len(segs) : Walk(t, segs)[i] = Step(t, segs, Walk(t, segs)[i - 1], i)
  BY <1>0, WalkIs
<1>2. 0 \in T
  BY <1>1, WalkStarts
<1>3. ASSUME NEW k \in 0 .. Len(segs), k < Len(segs), k \in T PROVE k + 1 \in T
  <2>1. k + 1 \in 1 .. Len(segs) /\ (k + 1) - 1 = k /\ k + 1 \in 0 .. Len(segs)
    BY <1>3
  <2>2. WalkHolds(t, segs, k, Walk(t, segs)[k])
    BY <1>3
  <2>3. Walk(t, segs)[k + 1] = Step(t, segs, Walk(t, segs)[k], k + 1)
    BY <1>1, <2>1
  <2>4. WalkHolds(t, segs, k + 1, Walk(t, segs)[k + 1])
    BY <2>1, <2>2, <2>3, WalkGoesOn
  <2>5. QED BY <2>1, <2>4
<1> HIDE DEF T
<1>4. \A k \in 0 .. Len(segs) : k \in T
  BY <1>0, <1>2, <1>3, CountUp
<1>5. QED BY <1>4 DEF T

-----------------------------------------------------------------------------
(* What search() finds.                                                    *)

LEMMA LaidIs ==
    ASSUME NEW t, NEW p, Laid(t, p), NEW i \in 1 .. Len(p)
    PROVE  /\ p \in Seq(Token) /\ p[i].kind \in {"static", "param", "all"}
           /\ Edges(p)[i] = Way(p, i)[i] /\ Edges(p)[i] = Edge(p[i])
           /\ p[i].kind = "static" => Edge(p[i]) = Static(p[i].name)
           /\ p[i].kind # "static" => Edge(p[i]) = Wild(p[i].kind)
           /\ Edge(p[i]).kind = p[i].kind /\ Edge(p[i]) \in EdgeSet
<1>1. p \in Seq(Token)
  BY PatternIs DEF Laid
<1>2. p[i] \in Token /\ p[i].kind # "bad"
  BY <1>1 DEF Laid
<1>3. p[i].kind \in {"static", "param", "all"}
  BY <1>2 DEF Token
<1>4. Edges(p)[i] = Edge(p[i]) /\ Way(p, i)[i] = Edge(p[i])
  BY <1>1 DEF Edges, Way
<1>5. /\ p[i].kind = "static" => Edge(p[i]) = Static(p[i].name)
      /\ p[i].kind # "static" => Edge(p[i]) = Wild(p[i].kind)
      /\ Edge(p[i]) \in EdgeSet
  BY <1>2, <1>3, EdgeIs
<1>6. Edge(p[i]).kind = p[i].kind
  <2>1. CASE p[i].kind = "static"
    BY <1>5, <2>1, EdgesDiffer
  <2>2. CASE p[i].kind = "param"
    BY <1>5, <2>2, EdgesDiffer
  <2>3. CASE p[i].kind = "all"
    BY <1>5, <2>3, EdgesDiffer
  <2>4. QED BY <1>3, <2>1, <2>2, <2>3
<1>7. QED BY <1>1, <1>3, <1>4, <1>5, <1>6

LEMMA LaidFront ==
    ASSUME NEW p \in Seq(Token), NEW j \in 0 .. Len(p)
    PROVE  Upto(Edges(p), j) = Way(p, j) /\ Len(Edges(p)) = Len(p)
<1>1. Len(p) \in 0 .. Len(p)
  OBVIOUS
<1>2. Len(Edges(p)) = Len(p)
  BY <1>1, WayIs DEF Edges
<1>3. QED BY <1>2 DEF Upto, Edges, Way

\* Shadowed() of a trie.
ShadowedIn(ways, p, segs) ==
    \E i \in DOMAIN p :
        \/ p[i].kind # "static" /\ Append(Way(p, i - 1), Static(segs[i])) \in ways
        \/ p[i].kind = "all" /\ Append(Way(p, i - 1), Wild("param")) \in ways

LEMMA WayTaken ==
    ASSUME NEW t, NEW p, Laid(t, p), NEW segs \in Seq(STRING), NEW a, WalkHolds(t, segs, Len(segs), a),
           a.found, a.node = Edges(p)
    PROVE  Matches(p, segs) /\ ~ShadowedIn(t.nodes, p, segs)
<1>1. p \in Seq(Token) /\ Len(a.node) = Len(p)
  <2>1. p \in Seq(Token)
    BY PatternIs DEF Laid
  <2>2. QED BY <2>1, LaidFront
<1>2. ASSUME NEW i \in 1 .. Len(p)
      PROVE  /\ p[i].kind \in {"static", "param", "all"} /\ a.node[i] = Edge(p[i])
             /\ p[i].kind = "static" => a.node[i] = Static(p[i].name)
             /\ p[i].kind # "static" => a.node[i] = Wild(p[i].kind)
             /\ Upto(a.node, i - 1) = Way(p, i - 1)
             /\ Preferred(t, segs, a.node, i)
             /\ a.node[i] = Wild("all") => i = Len(p) /\ a.done
  <2>1. /\ p[i].kind \in {"static", "param", "all"} /\ a.node[i] = Edge(p[i])
        /\ p[i].kind = "static" => a.node[i] = Static(p[i].name)
        /\ p[i].kind # "static" => a.node[i] = Wild(p[i].kind)
    BY LaidIs
  <2>2. i - 1 \in 0 .. Len(p)
    BY <1>1
  <2>3. Upto(a.node, i - 1) = Way(p, i - 1)
    BY <1>1, <2>2, LaidFront
  <2>4. Preferred(t, segs, a.node, i) /\ (a.node[i] = Wild("all") => i = Len(p) /\ a.done)
    BY <1>1 DEF WalkHolds
  <2>5. QED BY <2>1, <2>3, <2>4
<1>3. ASSUME NEW i \in 1 .. Len(p) PROVE Fits(p[i], segs[i])
  <2>1. CASE p[i].kind # "static"
    BY <2>1 DEF Fits
  <2>2. CASE p[i].kind = "static"
    <3>1. a.node[i] = Static(p[i].name) /\ Preferred(t, segs, a.node, i)
      BY <1>2, <2>2
    <3>2. Static(p[i].name) = Static(segs[i])
      BY <3>1, EdgesDiffer DEF Preferred
    <3>3. QED BY <3>2, EdgesDiffer DEF Fits
  <2>3. QED BY <2>1, <2>2
<1>4. ASSUME NEW i \in 1 .. Len(p), p[i].kind # "static"
      PROVE  Append(Way(p, i - 1), Static(segs[i])) \notin t.nodes
  <2>1. a.node[i] = Wild(p[i].kind) /\ Upto(a.node, i - 1) = Way(p, i - 1) /\ Preferred(t, segs, a.node, i)
        /\ p[i].kind \in {"param", "all"}
    BY <1>2, <1>4
  <2>2. Wild(p[i].kind) # Static(segs[i])
    BY <2>1, EdgesDiffer
  <2>3. QED BY <2>1, <2>2 DEF Preferred
<1>5. ASSUME NEW i \in 1 .. Len(p), p[i].kind = "all"
      PROVE  Append(Way(p, i - 1), Wild("param")) \notin t.nodes
  <2>1. a.node[i] = Wild("all") /\ Upto(a.node, i - 1) = Way(p, i - 1) /\ Preferred(t, segs, a.node, i)
    BY <1>2, <1>5
  <2>2. Wild("all") # Static(segs[i])
    BY EdgesDiffer
  <2>3. QED BY <2>1, <2>2 DEF Preferred
<1>6. DOMAIN p = 1 .. Len(p) /\ Len(p) \in Nat
  BY <1>1
<1>7. ~ShadowedIn(t.nodes, p, segs)
  BY <1>4, <1>5, <1>6 DEF ShadowedIn
<1>8. CASE p # <<>> /\ Last(p).kind = "all"
  <2>1. Len(p) \in 1 .. Len(p) /\ p[Len(p)].kind = "all"
    BY <1>1, <1>8 DEF Last
  <2>2. a.done
    BY <1>2, <2>1
  <2>3. Len(a.node) \in 1 .. Len(segs)
    BY <2>2 DEF WalkHolds
  <2>4. Len(segs) >= Len(p)
    BY <1>1, <2>3
  <2>5. QED BY <1>3, <1>6, <1>7, <1>8, <2>4 DEF Matches
<1>9. CASE ~(p # <<>> /\ Last(p).kind = "all")
  <2>1. ~a.done
    <3>1. SUFFICES ASSUME a.done PROVE FALSE
      OBVIOUS
    <3>2. Len(a.node) \in 1 .. Len(segs) /\ a.node[Len(a.node)] = Wild("all")
      BY <3>1 DEF WalkHolds
    <3>3. Len(p) \in 1 .. Len(p) /\ a.node[Len(p)] = Wild("all") /\ p # <<>>
      BY <1>1, <3>2
    <3>4. p[Len(p)].kind \in {"static", "param"}
      BY <1>2, <1>9, <3>3 DEF Last
    <3>5. QED BY <1>2, <3>3, <3>4, EdgesDiffer
  <2>2. Len(a.node) = Len(segs)
    BY <2>1 DEF WalkHolds
  <2>3. QED BY <1>1, <1>3, <1>6, <1>7, <1>9, <2>2 DEF Matches
<1>10. QED BY <1>8, <1>9

Ends(q) == q # <<>> /\ Last(q).kind = "all"

LEMMA BestReached ==
    ASSUME NEW t, NEW q, Laid(t, q), NEW segs \in Seq(STRING), Matches(q, segs), ~ShadowedIn(t.nodes, q, segs)
    PROVE  Walk(t, segs)[Len(segs)].found /\ Walk(t, segs)[Len(segs)].node = Edges(q)
<1> DEFINE w == Walk(t, segs)
           m == Len(q)
           Good(i) == /\ w[i].found
                      /\ i < m => ~w[i].done /\ w[i].node = Way(q, i)
                      /\ i >= m => w[i].node = Edges(q) /\ (w[i].done <=> Ends(q))
           T == {i \in 0 .. Len(segs) : Good(i)}
<1>0. Len(segs) \in Nat /\ q \in Seq(Token) /\ m \in Nat
  BY PatternIs DEF Laid
<1>1. w[0] = Outset /\ \A i \in 1 .. Len(segs) : w[i] = Step(t, segs, w[i - 1], i)
  BY <1>0, WalkIs
<1>2. \A i \in 0 .. Len(segs) : WalkHolds(t, segs, i, w[i])
  BY WalkEnds
<1>3. m <= Len(segs) /\ (~Ends(q) => m = Len(segs)) /\ \A i \in 1 .. m : Fits(q[i], segs[i])
  BY <1>0 DEF Matches, Ends
<1> HIDE DEF w
<1>4. 0 \in T
  <2>1. w[0].found /\ ~w[0].done /\ w[0].node = <<>>
    BY <1>1 DEF Outset
  <2>2. Way(q, 0) = <<>>
    BY WayEmpty
  <2>3. 0 >= m => Edges(q) = <<>> /\ ~Ends(q)
    <3>1. 0 >= m => q = <<>>
      BY <1>0
    <3>2. 0 >= m => m = 0
      BY <1>0
    <3>3. QED BY <3>1, <3>2, <2>2 DEF Edges, Ends
  <2>4. Good(0)
    BY <2>1, <2>2, <2>3
  <2>5. QED BY <1>0, <2>4
<1>5. ASSUME NEW k \in 0 .. Len(segs), k < Len(segs), k \in T PROVE k + 1 \in T
  <2>0. k + 1 \in 1 .. Len(segs) /\ k + 1 \in 0 .. Len(segs) /\ (k + 1) - 1 = k
    BY <1>5
  <2>1. Good(k)
    BY <1>5
  <2>2. Turn(t, segs, k + 1, w[k], w[k + 1])
    <3>1. w[k + 1] = Step(t, segs, w[k], k + 1)
      BY <1>1, <2>0
    <3>2. Place(w[k])
      BY <1>2 DEF WalkHolds
    <3>3. QED BY <2>0, <3>1, <3>2, StepIs
  <2>3. CASE k >= m
    <3>1. w[k].done
      BY <1>3, <1>5, <2>1, <2>3
    <3>2. w[k + 1] = w[k]
      BY <2>2, <3>1 DEF Turn
    <3>3. k + 1 >= m
      BY <1>0, <2>3
    <3>4. ~(k + 1 < m)
      BY <1>0, <2>3
    <3>5. Good(k + 1)
      BY <2>1, <2>3, <3>2, <3>3, <3>4
    <3>6. QED BY <2>0, <3>5
  <2>4. CASE k < m
    <3>1. k + 1 \in 1 .. m /\ k + 1 \in 1 .. Len(q)
      BY <1>0, <2>4
    <3>2. ~w[k].done /\ w[k].node = Way(q, k) /\ w[k].found
      BY <2>1, <2>4
    <3>3. Append(Way(q, k), Edge(q[k + 1])) = Way(q, k + 1)
      BY <1>0, <2>0, <3>1, WayNext
    <3>4. Way(q, k + 1) \in t.nodes /\ (q[k + 1].kind = "all" => k + 1 = m)
      BY <3>1 DEF Laid
    <3>5. /\ q[k + 1].kind \in {"static", "param", "all"}
          /\ q[k + 1].kind = "static" => Edge(q[k + 1]) = Static(q[k + 1].name)
          /\ q[k + 1].kind # "static" => Edge(q[k + 1]) = Wild(q[k + 1].kind)
      BY <3>1, LaidIs
    <3>6. /\ q[k + 1].kind # "static" => Append(Way(q, k), Static(segs[k + 1])) \notin t.nodes
          /\ q[k + 1].kind = "all" => Append(Way(q, k), Wild("param")) \notin t.nodes
      <4>1. k + 1 \in DOMAIN q
        BY <1>0, <3>1
      <4>2. QED BY <2>0, <4>1 DEF ShadowedIn
    <3>7. w[k + 1].found /\ w[k + 1].node = Way(q, k + 1) /\ (w[k + 1].done <=> q[k + 1].kind = "all")
      <4>1. CASE q[k + 1].kind = "static"
        <5>1. q[k + 1].name = segs[k + 1]
          BY <1>3, <3>1, <4>1 DEF Fits
        <5>2. Append(w[k].node, Static(segs[k + 1])) = Way(q, k + 1)
          BY <3>2, <3>3, <3>5, <4>1, <5>1
        <5>3. QED BY <2>2, <3>2, <3>4, <4>1, <5>2 DEF Turn
      <4>2. CASE q[k + 1].kind = "param"
        <5>1. Append(w[k].node, Wild("param")) = Way(q, k + 1)
          BY <3>2, <3>3, <3>5, <4>2
        <5>2. Append(w[k].node, Static(segs[k + 1])) \notin t.nodes
          BY <3>2, <3>6, <4>2
        <5>3. QED BY <2>2, <3>2, <3>4, <4>2, <5>1, <5>2 DEF Turn
      <4>3. CASE q[k + 1].kind = "all"
        <5>1. Append(w[k].node, Wild("all")) = Way(q, k + 1)
          BY <3>2, <3>3, <3>5, <4>3
        <5>2. Append(w[k].node, Static(segs[k + 1])) \notin t.nodes /\ Append(w[k].node, Wild("param")) \notin t.nodes
          BY <3>2, <3>6, <4>3
        <5>3. QED BY <2>2, <3>2, <3>4, <4>3, <5>1, <5>2 DEF Turn
      <4>4. QED BY <3>5, <4>1, <4>2, <4>3
    <3>8. CASE k + 1 < m
      <4>1. ~w[k + 1].done /\ ~(k + 1 >= m)
        BY <1>0, <3>4, <3>7, <3>8
      <4>2. Good(k + 1)
        BY <3>7, <3>8, <4>1
      <4>3. QED BY <2>0, <4>2
    <3>9. CASE ~(k + 1 < m)
      <4>1. k + 1 = m
        BY <1>0, <3>1, <3>9
      <4>2. q # <<>> /\ Last(q) = q[k + 1]
        BY <1>0, <3>1, <4>1 DEF Last
      <4>3. w[k + 1].node = Edges(q) /\ (w[k + 1].done <=> Ends(q))
        BY <3>7, <4>1, <4>2 DEF Edges, Ends
      <4>4. Good(k + 1)
        BY <3>7, <3>9, <4>3
      <4>5. QED BY <2>0, <4>4
    <3>10. QED BY <3>8, <3>9
  <2>5. QED BY <1>0, <2>3, <2>4
<1> HIDE DEF T
<1>6. Len(segs) \in T
  <2>1. \A k \in 0 .. Len(segs) : k \in T
    BY <1>0, <1>4, <1>5, CountUp
  <2>2. Len(segs) \in 0 .. Len(segs)
    BY <1>0
  <2>3. QED BY <2>1, <2>2
<1>7. Good(Len(segs)) /\ Len(segs) >= m
  BY <1>0, <1>3, <1>6 DEF T
<1>8. QED BY <1>7 DEF w

-----------------------------------------------------------------------------
(* Requests.                                                               *)

LEMMA SearchIs ==
    ASSUME NEW t, NEW ways, NEW taken, RoutesLaid(t, ways, taken), NEW segs \in Seq(STRING), NEW a, a = Walk(t, segs)[Len(segs)],
           NEW r, r = Search(t, segs)
    PROVE  /\ WalkHolds(t, segs, Len(segs), a)
           /\ r.found \in BOOLEAN
           /\ r.found => /\ a.found /\ r.handler \in taken /\ Laid(t, r.handler)
                         /\ Edges(r.handler) = a.node /\ r.params = a.params
           /\ ~r.found => ~(a.found /\ a.node \in DOMAIN t.handler)
<1>1. WalkHolds(t, segs, Len(segs), a)
  <2>1. Len(segs) \in 0 .. Len(segs)
    OBVIOUS
  <2>2. QED BY <2>1, WalkEnds
<1>2. CASE a.found /\ a.node \in DOMAIN t.handler
  <2>1. r = [found |-> TRUE, handler |-> t.handler[a.node], params |-> a.params]
    BY <1>2 DEF Search
  <2>2. r.found = TRUE /\ r.handler = t.handler[a.node] /\ r.params = a.params
    BY <2>1
  <2>3. t.handler[a.node] \in taken /\ Edges(t.handler[a.node]) = a.node
    BY <1>2 DEF RoutesLaid
  <2>4. Laid(t, t.handler[a.node])
    BY <2>3 DEF RoutesLaid
  <2>5. QED BY <1>1, <1>2, <2>2, <2>3, <2>4
<1>3. CASE ~(a.found /\ a.node \in DOMAIN t.handler)
  <2>1. r = [found |-> FALSE]
    BY <1>3 DEF Search
  <2>2. r.found = FALSE
    BY <2>1
  <2>3. QED BY <1>1, <1>3, <2>2
<1>4. QED BY <1>2, <1>3

LEMMA PreferredFound == RouterInv => SearchIsPreferred
<1> SUFFICES ASSUME RouterInv, NEW v \in Verb, NEW segs \in Path
             PROVE  LET best == {p \in routes[v] : Matches(p, segs) /\ ~Shadowed(v, p, segs)}
                        r == Search(routeTrie[v], segs)
                    IN  IF r.found THEN r.handler \in best /\ \A p \in best : Edges(p) = Edges(r.handler)
                                   ELSE best = {}
  BY DEF SearchIsPreferred
<1> DEFINE t == routeTrie[v]
           best == {p \in routes[v] : Matches(p, segs) /\ ~Shadowed(v, p, segs)}
           r == Search(t, segs)
           a == Walk(t, segs)[Len(segs)]
<1>1. RoutesLaid(t, planted[v], routes[v]) /\ planted[v] = t.nodes /\ segs \in Seq(STRING)
  BY RouterAssumption DEF RouterInv, RoutesLaid
<1>2. \A p : Shadowed(v, p, segs) <=> ShadowedIn(t.nodes, p, segs)
  BY <1>1 DEF Shadowed, ShadowedIn
<1>3. \A p \in routes[v] : Laid(t, p) /\ Edges(p) \in DOMAIN t.handler
  BY <1>1 DEF RoutesLaid, Laid
<1> HIDE DEF t
<1>4. \A p \in best : a.found /\ a.node = Edges(p)
  BY <1>1, <1>2, <1>3, BestReached
<1>5. /\ WalkHolds(t, segs, Len(segs), a) /\ r.found \in BOOLEAN
      /\ r.found => a.found /\ r.handler \in routes[v] /\ Laid(t, r.handler) /\ Edges(r.handler) = a.node
      /\ ~r.found => ~(a.found /\ a.node \in DOMAIN t.handler)
  BY <1>1, SearchIs
<1> HIDE DEF r, a
<1>6. CASE r.found
  <2>1. Matches(r.handler, segs) /\ ~ShadowedIn(t.nodes, r.handler, segs)
    BY <1>1, <1>5, <1>6, WayTaken
  <2>2. r.handler \in best
    BY <1>2, <1>5, <1>6, <2>1
  <2>3. \A p \in best : Edges(p) = Edges(r.handler)
    BY <1>4, <1>5, <1>6
  <2>4. QED BY <1>6, <2>2, <2>3 DEF r, t
<1>7. CASE ~r.found
  <2>1. best = {}
    BY <1>3, <1>4, <1>5, <1>7
  <2>2. QED BY <1>7, <2>1 DEF r, t
<1>8. QED BY <1>5, <1>6, <1>7

LEMMA ParametersGiven == RouterInv => ParametersBound
<1> SUFFICES ASSUME RouterInv, NEW v \in Verb, NEW segs \in Path, Search(routeTrie[v], segs).found
             PROVE  LET r == Search(routeTrie[v], segs)
                        p == r.handler
                        named(n) == {i \in DOMAIN p : p[i].kind \in {"param", "all"} /\ p[i].name = n}
                        latest(n) == CHOOSE i \in named(n) : \A j \in named(n) : j <= i
                    IN  /\ DOMAIN r.params = {p[i].name : i \in {j \in DOMAIN p : p[j].kind # "static"}}
                        /\ \A n \in DOMAIN r.params :
                               r.params[n] = IF p[latest(n)].kind = "all"
                                             THEN SubSeq(segs, latest(n), Len(segs))
                                             ELSE <<segs[latest(n)]>>
  BY DEF ParametersBound
<1> DEFINE t == routeTrie[v]
           r == Search(t, segs)
           a == Walk(t, segs)[Len(segs)]
           p == r.handler
           named(n) == {i \in DOMAIN p : p[i].kind \in {"param", "all"} /\ p[i].name = n}
           latest(n) == CHOOSE i \in named(n) : \A j \in named(n) : j <= i
<1>1. RoutesLaid(t, planted[v], routes[v]) /\ segs \in Seq(STRING)
  BY RouterAssumption DEF RouterInv
<1>2. WalkHolds(t, segs, Len(segs), a) /\ a.found /\ Laid(t, p) /\ Edges(p) = a.node /\ r.params = a.params
  <2> HIDE DEF t
  <2>1. r.found
    BY DEF t
  <2>2. QED BY <1>1, <2>1, SearchIs
<1> HIDE DEF t, r, a, p
<1>3. p \in Seq(Token) /\ DOMAIN p = 1 .. Len(p) /\ Len(p) \in Nat /\ Len(a.node) = Len(p)
  <2>1. p \in Seq(Token)
    BY <1>2, PatternIs DEF Laid
  <2>2. QED BY <1>2, <2>1, LaidFront
<1>4. Named(t, segs, a.node, a.params)
  BY <1>2 DEF WalkHolds
<1>5. ASSUME NEW i \in 1 .. Len(p)
      PROVE  /\ p[i].kind \in {"static", "param", "all"} /\ a.node[i].kind = p[i].kind
             /\ p[i].kind # "static" => NameAt(t, a.node, i) = p[i].name
  <2>1. p[i].kind \in {"static", "param", "all"} /\ a.node[i].kind = p[i].kind
    <3>1. Edges(p)[i] = Edge(p[i]) /\ Edge(p[i]).kind = p[i].kind /\ p[i].kind \in {"static", "param", "all"}
      BY <1>2, LaidIs
    <3>2. QED BY <1>2, <3>1
  <2>2. Upto(a.node, i) = Way(p, i)
    BY <1>2, <1>3, LaidFront
  <2>3. p[i].kind # "static" => t.name[Way(p, i)] = p[i].name
    BY <1>2, <2>1 DEF Laid
  <2>4. QED BY <2>1, <2>2, <2>3 DEF NameAt
<1>6. Wilds(a.node) = {j \in DOMAIN p : p[j].kind # "static"}
  BY <1>3, <1>5 DEF Wilds
<1>7. DOMAIN r.params = {p[i].name : i \in {j \in DOMAIN p : p[j].kind # "static"}}
  <2>1. \A i \in Wilds(a.node) : NameAt(t, a.node, i) = p[i].name
    BY <1>3, <1>5, <1>6
  <2>2. DOMAIN r.params = {NameAt(t, a.node, i) : i \in Wilds(a.node)}
    BY <1>2, <1>4 DEF Named
  <2>3. DOMAIN r.params = {p[i].name : i \in Wilds(a.node)}
    BY <2>1, <2>2
  <2>4. QED BY <1>6, <2>3
<1>8. ASSUME NEW n \in DOMAIN r.params
      PROVE  r.params[n] = IF p[latest(n)].kind = "all" THEN SubSeq(segs, latest(n), Len(segs)) ELSE <<segs[latest(n)]>>
  <2>1. named(n) \subseteq 1 .. Len(p) /\ named(n) # {}
    <3>1. PICK i \in {j \in DOMAIN p : p[j].kind # "static"} : n = p[i].name
      BY <1>7
    <3>2. i \in named(n)
      BY <1>3, <1>5, <3>1
    <3>3. QED BY <1>3, <3>2
  <2>2. \E m \in named(n) : \A k \in named(n) : k <= m
    <3> HIDE DEF named
    <3>1. QED BY <1>3, <2>1, GreatestNumber
  <2> DEFINE m == latest(n)
  <2>3. m \in named(n) /\ \A k \in named(n) : k <= m
    <3> HIDE DEF named
    <3>1. QED BY <2>2
  <2> HIDE DEF m
  <2>4. m \in 1 .. Len(p) /\ p[m].kind # "static" /\ p[m].name = n /\ m \in Wilds(a.node)
    BY <1>3, <1>6, <2>3
  <2>5. NameAt(t, a.node, m) = n
    BY <1>5, <2>4
  <2>6. \A k \in Wilds(a.node) : k > m => NameAt(t, a.node, k) # NameAt(t, a.node, m)
    <3> SUFFICES ASSUME NEW k \in Wilds(a.node), k > m, NameAt(t, a.node, k) = n PROVE FALSE
      BY <2>5
    <3>1. k \in 1 .. Len(p) /\ p[k].kind # "static" /\ p[k].name = n
      BY <1>3, <1>5, <1>6
    <3>2. k \in named(n)
      BY <1>3, <1>5, <3>1
    <3>3. k <= m
      BY <2>3, <3>2
    <3>4. QED BY <2>4, <3>1, <3>3
  <2>7. a.params[n] = Given(segs, a.node, m)
    BY <1>4, <2>4, <2>5, <2>6 DEF Named
  <2>8. a.node[m].kind = p[m].kind
    BY <1>5, <2>4
  <2>9. QED BY <1>2, <2>7, <2>8 DEF Given, m
<1>9. QED BY <1>7, <1>8 DEF p, r, t

LEMMA FlattenSteps ==
    ASSUME NEW ss, Len(ss) \in Nat \ {0}
    PROVE  \E h : /\ FlattenSeq(ss) = h[Len(ss)] /\ h[1] = ss[1]
                  /\ \A i \in 2 .. Len(ss) : h[i] = h[i - 1] \o ss[i]
<1> DEFINE Right(h, n) == h = [i \in 1 .. n |-> IF i = 1 THEN ss[i] ELSE h[i - 1] \o ss[i]]
           L == Len(ss)
           T == {n \in 0 .. L : \E h : Right(h, n)}
<1>0. L \in Nat /\ L # 0
  OBVIOUS
<1>1. 0 \in T
  <2> DEFINE h == [i \in 1 .. 0 |-> ss[i]]
  <2>1. Right(h, 0)
    OBVIOUS
  <2>2. 0 \in 0 .. L
    OBVIOUS
  <2> HIDE DEF Right
  <2>3. QED BY <2>1, <2>2
<1>2. ASSUME NEW n \in 0 .. L, n < L, n \in T PROVE n + 1 \in T
  <2>1. PICK h : Right(h, n)
    BY <1>2
  <2> DEFINE k == [i \in 1 .. (n + 1) |-> IF i = n + 1 THEN (IF i = 1 THEN ss[i] ELSE h[n] \o ss[i]) ELSE h[i]]
  <2>2. \A i \in 1 .. n : k[i] = h[i]
    OBVIOUS
  <2>3. ASSUME NEW i \in 1 .. (n + 1)
        PROVE  k[i] = IF i = 1 THEN ss[i] ELSE k[i - 1] \o ss[i]
    <3>1. CASE i = n + 1 /\ i = 1
      BY <3>1
    <3>2. CASE i = n + 1 /\ i # 1
      <4>1. i - 1 = n /\ n \in 1 .. n /\ i - 1 \in 1 .. n
        BY <3>2
      <4>2. k[i - 1] = h[n]
        BY <2>2, <4>1
      <4>3. k[i] = h[n] \o ss[i]
        BY <3>2
      <4>4. QED BY <3>2, <4>2, <4>3
    <3>3. CASE i # n + 1 /\ i = 1
      <4>1. i \in 1 .. n
        BY <3>3
      <4>2. h[i] = ss[i]
        BY <2>1, <3>3, <4>1
      <4>3. QED BY <2>2, <3>3, <4>1, <4>2
    <3>4. CASE i # n + 1 /\ i # 1
      <4>1. i \in 1 .. n /\ i - 1 \in 1 .. n
        BY <3>4
      <4>2. h[i] = h[i - 1] \o ss[i]
        BY <2>1, <3>4, <4>1
      <4>3. k[i] = h[i] /\ k[i - 1] = h[i - 1]
        BY <2>2, <4>1
      <4>4. QED BY <3>4, <4>2, <4>3
    <3>5. QED BY <3>1, <3>2, <3>3, <3>4
  <2>4. k = [i \in 1 .. (n + 1) |-> k[i]]
    OBVIOUS
  <2> HIDE DEF k
  <2>5. Right(k, n + 1)
    BY <2>3, <2>4
  <2>6. n + 1 \in 0 .. L
    BY <1>2
  <2> HIDE DEF Right
  <2>7. QED BY <2>5, <2>6
<1>3. L \in T
  <2>1. L \in 0 .. L
    BY <1>0
  <2>2. \A n \in 0 .. L : n < L /\ n \in T => n + 1 \in T
    BY <1>2
  <2> HIDE DEF T, L
  <2>3. QED BY <1>0, <1>1, <2>1, <2>2, CountUp
<1>4. PICK h : Right(h, L)
  BY <1>3
<1> DEFINE w == CHOOSE w : w = [i \in 1 .. Len(ss) |-> IF i = 1 THEN ss[i] ELSE w[i - 1] \o ss[i]]
<1>5. w = [i \in 1 .. Len(ss) |-> IF i = 1 THEN ss[i] ELSE w[i - 1] \o ss[i]]
  BY <1>4
<1>6. FlattenSeq(ss) = w[Len(ss)]
  BY <1>0 DEF FlattenSeq
<1> HIDE DEF w
<1>7. w[1] = ss[1] /\ \A i \in 2 .. Len(ss) : w[i] = w[i - 1] \o ss[i]
  <2>1. 1 \in 1 .. Len(ss) /\ \A i \in 2 .. Len(ss) : i \in 1 .. Len(ss) /\ i # 1
    BY <1>0
  <2>2. QED BY <1>5, <2>1
<1>8. QED BY <1>6, <1>7

Begins(s, t) == Len(s) <= Len(t) /\ \A i \in 1 .. Len(s) : t[i] = s[i]

LEMMA BeginsOn ==
    ASSUME NEW S, NEW s \in Seq(S), NEW t \in Seq(S), NEW u \in Seq(S), Begins(s, t)
    PROVE  t \o u \in Seq(S) /\ Begins(s, t \o u)
<1>1. t \o u \in Seq(S) /\ Len(t \o u) = Len(t) + Len(u) /\ \A i \in 1 .. Len(t) : (t \o u)[i] = t[i]
  OBVIOUS
<1>2. QED BY <1>1 DEF Begins

LEMMA FlattenFirst ==
    ASSUME NEW S, NEW ss \in Seq(Seq(S)), ss # <<>>
    PROVE  FlattenSeq(ss) \in Seq(S) /\ Begins(ss[1], FlattenSeq(ss))
<1>1. Len(ss) \in Nat \ {0} /\ Len(ss) \in Nat
  OBVIOUS
<1>2. PICK h : /\ FlattenSeq(ss) = h[Len(ss)] /\ h[1] = ss[1]
               /\ \A i \in 2 .. Len(ss) : h[i] = h[i - 1] \o ss[i]
  BY <1>1, FlattenSteps
<1>3. \A i \in 1 .. Len(ss) : ss[i] \in Seq(S)
  BY ElementOfSeq
<1> DEFINE x == ss[1]
           T == {i \in 0 .. Len(ss) : i > 0 => h[i] \in Seq(S) /\ Begins(x, h[i])}
<1>4. x \in Seq(S)
  BY <1>1, <1>3
<1> HIDE DEF x
<1>5. 0 \in T
  BY <1>1
<1>6. ASSUME NEW k \in 0 .. Len(ss), k < Len(ss), k \in T PROVE k + 1 \in T
  <2>1. k + 1 \in 0 .. Len(ss) /\ k + 1 \in 1 .. Len(ss) /\ (k + 1) - 1 = k
    BY <1>6
  <2>2. CASE k = 0
    <3>1. h[k + 1] = x
      <4>1. k + 1 = 1
        BY <2>2
      <4>2. QED BY <1>2, <4>1 DEF x
    <3>2. Begins(x, x)
      BY <1>4 DEF Begins
    <3>3. QED BY <1>4, <2>1, <3>1, <3>2
  <2>3. CASE k # 0
    <3> DEFINE g == h[k]
               y == ss[k + 1]
    <3>1. g \in Seq(S) /\ Begins(x, g)
      BY <1>6, <2>3
    <3>2. k + 1 \in 2 .. Len(ss)
      BY <2>1, <2>3
    <3>3. h[k + 1] = g \o y /\ y \in Seq(S)
      BY <1>2, <1>3, <2>1, <3>2
    <3> HIDE DEF g, y
    <3>4. g \o y \in Seq(S) /\ Begins(x, g \o y)
      BY <1>4, <3>1, <3>3, BeginsOn
    <3>5. QED BY <2>1, <3>3, <3>4
  <2>4. QED BY <2>2, <2>3
<1> HIDE DEF T
<1>7. Len(ss) \in T
  <2>1. \A k \in 0 .. Len(ss) : k \in T
    BY <1>1, <1>5, <1>6, CountUp
  <2>2. Len(ss) \in 0 .. Len(ss)
    BY <1>1
  <2>3. QED BY <2>1, <2>2
<1>8. h[Len(ss)] \in Seq(S) /\ Begins(x, h[Len(ss)])
  <2>1. Len(ss) > 0
    BY <1>1
  <2>2. QED BY <1>7, <2>1 DEF T
<1>9. QED BY <1>2, <1>8 DEF x

LEMMA ChainIs ==
    ASSUME MiddlewareKept(mwTrie), mwDepth \in Nat, <<>> \in DOMAIN mwTrie.handler, NEW segs \in Seq(STRING)
    PROVE  Chain(segs) \in Seq(Middleware) /\ Begins(mwTrie.handler[<<>>], Chain(segs))
<1> DEFINE found(k) == Search(mwTrie, SubSeq(segs, 1, k))
           at(k) == IF found(k).found THEN found(k).handler ELSE <<>>
           reach == IF Len(segs) < mwDepth THEN Len(segs) ELSE mwDepth
           ss == [k \in 1 .. reach + 1 |-> at(k - 1)]
<1>0. reach \in Nat
  OBVIOUS
<1>1. Chain(segs) = FlattenSeq(ss)
  BY DEF Chain
<1>2. ASSUME NEW k PROVE at(k) \in Seq(Middleware)
  <2> DEFINE acc == Walk(mwTrie, SubSeq(segs, 1, k))[Len(SubSeq(segs, 1, k))]
  <2>1. found(k) = IF acc.found /\ acc.node \in DOMAIN mwTrie.handler
                   THEN [found |-> TRUE, handler |-> mwTrie.handler[acc.node], params |-> acc.params]
                   ELSE [found |-> FALSE]
    BY DEF Search
  <2> HIDE DEF acc
  <2>2. <<>> \in Seq(Middleware)
    OBVIOUS
  <2>3. CASE acc.found /\ acc.node \in DOMAIN mwTrie.handler
    <3>1. found(k) = [found |-> TRUE, handler |-> mwTrie.handler[acc.node], params |-> acc.params]
      BY <2>1, <2>3
    <3>2. mwTrie.handler[acc.node] \in Seq(Middleware)
      BY <2>3 DEF MiddlewareKept
    <3>3. found(k).found = TRUE /\ found(k).handler = mwTrie.handler[acc.node]
      BY <3>1
    <3>4. QED BY <3>2, <3>3
  <2>4. CASE ~(acc.found /\ acc.node \in DOMAIN mwTrie.handler)
    <3>1. found(k) = [found |-> FALSE]
      BY <2>1, <2>4
    <3>2. found(k).found = FALSE
      BY <3>1
    <3>3. QED BY <2>2, <3>2
  <2>5. QED BY <2>3, <2>4
<1>3. at(0) = mwTrie.handler[<<>>]
  <2>1. SubSeq(segs, 1, 0) = <<>> /\ Len(<<>>) = 0
    OBVIOUS
  <2>2. Walk(mwTrie, <<>>)[0] = Outset
    BY <2>1, WalkIs
  <2>3. Outset.found = TRUE /\ Outset.node = <<>> /\ Outset.params = <<>>
    BY DEF Outset
  <2>4. Search(mwTrie, <<>>) = [found |-> TRUE, handler |-> mwTrie.handler[<<>>], params |-> <<>>]
    BY <2>1, <2>2, <2>3 DEF Search
  <2>5. found(0) = [found |-> TRUE, handler |-> mwTrie.handler[<<>>], params |-> <<>>]
    BY <2>1, <2>4
  <2>6. QED BY <2>5
<1> HIDE DEF at, found, reach
<1>4. ss \in Seq(Seq(Middleware)) /\ ss # <<>> /\ ss[1] = at(0)
  <2>1. \A k \in 1 .. reach + 1 : ss[k] \in Seq(Middleware)
    BY <1>2
  <2>2. reach + 1 \in Nat /\ 1 \in 1 .. reach + 1 /\ 1 - 1 = 0
    BY <1>0
  <2>3. ss \in Seq(Seq(Middleware)) /\ Len(ss) = reach + 1
    BY <2>1, <2>2
  <2>4. ss[1] = at(0)
    BY <2>2
  <2>5. ss # <<>>
    BY <1>0, <2>3
  <2>6. QED BY <2>3, <2>4, <2>5
<1> HIDE DEF ss
<1>5. QED BY <1>1, <1>3, <1>4, FlattenFirst

LEMMA RootFirst == RouterInv => RootMiddlewareFirst
<1> SUFFICES ASSUME RouterInv, <<>> \in DOMAIN mwTrie.handler,
                    NEW v \in Verb, NEW segs \in Path, NEW preflight \in BOOLEAN
             PROVE  LET d == Dispatched(v, segs, preflight) IN
                    IF d.status = 204 THEN d.ran = <<Head(mwTrie.handler[<<>>])>>
                                      ELSE IsPrefix(mwTrie.handler[<<>>], d.ran)
  BY DEF RootMiddlewareFirst
<1> DEFINE root == mwTrie.handler[<<>>]
           chain == Chain(segs)
           r == Search(routeTrie[v], segs)
           d == Dispatched(v, segs, preflight)
<1>1. root \in Seq(Middleware) /\ root # <<>>
  BY DEF RouterInv, MiddlewareKept
<1>2. segs \in Seq(STRING)
  BY RouterAssumption
<1>3. chain \in Seq(Middleware) /\ Begins(root, chain)
  BY <1>2, ChainIs DEF RouterInv
<1> HIDE DEF root, chain, r
<1>4. /\ chain \in Seq(Middleware) /\ chain # <<>> /\ Head(chain) = Head(root)
      /\ Len(root) <= Len(chain) /\ SubSeq(root, 1, Len(root)) = SubSeq(chain, 1, Len(root))
  <2>1. Len(root) \in Nat /\ Len(root) # 0 /\ Len(chain) \in Nat
    BY <1>1, <1>3
  <2>2. 1 \in 1 .. Len(root) /\ Len(root) <= Len(chain) /\ \A i \in 1 .. Len(root) : chain[i] = root[i]
    BY <1>3, <2>1 DEF Begins
  <2>3. chain # <<>> /\ Head(chain) = Head(root)
    BY <1>1, <1>3, <2>1, <2>2
  <2>4. SubSeq(root, 1, Len(root)) = SubSeq(chain, 1, Len(root))
    BY <1>1, <1>3, <2>2
  <2>5. QED BY <1>3, <2>2, <2>3, <2>4
<1>5. IsPrefix(root, chain)
  BY <1>4 DEF IsPrefix
<1>6. \/ preflight /\ d = [status |-> 204, ran |-> <<Head(chain)>>]
      \/ d = [status |-> 200, ran |-> chain, handler |-> r.handler]
      \/ d = [status |-> 404, ran |-> chain]
  BY <1>4 DEF Dispatched, chain, r
<1> HIDE DEF d
<1>7. \/ d.status = 204 /\ d.ran = <<Head(chain)>>
      \/ d.status # 204 /\ d.ran = chain
  <2>1. CASE d = [status |-> 204, ran |-> <<Head(chain)>>]
    BY <2>1
  <2>2. CASE d = [status |-> 200, ran |-> chain, handler |-> r.handler]
    BY <2>2
  <2>3. CASE d = [status |-> 404, ran |-> chain]
    BY <2>3
  <2>4. QED BY <1>6, <2>1, <2>2, <2>3
<1>8. QED BY <1>4, <1>5, <1>7 DEF root, d

\* Whatever patterns are registered, in whatever order and with whichever failures: a
\* request reaches the route that matches its path and is not shadowed, with that route's
\* own parameters, and passes the middleware of the root first (trie::insert,
\* trie::search, router::dispatch_http).
THEOREM RequestsAlwaysRouted == RouterSpec => []RequestsRouted
<1>1. RouterInit => RouterInv
  BY RouterStarts
<1>2. RouterInv /\ [RouterNext]_routerVars => RouterInv'
  BY RouterKept
<1>3. RouterInv => RequestsRouted
  BY PreferredFound, ParametersGiven, RootFirst DEF RequestsRouted
<1>4. QED BY <1>1, <1>2, <1>3, PTL DEF RouterSpec

-----------------------------------------------------------------------------
(* RateLimiter.                                                            *)

Sending == [at : 0 .. MaxSeconds, size : Size]

\* What a message weighs, and the sums of a sequence of them from one on.
Weight(m) == Least(m.size, Burst)
SumsOf(s, from, h) == h = [k \in 0 .. Len(s) |-> IF k < from THEN 0 ELSE h[k - 1] + Weight(s[k])]
SentOf(s, from) == (CHOOSE h : SumsOf(s, from, h))[Len(s)]

LEMMA SentIsSum == ASSUME NEW from PROVE Sent(from) = SentOf(passed, from)
BY DEF Sent, SentOf, SumsOf, Weight

LEMMA BurstIs == Burst \in Nat /\ BytesPerSecond \in Nat /\ \A m \in Sending : Weight(m) \in 0 .. Burst
<1>1. Burst \in Nat /\ BytesPerSecond \in Nat
  BY LimiterAssumption DEF Burst
<1>2. \A m \in Sending : m.size \in Nat
  BY LimiterAssumption DEF Sending
<1>3. \A m \in Sending : Weight(m) \in 0 .. Burst
  BY <1>1, <1>2 DEF Weight, Least
<1>4. QED BY <1>1, <1>3

LEMMA SumsExist ==
    ASSUME NEW s \in Seq(Sending), NEW from \in Nat \ {0}
    PROVE  \E h : SumsOf(s, from, h)
<1> DEFINE Right(h, n) == h = [k \in 0 .. n |-> IF k < from THEN 0 ELSE h[k - 1] + Weight(s[k])]
           T == {n \in 0 .. Len(s) : \E h : Right(h, n)}
<1>0. Len(s) \in Nat
  OBVIOUS
<1>1. 0 \in T
  <2> DEFINE h == [k \in 0 .. 0 |-> 0]
  <2>1. Right(h, 0)
    OBVIOUS
  <2>2. 0 \in 0 .. Len(s)
    BY <1>0
  <2> HIDE DEF Right
  <2>3. QED BY <2>1, <2>2
<1>2. ASSUME NEW n \in 0 .. Len(s), n < Len(s), n \in T PROVE n + 1 \in T
  <2>1. PICK h : Right(h, n)
    BY <1>2
  <2> DEFINE g == [k \in 0 .. (n + 1) |-> IF k = n + 1 THEN (IF k < from THEN 0 ELSE h[n] + Weight(s[k])) ELSE h[k]]
  <2>2. \A k \in 0 .. n : g[k] = h[k]
    OBVIOUS
  <2>3. ASSUME NEW k \in 0 .. (n + 1) PROVE g[k] = IF k < from THEN 0 ELSE g[k - 1] + Weight(s[k])
    <3>1. CASE k < from
      <4>1. CASE k = n + 1
        BY <3>1, <4>1
      <4>2. CASE k # n + 1
        <5>1. k \in 0 .. n
          BY <4>2
        <5>2. h[k] = 0
          BY <2>1, <3>1, <5>1
        <5>3. QED BY <2>2, <3>1, <5>1, <5>2
      <4>3. QED BY <4>1, <4>2
    <3>2. CASE ~(k < from)
      <4>1. k - 1 \in 0 .. n
        BY <3>2
      <4>2. CASE k = n + 1
        <5>1. k - 1 = n
          BY <4>2
        <5>2. g[k] = h[n] + Weight(s[k])
          BY <3>2, <4>2
        <5>3. QED BY <2>2, <3>2, <4>1, <5>1, <5>2
      <4>3. CASE k # n + 1
        <5>1. k \in 0 .. n
          BY <4>3
        <5>2. h[k] = h[k - 1] + Weight(s[k])
          BY <2>1, <3>2, <5>1
        <5>3. QED BY <2>2, <3>2, <4>1, <5>1, <5>2
      <4>4. QED BY <4>2, <4>3
    <3>3. QED BY <3>1, <3>2
  <2>4. g = [k \in 0 .. (n + 1) |-> g[k]]
    OBVIOUS
  <2> HIDE DEF g
  <2>5. Right(g, n + 1)
    BY <2>3, <2>4
  <2>6. n + 1 \in 0 .. Len(s)
    BY <1>2
  <2> HIDE DEF Right
  <2>7. QED BY <2>5, <2>6
<1>3. Len(s) \in T
  <2>1. Len(s) \in 0 .. Len(s)
    BY <1>0
  <2>2. \A n \in 0 .. Len(s) : n < Len(s) /\ n \in T => n + 1 \in T
    BY <1>2
  <2> HIDE DEF T
  <2>3. QED BY <1>0, <1>1, <2>1, <2>2, CountUp
<1>4. QED BY <1>3 DEF SumsOf

\* One more message weighs on every sum that began before it.
LEMMA SentGrows ==
    ASSUME NEW s \in Seq(Sending), NEW m \in Sending, NEW from \in Nat \ {0}
    PROVE  /\ from <= Len(s) => SentOf(s, from) \in Nat
           /\ from <= Len(s) => SentOf(Append(s, m), from) = SentOf(s, from) + Weight(m)
           /\ from = Len(s) + 1 => SentOf(Append(s, m), from) = Weight(m)
<1> DEFINE t == Append(s, m)
           h == CHOOSE h : SumsOf(s, from, h)
           g == CHOOSE g : SumsOf(t, from, g)
<1>0. t \in Seq(Sending) /\ Len(t) = Len(s) + 1 /\ t[Len(s) + 1] = m /\ Len(s) \in Nat
      /\ \A k \in 1 .. Len(s) : t[k] = s[k] /\ s[k] \in Sending
  OBVIOUS
<1> HIDE DEF t
<1>1. SumsOf(s, from, h) /\ SumsOf(t, from, g)
  BY <1>0, SumsExist
<1>2. SentOf(s, from) = h[Len(s)] /\ SentOf(t, from) = g[Len(t)]
  BY DEF SentOf
<1> HIDE DEF h, g
<1>3. \A k \in 0 .. Len(s) : h[k] = IF k < from THEN 0 ELSE h[k - 1] + Weight(s[k])
  BY <1>1 DEF SumsOf
<1>4. \A k \in 0 .. Len(t) : g[k] = IF k < from THEN 0 ELSE g[k - 1] + Weight(t[k])
  BY <1>1 DEF SumsOf
<1> DEFINE T == {k \in 0 .. Len(s) : h[k] \in Nat /\ g[k] = h[k]}
<1>5. 0 \in T
  <2>1. 0 \in 0 .. Len(s) /\ 0 \in 0 .. Len(t) /\ 0 < from
    BY <1>0
  <2>2. h[0] = 0 /\ g[0] = 0
    BY <1>3, <1>4, <2>1
  <2>3. QED BY <2>1, <2>2
<1>6. ASSUME NEW k \in 0 .. Len(s), k < Len(s), k \in T PROVE k + 1 \in T
  <2>1. k + 1 \in 0 .. Len(s) /\ k + 1 \in 0 .. Len(t) /\ k + 1 \in 1 .. Len(s) /\ (k + 1) - 1 = k
    BY <1>0, <1>6
  <2>2. h[k] \in Nat /\ g[k] = h[k]
    BY <1>6
  <2>3. t[k + 1] = s[k + 1] /\ Weight(s[k + 1]) \in Nat
    BY <1>0, <2>1, BurstIs
  <2>4. h[k + 1] = IF k + 1 < from THEN 0 ELSE h[k] + Weight(s[k + 1])
    BY <1>3, <2>1
  <2>5. g[k + 1] = IF k + 1 < from THEN 0 ELSE g[k] + Weight(s[k + 1])
    BY <1>4, <2>1, <2>3
  <2>6. h[k + 1] \in Nat /\ g[k + 1] = h[k + 1]
    BY <2>2, <2>3, <2>4, <2>5
  <2>7. QED BY <2>1, <2>6
<1> HIDE DEF T
<1>7. h[Len(s)] \in Nat /\ g[Len(s)] = h[Len(s)]
  <2>1. \A k \in 0 .. Len(s) : k \in T
    BY <1>0, <1>5, <1>6, CountUp
  <2>2. Len(s) \in 0 .. Len(s)
    BY <1>0
  <2>3. QED BY <2>1, <2>2 DEF T
<1>8. from <= Len(s) + 1 => g[Len(t)] = g[Len(s)] + Weight(m)
  <2>1. Len(t) \in 0 .. Len(t) /\ Len(t) - 1 = Len(s) /\ t[Len(t)] = m
    BY <1>0
  <2>2. from <= Len(s) + 1 => ~(Len(t) < from)
    BY <1>0
  <2>3. QED BY <1>4, <2>1, <2>2
<1>9. from = Len(s) + 1 => h[Len(s)] = 0
  <2>1. Len(s) \in 0 .. Len(s) /\ (from = Len(s) + 1 => Len(s) < from)
    BY <1>0
  <2>2. QED BY <1>3, <2>1
<1>10. Weight(m) \in Nat
  BY BurstIs
<1>11. from <= Len(s) => SentOf(t, from) = SentOf(s, from) + Weight(m)
  <2>1. from <= Len(s) => from <= Len(s) + 1
    BY <1>0
  <2>2. QED BY <1>2, <1>7, <1>8, <2>1
<1>12. from = Len(s) + 1 => SentOf(t, from) = Weight(m)
  <2>1. from = Len(s) + 1 => from <= Len(s) + 1
    BY <1>0
  <2>2. QED BY <1>2, <1>7, <1>8, <1>9, <1>10, <2>1
<1>13. QED BY <1>2, <1>7, <1>11, <1>12 DEF t

\* What the rate admits between two moments.
Refill(from, to) == (to - from) * BytesPerSecond

LEMMA Refills ==
    ASSUME NEW a \in Nat, NEW b \in Nat, NEW c \in Nat, a <= b, b <= c
    PROVE  Refill(a, b) \in Nat /\ Refill(a, c) = Refill(a, b) + Refill(b, c) /\ Refill(a, a) = 0
<1>1. BytesPerSecond \in Nat
  BY BurstIs
<1>2. b - a \in Nat /\ c - b \in Nat /\ c - a = (b - a) + (c - b) /\ a - a = 0
  OBVIOUS
<1>3. \A x, y \in Nat : (x + y) * BytesPerSecond = x * BytesPerSecond + y * BytesPerSecond
  BY <1>1
<1>4. (b - a) * BytesPerSecond \in Nat /\ 0 * BytesPerSecond = 0
  BY <1>1, <1>2
<1>5. ((b - a) + (c - b)) * BytesPerSecond = (b - a) * BytesPerSecond + (c - b) * BytesPerSecond
  BY <1>2, <1>3
<1>6. QED BY <1>2, <1>4, <1>5 DEF Refill

\* What is in the bucket and what passed are the burst and what was refilled; the bucket
\* is full or some message accounts for all that is missing.
Within(s, from, held, now) ==
    s[from].at <= now /\ SentOf(s, from) + held <= Burst + Refill(s[from].at, now)
Spent(s, from, held, now) == SentOf(s, from) + held >= Burst + Refill(s[from].at, now)

LimiterInv ==
    /\ LimiterTypeOK
    /\ BytesPerSecond = 0 => refused = {}
    /\ BytesPerSecond # 0 =>
           /\ \A from \in DOMAIN passed : Within(passed, from, tokens, last)
           /\ tokens = Burst \/ \E from \in DOMAIN passed : Spent(passed, from, tokens, last)
           /\ refused # {} => last = clock
           /\ \A size \in refused : ~FitsIn(size, tokens)

LEMMA LimiterStarts == LimiterInit => LimiterInv
<1> SUFFICES ASSUME LimiterInit PROVE LimiterInv
  OBVIOUS
<1>1. <<>> \in Seq(Sending) /\ DOMAIN <<>> = {}
  OBVIOUS
<1>2. LimiterTypeOK
  BY <1>1, BurstIs, LimiterAssumption DEF LimiterInit, LimiterTypeOK, Sending
<1>3. QED BY <1>1, <1>2 DEF LimiterInit, LimiterInv

LEMMA LimiterTyped ==
    ASSUME LimiterTypeOK
    PROVE  /\ clock \in Nat /\ last \in Nat /\ tokens \in Nat /\ last <= clock /\ tokens <= Burst
           /\ passed \in Seq(Sending) /\ DOMAIN passed = 1 .. Len(passed) /\ Len(passed) \in Nat
           /\ \A i \in DOMAIN passed : passed[i] \in Sending /\ passed[i].at \in Nat
<1>1. clock \in Nat /\ last \in Nat /\ tokens \in Nat /\ last <= clock /\ tokens <= Burst
  BY BurstIs, LimiterAssumption DEF LimiterTypeOK
<1>2. passed \in Seq(Sending)
  BY DEF LimiterTypeOK, Sending
<1>3. DOMAIN passed = 1 .. Len(passed) /\ Len(passed) \in Nat
  BY <1>2
<1>4. \A i \in DOMAIN passed : passed[i] \in Sending
  BY <1>2, <1>3, ElementOfSeq
<1>5. \A i \in DOMAIN passed : passed[i].at \in Nat
  BY <1>4, LimiterAssumption DEF Sending
<1>6. QED BY <1>1, <1>2, <1>3, <1>4, <1>5

LEMMA RefilledIs ==
    ASSUME LimiterTypeOK
    PROVE  /\ Refilled \in 0 .. Burst
           /\ Refilled = Burst \/ Refilled = tokens + Refill(last, clock)
           /\ Refilled <= tokens + Refill(last, clock) /\ Refilled >= tokens
           /\ last = clock => Refilled = tokens
<1>1. Refill(last, clock) \in Nat /\ (last = clock => Refill(last, clock) = 0)
  <2>1. clock \in Nat /\ last \in Nat /\ last <= clock
    BY LimiterTyped
  <2>2. QED BY <2>1, Refills
<1>2. Refilled = Least(Burst, tokens + Refill(last, clock))
  BY DEF Refilled, Refill
<1>3. Burst \in Nat /\ tokens \in Nat /\ tokens <= Burst
  BY BurstIs, LimiterTyped
<1>4. QED BY <1>1, <1>2, <1>3 DEF Least

\* Time and refills keep the account.
LEMMA WithinLater ==
    ASSUME LimiterTypeOK, NEW from \in DOMAIN passed, Within(passed, from, tokens, last)
    PROVE  SentOf(passed, from) + Refilled <= Burst + Refill(passed[from].at, clock) /\ passed[from].at <= clock
<1>1. SentOf(passed, from) \in Nat
  <2>1. passed \in Seq(Sending) /\ passed[from] \in Sending /\ from \in Nat \ {0} /\ from <= Len(passed)
    BY LimiterTyped
  <2>2. QED BY <2>1, SentGrows
<1>2. /\ clock \in Nat /\ last \in Nat /\ last <= clock /\ tokens \in Nat /\ passed[from].at \in Nat
      /\ passed[from].at <= last /\ Burst \in Nat
  BY LimiterTyped, BurstIs DEF Within
<1>3. Refill(passed[from].at, clock) = Refill(passed[from].at, last) + Refill(last, clock)
      /\ Refill(passed[from].at, last) \in Nat
  BY <1>2, Refills
<1>4. Refill(last, clock) \in Nat
  BY <1>2, Refills
<1>5. Refilled \in Nat /\ Refilled <= tokens + Refill(last, clock)
  BY RefilledIs, BurstIs
<1>6. SentOf(passed, from) + tokens <= Burst + Refill(passed[from].at, last)
  BY DEF Within
<1>7. QED BY <1>1, <1>2, <1>3, <1>4, <1>5, <1>6

LEMMA SpentLater ==
    ASSUME LimiterTypeOK, tokens = Burst \/ \E from \in DOMAIN passed : Spent(passed, from, tokens, last),
           \A from \in DOMAIN passed : passed[from].at <= last
    PROVE  Refilled = Burst \/ \E from \in DOMAIN passed :
                                   SentOf(passed, from) + Refilled >= Burst + Refill(passed[from].at, clock)
<1>1. Refilled \in 0 .. Burst /\ (Refilled = Burst \/ Refilled = tokens + Refill(last, clock)) /\ Refilled >= tokens
  BY RefilledIs
<1>2. CASE tokens = Burst
  BY <1>1, <1>2, BurstIs
<1>3. ASSUME NEW from \in DOMAIN passed, Spent(passed, from, tokens, last), Refilled # Burst
      PROVE  SentOf(passed, from) + Refilled >= Burst + Refill(passed[from].at, clock)
  <2>1. SentOf(passed, from) \in Nat
    <3>1. passed \in Seq(Sending) /\ passed[from] \in Sending /\ from \in Nat \ {0} /\ from <= Len(passed)
      BY LimiterTyped
    <3>2. QED BY <3>1, SentGrows
  <2>2. /\ clock \in Nat /\ last \in Nat /\ last <= clock /\ tokens \in Nat /\ passed[from].at \in Nat
        /\ passed[from].at <= last /\ Burst \in Nat
    BY LimiterTyped, BurstIs
  <2>3. Refill(passed[from].at, clock) = Refill(passed[from].at, last) + Refill(last, clock)
        /\ Refill(passed[from].at, last) \in Nat
    BY <2>2, Refills
  <2>4. Refill(last, clock) \in Nat
    BY <2>2, Refills
  <2>5. SentOf(passed, from) + tokens >= Burst + Refill(passed[from].at, last)
    BY <1>3 DEF Spent
  <2>6. QED BY <1>1, <1>3, <2>1, <2>2, <2>3, <2>4, <2>5
<1>4. QED BY <1>2, <1>3

LEMMA FitsWeight ==
    ASSUME NEW m \in Sending, NEW held \in 0 .. Burst
    PROVE  /\ FitsIn(m.size, held) => Weight(m) <= held
           /\ ~FitsIn(m.size, held) => held < Weight(m)
<1>1. m.size \in Nat /\ Burst \in Nat /\ held \in Nat /\ held <= Burst
  <2>1. m.size \in Size
    BY DEF Sending
  <2>2. m.size \in Nat
    BY <2>1, LimiterAssumption
  <2>3. Burst \in Nat
    BY BurstIs
  <2>4. QED BY <2>2, <2>3
<1>2. QED BY <1>1 DEF FitsIn, Weight, Least

LEMMA AllowKeeps ==
    ASSUME LimiterInv, NEW size \in Size, Allow(size)
    PROVE  LimiterInv'
<1> DEFINE m == [at |-> clock, size |-> size]
<1>0. LimiterTypeOK /\ Burst \in Nat /\ BytesPerSecond \in Nat
  BY BurstIs DEF LimiterInv
<1>1. m \in Sending /\ m.at = clock /\ m.size = size
  BY <1>0 DEF Sending, LimiterTypeOK
<1>2. Weight(m) \in 0 .. Burst /\ Weight(m) = Least(size, Burst)
  BY <1>1, BurstIs DEF Weight
<1>3. /\ clock \in Nat /\ last \in Nat /\ last <= clock /\ passed \in Seq(Sending)
      /\ DOMAIN passed = 1 .. Len(passed) /\ Len(passed) \in Nat
  BY <1>0, LimiterTyped
<1> HIDE DEF m
<1>4. Append(passed, m) \in Seq(Sending)
  BY <1>1, <1>3
<1>5. clock' = clock
  BY DEF Allow
<1>6. CASE BytesPerSecond = 0
  <2>1. last' = last /\ tokens' = tokens /\ passed' = Append(passed, m) /\ refused' = {}
    BY <1>6 DEF Allow, m
  <2>2. LimiterTypeOK'
    BY <1>0, <1>4, <1>5, <2>1 DEF LimiterTypeOK, Sending
  <2>3. QED BY <1>6, <2>1, <2>2 DEF LimiterInv
<1>7. CASE BytesPerSecond # 0
  <2>0. /\ \A from \in DOMAIN passed : Within(passed, from, tokens, last)
        /\ tokens = Burst \/ \E from \in DOMAIN passed : Spent(passed, from, tokens, last)
        /\ refused # {} => last = clock
        /\ \A z \in refused : ~FitsIn(z, tokens)
    BY <1>7 DEF LimiterInv
  <2>1. Refilled \in 0 .. Burst /\ (last = clock => Refilled = tokens)
    BY <1>0, RefilledIs
  <2>2. \A from \in DOMAIN passed : /\ SentOf(passed, from) + Refilled <= Burst + Refill(passed[from].at, clock)
                                    /\ passed[from].at <= clock
    BY <1>0, <2>0, WithinLater
  <2>3. Refilled = Burst \/ \E from \in DOMAIN passed :
                                SentOf(passed, from) + Refilled >= Burst + Refill(passed[from].at, clock)
    <3>1. \A from \in DOMAIN passed : passed[from].at <= last
      BY <2>0 DEF Within
    <3>2. QED BY <1>0, <2>0, <3>1, SpentLater
  <2>4. last' = clock
    BY <1>7 DEF Allow
  <2>5. CASE ~FitsIn(size, Refilled)
    <3>1. tokens' = Refilled /\ passed' = passed /\ refused' = refused \cup {size}
      BY <1>7, <2>5 DEF Allow
    <3>2. LimiterTypeOK'
      BY <1>0, <1>3, <1>5, <2>1, <2>4, <3>1 DEF LimiterTypeOK
    <3>3. \A from \in DOMAIN passed' : Within(passed', from, tokens', last')
      BY <2>2, <2>4, <3>1 DEF Within
    <3>4. tokens' = Burst \/ \E from \in DOMAIN passed' : Spent(passed', from, tokens', last')
      BY <2>3, <2>4, <3>1 DEF Spent
    <3>5. \A z \in refused' : ~FitsIn(z, tokens')
      <4>1. ASSUME NEW z \in refused PROVE ~FitsIn(z, Refilled)
        <5>1. Refilled = tokens
          BY <2>0, <2>1
        <5>2. QED BY <2>0, <5>1
      <4>2. QED BY <2>5, <3>1, <4>1
    <3>6. QED BY <1>5, <1>7, <2>4, <3>2, <3>3, <3>4, <3>5 DEF LimiterInv, Within, Spent, FitsIn, Burst
  <2>6. CASE FitsIn(size, Refilled)
    <3>1. tokens' = Refilled - Weight(m) /\ passed' = Append(passed, m) /\ refused' = {}
      BY <1>2, <1>7, <2>6 DEF Allow, m
    <3>2. Weight(m) <= Refilled
      BY <1>1, <2>1, <2>6, FitsWeight
    <3>3. tokens' \in 0 .. Burst /\ tokens' + Weight(m) = Refilled
      BY <1>0, <1>2, <2>1, <3>1, <3>2
    <3>4. LimiterTypeOK'
      BY <1>0, <1>3, <1>4, <1>5, <2>4, <3>1, <3>3 DEF LimiterTypeOK, Sending
    <3> DEFINE t == Append(passed, m)
               n == Len(passed) + 1
    <3>5. DOMAIN t = DOMAIN passed \cup {n} /\ n \in DOMAIN t /\ t[n] = m /\ \A i \in DOMAIN passed : t[i] = passed[i]
      BY <1>1, <1>3
    <3>6. \A from \in DOMAIN passed : SentOf(passed, from) \in Nat /\ SentOf(t, from) = SentOf(passed, from) + Weight(m)
      <4>1. \A from \in DOMAIN passed : from \in Nat \ {0} /\ from <= Len(passed)
        BY <1>3
      <4>2. QED BY <1>1, <1>3, <4>1, SentGrows
    <3>7. SentOf(t, n) = Weight(m)
      <4>1. n \in Nat \ {0}
        BY <1>3
      <4>2. QED BY <1>1, <1>3, <4>1, SentGrows
    <3> HIDE DEF t, n
    <3>8. Refill(clock, clock) = 0
      BY <1>3, Refills
    <3>9. SentOf(t, n) + tokens' = Refilled
      BY <1>2, <3>3, <3>7
    <3>10. \A from \in DOMAIN passed : SentOf(t, from) + tokens' = SentOf(passed, from) + Refilled
      <4>1. tokens' \in Nat /\ Weight(m) \in Nat
        BY <1>0, <1>2, <3>3
      <4>2. QED BY <3>3, <3>6, <4>1
    <3>11. ASSUME NEW from \in DOMAIN t PROVE Within(t, from, tokens', clock)
      <4>1. CASE from = n
        <5>1. SentOf(t, from) + tokens' <= Burst + Refill(clock, clock)
          BY <1>0, <2>1, <3>8, <3>9, <4>1
        <5>2. t[from].at = clock
          BY <1>1, <3>5, <4>1
        <5>3. QED BY <1>3, <5>1, <5>2 DEF Within
      <4>2. CASE from # n
        <5>1. from \in DOMAIN passed /\ t[from] = passed[from]
          BY <3>5, <4>2
        <5>2. QED BY <2>2, <3>10, <5>1 DEF Within
      <4>3. QED BY <4>1, <4>2
    <3>12. \E from \in DOMAIN t : Spent(t, from, tokens', clock)
      <4>1. CASE Refilled = Burst
        <5>1. SentOf(t, n) + tokens' >= Burst + Refill(clock, clock)
          BY <1>0, <2>1, <3>8, <3>9, <4>1
        <5>2. t[n].at = clock /\ n \in DOMAIN t
          BY <1>1, <3>5
        <5>3. QED BY <5>1, <5>2 DEF Spent
      <4>2. ASSUME NEW from \in DOMAIN passed,
                   SentOf(passed, from) + Refilled >= Burst + Refill(passed[from].at, clock)
            PROVE  Spent(t, from, tokens', clock) /\ from \in DOMAIN t
        <5>1. t[from] = passed[from] /\ from \in DOMAIN t
          BY <3>5
        <5>2. QED BY <3>10, <4>2, <5>1 DEF Spent
      <4>3. QED BY <2>3, <4>1, <4>2
    <3>13. passed' = t
      BY <3>1 DEF t
    <3>14. QED BY <1>5, <1>7, <2>4, <3>1, <3>4, <3>11, <3>12, <3>13 DEF LimiterInv, Within, Spent, Burst
  <2>7. QED BY <2>5, <2>6
<1>8. QED BY <1>6, <1>7

LEMMA LimiterKept == LimiterInv /\ [LimiterNext]_limiterVars => LimiterInv'
<1> SUFFICES ASSUME LimiterInv, [LimiterNext]_limiterVars PROVE LimiterInv'
  OBVIOUS
<1>1. CASE Second
  <2>1. clock' = clock + 1 /\ refused' = {} /\ tokens' = tokens /\ last' = last /\ passed' = passed /\ clock < MaxSeconds
    BY <1>1 DEF Second
  <2>2. LimiterTypeOK'
    <3>1. clock \in 0 .. MaxSeconds /\ last \in 0 .. clock /\ MaxSeconds \in Nat
      BY LimiterAssumption DEF LimiterInv, LimiterTypeOK
    <3>2. clock' \in 0 .. MaxSeconds /\ last' \in 0 .. clock'
      BY <2>1, <3>1
    <3>3. QED BY <2>1, <3>2 DEF LimiterInv, LimiterTypeOK
  <2>3. QED BY <2>1, <2>2 DEF LimiterInv, Within, Spent
<1>2. ASSUME NEW size \in Size, Allow(size) PROVE LimiterInv'
  BY <1>2, AllowKeeps
<1>3. CASE UNCHANGED limiterVars
  BY <1>3 DEF LimiterInv, LimiterTypeOK, limiterVars, Within, Spent
<1>4. QED BY <1>1, <1>2, <1>3 DEF LimiterNext

LEMMA LimiterMeans == LimiterInv => RateKept
<1> SUFFICES ASSUME LimiterInv PROVE RateKept
  OBVIOUS
<1>0. LimiterTypeOK /\ Burst \in Nat /\ BytesPerSecond \in Nat
  BY BurstIs DEF LimiterInv
<1>1. /\ clock \in Nat /\ last \in Nat /\ tokens \in Nat /\ last <= clock /\ tokens <= Burst
      /\ passed \in Seq(Sending) /\ DOMAIN passed = 1 .. Len(passed)
      /\ \A i \in DOMAIN passed : passed[i] \in Sending /\ passed[i].at \in Nat
  BY <1>0, LimiterTyped
<1>2. \A from \in DOMAIN passed : Sent(from) = SentOf(passed, from) /\ SentOf(passed, from) \in Nat
  <2>1. \A from \in DOMAIN passed : from \in Nat \ {0} /\ from <= Len(passed)
    BY <1>1
  <2>2. \A from \in DOMAIN passed : SentOf(passed, from) \in Nat
    BY <1>1, <2>1, SentGrows
  <2>3. QED BY <2>2, SentIsSum
<1>3. \A from : Allowance(from) = Burst + Refill(passed[from].at, clock)
  BY DEF Allowance, Refill
<1>4. PassedWithinRate
  <2> SUFFICES ASSUME BytesPerSecond # 0, NEW from \in DOMAIN passed PROVE Sent(from) <= Allowance(from)
    BY DEF PassedWithinRate
  <2> DEFINE sum == SentOf(passed, from)
             at == passed[from].at
  <2>1. sum \in Nat /\ at \in Nat /\ Sent(from) = sum /\ Allowance(from) = Burst + Refill(at, clock)
    BY <1>1, <1>2, <1>3
  <2>2. at <= last /\ sum + tokens <= Burst + Refill(at, last)
    BY DEF LimiterInv, Within
  <2> HIDE DEF sum, at
  <2>3. Refill(at, clock) = Refill(at, last) + Refill(last, clock) /\ Refill(at, last) \in Nat
    BY <1>1, <2>1, <2>2, Refills
  <2>4. Refill(last, clock) \in Nat
    <3>1. clock <= clock
      BY <1>1
    <3>2. QED BY <1>1, <3>1, Refills
  <2>5. sum <= Burst + Refill(at, clock)
    BY <1>0, <1>1, <2>1, <2>2, <2>3, <2>4
  <2>6. QED BY <2>1, <2>5
<1>5. RefusedOnlyAboveRate
  <2> SUFFICES ASSUME NEW size \in refused
               PROVE  \E from \in DOMAIN passed : Sent(from) + Least(size, Burst) > Allowance(from)
    BY DEF RefusedOnlyAboveRate
  <2>1. BytesPerSecond # 0 /\ last = clock /\ ~FitsIn(size, tokens)
    BY DEF LimiterInv
  <2> DEFINE m == [at |-> clock, size |-> size]
             weight == Least(size, Burst)
  <2>2. m \in Sending /\ m.size = size
    BY <1>0 DEF LimiterTypeOK, Sending
  <2>3. weight = Weight(m) /\ weight \in 0 .. Burst
    BY <2>2, BurstIs DEF Weight
  <2> HIDE DEF m, weight
  <2>4. tokens \in 0 .. Burst /\ tokens < weight
    BY <1>0, <1>1, <2>1, <2>2, <2>3, FitsWeight
  <2>5. tokens # Burst
    BY <1>0, <2>3, <2>4
  <2>6. PICK from \in DOMAIN passed : Spent(passed, from, tokens, last)
    BY <2>1, <2>5 DEF LimiterInv
  <2>7. SentOf(passed, from) + tokens >= Burst + Refill(passed[from].at, clock)
    BY <2>1, <2>6 DEF Spent
  <2>8. Refill(passed[from].at, clock) \in Nat
    <3>1. passed[from].at \in Nat /\ passed[from].at <= clock /\ clock <= clock
      BY <1>1, <2>1 DEF LimiterInv, Within
    <3>2. QED BY <1>1, <3>1, Refills
  <2>9. SentOf(passed, from) + weight > Burst + Refill(passed[from].at, clock)
    BY <1>0, <1>1, <1>2, <2>3, <2>4, <2>7, <2>8
  <2>10. Sent(from) + weight > Allowance(from)
    BY <1>2, <1>3, <2>9
  <2>11. QED BY <2>10 DEF weight
<1>6. QED BY <1>0, <1>4, <1>5 DEF RateKept

\* For any rate, burst and sizes, however messages and time come: from any message on a
\* stream carries no more than one burst and its rate, and one is dropped only when with
\* it the stream would have carried more (rate_limiter::allow).
THEOREM RateAlwaysKept == LimiterSpec => []RateKept
<1>1. LimiterInit => LimiterInv
  BY LimiterStarts
<1>2. LimiterInv /\ [LimiterNext]_limiterVars => LimiterInv'
  BY LimiterKept
<1>3. LimiterInv => RateKept
  BY LimiterMeans
<1>4. QED BY <1>1, <1>2, <1>3, PTL DEF LimiterSpec

-----------------------------------------------------------------------------
(* HttpSession.                                                            *)

USE HttpAssumption

\* What waits on the strand: an expiry of the timer moves no session on.
Quiet(q) == \A i \in DOMAIN q : q[i].kind = "idle"
OneWaits(q) ==
    \E i \in DOMAIN q : q[i].kind # "idle" /\ \A j \in DOMAIN q : q[j].kind # "idle" => j = i

\* What moves a session on is in one place at a time.
AtRest(s) == ~s.reading /\ s.writing = NoRequest /\ Kept(s) = {} /\ Quiet(s.strand)
AtSocket(s) ==
    /\ s.stage = "open" /\ Kept(s) = {} /\ Quiet(s.strand)
    /\ s.reading <=> s.writing = NoRequest
AtHandler(s) ==
    /\ ~s.reading /\ s.writing = NoRequest /\ Quiet(s.strand)
    /\ \E r \in s.held : Kept(s) = {r}
OnStrand(s) == ~s.reading /\ s.writing = NoRequest /\ Kept(s) = {} /\ OneWaits(s.strand)

\* A request under way comes after every one that was answered and before every one still
\* on the wire.
Suits(r, k) ==
    /\ r \in Request /\ r.n <= k.asked
    /\ \A i \in DOMAIN k.answers : k.answers[i].n < r.n
    /\ \A i \in DOMAIN k.wire : r.n < k.wire[i].n
    /\ ~k.pipelines => r.n = Len(k.answers) + 1

Unsent(n, s) == \A m \in s.sent : m < n

\* What each entry of the strand may carry.
EntryFits(h, s, k) ==
    \/ h.kind = "read" /\ Suits(h.req, k) /\ Unsent(h.req.n, s)
    \/ h.kind = "reply" /\ Suits(h.req, k) /\ h.req.kind # "large"
    \/ h.kind \in {"read_failed", "idle", "written", "write_failed"} /\ h.req = NoRequest

UnderWayFit(s, k) ==
    /\ s.writing # NoRequest => Suits(s.writing, k) /\ (s.writing.kind = "large" => ~s.keep)
    /\ \A r \in Kept(s) : Suits(r, k)
    /\ \A r \in s.held : r.kind # "large"
    /\ \A i \in DOMAIN s.strand : EntryFits(s.strand[i], s, k)
    /\ s.reading => s.buffer = <<>>

WireFits(s, k) ==
    /\ \A i, j \in DOMAIN k.wire : i < j => k.wire[i].n < k.wire[j].n
    /\ \A i \in DOMAIN k.wire :
           /\ k.wire[i].n <= k.asked /\ Unsent(k.wire[i].n, s)
           /\ \A j \in DOMAIN k.answers : k.answers[j].n < k.wire[i].n
           /\ ~k.pipelines => k.wire[i].n = Len(k.answers) + 1
    /\ \A n \in s.sent : n <= k.asked

AnswersFit(k) ==
    /\ \A i, j \in DOMAIN k.answers : i < j => k.answers[i].n < k.answers[j].n
    /\ ~k.pipelines => \A i \in DOMAIN k.answers : k.answers[i].n = i
    /\ \A i \in DOMAIN k.answers : k.answers[i].n <= k.asked

\* After the answer to a body over the limit nothing but the end of the session.
Ending(s) ==
    /\ ~s.reading /\ s.writing = NoRequest /\ Kept(s) = {}
    /\ \A i \in DOMAIN s.strand : \/ s.strand[i].kind \in {"idle", "read_failed", "write_failed"}
                                  \/ s.strand[i].kind = "written" /\ ~s.keep
LargeEnds(s, k) ==
    \A i \in DOMAIN k.answers : k.answers[i].kind = "large" => i = Len(k.answers) /\ Ending(s)

\* A session that was not started yet.
Fresh(s, k) ==
    /\ s.strand = <<>> /\ s.held = {} /\ s.sent = {} /\ s.writing = NoRequest
    /\ ~s.reading /\ ~s.timer
    /\ k.wire = <<>> /\ k.answers = <<>>

Moving(s) == AtSocket(s) \/ AtHandler(s) \/ OnStrand(s)

\* All but that an open session moves on.
ConnectionFits(s, k) ==
    /\ Moving(s) \/ AtRest(s)
    /\ UnderWayFit(s, k) /\ WireFits(s, k) /\ AnswersFit(k) /\ LargeEnds(s, k)
    /\ s.stage = "none" => Fresh(s, k)
ConnectionInv(s, k) == ConnectionFits(s, k) /\ (s.stage = "open" => Moving(s))
HttpInv == HttpTypeOK /\ \A c \in Conn : ConnectionInv(session[c], client[c])

EntryType == [kind : {"read", "read_failed", "idle", "reply", "written", "write_failed"},
              req : Request \cup {NoRequest}]
SessionType ==
    [stage : {"none", "open", "upgraded", "closed"}, strand : Seq(EntryType),
     reading : BOOLEAN, timer : BOOLEAN, buffer : Seq(Request), keep : BOOLEAN,
     held : SUBSET Request, sent : SUBSET (1 .. MaxRequests), writing : Request \cup {NoRequest}]
PeerType ==
    [stage : {"none", "waiting", "up", "deaf", "gone"}, pipelines : BOOLEAN,
     asked : 0 .. MaxRequests, wire : Seq(Request), answers : Seq(Request)]

-----------------------------------------------------------------------------
(* Strands.                                                                *)

LEMMA EntriesTyped ==
    /\ \A r \in Request : ReadEntry(r) \in EntryType /\ Reply(r) \in EntryType
    /\ {ReadFailed, Idle, Written, WriteFailed} \subseteq EntryType
  BY DEF ReadEntry, Reply, ReadFailed, Idle, Written, WriteFailed, EntryType

LEMMA RequestsNumbered ==
    /\ NoRequest \notin Request
    /\ \A r \in Request : r.n \in 1 .. MaxRequests /\ r.n \in Nat
  BY DEF Request, NoRequest

LEMMA AppendQueued ==
    ASSUME NEW q \in Seq(EntryType), NEW h \in EntryType
    PROVE  /\ Append(q, h) \in Seq(EntryType)
           /\ Quiet(q) /\ h.kind = "idle" => Quiet(Append(q, h))
           /\ Quiet(q) /\ h.kind # "idle" => OneWaits(Append(q, h))
           /\ OneWaits(q) /\ h.kind = "idle" => OneWaits(Append(q, h))
           /\ \A i \in DOMAIN Append(q, h) :
                  (i \in DOMAIN q /\ Append(q, h)[i] = q[i]) \/ Append(q, h)[i] = h
<1>1. /\ Append(q, h) \in Seq(EntryType) /\ Len(q) \in Nat
      /\ DOMAIN q = 1 .. Len(q) /\ DOMAIN Append(q, h) = 1 .. Len(q) + 1
      /\ Append(q, h)[Len(q) + 1] = h
      /\ \A i \in DOMAIN q : Append(q, h)[i] = q[i]
  OBVIOUS
<1>2. \A i \in DOMAIN Append(q, h) : i \in DOMAIN q \/ i = Len(q) + 1
  BY <1>1
<1>3. Quiet(q) /\ h.kind = "idle" => Quiet(Append(q, h))
  BY <1>1, <1>2 DEF Quiet
<1>4. Quiet(q) /\ h.kind # "idle" => OneWaits(Append(q, h))
  BY <1>1, <1>2 DEF Quiet, OneWaits
<1>5. OneWaits(q) /\ h.kind = "idle" => OneWaits(Append(q, h))
  BY <1>1, <1>2 DEF OneWaits
<1>6. QED BY <1>1, <1>2, <1>3, <1>4, <1>5

LEMMA TailQueued ==
    ASSUME NEW q \in Seq(EntryType), q # <<>>
    PROVE  /\ Tail(q) \in Seq(EntryType) /\ Head(q) \in EntryType
           /\ 1 \in DOMAIN q /\ Head(q) = q[1]
           /\ Quiet(q) => Quiet(Tail(q)) /\ Head(q).kind = "idle"
           /\ OneWaits(q) /\ Head(q).kind = "idle" => OneWaits(Tail(q))
           /\ OneWaits(q) /\ Head(q).kind # "idle" => Quiet(Tail(q))
           /\ \A i \in DOMAIN Tail(q) : i + 1 \in DOMAIN q /\ Tail(q)[i] = q[i + 1]
<1>1. /\ Tail(q) \in Seq(EntryType) /\ Head(q) \in EntryType /\ Len(q) \in Nat \ {0}
      /\ DOMAIN q = 1 .. Len(q) /\ DOMAIN Tail(q) = 1 .. Len(q) - 1
      /\ Head(q) = q[1]
      /\ \A i \in DOMAIN Tail(q) : Tail(q)[i] = q[i + 1]
  OBVIOUS
<1>2. 1 \in DOMAIN q /\ \A i \in DOMAIN Tail(q) : i + 1 \in DOMAIN q /\ i + 1 # 1
  BY <1>1
<1>3. Quiet(q) => Quiet(Tail(q)) /\ Head(q).kind = "idle"
  BY <1>1, <1>2 DEF Quiet
<1>4. OneWaits(q) /\ Head(q).kind # "idle" => Quiet(Tail(q))
  BY <1>1, <1>2 DEF Quiet, OneWaits
<1>5. ASSUME OneWaits(q), Head(q).kind = "idle" PROVE OneWaits(Tail(q))
  <2>1. PICK i \in DOMAIN q : q[i].kind # "idle" /\ \A j \in DOMAIN q : q[j].kind # "idle" => j = i
    BY <1>5 DEF OneWaits
  <2>2. i # 1 /\ i \in Nat
    BY <1>1, <1>5, <2>1
  <2>3. i - 1 \in DOMAIN Tail(q) /\ Tail(q)[i - 1] = q[i]
    BY <1>1, <2>1, <2>2
  <2>4. \A j \in DOMAIN Tail(q) : Tail(q)[j].kind # "idle" => j = i - 1
    BY <1>1, <1>2, <2>1, <2>2
  <2>5. QED BY <2>1, <2>3, <2>4 DEF OneWaits
<1>6. QED BY <1>1, <1>2, <1>3, <1>4, <1>5

-----------------------------------------------------------------------------
(* The steps of a session.                                                 *)

LEMMA PostedFields ==
    ASSUME NEW s \in SessionType, NEW h \in EntryType
    PROVE  LET t == Posted(s, h) IN
           /\ t \in SessionType /\ t.strand = Append(s.strand, h)
           /\ t.stage = s.stage /\ t.reading = s.reading /\ t.buffer = s.buffer /\ t.keep = s.keep
           /\ t.held = s.held /\ t.sent = s.sent /\ t.writing = s.writing /\ Kept(t) = Kept(s)
<1>1. s.strand \in Seq(EntryType) /\ Append(s.strand, h) \in Seq(EntryType)
  BY DEF SessionType
<1>2. QED BY <1>1 DEF Posted, SessionType, Kept

LEMMA CloseFields ==
    ASSUME NEW s \in SessionType, ~s.reading \/ s.writing = NoRequest
    PROVE  LET t == Close(s) IN
           /\ t \in SessionType /\ t.buffer = s.buffer /\ t.keep = s.keep
           /\ t.held = s.held /\ t.sent = s.sent /\ Kept(t) = Kept(s)
           /\ ~t.reading /\ ~t.timer /\ t.writing = NoRequest
           /\ t.stage = IF s.stage = "open" THEN "closed" ELSE s.stage
           /\ t.strand = IF s.reading THEN Append(s.strand, ReadFailed)
                         ELSE IF s.writing # NoRequest THEN Append(s.strand, WriteFailed)
                         ELSE s.strand
<1>1. s.strand \in Seq(EntryType) /\ ReadFailed \in EntryType /\ WriteFailed \in EntryType
  BY EntriesTyped DEF SessionType
<1> DEFINE a == (IF s.reading THEN <<ReadFailed>> ELSE <<>>) \o
                (IF s.writing # NoRequest THEN <<WriteFailed>> ELSE <<>>)
           t == Close(s)
<1>2. s.strand \o a = IF s.reading THEN Append(s.strand, ReadFailed)
                      ELSE IF s.writing # NoRequest THEN Append(s.strand, WriteFailed)
                      ELSE s.strand
  <2>1. CASE s.reading
    <3>0. s.writing = NoRequest
      BY <2>1
    <3>1. a = <<ReadFailed>>
      BY <1>1, <2>1, <3>0
    <3>2. s.strand \o <<ReadFailed>> = Append(s.strand, ReadFailed)
      BY <1>1
    <3>3. QED BY <2>1, <3>1, <3>2
  <2>2. CASE ~s.reading /\ s.writing # NoRequest
    <3>1. a = <<WriteFailed>>
      BY <1>1, <2>2
    <3>2. s.strand \o <<WriteFailed>> = Append(s.strand, WriteFailed)
      BY <1>1
    <3>3. QED BY <2>2, <3>1, <3>2
  <2>3. CASE ~s.reading /\ s.writing = NoRequest
    <3>1. a = <<>>
      BY <2>3
    <3>2. s.strand \o <<>> = s.strand
      BY <1>1
    <3>3. QED BY <2>3, <3>1, <3>2
  <2>4. QED BY <2>1, <2>2, <2>3
<1>3. s.strand \o a \in Seq(EntryType)
  BY <1>1, <1>2, AppendQueued
<1>4. t = [s EXCEPT !.timer = FALSE, !.reading = FALSE, !.writing = NoRequest,
                    !.strand = s.strand \o a,
                    !.stage = IF s.stage = "open" THEN "closed" ELSE s.stage]
  BY DEF Close
<1> HIDE DEF a, t
<1>5. t \in SessionType
  BY <1>3, <1>4 DEF SessionType
<1>6. /\ t.buffer = s.buffer /\ t.keep = s.keep /\ t.held = s.held /\ t.sent = s.sent
      /\ ~t.reading /\ ~t.timer /\ t.writing = NoRequest /\ t.strand = s.strand \o a
      /\ t.stage = IF s.stage = "open" THEN "closed" ELSE s.stage
  BY <1>4 DEF SessionType
<1>7. Kept(t) = Kept(s)
  BY <1>6 DEF Kept
<1>8. QED BY <1>2, <1>5, <1>6, <1>7 DEF t

\* A request under way, and what it leaves as it is.
LEMMA KeptIsHeld ==
    ASSUME NEW s \in SessionType
    PROVE  Kept(s) \subseteq s.held /\ s.held \subseteq Request
  BY DEF Kept, SessionType

\* Entries stay fitting when nothing is sent.
LEMMA EntriesStay ==
    ASSUME NEW s \in SessionType, NEW t \in SessionType, NEW k, NEW h \in EntryType,
           \A i \in DOMAIN s.strand : EntryFits(s.strand[i], s, k),
           t.sent = s.sent, EntryFits(h, s, k),
           t.strand = Append(s.strand, h)
    PROVE  \A i \in DOMAIN t.strand : EntryFits(t.strand[i], t, k)
<1>1. s.strand \in Seq(EntryType)
  BY DEF SessionType
<1>2. \A i \in DOMAIN t.strand : (i \in DOMAIN s.strand /\ t.strand[i] = s.strand[i]) \/ t.strand[i] = h
  BY <1>1, AppendQueued
<1>3. \A e : EntryFits(e, s, k) => EntryFits(e, t, k)
  BY DEF EntryFits, Unsent
<1>4. QED BY <1>2, <1>3

\* The parts of the invariant that a step which sends nothing can disturb.
LEMMA Rejoined ==
    ASSUME NEW s \in SessionType, NEW t \in SessionType, NEW k \in PeerType, ConnectionFits(s, k),
           t.held = s.held, t.sent = s.sent,
           Moving(t) \/ (AtRest(t) /\ t.stage # "open"),
           \A i \in DOMAIN t.strand : EntryFits(t.strand[i], t, k),
           LargeEnds(t, k), t.stage = "none" => Fresh(t, k), t.reading => t.buffer = <<>>,
           t.writing # NoRequest => Suits(t.writing, k) /\ (t.writing.kind = "large" => ~t.keep)
    PROVE  ConnectionInv(t, k)
<1>1. Kept(t) = Kept(s)
  BY DEF Kept
<1>2. UnderWayFit(t, k)
  BY <1>1 DEF ConnectionFits, UnderWayFit
<1>3. WireFits(t, k)
  BY DEF ConnectionFits, WireFits, Unsent
<1>4. t.stage = "open" => Moving(t)
  BY DEF AtRest
<1>5. AnswersFit(k)
  BY DEF ConnectionFits
<1>6. QED
  BY <1>2, <1>3, <1>4, <1>5 DEF ConnectionInv, ConnectionFits

LEMMA CloseKeeps ==
    ASSUME NEW s \in SessionType, NEW k \in PeerType, ConnectionFits(s, k)
    PROVE  Close(s) \in SessionType /\ ConnectionInv(Close(s), k)
<1> DEFINE t == Close(s)
<1>1. ~s.reading \/ s.writing = NoRequest
  BY DEF ConnectionFits, Moving, AtSocket, AtHandler, OnStrand, AtRest
<1>2. /\ t \in SessionType /\ t.buffer = s.buffer /\ t.keep = s.keep
      /\ t.held = s.held /\ t.sent = s.sent /\ Kept(t) = Kept(s)
      /\ ~t.reading /\ ~t.timer /\ t.writing = NoRequest /\ t.stage # "open"
      /\ t.stage = "none" => s.stage = "none"
  BY <1>1, CloseFields
<1>3. t.strand = IF s.reading THEN Append(s.strand, ReadFailed)
                 ELSE IF s.writing # NoRequest THEN Append(s.strand, WriteFailed)
                 ELSE s.strand
  BY <1>1, CloseFields
<1>4. /\ ReadFailed \in EntryType /\ ReadFailed.kind = "read_failed" /\ ReadFailed.req = NoRequest
      /\ WriteFailed \in EntryType /\ WriteFailed.kind = "write_failed" /\ WriteFailed.req = NoRequest
      /\ s.strand \in Seq(EntryType)
  BY EntriesTyped DEF ReadFailed, WriteFailed, SessionType
<1> HIDE DEF t
<1>5. ASSUME s.reading \/ s.writing # NoRequest PROVE t \in SessionType /\ ConnectionInv(t, k)
  <2>1. PICK h \in {ReadFailed, WriteFailed} : t.strand = Append(s.strand, h)
    BY <1>3, <1>5
  <2>2. h \in EntryType /\ h.kind # "idle" /\ EntryFits(h, s, k)
    BY <1>4, <2>1 DEF EntryFits
  <2>3. Kept(s) = {} /\ Quiet(s.strand)
    BY <1>5 DEF ConnectionFits, Moving, AtSocket, AtHandler, OnStrand, AtRest
  <2>4. OnStrand(t)
    BY <1>2, <1>4, <2>1, <2>2, <2>3, AppendQueued DEF OnStrand
  <2>5. \A i \in DOMAIN t.strand : EntryFits(t.strand[i], t, k)
    BY <1>2, <2>1, <2>2, EntriesStay DEF ConnectionFits, UnderWayFit
  <2>6. LargeEnds(t, k)
    BY <1>5 DEF ConnectionFits, LargeEnds, Ending
  <2>7. s.stage # "none"
    BY <1>5 DEF ConnectionFits, Fresh
  <2>8. QED
    BY <1>2, <2>4, <2>5, <2>6, <2>7, Rejoined DEF Moving
<1>6. ASSUME ~s.reading /\ s.writing = NoRequest PROVE t \in SessionType /\ ConnectionInv(t, k)
  <2>1. t.strand = s.strand
    BY <1>3, <1>6
  <2>2. AtHandler(t) \/ OnStrand(t) \/ AtRest(t)
    BY <1>2, <1>6, <2>1 DEF ConnectionFits, Moving, AtSocket, AtHandler, OnStrand, AtRest
  <2>3. \A i \in DOMAIN t.strand : EntryFits(t.strand[i], t, k)
    BY <1>2, <2>1 DEF ConnectionFits, UnderWayFit, EntryFits, Unsent
  <2>4. LargeEnds(t, k)
    BY <1>2, <1>6, <2>1 DEF ConnectionFits, LargeEnds, Ending
  <2>5. t.stage = "none" => Fresh(t, k)
    BY <1>2, <1>6, <2>1 DEF ConnectionFits, Fresh
  <2>6. QED
    BY <1>2, <2>2, <2>3, <2>4, <2>5, Rejoined DEF Moving
<1>7. QED BY <1>2, <1>5, <1>6 DEF t

\* A session that was started and answered no body over the limit.
Open(s, k) ==
    /\ s.stage # "none"
    /\ \A i \in DOMAIN k.answers : k.answers[i].kind # "large"

LEMMA StartReadKeeps ==
    ASSUME NEW s \in SessionType, NEW k \in PeerType, ConnectionFits(s, k), AtRest(s), Open(s, k)
    PROVE  StartRead(s) \in SessionType /\ ConnectionInv(StartRead(s), k)
<1> DEFINE u == [s EXCEPT !.buffer = <<>>, !.timer = TRUE]
           t == StartRead(s)
<1>1. /\ u \in SessionType /\ u.buffer = <<>> /\ u.stage = s.stage /\ u.reading = s.reading
      /\ u.strand = s.strand /\ u.keep = s.keep /\ u.held = s.held /\ u.sent = s.sent
      /\ u.writing = s.writing
  <2>1. <<>> \in Seq(Request)
    OBVIOUS
  <2>2. QED BY <2>1 DEF SessionType
<1>2. t = IF s.stage = "open" THEN [u EXCEPT !.reading = TRUE] ELSE Posted(u, ReadFailed)
  BY <1>1 DEF StartRead, BeginRead
<1> HIDE DEF u, t
<1>3. Kept(u) = {} /\ ~u.reading /\ u.writing = NoRequest /\ Quiet(u.strand)
  BY <1>1 DEF AtRest, Kept
<1>4. /\ ReadFailed \in EntryType /\ ReadFailed.kind = "read_failed" /\ ReadFailed.req = NoRequest
      /\ u.strand \in Seq(EntryType)
  BY <1>1, EntriesTyped DEF ReadFailed, SessionType
<1>5. ASSUME s.stage = "open" PROVE t \in SessionType /\ ConnectionInv(t, k)
  <2>1. /\ t \in SessionType /\ t.buffer = <<>> /\ t.stage = "open" /\ t.reading
        /\ t.strand = s.strand /\ t.keep = s.keep /\ t.held = s.held /\ t.sent = s.sent
        /\ t.writing = NoRequest /\ Kept(t) = {}
    BY <1>1, <1>2, <1>3, <1>5 DEF SessionType, Kept
  <2>2. AtSocket(t)
    BY <1>1, <1>3, <2>1 DEF AtSocket
  <2>3. \A i \in DOMAIN t.strand : EntryFits(t.strand[i], t, k)
    BY <2>1 DEF ConnectionFits, UnderWayFit, EntryFits, Unsent
  <2>4. LargeEnds(t, k)
    BY DEF Open, LargeEnds
  <2>5. QED
    BY <2>1, <2>2, <2>3, <2>4, Rejoined DEF Moving
<1>6. ASSUME s.stage # "open" PROVE t \in SessionType /\ ConnectionInv(t, k)
  <2>1. /\ t \in SessionType /\ t.strand = Append(s.strand, ReadFailed) /\ t.buffer = <<>>
        /\ t.stage = s.stage /\ ~t.reading /\ t.keep = s.keep /\ t.held = s.held
        /\ t.sent = s.sent /\ t.writing = NoRequest /\ Kept(t) = {}
    <3>1. t = Posted(u, ReadFailed)
      BY <1>2, <1>6
    <3>2. /\ t \in SessionType /\ t.strand = Append(u.strand, ReadFailed)
          /\ t.stage = u.stage /\ t.reading = u.reading /\ t.buffer = u.buffer /\ t.keep = u.keep
          /\ t.held = u.held /\ t.sent = u.sent /\ t.writing = u.writing /\ Kept(t) = Kept(u)
      BY <1>1, <1>4, <3>1, PostedFields
    <3>3. QED BY <1>1, <1>3, <3>2
  <2>2. OnStrand(t)
    BY <1>1, <1>3, <1>4, <2>1, AppendQueued DEF OnStrand
  <2>3. \A i \in DOMAIN t.strand : EntryFits(t.strand[i], t, k)
    <3>1. /\ EntryFits(ReadFailed, s, k) /\ ReadFailed \in EntryType
          /\ \A i \in DOMAIN s.strand : EntryFits(s.strand[i], s, k)
      BY <1>4, EntriesTyped DEF ConnectionFits, UnderWayFit, EntryFits, ReadFailed
    <3>2. t.sent = s.sent
      BY <1>4, <2>1
    <3>3. QED BY <1>1, <2>1, <3>1, <3>2, EntriesStay
  <2>4. LargeEnds(t, k)
    BY DEF Open, LargeEnds
  <2>5. QED
    BY <1>6, <2>1, <2>2, <2>3, <2>4, Rejoined DEF Moving, Open
<1>7. QED BY <1>5, <1>6 DEF t

LEMMA StartReplyKeeps ==
    ASSUME NEW s \in SessionType, NEW k \in PeerType, ConnectionFits(s, k), AtRest(s), Open(s, k),
           NEW r, Suits(r, k), r.kind = "large" => ~s.keep
    PROVE  StartReply(s, r) \in SessionType /\ ConnectionInv(StartReply(s, r), k)
<1> DEFINE t == StartReply(s, r)
<1>1. t = IF s.stage = "open" THEN [s EXCEPT !.writing = r] ELSE Posted(s, WriteFailed)
  BY DEF StartReply
<1> HIDE DEF t
<1>2. Kept(s) = {} /\ ~s.reading /\ s.writing = NoRequest /\ Quiet(s.strand)
  BY DEF AtRest
<1>3. /\ WriteFailed \in EntryType /\ WriteFailed.kind = "write_failed"
      /\ WriteFailed.req = NoRequest /\ s.strand \in Seq(EntryType)
  BY EntriesTyped DEF WriteFailed, SessionType
<1>4. r \in Request /\ r # NoRequest
  BY RequestsNumbered DEF Suits
<1>5. ASSUME s.stage = "open" PROVE t \in SessionType /\ ConnectionInv(t, k)
  <2>1. /\ t \in SessionType /\ t.buffer = s.buffer /\ t.stage = "open" /\ ~t.reading
        /\ t.strand = s.strand /\ t.keep = s.keep /\ t.held = s.held /\ t.sent = s.sent
        /\ t.writing = r /\ Kept(t) = {}
    BY <1>1, <1>2, <1>4, <1>5 DEF SessionType, Kept
  <2>2. AtSocket(t)
    BY <1>2, <1>4, <2>1 DEF AtSocket
  <2>3. \A i \in DOMAIN t.strand : EntryFits(t.strand[i], t, k)
    BY <2>1 DEF ConnectionFits, UnderWayFit, EntryFits, Unsent
  <2>4. LargeEnds(t, k)
    BY DEF Open, LargeEnds
  <2>5. QED
    BY <2>1, <2>2, <2>3, <2>4, Rejoined DEF Moving
<1>6. ASSUME s.stage # "open" PROVE t \in SessionType /\ ConnectionInv(t, k)
  <2>1. /\ t \in SessionType /\ t.strand = Append(s.strand, WriteFailed) /\ t.buffer = s.buffer
        /\ t.stage = s.stage /\ ~t.reading /\ t.keep = s.keep /\ t.held = s.held
        /\ t.sent = s.sent /\ t.writing = NoRequest /\ Kept(t) = {}
    BY <1>1, <1>2, <1>3, <1>6, PostedFields
  <2>2. OnStrand(t)
    BY <1>2, <1>3, <2>1, AppendQueued DEF OnStrand
  <2>3. \A i \in DOMAIN t.strand : EntryFits(t.strand[i], t, k)
    <3>1. /\ EntryFits(WriteFailed, s, k) /\ WriteFailed \in EntryType
          /\ \A i \in DOMAIN s.strand : EntryFits(s.strand[i], s, k)
      BY <1>3, EntriesTyped DEF ConnectionFits, UnderWayFit, EntryFits, WriteFailed
    <3>2. t.sent = s.sent
      BY <1>3, <2>1
    <3>3. QED BY <1>1, <2>1, <3>1, <3>2, EntriesStay
  <2>4. LargeEnds(t, k)
    BY DEF Open, LargeEnds
  <2>5. QED
    BY <1>6, <2>1, <2>2, <2>3, <2>4, Rejoined DEF Moving, Open
<1>7. QED BY <1>5, <1>6 DEF t

-----------------------------------------------------------------------------
(* What becomes of a request.                                              *)

\* Something is under way, so that the session was started and may go on.
LEMMA UnderWayIsOpen ==
    ASSUME NEW s \in SessionType, NEW k \in PeerType, ConnectionFits(s, k),
           \/ s.reading \/ s.writing # NoRequest \/ Kept(s) # {}
           \/ \E i \in DOMAIN s.strand : s.strand[i].kind \in {"read", "reply"}
           \/ s.keep /\ \E i \in DOMAIN s.strand : s.strand[i].kind = "written"
    PROVE  Open(s, k)
<1>1. ~Ending(s)
  BY DEF Ending
<1>2. \A i \in DOMAIN k.answers : k.answers[i].kind # "large"
  BY <1>1 DEF ConnectionFits, LargeEnds
<1>3. ~Fresh(s, k)
  BY DEF Fresh, Kept
<1>4. QED BY <1>2, <1>3 DEF Open, ConnectionFits

\* A session at rest may take another "keep-alive", or hand its socket to the websocket.
LEMMA RestKept ==
    ASSUME NEW s \in SessionType, NEW t \in SessionType, NEW k \in PeerType,
           ConnectionFits(s, k), AtRest(s), Open(s, k),
           t.strand = s.strand, t.held = s.held, t.sent = s.sent, t.reading = s.reading,
           t.writing = s.writing, t.buffer = s.buffer, t.stage \in {s.stage, "upgraded"}
    PROVE  /\ ConnectionFits(t, k) /\ AtRest(t) /\ Open(t, k)
           /\ t.stage # "open" => ConnectionInv(t, k)
<1>1. Kept(t) = Kept(s)
  BY DEF Kept
<1>2. AtRest(t)
  BY <1>1 DEF AtRest
<1>3. Open(t, k)
  BY DEF Open
<1>4. UnderWayFit(t, k)
  BY <1>1, <1>2 DEF ConnectionFits, UnderWayFit, EntryFits, Unsent, AtRest
<1>5. WireFits(t, k) /\ AnswersFit(k)
  BY DEF ConnectionFits, WireFits, Unsent
<1>6. LargeEnds(t, k) /\ t.stage # "none"
  BY <1>3 DEF LargeEnds, Open
<1>7. ConnectionFits(t, k)
  BY <1>2, <1>4, <1>5, <1>6 DEF ConnectionFits
<1>8. QED BY <1>2, <1>3, <1>7 DEF ConnectionInv

\* The answer to a request is posted, whether or not its reply is kept as well.
LEMMA AnswerPosted ==
    ASSUME NEW s \in SessionType, NEW t \in SessionType, NEW k \in PeerType, NEW r,
           ConnectionFits(s, k), Open(s, k), Suits(r, k), r.kind # "large",
           Quiet(s.strand), ~s.reading, s.writing = NoRequest, Kept(s) \subseteq {r},
           t.sent = s.sent \cup {r.n}, t.held \subseteq s.held \cup {r},
           t.strand = Append(s.strand, Reply(r)), t.stage = s.stage,
           ~t.reading, t.writing = NoRequest
    PROVE  ConnectionInv(t, k)
<1>1. /\ r \in Request /\ Reply(r) \in EntryType /\ Reply(r).kind = "reply" /\ Reply(r).req = r
      /\ s.strand \in Seq(EntryType)
  BY EntriesTyped DEF Suits, Reply, SessionType
<1>2. Kept(t) = {}
  BY DEF Kept
<1>3. OnStrand(t)
  BY <1>1, <1>2, AppendQueued DEF OnStrand
<1>4. \A i \in DOMAIN t.strand : EntryFits(t.strand[i], t, k)
  <2>1. EntryFits(Reply(r), t, k)
    BY <1>1 DEF EntryFits
  <2>2. \A i \in DOMAIN s.strand : EntryFits(s.strand[i], t, k)
    BY DEF ConnectionFits, UnderWayFit, Quiet, EntryFits
  <2>3. QED BY <1>1, <2>1, <2>2, AppendQueued
<1>5. \A q \in t.held : q.kind # "large"
  BY DEF ConnectionFits, UnderWayFit
<1>6. UnderWayFit(t, k)
  BY <1>2, <1>4, <1>5 DEF UnderWayFit
<1>7. WireFits(t, k) /\ AnswersFit(k)
  BY DEF ConnectionFits, WireFits, Unsent, Suits
<1>8. LargeEnds(t, k) /\ t.stage # "none"
  BY DEF LargeEnds, Open
<1>9. QED
  BY <1>3, <1>6, <1>7, <1>8 DEF ConnectionInv, ConnectionFits, Moving

LEMMA SendFields ==
    ASSUME NEW s \in SessionType, NEW r \in Request, r.n \notin s.sent
    PROVE  LET t == Send(s, r) IN
           /\ t \in SessionType /\ t.strand = Append(s.strand, Reply(r))
           /\ t.sent = s.sent \cup {r.n} /\ t.held = s.held /\ t.stage = s.stage
           /\ t.reading = s.reading /\ t.writing = s.writing
<1> DEFINE u == [s EXCEPT !.sent = s.sent \cup {r.n}]
<1>1. r.n \in 1 .. MaxRequests
  BY RequestsNumbered
<1>2. /\ u \in SessionType /\ u.sent = s.sent \cup {r.n} /\ u.strand = s.strand
      /\ u.held = s.held /\ u.stage = s.stage /\ u.reading = s.reading /\ u.writing = s.writing
  BY <1>1 DEF SessionType
<1>3. Reply(r) \in EntryType
  BY EntriesTyped
<1>4. Send(s, r) = Posted(u, Reply(r))
  BY DEF Send
<1> HIDE DEF u
<1>5. QED BY <1>2, <1>3, <1>4, PostedFields

LEMMA HandledKeeps ==
    ASSUME NEW s \in SessionType, NEW k \in PeerType, ConnectionFits(s, k), AtRest(s), Open(s, k),
           NEW r, Suits(r, k), Unsent(r.n, s), r.kind # "large",
           NEW t \in Handled(s, r)
    PROVE  t \in SessionType /\ ConnectionInv(t, k)
<1> DEFINE u == [s EXCEPT !.held = s.held \cup {r}]
<1>1. r \in Request /\ r.n \notin s.sent
  BY RequestsNumbered DEF Suits, Unsent, SessionType
<1>2. /\ Kept(s) = {} /\ ~s.reading /\ s.writing = NoRequest /\ Quiet(s.strand)
      /\ s.held \subseteq Request
  BY DEF AtRest, SessionType
<1>3. /\ u \in SessionType /\ u.held = s.held \cup {r} /\ u.sent = s.sent /\ u.strand = s.strand
      /\ u.stage = s.stage /\ u.reading = s.reading /\ u.writing = s.writing
      /\ u.buffer = s.buffer /\ u.keep = s.keep
  BY <1>1, <1>2 DEF SessionType
<1>4. t \in {Send(s, r), u, Send(u, r)}
  BY DEF Handled
<1> HIDE DEF u
<1>5. CASE t = Send(s, r)
  <2>1. /\ t \in SessionType /\ t.strand = Append(s.strand, Reply(r))
        /\ t.sent = s.sent \cup {r.n} /\ t.held = s.held /\ t.stage = s.stage
        /\ t.reading = s.reading /\ t.writing = s.writing
    BY <1>1, <1>5, SendFields
  <2>2. ConnectionInv(t, k)
    BY <1>2, <2>1, AnswerPosted
  <2>3. QED BY <2>1, <2>2
<1>6. CASE t = Send(u, r)
  <2>1. /\ t \in SessionType /\ t.strand = Append(s.strand, Reply(r))
        /\ t.sent = s.sent \cup {r.n} /\ t.held = s.held \cup {r} /\ t.stage = s.stage
        /\ t.reading = s.reading /\ t.writing = s.writing
    BY <1>1, <1>3, <1>6, SendFields
  <2>2. ConnectionInv(t, k)
    BY <1>2, <2>1, AnswerPosted
  <2>3. QED BY <2>1, <2>2
<1>7. CASE t = u
  <2>1. Kept(u) = {r}
    BY <1>1, <1>2, <1>3 DEF Kept
  <2>2. AtHandler(u)
    BY <1>2, <1>3, <2>1 DEF AtHandler
  <2>3. UnderWayFit(u, k)
    BY <1>2, <1>3, <2>1 DEF ConnectionFits, UnderWayFit, EntryFits, Unsent
  <2>4. WireFits(u, k) /\ AnswersFit(k) /\ LargeEnds(u, k) /\ u.stage # "none"
    BY <1>3 DEF ConnectionFits, WireFits, Unsent, LargeEnds, Open
  <2>5. QED
    BY <1>3, <1>7, <2>2, <2>3, <2>4 DEF ConnectionInv, ConnectionFits, Moving
<1>8. QED BY <1>4, <1>5, <1>6, <1>7

-----------------------------------------------------------------------------
(* Handlers on the strand.                                                 *)

\* A handler is taken from the strand; its timer may have been cancelled.
LEMMA TakenFromStrand ==
    ASSUME NEW s \in SessionType, NEW u \in SessionType, NEW k \in PeerType, ConnectionInv(s, k),
           s.strand # <<>>, u.strand = Tail(s.strand), u.stage = s.stage, u.held = s.held,
           u.sent = s.sent, u.reading = s.reading, u.writing = s.writing, u.keep = s.keep,
           u.buffer = s.buffer
    PROVE  LET h == Head(s.strand) IN
           /\ ConnectionFits(u, k) /\ EntryFits(h, u, k)
           /\ h.kind = "idle" => ConnectionInv(u, k)
           /\ h.kind # "idle" => AtRest(u)
           /\ h.kind \in {"read", "reply"} => Open(u, k)
           /\ h.kind = "written" /\ s.keep => Open(u, k)
<1> DEFINE h == Head(s.strand)
<1>1. s.strand \in Seq(EntryType)
  BY DEF SessionType
<1>2. /\ 1 \in DOMAIN s.strand /\ h = s.strand[1]
      /\ Quiet(s.strand) => Quiet(u.strand) /\ h.kind = "idle"
      /\ OneWaits(s.strand) /\ h.kind = "idle" => OneWaits(u.strand)
      /\ OneWaits(s.strand) /\ h.kind # "idle" => Quiet(u.strand)
      /\ \A i \in DOMAIN u.strand : i + 1 \in DOMAIN s.strand /\ u.strand[i] = s.strand[i + 1]
  BY <1>1, TailQueued
<1> HIDE DEF h
<1>3. Kept(u) = Kept(s) /\ ConnectionFits(s, k)
  BY DEF Kept, ConnectionInv
<1>4. /\ Moving(s) /\ h.kind = "idle" => Moving(u)
      /\ h.kind # "idle" => AtRest(u)
      /\ AtRest(s) => AtRest(u)
  BY <1>2, <1>3 DEF ConnectionFits, Moving, AtSocket, AtHandler, OnStrand, AtRest
<1>5. \A e : EntryFits(e, s, k) => EntryFits(e, u, k)
  BY DEF EntryFits, Unsent
<1>6. EntryFits(h, u, k) /\ \A i \in DOMAIN u.strand : EntryFits(u.strand[i], u, k)
  BY <1>2, <1>3, <1>5 DEF ConnectionFits, UnderWayFit
<1>7. UnderWayFit(u, k)
  BY <1>3, <1>6 DEF ConnectionFits, UnderWayFit
<1>8. WireFits(u, k) /\ AnswersFit(k)
  BY <1>3 DEF ConnectionFits, WireFits, Unsent
<1>9. Ending(s) => Ending(u)
  BY <1>2, <1>3 DEF Ending
<1>10. LargeEnds(u, k)
  BY <1>3, <1>9 DEF ConnectionFits, LargeEnds
<1>11. u.stage # "none"
  BY <1>3 DEF ConnectionFits, Fresh
<1>12. ConnectionFits(u, k)
  BY <1>3, <1>4, <1>7, <1>8, <1>10, <1>11 DEF ConnectionFits
<1>13. h.kind = "idle" => ConnectionInv(u, k)
  BY <1>4, <1>12 DEF ConnectionInv
<1>14. h.kind \in {"read", "reply"} \/ (h.kind = "written" /\ s.keep) => Open(s, k)
  BY <1>2, <1>3, UnderWayIsOpen
<1>15. Open(s, k) => Open(u, k)
  BY DEF Open
<1>16. QED
  BY <1>4, <1>6, <1>12, <1>13, <1>14, <1>15 DEF h

LEMMA ReadTakenKeeps ==
    ASSUME NEW s \in SessionType, NEW k \in PeerType, ConnectionFits(s, k), AtRest(s), Open(s, k),
           NEW r, Suits(r, k), Unsent(r.n, s), NEW t \in ReadTaken(s, r)
    PROVE  t \in SessionType /\ ConnectionInv(t, k)
<1> DEFINE keeps(b) == [s EXCEPT !.keep = b]
           upgraded == [s EXCEPT !.stage = IF s.stage = "open" THEN "upgraded" ELSE s.stage]
<1>1. r.kind \in RequestKind /\ r \in Request
  BY DEF Suits, Request
<1>2. ASSUME NEW b \in BOOLEAN
      PROVE  /\ keeps(b) \in SessionType /\ keeps(b).keep = b /\ keeps(b).sent = s.sent
             /\ ConnectionFits(keeps(b), k) /\ AtRest(keeps(b)) /\ Open(keeps(b), k)
             /\ Unsent(r.n, keeps(b))
  <2> DEFINE u == keeps(b)
  <2>1. /\ u \in SessionType /\ u.keep = b /\ u.sent = s.sent /\ u.strand = s.strand
        /\ u.held = s.held /\ u.reading = s.reading /\ u.writing = s.writing
        /\ u.buffer = s.buffer /\ u.stage = s.stage
    BY DEF SessionType
  <2> HIDE DEF u
  <2>2. ConnectionFits(u, k) /\ AtRest(u) /\ Open(u, k)
    BY <2>1, RestKept
  <2>3. Unsent(r.n, u)
    BY <2>1 DEF Unsent
  <2>4. QED BY <2>1, <2>2, <2>3 DEF u
<1>3. upgraded \in SessionType /\ ConnectionInv(upgraded, k)
  <2> DEFINE u == upgraded
  <2>1. /\ u \in SessionType /\ u.sent = s.sent /\ u.strand = s.strand
        /\ u.held = s.held /\ u.reading = s.reading /\ u.writing = s.writing
        /\ u.buffer = s.buffer /\ u.stage \in {s.stage, "upgraded"} /\ u.stage # "open"
    BY DEF SessionType
  <2> HIDE DEF u
  <2>2. ConnectionInv(u, k)
    BY <2>1, RestKept
  <2>3. QED BY <2>1, <2>2 DEF u
<1>4. CASE r.kind = "torn"
  <2>1. t = Close(s)
    BY <1>4 DEF ReadTaken
  <2>2. QED BY <2>1, CloseKeeps
<1>5. CASE r.kind = "large"
  <2>1. t = StartReply(keeps(FALSE), r)
    BY <1>5 DEF ReadTaken
  <2> HIDE DEF keeps
  <2>2. QED BY <1>2, <2>1, StartReplyKeeps
<1>6. CASE r.kind \in {"malformed", "upgrade"}
  <2>1. t = StartReply(keeps(TRUE), r) \/ t = upgraded
    BY <1>6 DEF ReadTaken
  <2> HIDE DEF keeps, upgraded
  <2>2. r.kind # "large"
    BY <1>6
  <2>3. QED BY <1>2, <1>3, <2>1, <2>2, StartReplyKeeps
<1>7. CASE r.kind \in {"get", "last"}
  <2>1. t \in Handled(keeps(r.kind = "get"), r)
    BY <1>7 DEF ReadTaken
  <2>2. (r.kind = "get") \in BOOLEAN /\ r.kind # "large"
    BY <1>7
  <2> HIDE DEF keeps
  <2>3. QED BY <1>2, <2>1, <2>2, HandledKeeps
<1>8. QED BY <1>1, <1>4, <1>5, <1>6, <1>7 DEF RequestKind

LEMMA TypesOfConn ==
    ASSUME HttpInv, NEW c \in Conn
    PROVE  /\ session[c] \in SessionType /\ client[c] \in PeerType
           /\ ConnectionInv(session[c], client[c])
  BY DEF HttpInv, HttpTypeOK, SessionType, PeerType, EntryType

\* A step of one connection.
LEMMA OneConnection ==
    ASSUME HttpInv, NEW c \in Conn, NEW t \in SessionType, NEW k \in PeerType, ConnectionInv(t, k),
           session' = [session EXCEPT ![c] = t], client' = [client EXCEPT ![c] = k],
           acceptor' \in [open : BOOLEAN, retry : BOOLEAN,
                          accept : {"none", "pending", "done", "failed", "aborted"}],
           UNCHANGED faults
    PROVE  HttpInv'
<1>1. /\ session \in [Conn -> SessionType] /\ client \in [Conn -> PeerType]
      /\ faults \in 0 .. MaxFaults
  BY DEF HttpInv, HttpTypeOK, SessionType, PeerType, EntryType
<1>2. session' \in [Conn -> SessionType] /\ client' \in [Conn -> PeerType]
  BY <1>1
<1>3. HttpTypeOK'
  BY <1>1, <1>2 DEF HttpTypeOK, SessionType, PeerType, EntryType
<1>4. \A d \in Conn : ConnectionInv(session[d], client[d])'
  <2> SUFFICES ASSUME NEW d \in Conn PROVE ConnectionInv(session'[d], client'[d])
    BY DEF ConnectionInv, ConnectionFits, Moving, AtSocket, AtHandler, OnStrand, AtRest, UnderWayFit,
           WireFits, AnswersFit, LargeEnds, Fresh, Kept, EntryFits, Suits, Unsent, Ending, Quiet,
           OneWaits
  <2>1. CASE d = c
    BY <1>1, <2>1
  <2>2. CASE d # c
    BY <1>1, <2>2 DEF HttpInv
  <2>3. QED BY <2>1, <2>2
<1>5. QED BY <1>3, <1>4 DEF HttpInv

LEMMA AcceptorTyped ==
    HttpInv => acceptor \in [open : BOOLEAN, retry : BOOLEAN,
                             accept : {"none", "pending", "done", "failed", "aborted"}]
  BY DEF HttpInv, HttpTypeOK

\* A step of the session alone.
LEMMA SessionAlone ==
    ASSUME HttpInv, NEW c \in Conn, NEW t \in SessionType, ConnectionInv(t, client[c]),
           Becomes(c, t), UNCHANGED client
    PROVE  HttpInv'
<1>1. client \in [Conn -> PeerType]
  BY DEF HttpInv, HttpTypeOK, PeerType
<1>2. client' = [client EXCEPT ![c] = client[c]] /\ client[c] \in PeerType
  BY <1>1
<1>3. session' = [session EXCEPT ![c] = t] /\ acceptor' = acceptor /\ faults' = faults
  BY DEF Becomes
<1>4. QED BY <1>2, <1>3, AcceptorTyped, OneConnection

\* A handler at the front of the strand.
LEMMA FrontTaken ==
    ASSUME HttpInv, NEW c \in Conn, session[c].strand # <<>>,
           NEW u, u \in {Popped(c), [Popped(c) EXCEPT !.timer = FALSE]}
    PROVE  LET h == Head(session[c].strand) IN
           /\ u \in SessionType /\ u.keep = session[c].keep
           /\ ConnectionFits(u, client[c]) /\ EntryFits(h, u, client[c])
           /\ h.kind = "idle" => ConnectionInv(u, client[c])
           /\ h.kind # "idle" => AtRest(u)
           /\ h.kind \in {"read", "reply"} => Open(u, client[c])
           /\ h.kind = "written" /\ u.keep => Open(u, client[c])
<1> DEFINE s == session[c]
<1>1. s \in SessionType /\ client[c] \in PeerType /\ ConnectionInv(s, client[c])
  BY TypesOfConn
<1>2. Tail(s.strand) \in Seq(EntryType)
  BY <1>1, TailQueued DEF SessionType
<1> HIDE DEF s
<1>3. u \in {[s EXCEPT !.strand = Tail(s.strand)],
             [[s EXCEPT !.strand = Tail(s.strand)] EXCEPT !.timer = FALSE]}
  BY DEF Popped, s
<1> DEFINE v == [s EXCEPT !.strand = Tail(s.strand)]
<1>4. /\ u \in SessionType /\ u.strand = Tail(s.strand) /\ u.stage = s.stage /\ u.held = s.held
      /\ u.sent = s.sent /\ u.reading = s.reading /\ u.writing = s.writing /\ u.keep = s.keep
      /\ u.buffer = s.buffer
  <2>1. /\ v \in SessionType /\ v.strand = Tail(s.strand) /\ v.stage = s.stage /\ v.held = s.held
        /\ v.sent = s.sent /\ v.reading = s.reading /\ v.writing = s.writing /\ v.keep = s.keep
        /\ v.buffer = s.buffer
    BY <1>1, <1>2 DEF SessionType
  <2>2. u = v \/ u = [v EXCEPT !.timer = FALSE]
    BY <1>3
  <2> HIDE DEF v
  <2>3. CASE u = v
    BY <2>1, <2>3
  <2>4. CASE u = [v EXCEPT !.timer = FALSE]
    BY <2>1, <2>4 DEF SessionType
  <2>5. QED BY <2>2, <2>3, <2>4
<1>5. s.strand # <<>>
  BY DEF s
<1>6. LET h == Head(s.strand) IN
           /\ ConnectionFits(u, client[c]) /\ EntryFits(h, u, client[c])
           /\ h.kind = "idle" => ConnectionInv(u, client[c])
           /\ h.kind # "idle" => AtRest(u)
           /\ h.kind \in {"read", "reply"} => Open(u, client[c])
           /\ h.kind = "written" /\ s.keep => Open(u, client[c])
  BY <1>1, <1>4, <1>5, TakenFromStrand
<1>7. QED BY <1>4, <1>6 DEF s

LEMMA RunHttpKeeps ==
    ASSUME HttpInv, NEW c \in Conn, RunHttp(c)
    PROVE  HttpInv'
<1> DEFINE s == session[c]
           k == client[c]
           h == Head(session[c].strand)
<1>1. k \in PeerType
  BY TypesOfConn
<1>2. CASE RunHttpRead(c)
  <2> DEFINE u == [Popped(c) EXCEPT !.timer = FALSE]
  <2>1. /\ s.strand # <<>> /\ h.kind = "read" /\ UNCHANGED client
        /\ \E t \in ReadTaken(u, h.req) : Becomes(c, t)
    BY <1>2 DEF RunHttpRead, AtFront
  <2>2. /\ u \in SessionType /\ ConnectionFits(u, k) /\ EntryFits(h, u, k)
        /\ AtRest(u) /\ Open(u, k)
    BY <2>1, FrontTaken
  <2>3. Suits(h.req, k) /\ Unsent(h.req.n, u)
    BY <2>1, <2>2 DEF EntryFits
  <2>4. PICK t \in ReadTaken(u, h.req) : Becomes(c, t)
    BY <2>1
  <2> HIDE DEF u, h, k
  <2>5. t \in SessionType /\ ConnectionInv(t, k)
    BY <1>1, <2>2, <2>3, ReadTakenKeeps
  <2>6. QED BY <2>1, <2>4, <2>5, SessionAlone DEF k
<1>3. CASE RunHttpEnding(c)
  <2>1. s.strand # <<>> /\ Becomes(c, Close(Popped(c))) /\ UNCHANGED client
    BY <1>3 DEF RunHttpEnding, AtFront
  <2>2. Popped(c) \in SessionType /\ ConnectionFits(Popped(c), k)
    BY <2>1, FrontTaken
  <2>3. Close(Popped(c)) \in SessionType /\ ConnectionInv(Close(Popped(c)), k)
    BY <1>1, <2>2, CloseKeeps
  <2>4. QED BY <2>1, <2>3, SessionAlone
<1>4. CASE RunReply(c)
  <2> DEFINE u == Popped(c)
             t == StartReply(u, h.req)
  <2>1. s.strand # <<>> /\ h.kind = "reply" /\ Becomes(c, t) /\ UNCHANGED client
    BY <1>4 DEF RunReply, AtFront
  <2>2. /\ u \in SessionType /\ ConnectionFits(u, k) /\ EntryFits(h, u, k)
        /\ AtRest(u) /\ Open(u, k)
    BY <2>1, FrontTaken
  <2>3. Suits(h.req, k) /\ h.req.kind # "large"
    BY <2>1, <2>2 DEF EntryFits
  <2>4. t \in SessionType /\ ConnectionInv(t, k)
    BY <1>1, <2>2, <2>3, StartReplyKeeps
  <2>5. QED BY <2>1, <2>4, SessionAlone
<1>5. CASE RunHttpWritten(c)
  <2> DEFINE u == Popped(c)
             t == AfterWrite(u)
  <2>1. s.strand # <<>> /\ h.kind = "written" /\ Becomes(c, t) /\ UNCHANGED client
    BY <1>5 DEF RunHttpWritten, AtFront
  <2>2. /\ u \in SessionType /\ ConnectionFits(u, k) /\ AtRest(u)
        /\ u.keep => Open(u, k)
    BY <2>1, FrontTaken
  <2>3. t = IF u.keep THEN StartRead(u) ELSE Close(u)
    BY DEF AfterWrite
  <2> HIDE DEF u, t
  <2>4. t \in SessionType /\ ConnectionInv(t, k)
    BY <1>1, <2>2, <2>3, StartReadKeeps, CloseKeeps
  <2>5. QED BY <2>1, <2>4, SessionAlone
<1>6. QED BY <1>2, <1>3, <1>4, <1>5 DEF RunHttp

-----------------------------------------------------------------------------
(* Other threads, the timer and the socket.                                *)

LEMMA HandlerRepliesKeeps ==
    ASSUME HttpInv, NEW c \in Conn, NEW r \in session[c].held, HandlerReplies(c, r)
    PROVE  HttpInv'
<1> DEFINE s == session[c]
           k == client[c]
           t == [Send(session[c], r) EXCEPT !.held = session[c].held \ {r}]
<1>1. s \in SessionType /\ k \in PeerType /\ ConnectionInv(s, k)
  BY TypesOfConn
<1>2. r \in Request /\ r \in s.held /\ s.held \subseteq Request
  BY <1>1 DEF SessionType
<1>3. Becomes(c, [Send(s, r) EXCEPT !.held = @ \ {r}]) /\ UNCHANGED client
  BY DEF HandlerReplies
<1> HIDE DEF s, k
<1>4. CASE r.n \in s.sent
  <2> DEFINE u == [s EXCEPT !.held = s.held \ {r}]
  <2>1. Send(s, r) = s
    BY <1>4 DEF Send
  <2>2. /\ u \in SessionType /\ u.held = s.held \ {r} /\ u.sent = s.sent /\ u.strand = s.strand
        /\ u.stage = s.stage /\ u.reading = s.reading /\ u.writing = s.writing
        /\ u.buffer = s.buffer /\ u.keep = s.keep
    BY <1>1, <1>2 DEF SessionType
  <2>3. Becomes(c, u)
    BY <1>3, <2>1
  <2> HIDE DEF u
  <2>4. Kept(u) = Kept(s) /\ ConnectionFits(s, k)
    BY <1>1, <1>4, <2>2 DEF Kept, ConnectionInv
  <2>5. /\ AtHandler(s) => AtHandler(u)
        /\ Moving(s) => Moving(u)
        /\ AtRest(s) => AtRest(u)
    <3>1. \A q \in Kept(u) : q \in u.held
      BY DEF Kept
    <3>2. AtHandler(s) => AtHandler(u)
      BY <2>2, <2>4, <3>1 DEF AtHandler
    <3>3. QED BY <2>2, <2>4, <3>2 DEF Moving, AtSocket, OnStrand, AtRest
  <2>6. UnderWayFit(u, k)
    BY <2>2, <2>4 DEF ConnectionFits, UnderWayFit, EntryFits, Unsent
  <2>7. WireFits(u, k) /\ AnswersFit(k)
    BY <2>2, <2>4 DEF ConnectionFits, WireFits, Unsent
  <2>8. LargeEnds(u, k)
    BY <2>2, <2>4 DEF ConnectionFits, LargeEnds, Ending
  <2>9. u.stage # "none"
    BY <1>2, <2>2, <2>4 DEF ConnectionFits, Fresh
  <2>10. ConnectionInv(u, k)
    BY <1>1, <2>2, <2>4, <2>5, <2>6, <2>7, <2>8, <2>9 DEF ConnectionInv, ConnectionFits
  <2>11. QED BY <1>3, <2>2, <2>3, <2>10, SessionAlone DEF k
<1>5. CASE r.n \notin s.sent
  <2> DEFINE v == Send(s, r)
             u == [v EXCEPT !.held = s.held \ {r}]
  <2>1. /\ v \in SessionType /\ v.strand = Append(s.strand, Reply(r))
        /\ v.sent = s.sent \cup {r.n} /\ v.held = s.held /\ v.stage = s.stage
        /\ v.reading = s.reading /\ v.writing = s.writing
    BY <1>1, <1>2, <1>5, SendFields
  <2>2. Becomes(c, u)
    BY <1>3, <2>1
  <2> HIDE DEF v
  <2>3. /\ u \in SessionType /\ u.held = s.held \ {r} /\ u.strand = Append(s.strand, Reply(r))
        /\ u.sent = s.sent \cup {r.n} /\ u.stage = s.stage
        /\ u.reading = s.reading /\ u.writing = s.writing
    BY <1>2, <2>1 DEF SessionType
  <2> HIDE DEF u
  <2>4. r \in Kept(s) /\ ConnectionFits(s, k)
    BY <1>1, <1>2, <1>5 DEF Kept, ConnectionInv
  <2>5. AtHandler(s)
    BY <2>4 DEF ConnectionFits, Moving, AtSocket, OnStrand, AtRest
  <2>6. /\ Kept(s) \subseteq {r} /\ ~s.reading /\ s.writing = NoRequest /\ Quiet(s.strand)
        /\ Suits(r, k) /\ r.kind # "large"
    BY <1>2, <2>4, <2>5 DEF AtHandler, ConnectionFits, UnderWayFit
  <2>7. Open(s, k)
    BY <1>1, <2>4, UnderWayIsOpen
  <2>8. ConnectionInv(u, k)
    BY <1>1, <2>3, <2>4, <2>6, <2>7, AnswerPosted
  <2>9. QED BY <1>3, <2>2, <2>3, <2>8, SessionAlone DEF k
<1>6. QED BY <1>4, <1>5

LEMMA TimerExpiresKeeps ==
    ASSUME HttpInv, NEW c \in Conn, TimerExpires(c)
    PROVE  HttpInv'
<1> DEFINE s == session[c]
           k == client[c]
           u == [s EXCEPT !.timer = FALSE]
           t == Posted(u, Idle)
<1>1. s \in SessionType /\ k \in PeerType /\ ConnectionInv(s, k)
  BY TypesOfConn
<1>2. Becomes(c, t) /\ UNCHANGED client
  BY DEF TimerExpires
<1> HIDE DEF s, k
<1>3. /\ u \in SessionType /\ u.held = s.held /\ u.sent = s.sent /\ u.strand = s.strand
      /\ u.stage = s.stage /\ u.reading = s.reading /\ u.writing = s.writing
      /\ u.buffer = s.buffer /\ u.keep = s.keep
  BY <1>1 DEF SessionType
<1>4. /\ Idle \in EntryType /\ Idle.kind = "idle" /\ Idle.req = NoRequest
      /\ s.strand \in Seq(EntryType)
  BY <1>1, EntriesTyped DEF Idle, SessionType
<1> HIDE DEF u
<1>5. /\ t \in SessionType /\ t.held = s.held /\ t.sent = s.sent /\ t.strand = Append(s.strand, Idle)
      /\ t.stage = s.stage /\ t.reading = s.reading /\ t.writing = s.writing
      /\ t.buffer = s.buffer /\ t.keep = s.keep
  <2>1. /\ t \in SessionType /\ t.strand = Append(u.strand, Idle)
        /\ t.stage = u.stage /\ t.reading = u.reading /\ t.buffer = u.buffer /\ t.keep = u.keep
        /\ t.held = u.held /\ t.sent = u.sent /\ t.writing = u.writing
    BY <1>3, <1>4, PostedFields
  <2>2. QED BY <1>3, <2>1
<1> HIDE DEF t
<1>6. Kept(t) = Kept(s) /\ ConnectionFits(s, k)
  BY <1>1, <1>5 DEF Kept, ConnectionInv
<1>7. (Moving(s) => Moving(t)) /\ (AtRest(s) => AtRest(t))
  BY <1>4, <1>5, <1>6, AppendQueued DEF Moving, AtSocket, AtHandler, OnStrand, AtRest
<1>8. \A i \in DOMAIN t.strand : EntryFits(t.strand[i], t, k)
  <2>1. EntryFits(Idle, s, k)
    BY <1>4 DEF EntryFits
  <2>2. \A i \in DOMAIN s.strand : EntryFits(s.strand[i], s, k)
    BY <1>6 DEF ConnectionFits, UnderWayFit
  <2>3. QED BY <1>1, <1>4, <1>5, <2>1, <2>2, EntriesStay
<1>9. LargeEnds(t, k)
  <2>1. Ending(s) => Ending(t)
    BY <1>4, <1>5, <1>6, AppendQueued DEF Ending
  <2>2. QED BY <1>6, <2>1 DEF ConnectionFits, LargeEnds
<1>10. UnderWayFit(t, k)
  BY <1>5, <1>6, <1>8 DEF ConnectionFits, UnderWayFit
<1>11. WireFits(t, k) /\ AnswersFit(k)
  BY <1>5, <1>6 DEF ConnectionFits, WireFits, Unsent
<1>12. t.stage # "none"
  BY <1>5, <1>6 DEF ConnectionFits, Fresh, TimerExpires, s
<1>13. ConnectionInv(t, k)
  BY <1>1, <1>5, <1>6, <1>7, <1>9, <1>10, <1>11, <1>12 DEF ConnectionInv, ConnectionFits
<1>14. QED
  BY <1>2, <1>5, <1>13, SessionAlone DEF k

\* What is left on the wire after n requests were read, one of them in part.
LeftOf(v, w, n) ==
    /\ v \in Seq(Request) /\ Len(v) \in Nat /\ DOMAIN v = 1 .. Len(v)
    /\ \A i \in DOMAIN v : i + n \in DOMAIN w /\ v[i].n = w[i + n].n

LEMMA LeftOnWire ==
    ASSUME NEW w \in Seq(Request), NEW n \in 1 .. Len(w), NEW left \in Seq(Request),
           Len(left) = Len(w) - n, \A i \in 1 .. Len(left) : left[i] = w[i + n],
           NEW v \in {left, Torn(left)}
    PROVE  LeftOf(v, w, n)
<1>1. Len(left) \in Nat /\ Len(w) \in Nat
  OBVIOUS
<1>2. \A i \in 1 .. Len(left) : i + n \in DOMAIN w /\ left[i].n = w[i + n].n
  BY <1>1
<1>3. CASE v = left \/ left = <<>>
  <2>1. v = left
    BY <1>3 DEF Torn
  <2>2. v \in Seq(Request) /\ Len(v) \in Nat /\ DOMAIN v = 1 .. Len(v)
    BY <2>1
  <2>3. \A i \in DOMAIN v : i + n \in DOMAIN w /\ v[i].n = w[i + n].n
    BY <1>2, <2>1, <2>2
  <2>4. QED BY <2>2, <2>3 DEF LeftOf
<1>4. CASE v = Torn(left) /\ left # <<>>
  <2> DEFINE x == [Head(left) EXCEPT !.kind = "torn"]
  <2>1. Head(left) \in Request /\ Head(left) = left[1] /\ Tail(left) \in Seq(Request)
        /\ Len(Tail(left)) = Len(left) - 1
        /\ \A i \in 1 .. Len(left) - 1 : Tail(left)[i] = left[i + 1]
    BY <1>1, <1>4
  <2>2. x \in Request /\ x.n = left[1].n
    BY <2>1 DEF Request, RequestKind
  <2>3. v = <<x>> \o Tail(left)
    BY <1>4 DEF Torn
  <2> HIDE DEF x
  <2>4. v \in Seq(Request) /\ Len(v) = Len(left) /\ v[1] = x
        /\ \A i \in 2 .. Len(left) : v[i] = Tail(left)[i - 1]
    BY <1>1, <2>1, <2>2, <2>3
  <2>5. \A i \in 1 .. Len(left) : v[i].n = left[i].n
    <3> SUFFICES ASSUME NEW i \in 1 .. Len(left) PROVE v[i].n = left[i].n
      OBVIOUS
    <3>1. CASE i = 1
      BY <2>2, <2>4, <3>1
    <3>2. CASE i # 1
      <4>1. i \in 2 .. Len(left) /\ i - 1 \in 1 .. Len(left) - 1
        BY <1>1, <3>2
      <4>2. v[i] = left[(i - 1) + 1] /\ (i - 1) + 1 = i
        BY <1>1, <2>1, <2>4, <4>1
      <4>3. QED BY <4>2
    <3>3. QED BY <3>1, <3>2
  <2>6. Len(v) \in Nat /\ DOMAIN v = 1 .. Len(left)
    BY <1>1, <2>4
  <2>7. \A i \in DOMAIN v : i + n \in DOMAIN w /\ v[i].n = w[i + n].n
    BY <1>2, <2>5, <2>6
  <2>8. QED BY <2>4, <2>6, <2>7 DEF LeftOf
<1>5. QED BY <1>3, <1>4

\* A session whose read or write is under way.
LEMMA SocketBusy ==
    ASSUME NEW s \in SessionType, NEW k \in PeerType, ConnectionInv(s, k),
           s.reading \/ s.writing # NoRequest
    PROVE  /\ ConnectionFits(s, k) /\ AtSocket(s) /\ Open(s, k)
           /\ Kept(s) = {} /\ Quiet(s.strand) /\ s.stage = "open"
           /\ \A r \in s.held : r.kind # "large"
           /\ WireFits(s, k) /\ AnswersFit(k)
<1>1. ConnectionFits(s, k)
  BY DEF ConnectionInv
<1>2. AtSocket(s)
  BY <1>1 DEF ConnectionFits, Moving, AtHandler, OnStrand, AtRest
<1>3. Open(s, k)
  BY <1>1, UnderWayIsOpen
<1>4. QED BY <1>1, <1>2, <1>3 DEF AtSocket, ConnectionFits, UnderWayFit

\* The operation of the socket is complete, and its handler queued.
LEMMA OperationCompletes ==
    ASSUME NEW s \in SessionType, NEW t \in SessionType, NEW k \in PeerType, NEW h \in EntryType,
           AtSocket(s), \A r \in s.held : r.kind # "large",
           h.kind # "idle", EntryFits(h, t, k), t.strand = Append(s.strand, h), t.stage = s.stage,
           t.held = s.held, t.sent = s.sent, ~t.reading, t.writing = NoRequest,
           WireFits(t, k), AnswersFit(k), LargeEnds(t, k), \A i \in DOMAIN s.strand :
           s.strand[i].req = NoRequest
    PROVE  ConnectionInv(t, k)
<1>1. s.strand \in Seq(EntryType) /\ Kept(t) = {} /\ Quiet(s.strand) /\ t.stage # "none"
  BY DEF SessionType, AtSocket, Kept
<1>2. OnStrand(t)
  BY <1>1, AppendQueued DEF OnStrand
<1>3. \A i \in DOMAIN s.strand : EntryFits(s.strand[i], t, k)
  BY <1>1 DEF Quiet, EntryFits
<1>4. \A i \in DOMAIN t.strand : EntryFits(t.strand[i], t, k)
  BY <1>1, <1>3, AppendQueued
<1>5. UnderWayFit(t, k)
  BY <1>1, <1>4 DEF UnderWayFit
<1>6. QED
  BY <1>1, <1>2, <1>5 DEF ConnectionInv, ConnectionFits, Moving

\* The expiries on the strand carry no request.
LEMMA QuietIsBare ==
    ASSUME NEW s \in SessionType, NEW k \in PeerType, ConnectionFits(s, k), Quiet(s.strand)
    PROVE  \A i \in DOMAIN s.strand : s.strand[i].req = NoRequest
  BY DEF ConnectionFits, UnderWayFit, EntryFits, Quiet

LEMMA ReadSucceedsKeeps ==
    ASSUME HttpInv, NEW c \in Conn, ReadSucceeds(c)
    PROVE  HttpInv'
<1> DEFINE s == session[c]
           k == client[c]
           bytes == s.buffer \o k.wire
<1>1. s \in SessionType /\ k \in PeerType /\ ConnectionInv(s, k) /\ s.reading /\ bytes # <<>>
  BY TypesOfConn DEF ReadSucceeds
<1>2. PICK n \in 1 .. Len(bytes), torn \in BOOLEAN :
          LET left == SubSeq(bytes, n + 1, Len(bytes)) IN
          /\ client' = [client EXCEPT ![c].wire = IF torn THEN Torn(left) ELSE left]
          /\ Becomes(c, Posted([s EXCEPT !.reading = FALSE, !.buffer = SubSeq(bytes, 2, n)],
                               ReadEntry(Head(bytes))))
  BY DEF ReadSucceeds
<1>3. bytes = k.wire /\ k.wire \in Seq(Request)
  <2>1. s.buffer = <<>> /\ k.wire \in Seq(Request)
    BY <1>1 DEF ConnectionInv, ConnectionFits, UnderWayFit, PeerType
  <2>2. QED BY <2>1
<1> DEFINE w == k.wire
           left == SubSeq(w, n + 1, Len(w))
           v == IF torn THEN Torn(left) ELSE left
           u == [s EXCEPT !.reading = FALSE, !.buffer = SubSeq(w, 2, n)]
           r == Head(w)
           t == Posted(u, ReadEntry(r))
           kk == [k EXCEPT !.wire = v]
<1>4. client \in [Conn -> PeerType]
  BY DEF HttpInv, HttpTypeOK, PeerType
<1>5. client' = [client EXCEPT ![c] = kk] /\ Becomes(c, t)
  BY <1>2, <1>3, <1>4
<1> HIDE DEF s, k, bytes
<1>6. w \in Seq(Request) /\ n \in 1 .. Len(w) /\ Len(w) \in Nat /\ 1 \in DOMAIN w
      /\ r \in Request /\ r = w[1] /\ SubSeq(w, 2, n) \in Seq(Request)
  BY <1>2, <1>3
<1>7. v \in Seq(Request) /\ Len(v) \in Nat /\ DOMAIN v = 1 .. Len(v)
      /\ \A i \in DOMAIN v : i + n \in DOMAIN w /\ v[i].n = w[i + n].n
  <2>1. v \in {left, Torn(left)}
    OBVIOUS
  <2>2. w \in Seq(Request) /\ n \in 1 .. Len(w)
    BY <1>6
  <2> HIDE DEF v, w
  <2>3. left \in Seq(Request) /\ Len(left) = Len(w) - n
        /\ \A i \in 1 .. Len(left) : left[i] = w[i + n]
    BY <2>2
  <2> HIDE DEF left
  <2>4. LeftOf(v, w, n)
    BY <2>1, <2>2, <2>3, LeftOnWire
  <2>5. QED BY <2>4 DEF LeftOf
<1>8. /\ kk \in PeerType /\ kk.wire = v /\ kk.answers = k.answers /\ kk.asked = k.asked
      /\ kk.pipelines = k.pipelines
  BY <1>1, <1>7 DEF PeerType
<1>9. /\ u \in SessionType /\ u.held = s.held /\ u.sent = s.sent /\ u.strand = s.strand
      /\ u.stage = s.stage /\ ~u.reading /\ u.writing = s.writing
  BY <1>1, <1>6 DEF SessionType
<1> HIDE DEF v, w, u, r, kk
<1>10. ReadEntry(r) \in EntryType /\ ReadEntry(r).kind = "read" /\ ReadEntry(r).req = r
  BY <1>6, EntriesTyped DEF ReadEntry
<1>11. /\ t \in SessionType /\ t.held = s.held /\ t.sent = s.sent
       /\ t.strand = Append(s.strand, ReadEntry(r))
       /\ t.stage = s.stage /\ ~t.reading /\ t.writing = s.writing
  <2>1. /\ t \in SessionType /\ t.strand = Append(u.strand, ReadEntry(r))
        /\ t.stage = u.stage /\ t.reading = u.reading
        /\ t.held = u.held /\ t.sent = u.sent /\ t.writing = u.writing
    BY <1>9, <1>10, PostedFields
  <2>2. QED BY <1>9, <2>1
<1> HIDE DEF t
<1>12. /\ ConnectionFits(s, k) /\ AtSocket(s) /\ Open(s, k) /\ Quiet(s.strand)
       /\ \A q \in s.held : q.kind # "large"
       /\ WireFits(s, k) /\ AnswersFit(k)
  BY <1>1, SocketBusy
<1>13. s.writing = NoRequest
  BY <1>1, <1>12 DEF AtSocket
<1>14. \A i \in DOMAIN v : i + n \in DOMAIN w /\ 1 < i + n
  BY <1>6, <1>7
<1>15. Suits(r, kk) /\ Unsent(r.n, t)
  <2>1. r.n <= k.asked /\ Unsent(r.n, s) /\ (~k.pipelines => r.n = Len(k.answers) + 1)
        /\ \A j \in DOMAIN k.answers : k.answers[j].n < r.n
    BY <1>6, <1>12 DEF WireFits, w
  <2>2. \A i \in DOMAIN v : r.n < v[i].n
    BY <1>6, <1>7, <1>12, <1>14 DEF WireFits, w
  <2>3. QED BY <1>6, <1>8, <1>11, <2>1, <2>2 DEF Suits, Unsent
<1>16. WireFits(t, kk)
  <2>1. \A i, j \in DOMAIN v : i < j => v[i].n < v[j].n
    <3> SUFFICES ASSUME NEW i \in DOMAIN v, NEW j \in DOMAIN v, i < j PROVE v[i].n < v[j].n
      OBVIOUS
    <3>1. i + n \in DOMAIN w /\ j + n \in DOMAIN w /\ i + n < j + n
      BY <1>6, <1>7
    <3>2. w[i + n].n < w[j + n].n
      BY <1>12, <3>1 DEF WireFits, w
    <3>3. QED BY <1>7, <3>2
  <2>2. \A i \in DOMAIN v : /\ v[i].n <= k.asked /\ Unsent(v[i].n, s)
                            /\ \A j \in DOMAIN k.answers : k.answers[j].n < v[i].n
                            /\ ~k.pipelines => v[i].n = Len(k.answers) + 1
    BY <1>7, <1>12 DEF WireFits, w
  <2>3. QED BY <1>8, <1>11, <1>12, <2>1, <2>2 DEF WireFits, Unsent
<1>17. AnswersFit(kk) /\ LargeEnds(t, kk)
  BY <1>8, <1>12 DEF AnswersFit, Open, LargeEnds
<1>18. \A i \in DOMAIN s.strand : s.strand[i].req = NoRequest
  BY <1>1, <1>12, QuietIsBare
<1>19. EntryFits(ReadEntry(r), t, kk)
  BY <1>10, <1>15 DEF EntryFits
<1>20. ConnectionInv(t, kk)
  BY <1>1, <1>8, <1>10, <1>11, <1>12, <1>13, <1>16, <1>17, <1>18, <1>19, OperationCompletes
<1>21. session' = [session EXCEPT ![c] = t] /\ UNCHANGED <<acceptor, faults>>
  BY <1>5 DEF Becomes
<1>22. QED
  BY <1>5, <1>8, <1>11, <1>20, <1>21, AcceptorTyped, OneConnection

LEMMA ReplySucceedsKeeps ==
    ASSUME HttpInv, NEW c \in Conn, ReplySucceeds(c)
    PROVE  HttpInv'
<1> DEFINE s == session[c]
           k == client[c]
           r == s.writing
           u == [s EXCEPT !.writing = NoRequest]
           t == Posted(u, Written)
           kk == [k EXCEPT !.answers = Append(k.answers, r)]
<1>1. s \in SessionType /\ k \in PeerType /\ ConnectionInv(s, k) /\ r # NoRequest
  BY TypesOfConn DEF ReplySucceeds
<1>2. client \in [Conn -> PeerType]
  BY DEF HttpInv, HttpTypeOK, PeerType
<1>3. client' = [client EXCEPT ![c] = kk] /\ Becomes(c, t)
  BY <1>2 DEF ReplySucceeds
<1> HIDE DEF s, k
<1>4. /\ ConnectionFits(s, k) /\ AtSocket(s) /\ Open(s, k) /\ Quiet(s.strand)
      /\ \A q \in s.held : q.kind # "large"
      /\ WireFits(s, k) /\ AnswersFit(k)
  BY <1>1, SocketBusy
<1>5. ~s.reading /\ Suits(r, k) /\ (r.kind = "large" => ~s.keep) /\ r \in Request
  BY <1>1, <1>4 DEF AtSocket, ConnectionFits, UnderWayFit, Suits
<1>6. /\ k.answers \in Seq(Request) /\ Append(k.answers, r) \in Seq(Request)
      /\ Len(k.answers) \in Nat /\ DOMAIN k.answers = 1 .. Len(k.answers)
      /\ DOMAIN Append(k.answers, r) = 1 .. Len(k.answers) + 1
      /\ Len(Append(k.answers, r)) = Len(k.answers) + 1
      /\ Append(k.answers, r)[Len(k.answers) + 1] = r
      /\ \A i \in DOMAIN k.answers : Append(k.answers, r)[i] = k.answers[i]
  BY <1>1, <1>5 DEF PeerType
<1>7. /\ kk \in PeerType /\ kk.wire = k.wire /\ kk.asked = k.asked /\ kk.pipelines = k.pipelines
      /\ kk.answers = Append(k.answers, r)
  BY <1>1, <1>6 DEF PeerType
<1>8. /\ u \in SessionType /\ u.held = s.held /\ u.sent = s.sent /\ u.strand = s.strand
      /\ u.stage = s.stage /\ u.reading = s.reading /\ u.writing = NoRequest /\ u.keep = s.keep
  BY <1>1 DEF SessionType
<1>9. Written \in EntryType /\ Written.kind = "written" /\ Written.req = NoRequest
  BY EntriesTyped DEF Written
<1> HIDE DEF u, r, kk
<1>10. /\ t \in SessionType /\ t.held = s.held /\ t.sent = s.sent
       /\ t.strand = Append(s.strand, Written) /\ t.keep = s.keep
       /\ t.stage = s.stage /\ ~t.reading /\ t.writing = NoRequest
  <2>1. /\ t \in SessionType /\ t.strand = Append(u.strand, Written)
        /\ t.stage = u.stage /\ t.reading = u.reading /\ t.keep = u.keep
        /\ t.held = u.held /\ t.sent = u.sent /\ t.writing = u.writing
    BY <1>8, <1>9, PostedFields
  <2>2. QED BY <1>5, <1>8, <2>1
<1> HIDE DEF t
<1>11. \A i \in DOMAIN kk.answers :
           \/ i \in DOMAIN k.answers /\ kk.answers[i] = k.answers[i]
           \/ i = Len(k.answers) + 1 /\ kk.answers[i] = r
  <2>1. \A i \in 1 .. Len(k.answers) + 1 : i \in 1 .. Len(k.answers) \/ i = Len(k.answers) + 1
    BY <1>6
  <2>2. QED BY <1>6, <1>7, <2>1
<1>12. r.n \in Nat /\ \A i \in DOMAIN k.answers : k.answers[i].n \in Nat
  BY <1>5, <1>6, RequestsNumbered
<1>13. AnswersFit(kk)
  <2>1. ASSUME NEW i \in DOMAIN kk.answers, NEW j \in DOMAIN kk.answers, i < j
        PROVE  kk.answers[i].n < kk.answers[j].n
    <3>1. i \in DOMAIN k.answers /\ kk.answers[i] = k.answers[i]
      BY <1>6, <1>7, <1>11, <2>1
    <3>2. CASE j \in DOMAIN k.answers /\ kk.answers[j] = k.answers[j]
      BY <1>4, <2>1, <3>1, <3>2 DEF AnswersFit
    <3>3. CASE kk.answers[j] = r
      BY <1>5, <3>1, <3>3 DEF Suits
    <3>4. QED BY <1>11, <3>2, <3>3
  <2>2. ~kk.pipelines => \A i \in DOMAIN kk.answers : kk.answers[i].n = i
    BY <1>4, <1>5, <1>7, <1>11 DEF AnswersFit, Suits
  <2>3. \A i \in DOMAIN kk.answers : kk.answers[i].n <= kk.asked
    BY <1>4, <1>5, <1>7, <1>11 DEF AnswersFit, Suits
  <2>4. QED BY <2>1, <2>2, <2>3 DEF AnswersFit
<1>14. WireFits(t, kk)
  <2>1. \A i \in DOMAIN k.wire : \A j \in DOMAIN kk.answers : kk.answers[j].n < k.wire[i].n
    BY <1>4, <1>5, <1>11 DEF WireFits, Suits
  <2>2. ASSUME NEW i \in DOMAIN k.wire, ~k.pipelines
        PROVE  FALSE
    <3>1. k.wire[i].n = Len(k.answers) + 1 /\ r.n = Len(k.answers) + 1 /\ r.n < k.wire[i].n
      BY <1>4, <1>5, <2>2 DEF WireFits, Suits
    <3>2. QED BY <1>6, <3>1
  <2>3. QED BY <1>4, <1>7, <1>10, <2>1, <2>2 DEF WireFits, Unsent
<1>15. LargeEnds(t, kk)
  <2> SUFFICES ASSUME NEW i \in DOMAIN kk.answers, kk.answers[i].kind = "large"
               PROVE  i = Len(kk.answers) /\ Ending(t)
    BY DEF LargeEnds
  <2>1. i = Len(k.answers) + 1 /\ r.kind = "large"
    BY <1>4, <1>11 DEF Open
  <2>2. ~s.keep /\ s.strand \in Seq(EntryType) /\ Kept(t) = {}
    BY <1>1, <1>4, <1>5, <1>10, <2>1 DEF SessionType, AtSocket, Kept
  <2>3. \A j \in DOMAIN t.strand : t.strand[j].kind = "idle" \/ t.strand[j].kind = "written"
    BY <1>4, <1>9, <1>10, <2>2, AppendQueued DEF Quiet
  <2>4. QED BY <1>6, <1>7, <1>10, <2>1, <2>2, <2>3 DEF Ending
<1>16. \A i \in DOMAIN s.strand : s.strand[i].req = NoRequest
  BY <1>1, <1>4, QuietIsBare
<1>17. EntryFits(Written, t, kk)
  BY <1>9 DEF EntryFits
<1>18. ConnectionInv(t, kk)
  BY <1>1, <1>4, <1>7, <1>9, <1>10, <1>13, <1>14, <1>15, <1>16, <1>17, OperationCompletes
<1>19. session' = [session EXCEPT ![c] = t] /\ UNCHANGED <<acceptor, faults>>
  BY <1>3 DEF Becomes
<1>20. QED
  BY <1>3, <1>7, <1>10, <1>18, <1>19, AcceptorTyped, OneConnection

\* A read or a write fails.
LEMMA OperationFailsKeeps ==
    ASSUME HttpInv, NEW c \in Conn, ReadFails(c) \/ ReplyFails(c)
    PROVE  HttpInv'
<1> DEFINE s == session[c]
           k == client[c]
<1>1. s \in SessionType /\ k \in PeerType /\ ConnectionInv(s, k)
      /\ (s.reading \/ s.writing # NoRequest) /\ UNCHANGED client
  BY TypesOfConn DEF ReadFails, ReplyFails
<1>2. PICK u \in {[s EXCEPT !.reading = FALSE], [s EXCEPT !.writing = NoRequest]},
           h \in {ReadFailed, WriteFailed} :
          /\ u.reading = FALSE \/ u.writing = NoRequest
          /\ Becomes(c, Posted(u, h))
          /\ (s.reading /\ u = [s EXCEPT !.reading = FALSE])
             \/ (s.writing # NoRequest /\ u = [s EXCEPT !.writing = NoRequest])
  BY <1>1 DEF ReadFails, ReplyFails, SessionType
<1> DEFINE t == Posted(u, h)
<1> HIDE DEF s, k
<1>3. /\ ConnectionFits(s, k) /\ AtSocket(s) /\ Open(s, k) /\ Quiet(s.strand)
      /\ \A q \in s.held : q.kind # "large"
      /\ WireFits(s, k) /\ AnswersFit(k)
  BY <1>1, SocketBusy
<1>4. /\ u \in SessionType /\ u.held = s.held /\ u.sent = s.sent /\ u.strand = s.strand
      /\ u.stage = s.stage /\ ~u.reading /\ u.writing = NoRequest /\ u.keep = s.keep
  BY <1>1, <1>2, <1>3 DEF SessionType, AtSocket
<1>5. h \in EntryType /\ h.kind \in {"read_failed", "write_failed"} /\ h.req = NoRequest
  BY EntriesTyped DEF ReadFailed, WriteFailed
<1>6. /\ t \in SessionType /\ t.held = s.held /\ t.sent = s.sent
      /\ t.strand = Append(s.strand, h) /\ t.stage = s.stage /\ ~t.reading /\ t.writing = NoRequest
  <2>1. /\ t \in SessionType /\ t.strand = Append(u.strand, h)
        /\ t.stage = u.stage /\ t.reading = u.reading
        /\ t.held = u.held /\ t.sent = u.sent /\ t.writing = u.writing
    BY <1>4, <1>5, PostedFields
  <2>2. QED BY <1>4, <2>1
<1>7. Becomes(c, t)
  BY <1>2
<1> HIDE DEF t
<1>8. WireFits(t, k) /\ LargeEnds(t, k)
  BY <1>3, <1>6 DEF WireFits, Unsent, Open, LargeEnds
<1>9. \A i \in DOMAIN s.strand : s.strand[i].req = NoRequest
  BY <1>1, <1>3, QuietIsBare
<1>10. EntryFits(h, t, k)
  BY <1>5 DEF EntryFits
<1>11. ConnectionInv(t, k)
  BY <1>1, <1>3, <1>5, <1>6, <1>8, <1>9, <1>10, OperationCompletes
<1>12. QED
  BY <1>1, <1>6, <1>7, <1>11, SessionAlone DEF k

-----------------------------------------------------------------------------
(* The client and the listener.                                            *)

\* A step of the peer that leaves what is on its way as it is.
LEMMA PeerAlone ==
    ASSUME HttpInv, NEW c \in Conn,
           NEW kk \in PeerType, kk.wire = client[c].wire, kk.answers = client[c].answers,
           kk.asked = client[c].asked, kk.pipelines = client[c].pipelines
    PROVE  ConnectionInv(session[c], kk)
<1>1. ConnectionInv(session[c], client[c])
  BY TypesOfConn
<1>2. \A r : Suits(r, client[c]) => Suits(r, kk)
  BY DEF Suits
<1>3. \A h : EntryFits(h, session[c], client[c]) => EntryFits(h, session[c], kk)
  BY <1>2 DEF EntryFits
<1>4. UnderWayFit(session[c], client[c]) => UnderWayFit(session[c], kk)
  BY <1>2, <1>3 DEF UnderWayFit
<1>5. /\ WireFits(session[c], client[c]) => WireFits(session[c], kk)
      /\ AnswersFit(client[c]) => AnswersFit(kk)
      /\ LargeEnds(session[c], client[c]) => LargeEnds(session[c], kk)
      /\ Fresh(session[c], client[c]) => Fresh(session[c], kk)
  BY DEF WireFits, AnswersFit, LargeEnds, Fresh
<1>6. QED BY <1>1, <1>4, <1>5 DEF ConnectionInv, ConnectionFits

\* The stage of the peer alone changes.
LEMMA PeerStage ==
    ASSUME HttpInv, NEW c \in Conn, NEW st \in {"none", "waiting", "up", "deaf", "gone"},
           client' = [client EXCEPT ![c].stage = st], UNCHANGED <<session, faults>>,
           acceptor' \in [open : BOOLEAN, retry : BOOLEAN,
                          accept : {"none", "pending", "done", "failed", "aborted"}]
    PROVE  HttpInv'
<1> DEFINE k == client[c]
           kk == [k EXCEPT !.stage = st]
<1>1. client \in [Conn -> PeerType] /\ session \in [Conn -> SessionType]
  BY DEF HttpInv, HttpTypeOK, PeerType, SessionType, EntryType
<1>2. client' = [client EXCEPT ![c] = kk] /\ session' = [session EXCEPT ![c] = session[c]]
      /\ k \in PeerType /\ session[c] \in SessionType
  BY <1>1
<1>3. /\ kk \in PeerType /\ kk.wire = k.wire /\ kk.answers = k.answers /\ kk.asked = k.asked
      /\ kk.pipelines = k.pipelines
  BY <1>2 DEF PeerType
<1> HIDE DEF kk
<1>4. ConnectionInv(session[c], kk)
  BY <1>3, PeerAlone
<1>5. QED BY <1>2, <1>3, <1>4, OneConnection

LEMMA AskHttpKeeps ==
    ASSUME HttpInv, NEW c \in Conn, NEW kind \in RequestKind \ {"torn"}, AskHttp(c, kind)
    PROVE  HttpInv'
<1> DEFINE s == session[c]
           k == client[c]
           n == k.asked + 1
           r == [n |-> n, kind |-> kind]
           kk == [k EXCEPT !.asked = n, !.wire = Append(k.wire, r)]
<1>1. s \in SessionType /\ k \in PeerType /\ ConnectionInv(s, k)
  BY TypesOfConn
<1>2. client \in [Conn -> PeerType] /\ session \in [Conn -> SessionType]
  BY DEF HttpInv, HttpTypeOK, PeerType, SessionType, EntryType
<1>3. /\ n <= MaxRequests /\ s.stage = "open" /\ (k.pipelines \/ Len(k.answers) = k.asked)
      /\ UNCHANGED <<acceptor, faults>>
      /\ client' = [client EXCEPT ![c] = kk] /\ session' = [session EXCEPT ![c] = s]
  BY <1>2 DEF AskHttp
<1> HIDE DEF s, k
<1>4. k.asked \in Nat /\ n \in 1 .. MaxRequests /\ r \in Request /\ r.n = n /\ n = k.asked + 1
  BY <1>1, <1>3 DEF PeerType, Request
<1> HIDE DEF n, r
<1>5. /\ k.wire \in Seq(Request) /\ Append(k.wire, r) \in Seq(Request) /\ Len(k.wire) \in Nat
      /\ DOMAIN k.wire = 1 .. Len(k.wire) /\ DOMAIN Append(k.wire, r) = 1 .. Len(k.wire) + 1
      /\ Append(k.wire, r)[Len(k.wire) + 1] = r
      /\ \A i \in DOMAIN k.wire : Append(k.wire, r)[i] = k.wire[i]
  BY <1>1, <1>4 DEF PeerType
<1>6. /\ kk \in PeerType /\ kk.wire = Append(k.wire, r) /\ kk.answers = k.answers /\ kk.asked = n
      /\ kk.pipelines = k.pipelines
  <2> DEFINE w == Append(k.wire, r)
             k1 == [k EXCEPT !.asked = n]
  <2>1. n \in 0 .. MaxRequests
    BY <1>4
  <2>2. /\ k1 \in PeerType /\ k1.wire = k.wire /\ k1.answers = k.answers /\ k1.asked = n
        /\ k1.pipelines = k.pipelines
    BY <1>1, <2>1 DEF PeerType
  <2>3. kk = [k1 EXCEPT !.wire = w] /\ w \in Seq(Request)
    BY <1>5
  <2> HIDE DEF k1, kk, w
  <2>4. /\ kk \in PeerType /\ kk.wire = w /\ kk.answers = k1.answers /\ kk.asked = k1.asked
        /\ kk.pipelines = k1.pipelines
    BY <2>2, <2>3 DEF PeerType
  <2>5. QED BY <2>2, <2>4 DEF w
<1> HIDE DEF kk
<1>7. \A i \in DOMAIN kk.wire : \/ i \in DOMAIN k.wire /\ kk.wire[i] = k.wire[i]
                                \/ i = Len(k.wire) + 1 /\ kk.wire[i] = r
  <2>1. \A i \in 1 .. Len(k.wire) + 1 : i \in 1 .. Len(k.wire) \/ i = Len(k.wire) + 1
    BY <1>5
  <2>2. QED BY <1>5, <1>6, <2>1
<1>8. ConnectionFits(s, k) /\ WireFits(s, k) /\ AnswersFit(k)
  BY <1>1 DEF ConnectionInv, ConnectionFits
<1>9. /\ \A i \in DOMAIN k.answers : k.answers[i].n \in Nat
      /\ \A i \in DOMAIN k.wire : k.wire[i].n \in Nat
      /\ \A m \in s.sent : m \in Nat
  <2>1. \A i \in DOMAIN k.answers : k.answers[i] \in Request
    BY <1>1 DEF PeerType
  <2>2. \A i \in DOMAIN k.wire : k.wire[i] \in Request
    BY <1>5
  <2>3. \A m \in s.sent : m \in Nat
    BY <1>1 DEF SessionType
  <2>4. QED BY <2>1, <2>2, <2>3, RequestsNumbered
<1>10. ASSUME NEW q, Suits(q, k) PROVE Suits(q, kk)
  <2>1. q.n < n /\ q.n <= n
    BY <1>4, <1>10, RequestsNumbered DEF Suits
  <2>2. \A i \in DOMAIN kk.wire : q.n < kk.wire[i].n
    BY <1>4, <1>7, <1>10, <2>1 DEF Suits
  <2>3. QED BY <1>6, <1>10, <2>1, <2>2 DEF Suits
<1>11. \A h : EntryFits(h, s, k) => EntryFits(h, s, kk)
  BY <1>10 DEF EntryFits
<1>12. UnderWayFit(s, kk)
  BY <1>8, <1>10, <1>11 DEF ConnectionFits, UnderWayFit
<1>13. AnswersFit(kk)
  BY <1>4, <1>6, <1>8, <1>9 DEF AnswersFit
<1>14. WireFits(s, kk)
  <2>1. \A i \in DOMAIN kk.wire : /\ kk.wire[i].n <= n /\ Unsent(kk.wire[i].n, s)
                                  /\ \A j \in DOMAIN k.answers : k.answers[j].n < kk.wire[i].n
    <3> SUFFICES ASSUME NEW i \in DOMAIN kk.wire
                 PROVE  /\ kk.wire[i].n <= n /\ Unsent(kk.wire[i].n, s)
                        /\ \A j \in DOMAIN k.answers : k.answers[j].n < kk.wire[i].n
      OBVIOUS
    <3>1. CASE i \in DOMAIN k.wire /\ kk.wire[i] = k.wire[i]
      BY <1>4, <1>8, <1>9, <3>1 DEF WireFits
    <3>2. CASE kk.wire[i] = r
      BY <1>4, <1>8, <1>9, <3>2 DEF WireFits, AnswersFit, Unsent
    <3>3. QED BY <1>7, <3>1, <3>2
  <2>2. \A i, j \in DOMAIN kk.wire : i < j => kk.wire[i].n < kk.wire[j].n
    <3> SUFFICES ASSUME NEW i \in DOMAIN kk.wire, NEW j \in DOMAIN kk.wire, i < j
                 PROVE  kk.wire[i].n < kk.wire[j].n
      OBVIOUS
    <3>1. i \in DOMAIN k.wire /\ kk.wire[i] = k.wire[i]
      BY <1>5, <1>6, <1>7
    <3>2. CASE j \in DOMAIN k.wire /\ kk.wire[j] = k.wire[j]
      BY <1>8, <3>1, <3>2 DEF WireFits
    <3>3. CASE kk.wire[j] = r
      BY <1>4, <1>8, <1>9, <3>1, <3>3 DEF WireFits
    <3>4. QED BY <1>7, <3>2, <3>3
  <2>3. ASSUME ~k.pipelines, NEW i \in DOMAIN kk.wire PROVE kk.wire[i].n = Len(k.answers) + 1
    <3>1. CASE i \in DOMAIN k.wire /\ kk.wire[i] = k.wire[i]
      BY <1>8, <2>3, <3>1 DEF WireFits
    <3>2. CASE kk.wire[i] = r
      BY <1>3, <1>4, <2>3, <3>2
    <3>3. QED BY <1>7, <3>1, <3>2
  <2>4. \A m \in s.sent : m <= n
    BY <1>4, <1>8, <1>9 DEF WireFits
  <2>5. QED BY <1>6, <2>1, <2>2, <2>3, <2>4 DEF WireFits
<1>15. LargeEnds(s, kk)
  BY <1>6, <1>8 DEF ConnectionFits, LargeEnds
<1>16. ConnectionInv(s, kk)
  BY <1>1, <1>3, <1>8, <1>12, <1>13, <1>14, <1>15 DEF ConnectionInv, ConnectionFits
<1>17. QED
  BY <1>1, <1>3, <1>6, <1>16, AcceptorTyped, OneConnection

LEMMA RunAcceptedKeeps ==
    ASSUME HttpInv, NEW c \in Conn, RunAccepted(c)
    PROVE  HttpInv'
<1> DEFINE s == session[c]
           k == client[c]
           u == [s EXCEPT !.stage = "open"]
           t == StartRead(u)
<1>1. s \in SessionType /\ k \in PeerType /\ ConnectionInv(s, k)
  BY TypesOfConn
<1>2. client \in [Conn -> PeerType] /\ session \in [Conn -> SessionType]
  BY DEF HttpInv, HttpTypeOK, PeerType, SessionType, EntryType
<1>3. /\ s.stage = "none" /\ UNCHANGED faults
      /\ client' = [client EXCEPT ![c] = k] /\ session' = [session EXCEPT ![c] = t]
  BY <1>2 DEF RunAccepted
<1>4. acceptor' \in [open : BOOLEAN, retry : BOOLEAN,
                     accept : {"none", "pending", "done", "failed", "aborted"}]
  BY AcceptorTyped DEF RunAccepted, Accept
<1> HIDE DEF s, k
<1>5. ConnectionFits(s, k) /\ Fresh(s, k)
  BY <1>1, <1>3 DEF ConnectionInv, ConnectionFits
<1>6. /\ u \in SessionType /\ u.held = {} /\ u.sent = {} /\ u.strand = <<>> /\ u.stage = "open"
      /\ ~u.reading /\ u.writing = NoRequest
  BY <1>1, <1>5 DEF SessionType, Fresh
<1> HIDE DEF u
<1>7. AtRest(u)
  BY <1>6 DEF AtRest, Kept, Quiet
<1>8. UnderWayFit(u, k)
  BY <1>6 DEF UnderWayFit, Kept
<1>9. /\ DOMAIN k.wire = {} /\ DOMAIN k.answers = {}
  BY <1>5 DEF Fresh
<1>10. WireFits(u, k) /\ AnswersFit(k) /\ LargeEnds(u, k) /\ Open(u, k)
  BY <1>6, <1>9 DEF WireFits, AnswersFit, LargeEnds, Open
<1>11. ConnectionFits(u, k)
  BY <1>6, <1>7, <1>8, <1>10 DEF ConnectionFits
<1>12. t \in SessionType /\ ConnectionInv(t, k)
  BY <1>1, <1>6, <1>7, <1>10, <1>11, StartReadKeeps
<1>13. QED BY <1>1, <1>3, <1>4, <1>12, OneConnection

\* A step that leaves every session and its client alone.
LEMMA ConnectionsAlone ==
    ASSUME HttpInv, UNCHANGED <<session, client>>, faults' \in 0 .. MaxFaults,
           acceptor' \in [open : BOOLEAN, retry : BOOLEAN,
                          accept : {"none", "pending", "done", "failed", "aborted"}]
    PROVE  HttpInv'
<1>1. HttpTypeOK'
  BY DEF HttpInv, HttpTypeOK
<1>2. \A d \in Conn : ConnectionInv(session[d], client[d])'
  <2> SUFFICES ASSUME NEW d \in Conn PROVE ConnectionInv(session'[d], client'[d])
    BY DEF ConnectionInv, ConnectionFits, Moving, AtSocket, AtHandler, OnStrand, AtRest, UnderWayFit,
           WireFits, AnswersFit, LargeEnds, Fresh, Kept, EntryFits, Suits, Unsent, Ending, Quiet,
           OneWaits
  <2>1. ConnectionInv(session[d], client[d])
    BY DEF HttpInv
  <2>2. session'[d] = session[d] /\ client'[d] = client[d]
    OBVIOUS
  <2>3. QED BY <2>1, <2>2
<1>3. QED BY <1>1, <1>2 DEF HttpInv

LEMMA ListenerKeeps ==
    ASSUME HttpInv, AcceptFails \/ RunAcceptFailed \/ RunRetry \/ Stop
    PROVE  HttpInv'
<1>1. UNCHANGED <<session, client>>
  BY DEF AcceptFails, RunAcceptFailed, RunRetry, Stop
<1>2. acceptor' \in [open : BOOLEAN, retry : BOOLEAN,
                     accept : {"none", "pending", "done", "failed", "aborted"}]
  BY AcceptorTyped DEF AcceptFails, RunAcceptFailed, RunRetry, Stop, FailureHandled, Accept
<1>3. faults' \in 0 .. MaxFaults
  BY DEF HttpInv, HttpTypeOK, AcceptFails, RunAcceptFailed, RunRetry, Stop
<1>4. QED BY <1>1, <1>2, <1>3, ConnectionsAlone

LEMMA InitHttp == HttpInit => HttpInv
<1> SUFFICES ASSUME HttpInit PROVE HttpInv
  OBVIOUS
<1>1. \A c \in Conn :
          /\ session[c].stage = "none" /\ session[c].strand = <<>> /\ session[c].reading = FALSE
          /\ session[c].timer = FALSE /\ session[c].buffer = <<>> /\ session[c].keep = FALSE
          /\ session[c].held = {} /\ session[c].sent = {} /\ session[c].writing = NoRequest
          /\ client[c].asked = 0 /\ client[c].wire = <<>> /\ client[c].answers = <<>>
  BY DEF HttpInit
<1>2. HttpTypeOK
  <2>1. [stage |-> "none", strand |-> <<>>, reading |-> FALSE, timer |-> FALSE,
         buffer |-> <<>>, keep |-> FALSE, held |-> {}, sent |-> {},
         writing |-> NoRequest] \in SessionType
    BY DEF SessionType
  <2>2. \A p \in BOOLEAN : [stage |-> "none", pipelines |-> p, asked |-> 0, wire |-> <<>>,
                            answers |-> <<>>] \in PeerType
    BY DEF PeerType
  <2>3. session \in [Conn -> SessionType] /\ client \in [Conn -> PeerType]
    BY <2>1, <2>2 DEF HttpInit
  <2>4. QED BY <2>3 DEF HttpInit, HttpTypeOK, SessionType, PeerType, EntryType
<1>3. ASSUME NEW c \in Conn PROVE ConnectionInv(session[c], client[c])
  BY <1>1
     DEF ConnectionInv, ConnectionFits, AtRest, UnderWayFit, WireFits, AnswersFit, LargeEnds, Fresh,
         Kept, Quiet
<1>4. QED BY <1>2, <1>3 DEF HttpInv

LEMMA StepHttp == HttpInv /\ [HttpNext]_httpVars => HttpInv'
<1> SUFFICES ASSUME HttpInv, [HttpNext]_httpVars PROVE HttpInv'
  OBVIOUS
<1>1. ASSUME NEW c \in Conn, Connect(c) \/ Leave(c) \/ AcceptSucceeds(c) PROVE HttpInv'
  <2>1. PICK st \in {"none", "waiting", "up", "deaf", "gone"} :
            client' = [client EXCEPT ![c].stage = st]
    BY <1>1 DEF Connect, Leave, AcceptSucceeds
  <2>2. UNCHANGED <<session, faults>>
    BY <1>1 DEF Connect, Leave, AcceptSucceeds
  <2>3. acceptor' \in [open : BOOLEAN, retry : BOOLEAN,
                       accept : {"none", "pending", "done", "failed", "aborted"}]
    BY <1>1, AcceptorTyped DEF Connect, Leave, AcceptSucceeds
  <2>4. QED BY <2>1, <2>2, <2>3, PeerStage
<1>2. CASE UNCHANGED httpVars
  BY <1>2, AcceptorTyped, ConnectionsAlone DEF httpVars, HttpInv, HttpTypeOK
<1>3. CASE HttpNext
  BY <1>1, <1>3, ListenerKeeps, RunAcceptedKeeps, RunHttpKeeps, HandlerRepliesKeeps,
     TimerExpiresKeeps, ReadSucceedsKeeps, OperationFailsKeeps, ReplySucceedsKeeps, AskHttpKeeps
     DEF HttpNext
<1>4. QED BY <1>2, <1>3

-----------------------------------------------------------------------------
(* What the invariant says of the requests and the answers.                *)

\* The entries of the strand that move a session on.
Movers(q) == {i \in DOMAIN q : q[i].kind \in {"read", "read_failed", "reply", "written", "write_failed"}}

LEMMA MoversCounted ==
    ASSUME NEW q \in Seq(EntryType)
    PROVE  /\ Quiet(q) => Cardinality(Movers(q)) = 0
           /\ OneWaits(q) => Cardinality(Movers(q)) = 1
<1>1. \A i \in DOMAIN q : i \in Movers(q) <=> q[i].kind # "idle"
  <2>1. \A i \in DOMAIN q : q[i] \in EntryType
    OBVIOUS
  <2>2. \A i \in DOMAIN q : q[i].kind \in {"read", "read_failed", "idle", "reply", "written",
                                           "write_failed"}
    BY <2>1 DEF EntryType
  <2>3. QED BY <2>2 DEF Movers
<1>2. ASSUME Quiet(q) PROVE Cardinality(Movers(q)) = 0
  <2>1. Movers(q) = {}
    BY <1>1, <1>2 DEF Quiet, Movers
  <2>2. QED BY <2>1, FS_EmptySet
<1>3. ASSUME OneWaits(q) PROVE Cardinality(Movers(q)) = 1
  <2>1. PICK i \in DOMAIN q : q[i].kind # "idle" /\ \A j \in DOMAIN q : q[j].kind # "idle" => j = i
    BY <1>3 DEF OneWaits
  <2>2. Movers(q) = {i}
    BY <1>1, <2>1 DEF Movers
  <2>3. QED BY <2>2, FS_Singleton
<1>4. QED BY <1>2, <1>3

LEMMA MovingOnce ==
    ASSUME NEW c \in Conn, session[c] \in SessionType
    PROVE  /\ Moving(session[c]) => Pending(c) = 1
           /\ AtRest(session[c]) => Pending(c) = 0
<1> DEFINE s == session[c]
<1>1. s.strand \in Seq(EntryType)
  BY DEF SessionType
<1>2. CountQueued(c, {"read", "read_failed", "reply", "written", "write_failed"})
          = Cardinality(Movers(s.strand))
  BY DEF CountQueued, Movers
<1>3. /\ Quiet(s.strand) => Cardinality(Movers(s.strand)) = 0
      /\ OneWaits(s.strand) => Cardinality(Movers(s.strand)) = 1
  BY <1>1, MoversCounted
<1>4. /\ Kept(s) = {} => Cardinality(Kept(s)) = 0
      /\ (\E r \in s.held : Kept(s) = {r}) => Cardinality(Kept(s)) = 1
  BY FS_EmptySet, FS_Singleton
<1>5. Pending(c) = One(s.reading) + One(s.writing # NoRequest) + Cardinality(Kept(s))
                       + Cardinality(Movers(s.strand))
  BY <1>2 DEF Pending
<1>6. /\ s.reading => One(s.reading) = 1
      /\ ~s.reading => One(s.reading) = 0
      /\ s.writing # NoRequest => One(s.writing # NoRequest) = 1
      /\ s.writing = NoRequest => One(s.writing # NoRequest) = 0
  BY DEF One
<1>7. CASE AtSocket(s)
  <2>1. Cardinality(Kept(s)) = 0 /\ Cardinality(Movers(s.strand)) = 0
    BY <1>3, <1>4, <1>7 DEF AtSocket
  <2>2. \/ One(s.reading) = 1 /\ One(s.writing # NoRequest) = 0
        \/ One(s.reading) = 0 /\ One(s.writing # NoRequest) = 1
    BY <1>6, <1>7 DEF AtSocket
  <2>3. Pending(c) = 1
    BY <1>5, <2>1, <2>2
  <2>4. ~AtRest(s)
    BY <1>7 DEF AtSocket, AtRest
  <2>5. QED BY <2>3, <2>4
<1>8. CASE AtHandler(s)
  <2>1. Cardinality(Kept(s)) = 1 /\ Cardinality(Movers(s.strand)) = 0
    BY <1>3, <1>4, <1>8 DEF AtHandler
  <2>2. One(s.reading) = 0 /\ One(s.writing # NoRequest) = 0
    BY <1>6, <1>8 DEF AtHandler
  <2>3. Pending(c) = 1
    BY <1>5, <2>1, <2>2
  <2>4. ~AtRest(s)
    BY <1>8 DEF AtHandler, AtRest
  <2>5. QED BY <2>3, <2>4
<1>9. CASE OnStrand(s)
  <2>1. Cardinality(Kept(s)) = 0 /\ Cardinality(Movers(s.strand)) = 1
    BY <1>3, <1>4, <1>9 DEF OnStrand
  <2>2. One(s.reading) = 0 /\ One(s.writing # NoRequest) = 0
    BY <1>6, <1>9 DEF OnStrand
  <2>3. Pending(c) = 1
    BY <1>5, <2>1, <2>2
  <2>4. ~AtRest(s)
    BY <1>9 DEF OnStrand, AtRest, OneWaits, Quiet
  <2>5. QED BY <2>3, <2>4
<1>10. CASE AtRest(s)
  <2>1. Cardinality(Kept(s)) = 0 /\ Cardinality(Movers(s.strand)) = 0
    BY <1>3, <1>4, <1>10 DEF AtRest
  <2>2. One(s.reading) = 0 /\ One(s.writing # NoRequest) = 0
    BY <1>6, <1>10 DEF AtRest
  <2>3. Pending(c) = 0
    BY <1>5, <2>1, <2>2
  <2>4. ~Moving(s)
    BY <1>7, <1>8, <1>9, <2>3 DEF Moving
  <2>5. QED BY <2>3, <2>4
<1>11. QED BY <1>7, <1>8, <1>9, <1>10 DEF Moving

LEMMA InvSessionsAnswerInOrder == HttpInv => SessionsAnswerInOrder
<1> SUFFICES ASSUME HttpInv PROVE SessionsAnswerInOrder
  OBVIOUS
<1>1. HttpTypeOK
  BY DEF HttpInv
<1>2. \A c \in Conn : session[c] \in SessionType /\ ConnectionInv(session[c], client[c])
  BY TypesOfConn
<1>3. OneStepPending
  <2> SUFFICES ASSUME NEW c \in Conn
               PROVE  /\ session[c].stage = "open" => Pending(c) = 1
                      /\ session[c].stage # "open" => Pending(c) <= 1
    BY DEF OneStepPending
  <2>1. /\ session[c].stage = "open" => Moving(session[c])
        /\ Moving(session[c]) \/ AtRest(session[c])
    BY <1>2 DEF ConnectionInv, ConnectionFits
  <2>2. /\ Moving(session[c]) => Pending(c) = 1
        /\ AtRest(session[c]) => Pending(c) = 0
    BY <1>2, MovingOnce
  <2>3. Pending(c) \in {0, 1} => Pending(c) <= 1
    OBVIOUS
  <2>4. QED BY <2>1, <2>2, <2>3
<1>4. AnswersMatch
  BY <1>2 DEF AnswersMatch, ConnectionInv, ConnectionFits, AnswersFit
<1>5. LargeIsLast
  BY <1>2 DEF LargeIsLast, ConnectionInv, ConnectionFits, LargeEnds
<1>6. QED BY <1>1, <1>3, <1>4, <1>5 DEF SessionsAnswerInOrder

\* However many connections, requests and errors of the listener: an open session always
\* has exactly one thing under way that moves it on, its answers are to requests of its
\* own and in their order, and nothing is answered after a body that was refused.
THEOREM SessionsAlwaysAnswerInOrder == HttpSpec => []SessionsAnswerInOrder
<1>1. HttpInit => HttpInv
  BY InitHttp
<1>2. HttpInv /\ [HttpNext]_httpVars => HttpInv'
  BY StepHttp
<1>3. HttpInv => SessionsAnswerInOrder
  BY InvSessionsAnswerInOrder
<1>4. QED BY <1>1, <1>2, <1>3, PTL DEF HttpSpec

-----------------------------------------------------------------------------
(* NodeRegistry.                                                           *)

USE RegistryAssumption

NodeType == [alive : BOOLEAN, services : BOOLEAN, state : State]
ClientType ==
    [lifecycle : BOOLEAN, there : BOOLEAN, matched : BOOLEAN, state : State \cup {Unknown},
     ask : {"none", "asked", "answered", "lost"}, answer : State \cup {Unknown}, behind : BOOLEAN,
     queued : State \cup {Unknown}, excuse : BOOLEAN]
CallType ==
    [stage : {"none", "asked", "lost", "answered", "done"}, node : Node, list : BOOLEAN,
     id : TransitionId, shutdown : BOOLEAN, knew : BOOLEAN, status : {0, 200, 400, 409, 500}]
RestOK ==
    /\ lives \in [Node -> 0 .. MaxLives] /\ moves \in 0 .. MaxMoves
    /\ {event, woken, armed, updating} \subseteq BOOLEAN /\ present \subseteq Node

LEMMA RegistryTypeParts ==
    RegistryTypeOK <=> /\ graph \in [Node -> NodeType] /\ known \in [Node -> ClientType]
                       /\ call \in [HttpCall -> CallType] /\ RestOK
  BY DEF RegistryTypeOK, NodeType, ClientType, CallType, RestOK

LEMMA TransitionEnds ==
    ASSUME NEW id \in TransitionId
    PROVE  From(id) \in State \ {Unknown} /\ Goal(id) \in State \ {Unknown}
  BY DEF TransitionId, Transition, From, Goal, State, Unknown

LEMMA ShutdownStarts ==
    /\ {"inactive_shutdown", "active_shutdown", "unconfigured_shutdown"} \subseteq TransitionId
    /\ From("inactive_shutdown") = "inactive"
    /\ From("active_shutdown") = "active"
    /\ From("unconfigured_shutdown") = "unconfigured"
    /\ "configure" \in TransitionId /\ "activate" \in TransitionId
  BY DEF TransitionId, Transition, From

\* What a client's record says of its node, whatever is still on its way to the client: the
\* queued event and an answer nothing has overtaken are the node's state, and a client
\* that has outlived its node knows nothing.
ClientSound(k, g) ==
    /\ k.there /\ k.lifecycle /\ ~g.alive => k.excuse
    /\ k.ask = "asked" /\ k.queued # Unknown => k.matched
    /\ k.there /\ k.lifecycle /\ g.alive /\ ~k.excuse =>
         /\ k.queued # Unknown => k.queued = g.state
         /\ k.ask = "answered" /\ ~k.behind => k.answer = g.state
         /\ k.ask = "none" /\ k.queued = Unknown => k.state = g.state

\* A shutdown resolved for a state the client knew still fits as long as nothing moved.
CallSound(c, g) ==
    /\ c.stage = "asked" =>
         g.services /\ (c.shutdown /\ c.knew => ~c.list /\ g.state = From(c.id))
    /\ c.shutdown /\ c.status = 409 => ~c.knew

NodeSound(k, g) == ClientSound(k, g) /\ (g.services => g.alive)
CallsSound == \A q \in HttpCall : CallSound(call[q], graph[call[q].node])
NodesSound == \A n \in Node : NodeSound(known[n], graph[n])
RegistryInv == RegistryTypeOK /\ NodesSound /\ CallsSound

LEMMA InvShows == RegistryInv => NodesShownTrue
  BY DEF RegistryInv, NodesSound, NodeSound, ClientSound, CallsSound, CallSound, NodesShownTrue,
         KnownStateIsRight, ShutdownRefusedOnlyIfUnknown

LEMMA NoClientType == NoClient \in ClientType
  BY DEF NoClient, ClientType, Unknown

LEMMA RegistryInitSound == RegistryInit => RegistryInv
<1> SUFFICES ASSUME RegistryInit PROVE RegistryInv
  OBVIOUS
<1>1. NoCall \in CallType
  <2>1. (CHOOSE n \in Node : TRUE) \in Node
    OBVIOUS
  <2>2. QED
    BY <2>1, ShutdownStarts DEF NoCall, CallType
<1>2. RegistryTypeOK
  <2>1. graph \in [Node -> NodeType]
    BY DEF RegistryInit, NodeType, State
  <2>2. known \in [Node -> ClientType] /\ call \in [HttpCall -> CallType]
    BY <1>1, NoClientType DEF RegistryInit
  <2>3. RestOK
    <3>1. lives \in [Node -> 0 .. MaxLives]
      BY DEF RegistryInit
    <3>2. moves \in 0 .. MaxMoves
      BY DEF RegistryInit
    <3>3. {event, woken, armed, updating} \subseteq BOOLEAN
      BY DEF RegistryInit
    <3>4. present \subseteq Node
      BY DEF RegistryInit
    <3>5. QED
      BY <3>1, <3>2, <3>3, <3>4 DEF RestOK
  <2>4. QED
    BY <2>1, <2>2, <2>3, RegistryTypeParts
<1>3. NodesSound
  BY DEF RegistryInit, NodesSound, NodeSound, ClientSound, NoClient, Unknown
<1>4. CallsSound
  BY DEF RegistryInit, CallsSound, CallSound, NoCall
<1>5. QED
  BY <1>2, <1>3, <1>4 DEF RegistryInv

-----------------------------------------------------------------------------
(* One node and its client.                                                *)

LEMMA OneNode ==
    ASSUME RegistryInv, NEW n \in Node, NEW k \in ClientType, NEW g \in NodeType,
           NodeSound(k, g),
           graph' = [graph EXCEPT ![n] = g], known' = [known EXCEPT ![n] = k]
    PROVE  /\ graph' \in [Node -> NodeType] /\ known' \in [Node -> ClientType]
           /\ NodesSound'
           /\ graph'[n] = g /\ \A m \in Node \ {n} : graph'[m] = graph[m]
<1>1. /\ graph \in [Node -> NodeType] /\ known \in [Node -> ClientType]
      /\ \A m \in Node : NodeSound(known[m], graph[m])
  BY RegistryTypeParts DEF RegistryInv, NodesSound
<1>2. \A m \in Node : known'[m] = IF m = n THEN k ELSE known[m]
  BY <1>1
<1>3. \A m \in Node : graph'[m] = IF m = n THEN g ELSE graph[m]
  BY <1>1
<1>4. \A m \in Node : NodeSound(known'[m], graph'[m])
  BY <1>1, <1>2, <1>3
<1>5. QED
  BY <1>1, <1>3, <1>4 DEF NodesSound

\* An action that leaves a node, or a client, as it is.
LEMMA Untouched ==
    ASSUME RegistryInv, NEW n \in Node
    PROVE  /\ graph = [graph EXCEPT ![n] = graph[n]] /\ known = [known EXCEPT ![n] = known[n]]
           /\ graph[n] \in NodeType /\ known[n] \in ClientType
           /\ NodeSound(known[n], graph[n])
  BY RegistryTypeParts DEF RegistryInv, NodesSound

LEMMA DeathKeepsNode ==
    ASSUME NEW k \in ClientType, NEW g \in NodeType, NodeSound(k, g),
           NEW dead, dead = [g EXCEPT !.alive = FALSE, !.services = FALSE],
           NEW left, left = [k EXCEPT !.matched = FALSE, !.excuse = k.there,
                                      !.ask = IF k.ask = "asked" THEN "lost" ELSE k.ask]
    PROVE  dead \in NodeType /\ left \in ClientType /\ NodeSound(left, dead)
<1>1. /\ dead \in NodeType /\ ~dead.alive /\ ~dead.services
      /\ left \in ClientType /\ left.excuse = k.there /\ left.there = k.there
      /\ left.ask # "asked"
  BY DEF NodeType, ClientType
<1>2. QED
  BY <1>1 DEF NodeSound, ClientSound

LEMMA BirthKeepsNode ==
    ASSUME NEW k \in ClientType, NEW g \in NodeType, NodeSound(k, g), ~g.alive,
           NEW born, born = [alive |-> TRUE, services |-> FALSE, state |-> "unconfigured"]
    PROVE  born \in NodeType /\ NodeSound(k, born)
  BY DEF NodeType, State, NodeSound, ClientSound

LEMMA AdvertiseKeepsNode ==
    ASSUME NEW k \in ClientType, NEW g \in NodeType, NodeSound(k, g), g.alive,
           NEW seen, seen = [g EXCEPT !.services = TRUE]
    PROVE  seen \in NodeType /\ NodeSound(k, seen) /\ seen.state = g.state
<1>1. seen \in NodeType /\ seen.state = g.state /\ seen.alive
  BY DEF NodeType
<1>2. QED
  BY <1>1 DEF NodeSound, ClientSound

LEMMA MoveKeepsNode ==
    ASSUME NEW k \in ClientType, NEW g \in NodeType, NodeSound(k, g), g.services,
           NEW state \in State \ {Unknown},
           NEW moved, moved = [g EXCEPT !.state = state]
    PROVE  /\ moved \in NodeType /\ Told(k, state) \in ClientType
           /\ NodeSound(Told(k, state), moved) /\ moved.services
<1>1. /\ moved \in NodeType /\ moved.state = state
      /\ moved.alive = g.alive /\ moved.services = g.services
  BY DEF NodeType
<1>2. CASE ~k.there \/ ~k.lifecycle
  BY <1>1, <1>2 DEF Told, NodeSound, ClientSound
<1>3. CASE k.there /\ k.lifecycle
  <2> DEFINE t == Told(k, state)
  <2>1. /\ t \in ClientType /\ t.there /\ t.lifecycle /\ t.matched = k.matched
        /\ t.queued = (IF k.matched THEN state ELSE k.queued)
        /\ t.behind = (k.behind \/ k.ask = "answered")
        /\ t.excuse = (~k.matched /\ k.ask # "asked")
        /\ t.ask = k.ask /\ t.answer = k.answer /\ t.state = k.state
    BY <1>3 DEF Told, ClientType
  <2> HIDE DEF t
  <2>2. NodeSound(t, moved)
    BY <1>1, <1>3, <2>1 DEF NodeSound, ClientSound
  <2>3. QED
    BY <1>1, <2>1, <2>2 DEF t
<1>4. QED
  BY <1>2, <1>3

LEMMA MatchKeepsClient ==
    ASSUME NEW k \in ClientType, NEW g \in NodeType, NodeSound(k, g),
           NEW met, met = [k EXCEPT !.matched = TRUE]
    PROVE  met \in ClientType /\ NodeSound(met, g)
<1>1. /\ met \in ClientType /\ met.matched /\ met.there = k.there /\ met.lifecycle = k.lifecycle
      /\ met.excuse = k.excuse /\ met.ask = k.ask /\ met.queued = k.queued
      /\ met.behind = k.behind /\ met.answer = k.answer /\ met.state = k.state
  BY DEF ClientType
<1>2. QED
  BY <1>1 DEF NodeSound, ClientSound

LEMMA AnswerKeepsClient ==
    ASSUME NEW k \in ClientType, NEW g \in NodeType, NodeSound(k, g),
           NEW told, told = [k EXCEPT !.ask = "answered", !.answer = g.state]
    PROVE  told \in ClientType /\ NodeSound(told, g)
<1>1. /\ told \in ClientType /\ told.there = k.there /\ told.lifecycle = k.lifecycle
      /\ told.excuse = k.excuse /\ told.ask = "answered" /\ told.queued = k.queued
      /\ told.answer = g.state
  BY DEF ClientType, NodeType
<1>2. QED
  BY <1>1 DEF NodeSound, ClientSound

LEMMA TakeAnswerKeepsClient ==
    ASSUME NEW k \in ClientType, NEW g \in NodeType, NodeSound(k, g), k.ask = "answered",
           NEW took, took = [k EXCEPT !.ask = "none", !.state = k.answer, !.answer = Unknown,
                                      !.behind = FALSE,
                                      !.excuse = k.excuse \/ (k.behind /\ k.queued = Unknown)]
    PROVE  took \in ClientType /\ NodeSound(took, g)
<1>1. /\ took \in ClientType /\ took.there = k.there /\ took.lifecycle = k.lifecycle
      /\ took.excuse = (k.excuse \/ (k.behind /\ k.queued = Unknown))
      /\ took.ask = "none" /\ took.queued = k.queued /\ took.state = k.answer
  BY DEF ClientType
<1>2. QED
  BY <1>1 DEF NodeSound, ClientSound

LEMMA TakeEventKeepsClient ==
    ASSUME NEW k \in ClientType, NEW g \in NodeType, NodeSound(k, g), k.queued # Unknown,
           NEW took, took = [k EXCEPT !.queued = Unknown, !.state = k.queued]
    PROVE  took \in ClientType /\ NodeSound(took, g)
<1>1. /\ took \in ClientType /\ took.there = k.there /\ took.lifecycle = k.lifecycle
      /\ took.excuse = k.excuse /\ took.ask = k.ask /\ took.queued = Unknown
      /\ took.behind = k.behind /\ took.answer = k.answer /\ took.state = k.queued
  BY DEF ClientType
<1>2. QED
  BY <1>1 DEF NodeSound, ClientSound

LEMMA UpdateKeepsNodes ==
    ASSUME RegistryInv, UNCHANGED graph, known' = Clients
    PROVE  known' \in [Node -> ClientType] /\ NodesSound'
<1>1. ASSUME NEW n \in Node PROVE known'[n] \in ClientType /\ NodeSound(known'[n], graph[n])
  <2>1. known'[n] = IF n \notin present THEN NoClient
                    ELSE IF known[n].there THEN known[n] ELSE NewClient(n)
    BY DEF Clients
  <2>2. CASE n \notin present
    BY <2>1, <2>2, NoClientType, Untouched DEF NoClient, NodeSound, ClientSound
  <2>3. CASE n \in present /\ known[n].there
    BY <2>1, <2>3, Untouched
  <2>4. CASE n \in present /\ ~known[n].there
    <3> DEFINE k == known'[n]
    <3>1. /\ k \in ClientType /\ k.there /\ k.lifecycle = graph[n].services
          /\ k.ask = (IF graph[n].services THEN "asked" ELSE "none") /\ k.queued = Unknown
      <4>1. k = NewClient(n) /\ graph[n].services \in BOOLEAN
        BY <2>1, <2>4, Untouched DEF NodeType
      <4>2. k = [lifecycle |-> graph[n].services, there |-> TRUE, matched |-> FALSE,
                 state |-> Unknown, ask |-> IF graph[n].services THEN "asked" ELSE "none",
                 answer |-> Unknown, behind |-> FALSE, queued |-> Unknown, excuse |-> FALSE]
        BY <4>1 DEF NewClient, NoClient
      <4> HIDE DEF k
      <4>3. QED
        BY <4>1, <4>2 DEF ClientType
    <3> HIDE DEF k
    <3>2. NodeSound(k, graph[n])
      BY <3>1, Untouched DEF NodeSound, ClientSound
    <3>3. QED
      BY <3>1, <3>2 DEF k
  <2>5. QED
    BY <2>2, <2>3, <2>4
<1>2. known' = [n \in Node |-> known'[n]]
  BY DEF Clients
<1>3. QED
  BY <1>1, <1>2 DEF NodesSound

-----------------------------------------------------------------------------
(* The actions.                                                            *)

\* An action that leaves the requests alone and moves no node.
LEMMA CallsKept ==
    ASSUME RegistryInv, UNCHANGED call,
           \A n \in Node : graph[n].services => /\ graph'[n].services
                                                /\ graph'[n].state = graph[n].state
    PROVE  call' \in [HttpCall -> CallType] /\ CallsSound'
<1>1. \A q \in HttpCall : call[q].node \in Node
  BY RegistryTypeParts DEF RegistryInv, CallType
<1>2. CallsSound'
  BY <1>1 DEF RegistryInv, CallsSound, CallSound
<1>3. QED
  BY <1>2, RegistryTypeParts DEF RegistryInv

LEMMA StepParts ==
    ASSUME RestOK', graph' \in [Node -> NodeType], known' \in [Node -> ClientType],
           NodesSound', call' \in [HttpCall -> CallType], CallsSound'
    PROVE  RegistryInv'
  BY DEF RegistryInv, RegistryTypeOK, NodeType, ClientType, CallType, RestOK

LEMMA ClientActionsKeep ==
    ASSUME RegistryInv, NEW n \in Node,
           MatchSubscription(n) \/ ServeGetState(n) \/ TakeAnswer(n) \/ TakeEvent(n)
    PROVE  RegistryInv'
<1> DEFINE g == graph[n]
           k == known[n]
<1>1. g \in NodeType /\ k \in ClientType /\ NodeSound(k, g)
  BY Untouched
<1>2. UNCHANGED <<graph, lives, moves, event, Listener, call>>
  BY DEF MatchSubscription, ServeGetState, TakeAnswer, TakeEvent
<1>3. \E new \in ClientType : known' = [known EXCEPT ![n] = new] /\ NodeSound(new, g)
  <2>1. CASE MatchSubscription(n)
    BY <1>1, <2>1, MatchKeepsClient DEF MatchSubscription
  <2>2. CASE ServeGetState(n)
    BY <1>1, <2>2, AnswerKeepsClient DEF ServeGetState
  <2>3. CASE TakeAnswer(n)
    <3> DEFINE took == [k EXCEPT !.ask = "none", !.state = k.answer, !.answer = Unknown,
                                 !.behind = FALSE,
                                 !.excuse = k.excuse \/ (k.behind /\ k.queued = Unknown)]
    <3>1. known' = [known EXCEPT ![n] = took] /\ k.ask = "answered"
      BY <2>3 DEF TakeAnswer
    <3>2. took \in ClientType /\ NodeSound(took, g)
      BY <1>1, <3>1, TakeAnswerKeepsClient
    <3>3. QED
      BY <3>1, <3>2
  <2>4. CASE TakeEvent(n)
    BY <1>1, <2>4, TakeEventKeepsClient DEF TakeEvent
  <2>5. QED
    BY <2>1, <2>2, <2>3, <2>4
<1>4. /\ graph' \in [Node -> NodeType] /\ known' \in [Node -> ClientType] /\ NodesSound'
  BY <1>1, <1>2, <1>3, OneNode, Untouched
<1>5. call' \in [HttpCall -> CallType] /\ CallsSound'
  BY <1>2, CallsKept
<1>6. RestOK'
  BY <1>2, RegistryTypeParts DEF RegistryInv, RestOK, Listener
<1>7. QED
  BY <1>4, <1>5, <1>6, StepParts

LEMMA AnsweredType ==
    ASSUME NEW c \in CallType, NEW reached \in {"answered", "done"},
           NEW status \in {0, 200, 400, 409, 500}
    PROVE  LET d == Answered(c, reached, status)
           IN  /\ d \in CallType /\ d.stage = reached /\ d.status = status /\ d.node = c.node
               /\ d.shutdown = c.shutdown /\ d.knew = c.knew
<1> DEFINE e == [c EXCEPT !.stage = reached]
           d == [e EXCEPT !.status = status]
<1>1. /\ e \in CallType /\ e.stage = reached /\ e.node = c.node
      /\ e.shutdown = c.shutdown /\ e.knew = c.knew
  BY DEF CallType
<1> HIDE DEF e
<1>2. /\ d \in CallType /\ d.stage = e.stage /\ d.status = status /\ d.node = e.node
      /\ d.shutdown = e.shutdown /\ d.knew = e.knew
  BY <1>1 DEF CallType
<1>3. Answered(c, reached, status) = d
  BY DEF Answered, e
<1> HIDE DEF d
<1>4. QED
  BY <1>1, <1>2, <1>3

LEMMA AnsweredSound ==
    ASSUME NEW c \in CallType, NEW reached \in {"answered", "done"},
           NEW status \in {0, 200, 400, 409, 500}, NEW g,
           status = 409 => ~(c.shutdown /\ c.knew)
    PROVE  /\ Answered(c, reached, status) \in CallType
           /\ Answered(c, reached, status).node = c.node
           /\ CallSound(Answered(c, reached, status), g)
<1> DEFINE d == Answered(c, reached, status)
<1>1. /\ d \in CallType /\ d.stage = reached /\ d.status = status /\ d.node = c.node
      /\ d.shutdown = c.shutdown /\ d.knew = c.knew
  BY AnsweredType
<1> HIDE DEF d
<1>2. CallSound(d, g)
  BY <1>1 DEF CallSound
<1>3. QED
  BY <1>1, <1>2 DEF d

LEMMA RegistryListenerKeeps ==
    ASSUME RegistryInv, Wake \/ Rearm \/ TimerFires
    PROVE  RegistryInv'
<1>1. UNCHANGED <<graph, lives, moves, known, call>>
  BY DEF Wake, Rearm, TimerFires
<1>2. {event, woken, armed, updating}' \subseteq BOOLEAN /\ present' \subseteq Node
  BY RegistryTypeParts DEF Wake, Rearm, TimerFires, RegistryInv, RestOK
<1>3. RestOK'
  BY <1>1, <1>2, RegistryTypeParts DEF RegistryInv, RestOK
<1>4. QED
  BY <1>1, <1>3, StepParts, RegistryTypeParts, CallsKept DEF RegistryInv, NodesSound

LEMMA UpdateKeeps == RegistryInv /\ Update => RegistryInv'
<1> SUFFICES ASSUME RegistryInv, Update PROVE RegistryInv'
  OBVIOUS
<1>1. UNCHANGED <<graph, lives, moves, event, woken, armed>> /\ updating' = FALSE /\ present' = {}
  BY DEF Update
<1>2. RestOK'
  BY <1>1, RegistryTypeParts DEF RegistryInv, RestOK
<1>3. graph' \in [Node -> NodeType] /\ known' \in [Node -> ClientType] /\ NodesSound'
  BY <1>1, UpdateKeepsNodes, RegistryTypeParts DEF Update, RegistryInv
<1>4. ASSUME NEW q \in HttpCall
      PROVE  call'[q] \in CallType /\ CallSound(call'[q], graph'[call'[q].node])
  <2>1. call[q] \in CallType /\ CallSound(call[q], graph[call[q].node])
    BY RegistryTypeParts DEF RegistryInv, CallsSound
  <2>2. call'[q] = call[q] \/ call'[q] = Answered(call[q], "done", 500)
    BY DEF Update
  <2>3. CASE call'[q] = call[q]
    BY <1>1, <2>1, <2>3
  <2>4. CASE call'[q] = Answered(call[q], "done", 500)
    BY <2>1, <2>4, AnsweredSound
  <2>5. QED
    BY <2>2, <2>3, <2>4
<1>5. call' = [q \in HttpCall |-> call'[q]]
  BY DEF Update
<1>6. call' \in [HttpCall -> CallType] /\ CallsSound'
  BY <1>4, <1>5 DEF CallsSound
<1>7. QED
  BY <1>2, <1>3, <1>6, StepParts

LEMMA StartKeeps == ASSUME RegistryInv, NEW n \in Node, Start(n) PROVE RegistryInv'
<1> DEFINE born == [alive |-> TRUE, services |-> FALSE, state |-> "unconfigured"]
<1>1. /\ graph' = [graph EXCEPT ![n] = born] /\ ~graph[n].alive
      /\ UNCHANGED <<moves, Listener, known, call>> /\ event' = TRUE
  BY DEF Start
<1>2. born \in NodeType /\ NodeSound(known[n], born)
  BY <1>1, BirthKeepsNode, Untouched
<1>3. /\ graph' \in [Node -> NodeType] /\ known' \in [Node -> ClientType] /\ NodesSound'
      /\ \A m \in Node \ {n} : graph'[m] = graph[m]
  BY <1>1, <1>2, OneNode, Untouched
<1>4. call' \in [HttpCall -> CallType] /\ CallsSound'
  BY <1>1, <1>3, CallsKept, Untouched DEF NodeSound
<1>5. RestOK'
  <2>1. lives' \in [Node -> 0 .. MaxLives]
    BY RegistryTypeParts DEF Start, RegistryInv, RestOK
  <2>2. QED
    BY <1>1, <2>1, RegistryTypeParts DEF RegistryInv, RestOK, Listener
<1>6. QED
  BY <1>3, <1>4, <1>5, StepParts

LEMMA AdvertiseKeeps == ASSUME RegistryInv, NEW n \in Node, Advertise(n) PROVE RegistryInv'
<1> DEFINE seen == [graph[n] EXCEPT !.services = TRUE]
<1>1. /\ graph' = [graph EXCEPT ![n] = seen] /\ graph[n].alive
      /\ UNCHANGED <<lives, moves, Listener, known, call>> /\ event' = TRUE
  BY DEF Advertise
<1>2. seen \in NodeType /\ NodeSound(known[n], seen) /\ seen.services /\ seen.state = graph[n].state
  BY <1>1, AdvertiseKeepsNode, Untouched DEF NodeType
<1> HIDE DEF seen
<1>3. /\ graph' \in [Node -> NodeType] /\ known' \in [Node -> ClientType] /\ NodesSound'
      /\ graph'[n] = seen /\ \A m \in Node \ {n} : graph'[m] = graph[m]
  BY <1>1, <1>2, OneNode, Untouched
<1>4. call' \in [HttpCall -> CallType] /\ CallsSound'
  BY <1>1, <1>2, <1>3, CallsKept
<1>5. RestOK'
  BY <1>1, RegistryTypeParts DEF RegistryInv, RestOK, Listener
<1>6. QED
  BY <1>3, <1>4, <1>5, StepParts

LEMMA DieKeeps == ASSUME RegistryInv, NEW n \in Node, Die(n) PROVE RegistryInv'
<1> DEFINE dead == [graph[n] EXCEPT !.alive = FALSE, !.services = FALSE]
           left == [known[n] EXCEPT !.matched = FALSE, !.excuse = known[n].there,
                                    !.ask = IF known[n].ask = "asked" THEN "lost" ELSE known[n].ask]
<1>1. /\ graph' = [graph EXCEPT ![n] = dead] /\ known' = [known EXCEPT ![n] = left]
      /\ UNCHANGED <<lives, moves, Listener>> /\ event' = TRUE
      /\ call' = [q \in HttpCall |-> IF call[q].stage = "asked" /\ call[q].node = n
                                     THEN [call[q] EXCEPT !.stage = "lost"] ELSE call[q]]
  BY DEF Die
<1>2. dead \in NodeType /\ left \in ClientType /\ NodeSound(left, dead)
  <2> DEFINE k == known[n]
             g == graph[n]
  <2>1. k \in ClientType /\ g \in NodeType /\ NodeSound(k, g)
    BY Untouched
  <2> HIDE DEF k, g
  <2>2. \A d, l : /\ d = [g EXCEPT !.alive = FALSE, !.services = FALSE]
                  /\ l = [k EXCEPT !.matched = FALSE, !.excuse = k.there,
                                   !.ask = IF k.ask = "asked" THEN "lost" ELSE k.ask]
                  => d \in NodeType /\ l \in ClientType /\ NodeSound(l, d)
    BY <2>1, DeathKeepsNode
  <2>3. QED
    BY <2>2 DEF k, g
<1> HIDE DEF dead, left
<1>3. /\ graph' \in [Node -> NodeType] /\ known' \in [Node -> ClientType] /\ NodesSound'
      /\ \A m \in Node \ {n} : graph'[m] = graph[m]
  BY <1>1, <1>2, OneNode
<1>4. ASSUME NEW q \in HttpCall
      PROVE  call'[q] \in CallType /\ CallSound(call'[q], graph'[call'[q].node])
  <2>1. call[q] \in CallType /\ CallSound(call[q], graph[call[q].node])
    BY RegistryTypeParts DEF RegistryInv, CallsSound
  <2>2. CASE call[q].stage = "asked" /\ call[q].node = n
    <3>1. /\ call'[q] \in CallType /\ call'[q].stage = "lost" /\ call'[q].shutdown = call[q].shutdown
          /\ call'[q].status = call[q].status /\ call'[q].knew = call[q].knew
      BY <1>1, <2>1, <2>2 DEF CallType
    <3>2. QED
      BY <2>1, <3>1 DEF CallSound
  <2>3. CASE ~(call[q].stage = "asked" /\ call[q].node = n)
    <3>1. call'[q] = call[q] /\ call[q].node \in Node
      BY <1>1, <2>1, <2>3 DEF CallType
    <3>2. QED
      BY <1>3, <2>1, <2>3, <3>1 DEF CallSound
  <2>4. QED
    BY <2>2, <2>3
<1>5. call' \in [HttpCall -> CallType] /\ CallsSound'
  BY <1>1, <1>4 DEF CallsSound
<1>6. RestOK'
  BY <1>1, RegistryTypeParts DEF RegistryInv, RestOK, Listener
<1>7. QED
  BY <1>3, <1>5, <1>6, StepParts

-----------------------------------------------------------------------------
(* Nodes that move and requests.                                           *)

LEMMA MovedKeeps ==
    ASSUME RegistryInv, NEW n \in Node, NEW id \in TransitionId, graph[n].services, Moved(n, id)
    PROVE  /\ graph' \in [Node -> NodeType] /\ known' \in [Node -> ClientType] /\ NodesSound'
           /\ graph'[n].services /\ \A m \in Node \ {n} : graph'[m] = graph[m]
<1> DEFINE k == known[n]
           g == graph[n]
           s == Goal(id)
           moved == [g EXCEPT !.state = s]
<1>1. k \in ClientType /\ g \in NodeType /\ NodeSound(k, g) /\ g.services /\ s \in State \ {Unknown}
  BY Untouched, TransitionEnds
<1>2. graph' = [graph EXCEPT ![n] = moved] /\ known' = [known EXCEPT ![n] = Told(k, s)]
  BY DEF Moved
<1> HIDE DEF k, g, s
<1>3. /\ moved \in NodeType /\ Told(k, s) \in ClientType
      /\ NodeSound(Told(k, s), moved) /\ moved.services
  BY <1>1, MoveKeepsNode
<1> HIDE DEF moved
<1>4. QED
  BY <1>2, <1>3, OneNode

LEMMA OutrunKeepsCall ==
    ASSUME NEW n \in Node, NEW c \in CallType, NEW g, NEW h, CallSound(c, g),
           c.node = n => h.services, c.node # n => h = g,
           NEW o, o = [c EXCEPT !.knew = c.knew /\ c.node # n]
    PROVE  o \in CallType /\ o.node = c.node /\ CallSound(o, h)
<1> DEFINE v == c.knew /\ c.node # n
<1>1. v \in BOOLEAN /\ o = [c EXCEPT !.knew = v]
  OBVIOUS
<1>2. v => c.knew /\ c.node # n
  OBVIOUS
<1> HIDE DEF v
<1>3. /\ o \in CallType /\ o.node = c.node /\ o.knew = v
      /\ o.stage = c.stage /\ o.shutdown = c.shutdown /\ o.status = c.status
      /\ o.list = c.list /\ o.id = c.id
  BY <1>1 DEF CallType
<1>4. CASE c.node = n
  BY <1>2, <1>3, <1>4 DEF CallSound
<1>5. CASE c.node # n
  BY <1>2, <1>3, <1>5 DEF CallSound
<1>6. QED
  BY <1>3, <1>4, <1>5

LEMMA OutrunKeeps ==
    ASSUME RegistryInv, NEW n \in Node, graph'[n].services,
           \A m \in Node \ {n} : graph'[m] = graph[m]
    PROVE  /\ Outrun(n) \in [HttpCall -> CallType]
           /\ \A q \in HttpCall : CallSound(Outrun(n)[q], graph'[Outrun(n)[q].node])
<1>1. ASSUME NEW q \in HttpCall
      PROVE  Outrun(n)[q] \in CallType /\ CallSound(Outrun(n)[q], graph'[Outrun(n)[q].node])
  <2> DEFINE c == call[q]
             g == graph[c.node]
             h == graph'[c.node]
             o == Outrun(n)[q]
  <2>1. c \in CallType /\ CallSound(c, g) /\ c.node \in Node
    BY RegistryTypeParts DEF RegistryInv, CallsSound, CallType
  <2>2. (c.node = n => h.services) /\ (c.node # n => h = g)
    BY <2>1
  <2>3. o = [c EXCEPT !.knew = c.knew /\ c.node # n]
    BY DEF Outrun
  <2> HIDE DEF c, g, h, o
  <2>4. o \in CallType /\ o.node = c.node /\ CallSound(o, h)
    BY <2>1, <2>2, <2>3, OutrunKeepsCall
  <2>5. QED
    BY <2>4 DEF h, o
<1>2. Outrun(n) = [q \in HttpCall |-> Outrun(n)[q]]
  BY DEF Outrun
<1>3. QED
  BY <1>1, <1>2

LEMMA MoveKeeps ==
    ASSUME RegistryInv, NEW n \in Node, NEW id \in TransitionId, Move(n, id)
    PROVE  RegistryInv'
<1>1. /\ graph' \in [Node -> NodeType] /\ known' \in [Node -> ClientType] /\ NodesSound'
      /\ graph'[n].services /\ \A m \in Node \ {n} : graph'[m] = graph[m]
  BY MovedKeeps DEF Move
<1>2. call' \in [HttpCall -> CallType] /\ CallsSound'
  BY <1>1, OutrunKeeps DEF Move, CallsSound
<1>3. RestOK'
  <2>1. moves' \in 0 .. MaxMoves
    BY RegistryTypeParts DEF Move, RegistryInv, RestOK
  <2>2. QED
    BY <2>1, RegistryTypeParts DEF Move, RegistryInv, RestOK, Listener
<1>4. QED
  BY <1>1, <1>2, <1>3, StepParts

\* One request changes and nothing else.
LEMMA OneCall ==
    ASSUME RegistryInv, NEW q \in HttpCall, NEW c \in CallType, CallSound(c, graph[c.node]),
           call' = [call EXCEPT ![q] = c],
           UNCHANGED <<graph, lives, moves, event, Listener, known>>
    PROVE  RegistryInv'
<1>1. call \in [HttpCall -> CallType] /\ CallsSound
  BY RegistryTypeParts DEF RegistryInv
<1>2. call' \in [HttpCall -> CallType] /\ CallsSound'
  BY <1>1 DEF CallsSound
<1>3. RestOK'
  BY RegistryTypeParts DEF RegistryInv, RestOK, Listener
<1>4. graph' \in [Node -> NodeType] /\ known' \in [Node -> ClientType] /\ NodesSound'
  BY RegistryTypeParts DEF RegistryInv, NodesSound
<1>5. QED
  BY <1>2, <1>3, <1>4, StepParts

LEMMA TakeServedKeeps == ASSUME RegistryInv, NEW q \in HttpCall, TakeServed(q) PROVE RegistryInv'
<1> DEFINE c == call[q]
           d == [c EXCEPT !.stage = "done"]
<1>1. c \in CallType /\ CallSound(c, graph[c.node])
  BY RegistryTypeParts DEF RegistryInv, CallsSound
<1>2. call' = [call EXCEPT ![q] = d]
  BY DEF TakeServed
<1> HIDE DEF c
<1>3. /\ d \in CallType /\ d.stage = "done" /\ d.shutdown = c.shutdown /\ d.status = c.status
      /\ d.knew = c.knew
  BY <1>1 DEF CallType
<1> HIDE DEF d
<1>4. CallSound(d, graph[d.node])
  BY <1>1, <1>3 DEF CallSound
<1>5. QED
  BY <1>2, <1>3, <1>4, OneCall DEF TakeServed

LEMMA ServeKeeps == ASSUME RegistryInv, NEW q \in HttpCall, Serve(q) PROVE RegistryInv'
<1> DEFINE c == call[q]
           n == c.node
           fits == ~c.list /\ graph[n].state = From(c.id)
           status == IF c.list \/ fits THEN 200 ELSE 409
           base == IF fits THEN Outrun(n) ELSE call
<1>1. /\ c \in CallType /\ CallSound(c, graph[n]) /\ n \in Node /\ c.id \in TransitionId
      /\ \A p \in HttpCall : CallSound(call[p], graph[call[p].node])
      /\ call \in [HttpCall -> CallType]
  BY RegistryTypeParts DEF RegistryInv, CallsSound, CallType
<1>2. /\ c.stage = "asked" /\ graph[n].services
      /\ call' = [base EXCEPT ![q] = Answered(base[q], "answered", status)]
      /\ IF fits THEN Moved(n, c.id) ELSE UNCHANGED <<graph, known>>
  BY DEF Serve
<1>3. UNCHANGED <<lives, moves, event, Listener>>
  BY DEF Serve
<1>4. RestOK'
  BY <1>3, RegistryTypeParts DEF RegistryInv, RestOK, Listener
<1>5. /\ graph' \in [Node -> NodeType] /\ known' \in [Node -> ClientType] /\ NodesSound'
      /\ fits => graph'[n].services /\ \A m \in Node \ {n} : graph'[m] = graph[m]
      /\ ~fits => graph' = graph
  <2>1. CASE fits
    BY <1>1, <1>2, <2>1, MovedKeeps
  <2>2. CASE ~fits
    BY <1>2, <2>2, RegistryTypeParts DEF RegistryInv, NodesSound
  <2>3. QED
    BY <2>1, <2>2
<1>6. /\ base \in [HttpCall -> CallType]
      /\ \A p \in HttpCall : CallSound(base[p], graph'[base[p].node])
  <2>1. CASE fits
    BY <1>1, <1>5, <2>1, OutrunKeeps
  <2>2. CASE ~fits
    BY <1>1, <1>5, <2>2
  <2>3. QED
    BY <2>1, <2>2
<1>7. status \in {0, 200, 400, 409, 500} /\ (status = 409 => ~fits /\ ~c.list)
  OBVIOUS
<1>8. status = 409 => ~(base[q].shutdown /\ base[q].knew)
  <2>1. SUFFICES ASSUME status = 409 PROVE ~(c.shutdown /\ c.knew)
    BY <1>7
  <2>2. QED
    BY <1>1, <1>2, <1>7, <2>1 DEF CallSound
<1> DEFINE d == Answered(base[q], "answered", status)
<1> HIDE DEF base, status
<1>9. d \in CallType /\ CallSound(d, graph'[d.node])
  BY <1>6, <1>7, <1>8, AnsweredSound
<1>10. call' \in [HttpCall -> CallType] /\ CallsSound'
  <2>1. call' = [base EXCEPT ![q] = d]
    BY <1>2
  <2> HIDE DEF d
  <2>2. \A p \in HttpCall : call'[p] = IF p = q THEN d ELSE base[p]
    BY <1>6, <2>1
  <2>3. QED
    BY <1>6, <1>9, <2>1, <2>2 DEF CallsSound
<1>11. QED
  BY <1>4, <1>5, <1>10, StepParts

LEMMA AskedCall ==
    ASSUME RegistryInv, NEW n \in Node, NEW list \in BOOLEAN,
           NEW label \in Label \cup {"configure"}, list => label = "configure"
    PROVE  LET new == NewCall(n, list, label)
           IN  /\ new \in CallType /\ new.node = n /\ new.status = 0 /\ new.stage = "none"
               /\ new.shutdown => ~new.list
               /\ new.shutdown /\ new.knew => graph[n].state = From(new.id)
<1> DEFINE k == known[n]
           g == graph[n]
           id == Resolved(label, k.state)
           v == (k.state = g.state /\ k.state # "finalized")
           s == (label = "shutdown")
<1>1. id \in TransitionId
  BY ShutdownStarts DEF Resolved, Label
<1>2. s /\ v => g.state = From(id)
  <2>1. SUFFICES ASSUME s, v PROVE g.state = From(id)
    OBVIOUS
  <2>2. g.state \in {"unconfigured", "inactive", "active"}
    BY <2>1, Untouched DEF NodeType, State
  <2>3. QED
    BY <2>1, <2>2, ShutdownStarts DEF Resolved
<1>3. s => ~list
  OBVIOUS
<1>4. v \in BOOLEAN /\ s \in BOOLEAN
  OBVIOUS
<1>5. NewCall(n, list, label) =
          [NoCall EXCEPT !.node = n, !.list = list, !.shutdown = s, !.id = id, !.knew = v]
  BY DEF NewCall
<1> HIDE DEF id, v, s, g
<1> DEFINE new == [stage |-> "none", node |-> n, list |-> list, id |-> id, shutdown |-> s,
                   knew |-> v, status |-> 0]
<1>6. NewCall(n, list, label) = new
  BY <1>5 DEF NoCall
<1>7. new \in CallType
  BY <1>1, <1>4 DEF CallType
<1>8. /\ new.node = n /\ new.status = 0 /\ new.stage = "none"
      /\ new.shutdown = s /\ new.list = list /\ new.knew = v /\ new.id = id
  OBVIOUS
<1> HIDE DEF new
<1>9. /\ new \in CallType /\ new.node = n /\ new.status = 0 /\ new.stage = "none"
      /\ new.shutdown => ~new.list
      /\ new.shutdown /\ new.knew => g.state = From(new.id)
  BY <1>2, <1>3, <1>7, <1>8
<1>10. QED
  BY <1>6, <1>9 DEF g

LEMMA AskKeeps ==
    ASSUME RegistryInv, NEW q \in HttpCall, NEW n \in Node, NEW list \in BOOLEAN,
           NEW label \in Label \cup {"configure"}, list => label = "configure",
           AskNode(q, n, list, label)
    PROVE  RegistryInv'
<1> DEFINE k == known[n]
           new == NewCall(n, list, label)
<1>1. /\ new \in CallType /\ new.node = n /\ new.status = 0 /\ new.stage = "none"
      /\ new.shutdown => ~new.list
      /\ new.shutdown /\ new.knew => graph[n].state = From(new.id)
  BY AskedCall
<1>2. k.there \in BOOLEAN /\ k.lifecycle \in BOOLEAN /\ graph[n].services \in BOOLEAN
  BY Untouched DEF NodeType, ClientType
<1>3. UNCHANGED <<graph, lives, moves, event, Listener, known>>
  BY DEF AskNode
<1>4. CASE ~k.there
  <2> DEFINE c == Answered(new, "done", IF list THEN 500 ELSE 400)
  <2>1. call' = [call EXCEPT ![q] = c]
    BY <1>2, <1>4 DEF AskNode
  <2> HIDE DEF new
  <2>2. c \in CallType /\ CallSound(c, graph[c.node])
    BY <1>1, AnsweredSound
  <2> HIDE DEF c
  <2>3. QED
    BY <1>3, <2>1, <2>2, OneCall
<1>5. CASE k.there /\ ~(k.lifecycle /\ graph[n].services)
  <2> DEFINE c == Answered(new, "done", 500)
  <2>1. call' = [call EXCEPT ![q] = c]
    BY <1>2, <1>5 DEF AskNode
  <2> HIDE DEF new
  <2>2. c \in CallType /\ CallSound(c, graph[c.node])
    BY <1>1, AnsweredSound
  <2> HIDE DEF c
  <2>3. QED
    BY <1>3, <2>1, <2>2, OneCall
<1>6. CASE k.there /\ k.lifecycle /\ graph[n].services
  <2> DEFINE c == [new EXCEPT !.stage = "asked"]
  <2>1. call' = [call EXCEPT ![q] = c]
    BY <1>2, <1>6 DEF AskNode
  <2> HIDE DEF new
  <2>2. /\ c \in CallType /\ c.node = n /\ c.status = 0 /\ c.stage = "asked"
        /\ c.shutdown = new.shutdown /\ c.list = new.list /\ c.knew = new.knew /\ c.id = new.id
    BY <1>1 DEF CallType
  <2> HIDE DEF c
  <2>3. CallSound(c, graph[c.node])
    BY <1>1, <1>6, <2>2 DEF CallSound
  <2>4. QED
    BY <1>3, <2>1, <2>2, <2>3, OneCall
<1>7. QED
  BY <1>2, <1>4, <1>5, <1>6

-----------------------------------------------------------------------------
LEMMA RegistryStep == RegistryInv /\ [RegistryNext]_registryVars => RegistryInv'
<1> SUFFICES ASSUME RegistryInv, [RegistryNext]_registryVars PROVE RegistryInv'
  OBVIOUS
<1>1. CASE Wake \/ Rearm \/ TimerFires \/ Update
  BY <1>1, RegistryListenerKeeps, UpdateKeeps
<1>2. ASSUME NEW n \in Node,
             \/ Start(n) \/ Advertise(n) \/ Die(n) \/ MatchSubscription(n)
             \/ ServeGetState(n) \/ TakeAnswer(n) \/ TakeEvent(n)
             \/ \E id \in TransitionId : Move(n, id)
      PROVE  RegistryInv'
  BY <1>2, StartKeeps, AdvertiseKeeps, DieKeeps, ClientActionsKeep, MoveKeeps
<1>3. ASSUME NEW n \in Node, NEW q \in HttpCall,
             \/ AskNode(q, n, TRUE, "configure")
             \/ \E label \in Label : AskNode(q, n, FALSE, label)
      PROVE  RegistryInv'
  BY <1>3, AskKeeps
<1>4. ASSUME NEW q \in HttpCall, Serve(q) \/ TakeServed(q)
      PROVE  RegistryInv'
  BY <1>4, ServeKeeps, TakeServedKeeps
<1>5. CASE UNCHANGED registryVars
  BY <1>5 DEF registryVars, RegistryInv, RegistryTypeOK, NodesSound, CallsSound
<1>6. QED
  BY <1>1, <1>2, <1>3, <1>4, <1>5 DEF RegistryNext

\* What the browser is shown of a node is true but for the reasons named, for any number of
\* nodes, requests, restarts and transitions (node_client::node_client,
\* transition_callback, resolve_transition_id).
THEOREM NodesAlwaysShownTrue == RegistrySpec => []NodesShownTrue
  BY RegistryInitSound, RegistryStep, InvShows, PTL DEF RegistrySpec

-----------------------------------------------------------------------------
(* WsSession: the strand's handlers, the write queue and the socket.        *)

\* What a strand holds none of, and what it holds one of at most.
Bare(q, K) == \A i \in DOMAIN q : q[i].kind \notin K
Single(q, K) == \A i, j \in DOMAIN q : q[i].kind \in K /\ q[j].kind \in K => i = j

\* The messages a strand has yet to write are those after n, in order.
WritesFrom(q, n, newest) ==
    /\ n \in 0 .. newest
    /\ \A i \in DOMAIN q : q[i].kind = "write" => q[i].msg \in n + 1 .. newest
    /\ \A i, j \in DOMAIN q :
           i < j /\ q[i].kind = "write" /\ q[j].kind = "write" => q[i].msg < q[j].msg
    /\ \A m \in n + 1 .. newest : \E i \in DOMAIN q : q[i].kind = "write" /\ q[i].msg = m

\* The write under way, where the queue is not empty: at the socket, or its completion is
\* queued. The message is the front of the queue, the next one of the client.
AtWire ==
    /\ wire = <<queue[1]>> /\ Bare(strand, {"written", "write_failed"})
    /\ queue[1] = Len(delivered) + 1
IsWritten ==
    /\ wire = <<>> /\ Bare(strand, {"write_failed"}) /\ Single(strand, {"written"})
    /\ \E i \in DOMAIN strand : strand[i].kind = "written"
    /\ queue[1] = Len(delivered)
HasFailed == wire = <<>> /\ Bare(strand, {"written"}) /\ ~open

\* The last message taken into the queue.
LastTaken == IF queue = <<>> THEN Len(delivered) ELSE queue[Len(queue)]

WriteInv ==
    ~closed =>
        /\ ~undefined /\ (writing <=> queue # <<>>)
        /\ queue = <<>> => wire = <<>> /\ Bare(strand, {"written", "write_failed"})
        /\ queue # <<>> => AtWire \/ IsWritten \/ HasFailed
        /\ \A i \in DOMAIN queue : queue[i] = queue[1] + i - 1
        /\ open => WritesFrom(strand, LastTaken, posted)

\* A closed session has nothing to write and no socket.
ClosedInv == closed => queue = <<>> /\ wire = <<>> /\ ~writing /\ ~open

ReadInv == reads \in {0, 1} /\ Single(strand, {"read"}) /\ (reads = 1 => Bare(strand, {"read"}))

\* The handshake is begun once, and its end is told once.
EndInv ==
    /\ ~closed => ~closing /\ Bare(strand, {"closed"}) /\ notified = 0
    /\ notified \in {0, 1} /\ Single(strand, {"closed"})
    /\ closing => Bare(strand, {"closed"}) /\ notified = 0
    /\ notified = 1 => Bare(strand, {"closed"}) /\ ~subscribed

StageInv ==
    stage = "accepting" =>
        /\ strand = <<>> /\ queue = <<>> /\ wire = <<>> /\ delivered = <<>>
        /\ ~closed /\ ~open /\ ~writing /\ ~undefined /\ ~subscribed /\ ~closing
        /\ reads = 0 /\ posted = 0 /\ notified = 0 /\ timer = 0

WsInv == WsTypeOK /\ DeliveredInOrder /\ WriteInv /\ ClosedInv /\ ReadInv /\ EndInv /\ StageInv

-----------------------------------------------------------------------------
(* Strands.                                                                *)

LEMMA HandlersTyped ==
    /\ \A k \in Kinds : [kind |-> k] \in Handler
    /\ \A m \in Message : [kind |-> "write", msg |-> m] \in Handler
    /\ \A h \in Handler : h.kind \in Kinds \cup {"write"} /\ (h.kind = "write" => h.msg \in Message)
  BY DEF Handler, Kinds

LEMMA StrandTail ==
    ASSUME NEW q \in Seq(Handler), q # <<>>
    PROVE  /\ Tail(q) \in Seq(Handler) /\ Head(q) \in Handler /\ Head(q) = q[1] /\ 1 \in DOMAIN q
           /\ \A i \in DOMAIN Tail(q) : i \in Nat /\ i + 1 \in DOMAIN q /\ i + 1 # 1
                                        /\ Tail(q)[i] = q[i + 1]
           /\ \A i \in DOMAIN q : i # 1 => i - 1 \in DOMAIN Tail(q) /\ Tail(q)[i - 1] = q[i]
<1>1. /\ Tail(q) \in Seq(Handler) /\ Head(q) \in Handler /\ Len(q) \in Nat \ {0}
      /\ DOMAIN q = 1 .. Len(q) /\ DOMAIN Tail(q) = 1 .. Len(q) - 1
      /\ Head(q) = q[1]
      /\ \A i \in 1 .. Len(q) - 1 : Tail(q)[i] = q[i + 1]
  OBVIOUS
<1>2. \A i \in 1 .. Len(q) : i # 1 => i - 1 \in 1 .. Len(q) - 1 /\ (i - 1) + 1 = i
  BY <1>1
<1>3. \A i \in 1 .. Len(q) - 1 : i \in Nat /\ i + 1 \in 1 .. Len(q) /\ i + 1 # 1
  BY <1>1
<1>4. QED BY <1>1, <1>2, <1>3

LEMMA TailKinds ==
    ASSUME NEW q \in Seq(Handler), q # <<>>, NEW K
    PROVE  /\ Bare(q, K) => Bare(Tail(q), K)
           /\ Single(q, K) => Single(Tail(q), K)
           /\ Single(q, K) /\ Head(q).kind \in K => Bare(Tail(q), K)
           /\ Bare(q, K) => Head(q).kind \notin K
           /\ (\E i \in DOMAIN q : q[i].kind \in K) /\ Head(q).kind \notin K =>
                 \E i \in DOMAIN Tail(q) : Tail(q)[i].kind \in K
<1>1. Bare(q, K) => Bare(Tail(q), K)
  BY StrandTail DEF Bare
<1>2. ASSUME Single(q, K) PROVE Single(Tail(q), K)
  <2> SUFFICES ASSUME NEW i \in DOMAIN Tail(q), NEW j \in DOMAIN Tail(q),
                      Tail(q)[i].kind \in K, Tail(q)[j].kind \in K
               PROVE  i = j
    BY DEF Single
  <2>1. i + 1 = j + 1
    BY <1>2, StrandTail DEF Single
  <2>2. QED BY <2>1, StrandTail
<1>3. Single(q, K) /\ Head(q).kind \in K => Bare(Tail(q), K)
  BY StrandTail DEF Bare, Single
<1>4. Bare(q, K) => Head(q).kind \notin K
  BY StrandTail DEF Bare
<1>5. ASSUME NEW i \in DOMAIN q, q[i].kind \in K, Head(q).kind \notin K
      PROVE  \E j \in DOMAIN Tail(q) : Tail(q)[j].kind \in K
  <2>1. i # 1
    BY <1>5, StrandTail
  <2>2. QED BY <1>5, <2>1, StrandTail
<1>6. QED BY <1>1, <1>2, <1>3, <1>4, <1>5

LEMMA StrandAppend ==
    ASSUME NEW q \in Seq(Handler), NEW h \in Handler
    PROVE  /\ Append(q, h) \in Seq(Handler) /\ Len(q) \in Nat
           /\ Len(q) + 1 \in DOMAIN Append(q, h) /\ Append(q, h)[Len(q) + 1] = h
           /\ \A i \in DOMAIN q : /\ i \in DOMAIN Append(q, h) /\ Append(q, h)[i] = q[i]
                                  /\ i \in Nat /\ i < Len(q) + 1
           /\ \A i \in DOMAIN Append(q, h) : i \in DOMAIN q \/ i = Len(q) + 1
<1>1. /\ Append(q, h) \in Seq(Handler) /\ Len(q) \in Nat
      /\ DOMAIN q = 1 .. Len(q) /\ DOMAIN Append(q, h) = 1 .. Len(q) + 1
      /\ Append(q, h)[Len(q) + 1] = h
      /\ \A i \in DOMAIN q : Append(q, h)[i] = q[i]
  OBVIOUS
<1>2. QED BY <1>1

LEMMA AppendKinds ==
    ASSUME NEW q \in Seq(Handler), NEW h \in Handler, NEW K
    PROVE  /\ Bare(q, K) /\ h.kind \notin K => Bare(Append(q, h), K)
           /\ Single(q, K) /\ h.kind \notin K => Single(Append(q, h), K)
           /\ Bare(q, K) => Single(Append(q, h), K)
           /\ h.kind \in K => \E i \in DOMAIN Append(q, h) : Append(q, h)[i].kind \in K
           /\ (\E i \in DOMAIN q : q[i].kind \in K) =>
                 \E i \in DOMAIN Append(q, h) : Append(q, h)[i].kind \in K
<1>1. Bare(q, K) /\ h.kind \notin K => Bare(Append(q, h), K)
  BY StrandAppend DEF Bare
<1>2. Single(q, K) /\ h.kind \notin K => Single(Append(q, h), K)
  BY StrandAppend DEF Single
<1>3. Bare(q, K) => Single(Append(q, h), K)
  BY StrandAppend DEF Single, Bare
<1>4. QED BY <1>1, <1>2, <1>3, StrandAppend

\* A message posted comes last; the one that is run first is the next.
LEMMA AppendWrites ==
    ASSUME NEW q \in Seq(Handler), NEW h \in Handler, NEW n, NEW newest \in Nat,
           WritesFrom(q, n, newest)
    PROVE  /\ h.kind # "write" => WritesFrom(Append(q, h), n, newest)
           /\ h.kind = "write" /\ h.msg = newest + 1 => WritesFrom(Append(q, h), n, newest + 1)
<1>1. n \in 0 .. newest /\ n \in Nat
  BY DEF WritesFrom
<1>2. ASSUME h.kind # "write" PROVE WritesFrom(Append(q, h), n, newest)
  <2>1. \A i \in DOMAIN Append(q, h) :
            Append(q, h)[i].kind = "write" => i \in DOMAIN q /\ Append(q, h)[i] = q[i]
    BY <1>2, StrandAppend
  <2>2. \A i \in DOMAIN Append(q, h) :
            Append(q, h)[i].kind = "write" => Append(q, h)[i].msg \in n + 1 .. newest
    BY <2>1 DEF WritesFrom
  <2>3. \A i, j \in DOMAIN Append(q, h) :
           i < j /\ Append(q, h)[i].kind = "write" /\ Append(q, h)[j].kind = "write"
              => Append(q, h)[i].msg < Append(q, h)[j].msg
    BY <2>1 DEF WritesFrom
  <2>4. \A m \in n + 1 .. newest :
            \E i \in DOMAIN Append(q, h) : Append(q, h)[i].kind = "write" /\ Append(q, h)[i].msg = m
    BY StrandAppend DEF WritesFrom
  <2>5. QED BY <1>1, <2>2, <2>3, <2>4 DEF WritesFrom
<1>3. ASSUME h.kind = "write", h.msg = newest + 1 PROVE WritesFrom(Append(q, h), n, newest + 1)
  <2>1. \A i \in DOMAIN Append(q, h) : Append(q, h)[i].kind = "write" =>
            \/ i \in DOMAIN q /\ Append(q, h)[i] = q[i] /\ q[i].msg \in n + 1 .. newest /\ i < Len(q) + 1
            \/ i = Len(q) + 1 /\ Append(q, h)[i].msg = newest + 1
    BY <1>3, StrandAppend DEF WritesFrom
  <2>2. \A i \in DOMAIN Append(q, h) :
            Append(q, h)[i].kind = "write" => Append(q, h)[i].msg \in n + 1 .. newest + 1
    BY <1>1, <2>1
  <2>3. ASSUME NEW i \in DOMAIN Append(q, h), NEW j \in DOMAIN Append(q, h), i < j,
               Append(q, h)[i].kind = "write", Append(q, h)[j].kind = "write"
        PROVE  Append(q, h)[i].msg < Append(q, h)[j].msg
    <3>1. CASE j \in DOMAIN q
      <4>1. i \in DOMAIN q
        <5>1. DOMAIN q = 1 .. Len(q) /\ Len(q) \in Nat /\ (i \in DOMAIN q \/ i = Len(q) + 1)
          BY StrandAppend
        <5>2. QED BY <2>3, <3>1, <5>1
      <4>2. Append(q, h)[i] = q[i] /\ Append(q, h)[j] = q[j]
        BY <3>1, <4>1, StrandAppend
      <4>3. QED BY <2>3, <3>1, <4>1, <4>2 DEF WritesFrom
    <3>2. CASE j \notin DOMAIN q
      <4>1. j = Len(q) + 1 /\ Append(q, h)[j].msg = newest + 1 /\ i # j
        BY <1>3, <2>3, <3>2, StrandAppend
      <4>2. Append(q, h)[i].msg \in n + 1 .. newest
        BY <2>1, <2>3, <4>1
      <4>3. QED BY <1>1, <4>1, <4>2
    <3>3. QED BY <3>1, <3>2
  <2>4. ASSUME NEW m \in n + 1 .. newest + 1
        PROVE  \E i \in DOMAIN Append(q, h) : Append(q, h)[i].kind = "write" /\ Append(q, h)[i].msg = m
    <3>1. CASE m = newest + 1
      BY <1>3, <3>1, StrandAppend
    <3>2. CASE m # newest + 1
      <4>1. m \in n + 1 .. newest
        BY <1>1, <3>2
      <4>2. PICK i \in DOMAIN q : q[i].kind = "write" /\ q[i].msg = m
        BY <4>1 DEF WritesFrom
      <4>3. QED BY <4>2, StrandAppend
    <3>3. QED BY <3>1, <3>2
  <2>5. n \in 0 .. newest + 1
    BY <1>1
  <2>6. QED BY <2>2, <2>3, <2>4, <2>5 DEF WritesFrom
<1>4. QED BY <1>2, <1>3

LEMMA TailWrites ==
    ASSUME NEW q \in Seq(Handler), q # <<>>, NEW n, NEW newest \in Nat, WritesFrom(q, n, newest)
    PROVE  /\ Head(q).kind # "write" => WritesFrom(Tail(q), n, newest)
           /\ Head(q).kind = "write" => /\ Head(q).msg = n + 1
                                        /\ WritesFrom(Tail(q), n + 1, newest)
<1>1. n \in 0 .. newest /\ n \in Nat
  BY DEF WritesFrom
<1>2. \A i \in DOMAIN Tail(q) : Tail(q)[i].kind = "write" => Tail(q)[i].msg \in n + 1 .. newest
  BY StrandTail DEF WritesFrom
<1>3. ASSUME NEW i \in DOMAIN Tail(q), NEW j \in DOMAIN Tail(q), i < j,
             Tail(q)[i].kind = "write", Tail(q)[j].kind = "write"
      PROVE  Tail(q)[i].msg < Tail(q)[j].msg
  <2>1. /\ i + 1 \in DOMAIN q /\ j + 1 \in DOMAIN q /\ i \in Nat /\ j \in Nat
        /\ Tail(q)[i] = q[i + 1] /\ Tail(q)[j] = q[j + 1]
    BY StrandTail
  <2>2. i + 1 < j + 1
    BY <1>3, <2>1
  <2>3. QED BY <1>3, <2>1, <2>2 DEF WritesFrom
<1>4. ASSUME NEW m \in n + 1 .. newest, Head(q).kind = "write" => m # Head(q).msg
      PROVE  \E i \in DOMAIN Tail(q) : Tail(q)[i].kind = "write" /\ Tail(q)[i].msg = m
  <2>1. PICK i \in DOMAIN q : q[i].kind = "write" /\ q[i].msg = m
    BY DEF WritesFrom
  <2>2. i # 1
    BY <1>4, <2>1, StrandTail
  <2>3. i - 1 \in DOMAIN Tail(q) /\ Tail(q)[i - 1] = q[i]
    BY <2>2, StrandTail
  <2>4. QED BY <2>1, <2>3
<1>5. ASSUME Head(q).kind # "write" PROVE WritesFrom(Tail(q), n, newest)
  BY <1>1, <1>2, <1>3, <1>4, <1>5 DEF WritesFrom
<1>6. ASSUME Head(q).kind = "write"
      PROVE  Head(q).msg = n + 1 /\ WritesFrom(Tail(q), n + 1, newest)
  <2>1. Head(q).msg \in n + 1 .. newest /\ n + 1 \in 0 .. newest
    BY <1>1, <1>6, StrandTail DEF WritesFrom
  <2>2. ASSUME NEW i \in DOMAIN q, i # 1, q[i].kind = "write" PROVE Head(q).msg < q[i].msg
    <3>1. DOMAIN q = 1 .. Len(q) /\ Len(q) \in Nat
      OBVIOUS
    <3>2. 1 < i
      BY <2>2, <3>1
    <3>3. QED BY <1>6, <2>2, <3>2, StrandTail DEF WritesFrom
  <2>3. Head(q).msg = n + 1
    <3>1. n + 1 \in n + 1 .. newest
      BY <1>1, <2>1
    <3>2. PICK i \in DOMAIN q : q[i].kind = "write" /\ q[i].msg = n + 1
      BY <3>1 DEF WritesFrom
    <3>3. CASE i = 1
      BY <3>2, <3>3, StrandTail
    <3>4. CASE i # 1
      <4>1. Head(q).msg < n + 1
        BY <2>2, <3>2, <3>4
      <4>2. QED BY <1>1, <2>1, <4>1
    <3>5. QED BY <3>3, <3>4
  <2>4. \A i \in DOMAIN Tail(q) : Tail(q)[i].kind = "write" => Tail(q)[i].msg \in (n + 1) + 1 .. newest
    <3> SUFFICES ASSUME NEW i \in DOMAIN Tail(q), Tail(q)[i].kind = "write"
                 PROVE  Tail(q)[i].msg \in (n + 1) + 1 .. newest
      OBVIOUS
    <3>1. Head(q).msg < Tail(q)[i].msg
      BY <2>2, StrandTail
    <3>2. Tail(q)[i].msg \in n + 1 .. newest
      BY <1>2
    <3>3. QED BY <1>1, <2>3, <3>1, <3>2
  <2>5. \A m \in (n + 1) + 1 .. newest :
            \E i \in DOMAIN Tail(q) : Tail(q)[i].kind = "write" /\ Tail(q)[i].msg = m
    <3> TAKE m \in (n + 1) + 1 .. newest
    <3>1. m \in n + 1 .. newest /\ m # Head(q).msg
      BY <1>1, <2>3
    <3>2. QED BY <1>4, <3>1
  <2>6. QED BY <1>3, <2>1, <2>3, <2>4, <2>5 DEF WritesFrom
<1>7. QED BY <1>5, <1>6

LEMMA AbortKinds ==
    ASSUME NEW q \in Seq(Handler), NEW k \in Kinds, NEW pending \in BOOLEAN, NEW K
    PROVE  /\ q \o Abort(k, pending) \in Seq(Handler)
           /\ k \notin K /\ Bare(q, K) => Bare(q \o Abort(k, pending), K)
           /\ k \notin K /\ Single(q, K) => Single(q \o Abort(k, pending), K)
<1>1. CASE pending
  <2>1. q \o Abort(k, pending) = Append(q, [kind |-> k])
    <3>1. Abort(k, pending) = <<[kind |-> k]>>
      BY <1>1 DEF Abort
    <3>2. [kind |-> k] \in Handler
      BY HandlersTyped
    <3>3. q \o <<[kind |-> k]>> = Append(q, [kind |-> k])
      BY <3>2
    <3>4. QED BY <3>1, <3>3
  <2>2. [kind |-> k] \in Handler /\ [kind |-> k].kind = k
    BY HandlersTyped
  <2>3. QED BY <2>1, <2>2, StrandAppend, AppendKinds
<1>2. CASE ~pending
  <2>1. Abort(k, pending) = <<>>
    BY <1>2 DEF Abort
  <2>2. q \o <<>> = q
    OBVIOUS
  <2>3. QED BY <2>1, <2>2
<1>3. QED BY <1>1, <1>2

\* What closing leaves alone.
LEMMA EndingKeeps ==
    ASSUME WsInv, NEW rest \in Seq(Handler), PrepareClose(rest),
           Single(rest, {"read"}), reads = 1 => Bare(rest, {"read"}),
           Single(rest, {"closed"}), Bare(strand, {"closed"}) => Bare(rest, {"closed"}),
           stage' \in {"refused", "turned_away", "streaming"}, posted' \in 0 .. MaxMessages,
           UNCHANGED <<subscribed, delivered, notified, undefined, peer>>
    PROVE  WsInv'
<1>1. CASE closed
  <2>1. /\ strand' = rest
        /\ UNCHANGED <<closed, queue, writing, timer, open, wire, reads, closing, raced>>
    BY <1>1 DEF PrepareClose
  <2>2. WsTypeOK' /\ DeliveredInOrder'
    BY <2>1 DEF WsInv, WsTypeOK, DeliveredInOrder
  <2>3. WriteInv' /\ ClosedInv' /\ StageInv'
    BY <1>1, <2>1 DEF WsInv, WriteInv, ClosedInv, StageInv
  <2>4. ReadInv'
    BY <2>1 DEF WsInv, ReadInv
  <2>5. EndInv'
    BY <1>1, <2>1 DEF WsInv, EndInv
  <2>6. QED BY <2>2, <2>3, <2>4, <2>5 DEF WsInv
<1>2. CASE ~closed
  <2> DEFINE first == rest \o Abort("read_failed", reads > 0)
             all == first \o Abort("write_failed", wire # <<>>)
  <2>1. /\ closed' = TRUE /\ queue' = <<>> /\ writing' = FALSE /\ timer' = 0 /\ open' = FALSE
        /\ wire' = <<>> /\ reads' = 0 /\ closing' = TRUE /\ strand' = all
    BY <1>2 DEF PrepareClose
  <2>2. "read_failed" \in Kinds /\ "write_failed" \in Kinds
    BY DEF Kinds
  <2>3. first \in Seq(Handler) /\ Single(first, {"read"}) /\ Single(first, {"closed"})
        /\ (Bare(rest, {"closed"}) => Bare(first, {"closed"}))
    <3>1. "read_failed" \notin {"read"} /\ "read_failed" \notin {"closed"} /\ (reads > 0) \in BOOLEAN
      OBVIOUS
    <3>2. first \in Seq(Handler)
      BY <2>2, <3>1, AbortKinds
    <3>3. Single(first, {"read"})
      BY <2>2, <3>1, AbortKinds
    <3>4. Single(first, {"closed"}) /\ (Bare(rest, {"closed"}) => Bare(first, {"closed"}))
      BY <2>2, <3>1, AbortKinds
    <3>5. QED BY <3>2, <3>3, <3>4
  <2> HIDE DEF first
  <2>4. all \in Seq(Handler) /\ Single(all, {"read"}) /\ Single(all, {"closed"})
        /\ (Bare(first, {"closed"}) => Bare(all, {"closed"}))
    BY <2>2, <2>3, AbortKinds
  <2> HIDE DEF all
  <2>5. Bare(all, {"closed"}) /\ notified = 0
    BY <1>2, <2>3, <2>4 DEF WsInv, EndInv
  <2>6. WsTypeOK' /\ DeliveredInOrder'
    <3>1. /\ closed' \in BOOLEAN /\ queue' \in Seq(Message) /\ writing' \in BOOLEAN
          /\ timer' \in 0 .. IdleTimeout /\ open' \in BOOLEAN /\ wire' \in Seq(Message)
          /\ reads' \in Nat /\ closing' \in BOOLEAN /\ strand' \in Seq(Handler)
      <4>1. <<>> \in Seq(Message) /\ 0 \in Nat /\ 0 \in 0 .. IdleTimeout
        BY SessionAssumption
      <4>2. QED BY <2>1, <2>4, <4>1
    <3>2. /\ subscribed' \in BOOLEAN /\ delivered' \in Seq(Message) /\ notified' \in Nat
          /\ undefined' \in BOOLEAN /\ peer' \in {"up", "mute", "gone"}
          /\ DeliveredInOrder'
      BY DEF WsInv, WsTypeOK, DeliveredInOrder
    <3>3. raced' \in BOOLEAN
      <4>1. raced' = WriteCompleted(rest)
        BY <1>2 DEF PrepareClose
      <4>2. WriteCompleted(rest) \in BOOLEAN
        BY Zenon DEF WriteCompleted
      <4>3. QED BY <4>1, <4>2
    <3>4. QED BY <3>1, <3>2, <3>3 DEF WsTypeOK
  <2>7. WriteInv' /\ ClosedInv' /\ StageInv'
    BY <2>1 DEF WriteInv, ClosedInv, StageInv
  <2>8. ReadInv'
    BY <2>1, <2>4 DEF ReadInv
  <2>9. EndInv'
    BY <2>1, <2>4, <2>5 DEF EndInv
  <2>10. QED BY <2>6, <2>7, <2>8, <2>9 DEF WsInv
<1>3. QED BY <1>1, <1>2 DEF WsInv, WsTypeOK

LEMMA TailCloses ==
    ASSUME WsInv, strand # <<>>, PrepareClose(Tail(strand)),
           UNCHANGED <<delivered, user, undefined, peer>>
    PROVE  WsInv'
<1>1. strand \in Seq(Handler) /\ stage # "accepting"
  BY DEF WsInv, WsTypeOK, StageInv
<1>2. Tail(strand) \in Seq(Handler)
  BY <1>1, StrandTail
<1>3. /\ Single(strand, {"read"}) /\ (reads = 1 => Bare(strand, {"read"}))
      /\ Single(strand, {"closed"})
  BY DEF WsInv, ReadInv, EndInv
<1>4. /\ Single(Tail(strand), {"read"}) /\ (reads = 1 => Bare(Tail(strand), {"read"}))
      /\ Single(Tail(strand), {"closed"})
      /\ Bare(strand, {"closed"}) => Bare(Tail(strand), {"closed"})
  BY <1>1, <1>3, TailKinds
<1>5. stage' \in {"refused", "turned_away", "streaming"} /\ posted' \in 0 .. MaxMessages
      /\ UNCHANGED <<subscribed, delivered, notified, undefined, peer>>
  BY <1>1 DEF user, WsInv, WsTypeOK
<1>6. QED BY <1>2, <1>4, <1>5, EndingKeeps

\* The steps that put a handler on the strand which is no write, and change nothing else that
\* the writes depend on.
LEMMA PutKeepsWrites ==
    ASSUME WsInv, NEW h \in Handler, h.kind \notin {"write", "written", "write_failed"},
           strand' = Append(strand, h), open' \in {open, FALSE},
           UNCHANGED <<closed, undefined, writing, queue, wire, delivered, posted>>
    PROVE  WriteInv' /\ ClosedInv'
<1>1. strand \in Seq(Handler) /\ posted \in Nat /\ open \in BOOLEAN
  BY SessionAssumption DEF WsInv, WsTypeOK
<1>2. ClosedInv'
  BY <1>1 DEF WsInv, ClosedInv
<1>3. ASSUME NEW K, K \subseteq {"written", "write_failed"}, Bare(strand, K)
      PROVE  Bare(strand, K)'
  <2>1. h.kind \notin K
    BY <1>3
  <2>2. QED BY <1>1, <1>3, <2>1, AppendKinds DEF Bare
<1>4. AtWire => AtWire'
  BY <1>3 DEF AtWire
<1>5. ASSUME IsWritten PROVE IsWritten'
  <2>1. Single(Append(strand, h), {"written"})
    BY <1>1, <1>5, AppendKinds DEF IsWritten
  <2>2. \E i \in DOMAIN Append(strand, h) : Append(strand, h)[i].kind = "written"
    BY <1>1, <1>5, StrandAppend DEF IsWritten
  <2>3. Bare(Append(strand, h), {"write_failed"})
    BY <1>1, <1>5, AppendKinds DEF IsWritten
  <2>4. QED BY <1>5, <2>1, <2>2, <2>3 DEF IsWritten, Single, Bare
<1>6. HasFailed => HasFailed'
  BY <1>1, <1>3 DEF HasFailed
<1>7. ASSUME ~closed, open' PROVE WritesFrom(strand, LastTaken, posted)'
  <2>1. WritesFrom(strand, LastTaken, posted)
    BY <1>1, <1>7 DEF WsInv, WriteInv
  <2>2. WritesFrom(Append(strand, h), LastTaken, posted)
    BY <1>1, <2>1, AppendWrites
  <2>3. LastTaken' = LastTaken
    BY DEF LastTaken
  <2>4. QED BY <2>2, <2>3 DEF WritesFrom
<1>8. WriteInv'
  <2> SUFFICES ASSUME ~closed
               PROVE  /\ ~undefined' /\ (writing' <=> queue' # <<>>)
                      /\ queue' = <<>> => wire' = <<>> /\ Bare(strand', {"written", "write_failed"})
                      /\ queue' # <<>> => AtWire' \/ IsWritten' \/ HasFailed'
                      /\ \A i \in DOMAIN queue' : queue'[i] = queue'[1] + i - 1
                      /\ open' => WritesFrom(strand', LastTaken', posted')
    BY DEF WriteInv, Bare, WritesFrom
  <2>1. /\ ~undefined' /\ (writing' <=> queue' # <<>>)
        /\ \A i \in DOMAIN queue' : queue'[i] = queue'[1] + i - 1
    BY DEF WsInv, WriteInv
  <2>2. queue' = <<>> => wire' = <<>> /\ Bare(strand', {"written", "write_failed"})
    <3>1. queue = <<>> => wire = <<>> /\ Bare(strand, {"written", "write_failed"})
      BY DEF WsInv, WriteInv
    <3>2. QED BY <1>3, <3>1 DEF Bare
  <2>3. queue' # <<>> => AtWire' \/ IsWritten' \/ HasFailed'
    BY <1>4, <1>5, <1>6 DEF WsInv, WriteInv
  <2>4. open' => WritesFrom(strand', LastTaken', posted')
    BY <1>7 DEF WritesFrom
  <2>5. QED BY <2>1, <2>2, <2>3, <2>4
<1>9. QED BY <1>2, <1>8

\* The steps that take a handler from the strand which is no completion of a write and no
\* write that is heeded.
LEMMA RunKeepsWrites ==
    ASSUME WsInv, strand # <<>>, Head(strand).kind \notin {"written", "write_failed"},
           Head(strand).kind # "write" \/ ~open,
           strand' = Tail(strand),
           UNCHANGED <<closed, undefined, writing, queue, wire, delivered, posted, open>>
    PROVE  WriteInv' /\ ClosedInv'
<1>1. strand \in Seq(Handler) /\ posted \in Nat
  BY SessionAssumption DEF WsInv, WsTypeOK
<1>2. ClosedInv'
  BY DEF WsInv, ClosedInv
<1>3. ASSUME NEW K, Bare(strand, K)
      PROVE  Bare(strand, K)'
  BY <1>1, <1>3, TailKinds DEF Bare
<1>4. AtWire => AtWire'
  BY <1>3 DEF AtWire
<1>5. ASSUME IsWritten PROVE IsWritten'
  <2>1. Single(Tail(strand), {"written"})
    BY <1>1, <1>5, TailKinds DEF IsWritten
  <2>2. \E i \in DOMAIN Tail(strand) : Tail(strand)[i].kind = "written"
    <3>1. PICK i \in DOMAIN strand : strand[i].kind = "written"
      BY <1>5 DEF IsWritten
    <3>2. i # 1
      BY <1>1, <3>1, StrandTail
    <3>3. i - 1 \in DOMAIN Tail(strand) /\ Tail(strand)[i - 1] = strand[i]
      BY <1>1, <3>2, StrandTail
    <3>4. QED BY <3>1, <3>3
  <2>3. Bare(Tail(strand), {"write_failed"})
    BY <1>1, <1>5, TailKinds DEF IsWritten
  <2>4. QED BY <1>5, <2>1, <2>2, <2>3 DEF IsWritten, Single, Bare
<1>6. HasFailed => HasFailed'
  BY <1>1, <1>3 DEF HasFailed
<1>7. ASSUME ~closed, open PROVE WritesFrom(Tail(strand), LastTaken', posted')
  <2>1. WritesFrom(strand, LastTaken, posted)
    BY <1>1, <1>7 DEF WsInv, WriteInv
  <2>2. WritesFrom(Tail(strand), LastTaken, posted)
    BY <1>1, <1>7, <2>1, TailWrites
  <2>3. LastTaken' = LastTaken
    BY DEF LastTaken
  <2>4. QED BY <2>2, <2>3
<1>8. WriteInv'
  <2> SUFFICES ASSUME ~closed
               PROVE  /\ ~undefined' /\ (writing' <=> queue' # <<>>)
                      /\ queue' = <<>> => wire' = <<>> /\ Bare(strand', {"written", "write_failed"})
                      /\ queue' # <<>> => AtWire' \/ IsWritten' \/ HasFailed'
                      /\ \A i \in DOMAIN queue' : queue'[i] = queue'[1] + i - 1
                      /\ open' => WritesFrom(strand', LastTaken', posted')
    BY DEF WriteInv, Bare, WritesFrom
  <2>1. /\ ~undefined' /\ (writing' <=> queue' # <<>>)
        /\ \A i \in DOMAIN queue' : queue'[i] = queue'[1] + i - 1
    BY DEF WsInv, WriteInv
  <2>2. queue' = <<>> => wire' = <<>> /\ Bare(strand', {"written", "write_failed"})
    <3>1. queue = <<>> => wire = <<>> /\ Bare(strand, {"written", "write_failed"})
      BY DEF WsInv, WriteInv
    <3>2. QED BY <1>3, <3>1 DEF Bare
  <2>3. queue' # <<>> => AtWire' \/ IsWritten' \/ HasFailed'
    BY <1>4, <1>5, <1>6 DEF WsInv, WriteInv
  <2>4. open' => WritesFrom(strand', LastTaken', posted')
    BY <1>7
  <2>5. QED BY <2>1, <2>2, <2>3, <2>4
<1>9. QED BY <1>2, <1>8

\* The others of the invariant, for steps that put a handler on the strand or take one.
LEMMA PutKeepsRest ==
    ASSUME WsInv, NEW h \in Handler, strand' = Append(strand, h), stage # "accepting",
           UNCHANGED <<closed, subscribed, notified, stage>>,
           \/ h.kind # "read" /\ reads' \in {reads, 0}
           \/ h.kind = "read" /\ reads = 1 /\ reads' = 0,
           \/ h.kind # "closed" /\ UNCHANGED closing
           \/ h.kind = "closed" /\ closing /\ closing' = FALSE
    PROVE  ReadInv' /\ EndInv' /\ StageInv' /\ strand' \in Seq(Handler)
<1>1. strand \in Seq(Handler) /\ Append(strand, h) \in Seq(Handler)
  BY StrandAppend DEF WsInv, WsTypeOK
<1>2. StageInv'
  BY DEF StageInv
<1>3. /\ reads \in {0, 1} /\ Single(strand, {"read"}) /\ (reads = 1 => Bare(strand, {"read"}))
  BY DEF WsInv, ReadInv
<1>4. /\ Single(Append(strand, h), {"read"}) /\ reads' \in {0, 1}
      /\ reads' = 1 => Bare(Append(strand, h), {"read"})
  <2>1. CASE h.kind # "read"
    BY <1>1, <1>3, <2>1, AppendKinds
  <2>2. CASE h.kind = "read"
    BY <1>1, <1>3, <2>2, AppendKinds
  <2>3. QED BY <2>1, <2>2
<1>5. ReadInv'
  BY <1>4 DEF ReadInv
<1>6. /\ ~closed => ~closing /\ Bare(strand, {"closed"}) /\ notified = 0
      /\ notified \in {0, 1} /\ Single(strand, {"closed"})
      /\ closing => Bare(strand, {"closed"}) /\ notified = 0
      /\ notified = 1 => Bare(strand, {"closed"}) /\ ~subscribed
  BY DEF WsInv, EndInv
<1>7. CASE h.kind # "closed"
  <2>1. /\ Single(Append(strand, h), {"closed"})
        /\ Bare(strand, {"closed"}) => Bare(Append(strand, h), {"closed"})
    BY <1>1, <1>6, <1>7, AppendKinds
  <2>2. EndInv'
    BY <1>6, <1>7, <2>1 DEF EndInv
  <2>3. QED BY <1>1, <1>2, <1>5, <2>2
<1>8. CASE h.kind = "closed"
  <2>1. Single(Append(strand, h), {"closed"})
    BY <1>1, <1>6, <1>8, AppendKinds
  <2>2. EndInv'
    BY <1>6, <1>8, <2>1 DEF EndInv
  <2>3. QED BY <1>1, <1>2, <1>5, <2>2
<1>9. QED BY <1>7, <1>8

LEMMA RunKeepsRest ==
    ASSUME WsInv, strand # <<>>, strand' = Tail(strand),
           UNCHANGED <<closed, closing, stage>>,
           \/ UNCHANGED reads
           \/ Head(strand).kind = "read" /\ reads' = reads + 1,
           \/ UNCHANGED <<notified, subscribed>>
           \/ Head(strand).kind = "closed" /\ notified' = notified + 1 /\ subscribed' = FALSE
    PROVE  ReadInv' /\ EndInv' /\ StageInv' /\ strand' \in Seq(Handler)
<1>1. strand \in Seq(Handler) /\ Tail(strand) \in Seq(Handler)
  BY StrandTail DEF WsInv, WsTypeOK
<1>2. StageInv'
  BY DEF WsInv, StageInv
<1>3. /\ reads \in {0, 1} /\ Single(strand, {"read"}) /\ (reads = 1 => Bare(strand, {"read"}))
  BY DEF WsInv, ReadInv
<1>4. /\ Single(Tail(strand), {"read"}) /\ reads' \in {0, 1}
      /\ reads' = 1 => Bare(Tail(strand), {"read"})
  BY <1>1, <1>3, TailKinds
<1>5. ReadInv'
  BY <1>4 DEF ReadInv
<1>6. /\ ~closed => ~closing /\ Bare(strand, {"closed"}) /\ notified = 0
      /\ notified \in {0, 1} /\ Single(strand, {"closed"})
      /\ closing => Bare(strand, {"closed"}) /\ notified = 0
      /\ notified = 1 => Bare(strand, {"closed"}) /\ ~subscribed
  BY DEF WsInv, EndInv
<1>7. /\ Single(Tail(strand), {"closed"})
      /\ Bare(strand, {"closed"}) => Bare(Tail(strand), {"closed"}) /\ Head(strand).kind # "closed"
      /\ Head(strand).kind = "closed" => Bare(Tail(strand), {"closed"})
  BY <1>1, <1>6, TailKinds
<1>8. EndInv'
  <2>1. CASE UNCHANGED <<notified, subscribed>>
    BY <1>6, <1>7, <2>1 DEF EndInv
  <2>2. CASE Head(strand).kind = "closed" /\ notified' = notified + 1 /\ subscribed' = FALSE
    BY <1>6, <1>7, <2>2 DEF EndInv
  <2>3. QED BY <2>1, <2>2
<1>9. QED BY <1>1, <1>2, <1>5, <1>8

LEMMA StrandRuns ==
    ASSUME WsInv, NEW k, StrandHas(k)
    PROVE  strand # <<>> /\ Head(strand).kind = k /\ ~undefined /\ stage # "accepting"
           /\ strand \in Seq(Handler) /\ Tail(strand) \in Seq(Handler) /\ Head(strand) \in Handler
<1>1. strand # <<>> /\ Head(strand).kind = k /\ ~undefined /\ strand \in Seq(Handler)
  BY DEF StrandHas, WsInv, WsTypeOK
<1>2. stage # "accepting"
  BY <1>1 DEF WsInv, StageInv
<1>3. QED BY <1>1, <1>2, StrandTail

-----------------------------------------------------------------------------
(* The connection handler and other threads.                               *)

LEMMA ConnectedKeeps ==
    ASSUME WsInv, OpenStream \/ Refuse
    PROVE  WsInv'
<1>1. stage = "accepting" /\ StageInv
  BY DEF OpenStream, Refuse, WsInv
<1>2. /\ strand = <<>> /\ queue = <<>> /\ wire = <<>> /\ delivered = <<>>
      /\ ~closed /\ ~open /\ ~writing /\ ~undefined /\ ~closing
      /\ reads = 0 /\ posted = 0 /\ notified = 0 /\ timer = 0
  BY <1>1 DEF StageInv
<1>3. /\ stage' \in {"refused", "streaming"} /\ reads' \in {0, 1} /\ timer' \in 0 .. IdleTimeout
      /\ subscribed' \in BOOLEAN /\ open' \in BOOLEAN
      /\ UNCHANGED <<strand, closed, queue, writing, wire, closing, posted, delivered, notified,
                     raced, undefined, peer>>
  <2>1. CASE OpenStream
    BY <1>2, <2>1, SessionAssumption DEF OpenStream, Read
  <2>2. CASE Refuse
    BY <1>2, <2>2, SessionAssumption DEF Refuse, socket, WsInv, WsTypeOK
  <2>3. QED BY <2>1, <2>2
<1>4. WsTypeOK' /\ DeliveredInOrder'
  BY <1>3 DEF WsInv, WsTypeOK, DeliveredInOrder
<1>5. \A K : Bare(<<>>, K) /\ Single(<<>>, K)
  BY DEF Bare, Single
<1>6. WritesFrom(<<>>, 0, 0)
  BY DEF WritesFrom
<1>7. LastTaken' = 0
  BY <1>2, <1>3 DEF LastTaken
<1>8. WriteInv'
  BY <1>2, <1>3, <1>5, <1>6, <1>7 DEF WriteInv
<1>9. ClosedInv' /\ StageInv'
  BY <1>2, <1>3 DEF ClosedInv, StageInv
<1>10. ReadInv'
  BY <1>2, <1>3, <1>5 DEF ReadInv
<1>11. EndInv'
  BY <1>2, <1>3, <1>5 DEF EndInv
<1>12. QED BY <1>4, <1>8, <1>9, <1>10, <1>11 DEF WsInv

LEMMA TurnAwayKeeps ==
    ASSUME WsInv, TurnAway
    PROVE  WsInv'
<1> DEFINE h == [kind |-> "write", msg |-> posted + 1]
           rest == Append(strand, h)
<1>1. stage = "accepting" /\ strand = <<>> /\ posted = 0 /\ reads = 0
  BY DEF TurnAway, WsInv, StageInv
<1>2. h \in Handler /\ h.kind = "write"
  <2>1. posted + 1 \in Message
    BY <1>1, SessionAssumption DEF Message
  <2>2. QED BY <2>1, HandlersTyped
<1>3. PrepareClose(rest) /\ stage' = "turned_away" /\ posted' = posted + 1
      /\ UNCHANGED <<subscribed, delivered, notified, undefined, peer>>
  BY DEF TurnAway
<1> HIDE DEF h
<1>4. /\ strand \in Seq(Handler) /\ \A K : Bare(strand, K) /\ Single(strand, K)
  BY <1>1 DEF Bare, Single
<1>5. rest \in Seq(Handler) /\ Single(rest, {"read"}) /\ Single(rest, {"closed"})
      /\ Bare(rest, {"closed"})
  BY <1>2, <1>4, StrandAppend, AppendKinds
<1> HIDE DEF rest
<1>6. posted' \in 0 .. MaxMessages
  BY <1>1, <1>3, SessionAssumption
<1>7. QED BY <1>1, <1>3, <1>5, <1>6, EndingKeeps

LEMMA MessageKeeps ==
    ASSUME WsInv, TopicMessage
    PROVE  WsInv'
<1> DEFINE h == [kind |-> "write", msg |-> posted + 1]
<1>1. /\ posted \in Nat /\ posted + 1 \in Message /\ strand \in Seq(Handler) /\ subscribed
      /\ posted' = posted + 1 /\ posted' \in 0 .. MaxMessages
  BY SessionAssumption DEF TopicMessage, WsInv, WsTypeOK, Message
<1>2. h \in Handler /\ h.kind = "write" /\ h.msg = posted + 1
  BY <1>1, HandlersTyped
<1>3. /\ strand' = Append(strand, h) /\ posted' = posted + 1
      /\ UNCHANGED <<closed, queue, writing, timer, open, wire, reads, closing, delivered, stage,
                     subscribed, notified, raced, undefined, peer>>
  BY DEF TopicMessage, socket
<1> HIDE DEF h
<1>4. stage # "accepting"
  BY <1>1 DEF WsInv, StageInv
<1>5. ReadInv' /\ EndInv' /\ StageInv' /\ strand' \in Seq(Handler)
  BY <1>2, <1>3, <1>4, PutKeepsRest
<1>6. WsTypeOK' /\ DeliveredInOrder'
  BY <1>1, <1>3, <1>5 DEF WsInv, WsTypeOK, DeliveredInOrder
<1>7. ClosedInv'
  BY <1>3 DEF WsInv, ClosedInv
<1>8. ASSUME NEW K, Bare(strand, K), "write" \notin K PROVE Bare(strand', K)
  BY <1>1, <1>2, <1>3, <1>8, AppendKinds
<1>9. ASSUME IsWritten PROVE IsWritten'
  <2>1. Single(strand', {"written"}) /\ Bare(strand', {"write_failed"})
    BY <1>1, <1>2, <1>3, <1>9, AppendKinds DEF IsWritten
  <2>2. \E i \in DOMAIN strand' : strand'[i].kind = "written"
    BY <1>1, <1>2, <1>3, <1>9, StrandAppend DEF IsWritten
  <2>3. QED BY <1>3, <1>9, <2>1, <2>2 DEF IsWritten
<1>10. (AtWire => AtWire') /\ (HasFailed => HasFailed')
  BY <1>3, <1>8 DEF AtWire, HasFailed
<1>11. ASSUME ~closed, open PROVE WritesFrom(strand', LastTaken', posted')
  <2>1. WritesFrom(strand, LastTaken, posted)
    BY <1>11 DEF WsInv, WriteInv
  <2>2. LastTaken' = LastTaken
    BY <1>3 DEF LastTaken
  <2>3. WritesFrom(Append(strand, h), LastTaken, posted + 1)
    BY <1>1, <1>2, <2>1, AppendWrites
  <2>4. QED BY <1>3, <2>2, <2>3
<1>12. WriteInv'
  <2>1. queue = <<>> => Bare(strand', {"written", "write_failed"}) \/ closed
    BY <1>8 DEF WsInv, WriteInv
  <2>2. QED BY <1>3, <1>9, <1>10, <1>11, <2>1 DEF WsInv, WriteInv
<1>13. QED BY <1>5, <1>6, <1>7, <1>12 DEF WsInv

\* What goes on the strand from elsewhere: an end of a read or of the handshake, an expiry, a
\* call of close().
LEMMA PutKeeps ==
    ASSUME WsInv, NEW h \in Handler, h.kind \notin {"write", "written", "write_failed"},
           strand' = Append(strand, h), open' \in {open, FALSE}, stage # "accepting",
           UNCHANGED <<closed, undefined, writing, queue, wire, delivered, posted, subscribed,
                       notified, stage, raced, peer>>,
           timer' \in 0 .. IdleTimeout,
           \/ h.kind # "read" /\ reads' \in {reads, 0}
           \/ h.kind = "read" /\ reads = 1 /\ reads' = 0,
           \/ h.kind # "closed" /\ UNCHANGED closing
           \/ h.kind = "closed" /\ closing /\ closing' = FALSE
    PROVE  WsInv'
<1>1. WriteInv' /\ ClosedInv'
  BY PutKeepsWrites
<1>2. ReadInv' /\ EndInv' /\ StageInv' /\ strand' \in Seq(Handler)
  BY PutKeepsRest
<1>3. reads' \in Nat /\ closing' \in BOOLEAN /\ open' \in BOOLEAN
  <2>1. reads \in Nat /\ closing \in BOOLEAN /\ open \in BOOLEAN
    BY DEF WsInv, WsTypeOK
  <2>2. reads' \in {reads, 0}
    OBVIOUS
  <2>3. closing' = closing \/ closing' = FALSE
    OBVIOUS
  <2>4. reads' \in Nat
    BY <2>1, <2>2
  <2>5. closing' \in BOOLEAN
    BY <2>1, <2>3
  <2>6. open' \in BOOLEAN
    BY <2>1
  <2>7. QED BY <2>4, <2>5, <2>6
<1>4. WsTypeOK' /\ DeliveredInOrder'
  BY <1>2, <1>3 DEF WsInv, WsTypeOK, DeliveredInOrder
<1>5. QED BY <1>1, <1>2, <1>4 DEF WsInv

LEMMA OthersPut ==
    ASSUME WsInv, CloseCall \/ FrameArrives \/ ReadEnds \/ CloseEnds
    PROVE  WsInv'
<1> DEFINE h(k) == [kind |-> k]
<1>1. \A k \in Kinds : h(k) \in Handler /\ h(k).kind = k
  BY HandlersTyped
<1>2. {"close", "read", "read_failed", "closed"} \subseteq Kinds
  BY DEF Kinds
<1> HIDE DEF h
<1>3. /\ reads \in {0, 1} /\ timer \in 0 .. IdleTimeout /\ open \in BOOLEAN
      /\ stage = "accepting" => reads = 0 /\ ~closing
  BY DEF WsInv, WsTypeOK, ReadInv, StageInv
<1>4. CASE CloseCall
  <2>1. /\ strand' = Append(strand, h("close")) /\ stage # "accepting"
        /\ UNCHANGED <<closed, undefined, writing, queue, wire, delivered, posted, subscribed,
                       notified, stage, raced, peer, timer, open, reads, closing>>
    BY <1>4 DEF CloseCall, socket, user, h
  <2>2. QED BY <1>1, <1>2, <1>3, <2>1, PutKeeps
<1>5. CASE FrameArrives
  <2>1. /\ strand' = Append(strand, h("read")) /\ reads = 1 /\ reads' = 0
        /\ UNCHANGED <<closed, undefined, writing, queue, wire, delivered, posted, subscribed,
                       notified, stage, raced, peer, timer, open, closing>>
    BY <1>3, <1>5 DEF FrameArrives, Complete, user, h
  <2>2. h("read") \in Handler /\ h("read").kind = "read"
    BY <1>1, <1>2
  <2>3. stage # "accepting" /\ open' \in {open, FALSE} /\ timer' \in 0 .. IdleTimeout
        /\ reads' \in {reads, 0}
    BY <1>3, <2>1
  <2>4. QED BY <2>1, <2>2, <2>3, PutKeeps
<1>6. CASE ReadEnds
  <2>1. /\ strand' = Append(strand, h("read_failed")) /\ reads = 1 /\ reads' = 0 /\ open' = FALSE
        /\ UNCHANGED <<closed, undefined, writing, queue, wire, delivered, posted, subscribed,
                       notified, stage, raced, peer, timer, closing>>
    BY <1>3, <1>6 DEF ReadEnds, Complete, user, h
  <2>2. h("read_failed") \in Handler /\ h("read_failed").kind = "read_failed"
    BY <1>1, <1>2
  <2>3. stage # "accepting" /\ open' \in {open, FALSE} /\ timer' \in 0 .. IdleTimeout
        /\ reads' \in {reads, 0}
    <3>1. stage # "accepting"
      BY <1>3, <2>1
    <3>2. open' \in {open, FALSE}
      BY <2>1
    <3>3. timer' \in 0 .. IdleTimeout
      BY <1>3, <2>1
    <3>4. reads' \in {reads, 0}
      BY <2>1
    <3>5. QED BY <3>1, <3>2, <3>3, <3>4
  <2>4. QED BY <2>1, <2>2, <2>3, PutKeeps
<1>7. CASE CloseEnds
  <2>1. /\ strand' = Append(strand, h("closed")) /\ closing /\ closing' = FALSE
        /\ UNCHANGED <<closed, undefined, writing, queue, wire, delivered, posted, subscribed,
                       notified, stage, raced, peer, timer, open, reads>>
    BY <1>7 DEF CloseEnds, Complete, user, h
  <2>2. QED BY <1>1, <1>2, <1>3, <2>1, PutKeeps
<1>8. QED BY <1>4, <1>5, <1>6, <1>7

\* Time and the client change nothing the session has but its timer.
LEMMA LeavesKeep ==
    ASSUME WsInv, timer' \in 0 .. IdleTimeout, peer' \in {"up", "mute", "gone"},
           stage = "accepting" => timer' = 0,
           UNCHANGED <<stage, strand, closed, queue, writing, open, wire, reads, closing, subscribed,
                       posted, delivered, notified, raced, undefined>>
    PROVE  WsInv'
<1>1. WsTypeOK' /\ DeliveredInOrder'
  BY DEF WsInv, WsTypeOK, DeliveredInOrder
<1>2. WriteInv'
  BY DEF WsInv, WriteInv, AtWire, IsWritten, HasFailed, Bare, Single, WritesFrom, LastTaken
<1>3. ClosedInv' /\ StageInv'
  BY DEF WsInv, ClosedInv, StageInv
<1>4. ReadInv' /\ EndInv'
  BY DEF WsInv, ReadInv, EndInv, Bare, Single
<1>5. QED BY <1>1, <1>2, <1>3, <1>4 DEF WsInv

LEMMA TimeKeeps ==
    ASSUME WsInv, TimePasses \/ PeerChanges \/ UNCHANGED wsVars
    PROVE  WsInv'
<1>1. timer \in 0 .. IdleTimeout /\ peer \in {"up", "mute", "gone"} /\ IdleTimeout \in Nat
      /\ (stage = "accepting" => timer = 0)
  BY SessionAssumption DEF WsInv, WsTypeOK, StageInv
<1>2. CASE PeerChanges \/ UNCHANGED wsVars
  <2>1. peer' \in {"up", "mute", "gone"} /\ timer' = timer
        /\ UNCHANGED <<stage, strand, closed, queue, writing, open, wire, reads, closing, subscribed,
                       posted, delivered, notified, raced, undefined>>
    BY <1>1, <1>2 DEF PeerChanges, wsVars, socket, user
  <2>2. QED BY <1>1, <2>1, LeavesKeep
<1>3. CASE TimePasses
  <2>1. /\ timer > 0 /\ timer' = timer - 1 /\ timer' \in 0 .. IdleTimeout /\ stage # "accepting"
        /\ UNCHANGED <<closed, undefined, writing, queue, wire, delivered, posted, subscribed,
                       notified, stage, raced, peer, open, reads, closing>>
    BY <1>1, <1>3 DEF TimePasses, socket, user
  <2>2. CASE timer = 1
    <3> DEFINE h == [kind |-> "expired"]
    <3>1. h \in Handler /\ h.kind = "expired" /\ strand' = Append(strand, h)
      <4>1. "expired" \in Kinds
        BY DEF Kinds
      <4>2. QED BY <1>3, <2>2, <4>1, HandlersTyped DEF TimePasses, Complete
    <3> HIDE DEF h
    <3>2. QED BY <2>1, <3>1, PutKeeps
  <2>3. CASE timer # 1
    <3>1. UNCHANGED strand
      BY <1>3, <2>3 DEF TimePasses
    <3>2. QED BY <1>1, <2>1, <3>1, LeavesKeep
  <2>4. QED BY <2>2, <2>3
<1>4. QED BY <1>2, <1>3

-----------------------------------------------------------------------------
(* Writes.                                                                 *)

\* A write under way is that of an open queue's front.
LEMMA UnderWay ==
    ASSUME WsInv, wire # <<>>
    PROVE  /\ ~closed /\ queue # <<>> /\ wire = <<queue[1]>> /\ queue[1] = Len(delivered) + 1
           /\ Bare(strand, {"written", "write_failed"})
           /\ stage # "accepting" /\ queue[1] \in Message /\ delivered \in Seq(Message)
           /\ strand \in Seq(Handler) /\ queue \in Seq(Message) /\ posted \in Nat
<1>1. ~closed /\ queue # <<>> /\ stage # "accepting"
  BY DEF WsInv, ClosedInv, StageInv, WriteInv
<1>2. AtWire
  BY <1>1 DEF WsInv, WriteInv, IsWritten, HasFailed
<1>3. queue \in Seq(Message) /\ delivered \in Seq(Message) /\ strand \in Seq(Handler)
      /\ posted \in Nat
  BY SessionAssumption DEF WsInv, WsTypeOK
<1>4. queue[1] \in Message
  BY <1>1, <1>3
<1>5. QED BY <1>1, <1>2, <1>3, <1>4 DEF AtWire

LEMMA SuccessKeeps ==
    ASSUME WsInv, WriteSucceeds
    PROVE  WsInv'
<1> DEFINE h == [kind |-> "written"]
<1>1. /\ wire # <<>> /\ wire' = Tail(wire) /\ delivered' = Append(delivered, Head(wire))
      /\ strand' = Append(strand, h)
      /\ UNCHANGED <<closed, queue, writing, timer, open, reads, closing, stage, subscribed, posted,
                     notified, raced, undefined, peer>>
  BY DEF WriteSucceeds, Complete, user
<1>2. h \in Handler /\ h.kind = "written"
  <2>1. "written" \in Kinds
    BY DEF Kinds
  <2>2. QED BY <2>1, HandlersTyped
<1> HIDE DEF h
<1>3. /\ ~closed /\ queue # <<>> /\ wire = <<queue[1]>> /\ queue[1] = Len(delivered) + 1
      /\ Bare(strand, {"written", "write_failed"})
      /\ stage # "accepting" /\ queue[1] \in Message /\ delivered \in Seq(Message)
      /\ strand \in Seq(Handler) /\ queue \in Seq(Message) /\ posted \in Nat
  BY <1>1, UnderWay
<1>4. wire' = <<>> /\ delivered' = Append(delivered, queue[1])
  BY <1>1, <1>3
<1>5. /\ delivered' \in Seq(Message) /\ Len(delivered') = Len(delivered) + 1
      /\ DOMAIN delivered' = 1 .. Len(delivered) + 1 /\ DOMAIN delivered = 1 .. Len(delivered)
      /\ Len(delivered) \in Nat
      /\ delivered'[Len(delivered) + 1] = queue[1]
      /\ \A i \in 1 .. Len(delivered) : delivered'[i] = delivered[i]
  BY <1>3, <1>4
<1>6. DeliveredInOrder'
  BY <1>3, <1>5 DEF WsInv, DeliveredInOrder
<1>7. ReadInv' /\ EndInv' /\ StageInv' /\ strand' \in Seq(Handler)
  BY <1>1, <1>2, <1>3, PutKeepsRest
<1>8. WsTypeOK'
  <2>1. wire' \in Seq(Message)
    BY <1>4
  <2>2. QED BY <1>1, <1>5, <1>7, <2>1 DEF WsInv, WsTypeOK
<1>9. IsWritten'
  <2>1. Bare(strand, {"write_failed"}) /\ Bare(strand, {"written"})
    BY <1>3 DEF Bare
  <2>2. Bare(strand', {"write_failed"}) /\ Single(strand', {"written"})
        /\ \E i \in DOMAIN strand' : strand'[i].kind \in {"written"}
    BY <1>1, <1>2, <1>3, <2>1, AppendKinds
  <2>3. queue'[1] = Len(delivered')
    BY <1>1, <1>3, <1>5
  <2>4. QED BY <1>4, <2>2, <2>3 DEF IsWritten
<1>10. ASSUME open' PROVE WritesFrom(strand', LastTaken', posted')
  <2>1. WritesFrom(strand, LastTaken, posted)
    BY <1>1, <1>3, <1>10 DEF WsInv, WriteInv
  <2>2. LastTaken' = LastTaken
    BY <1>1, <1>3 DEF LastTaken
  <2>3. WritesFrom(Append(strand, h), LastTaken, posted)
    BY <1>2, <1>3, <2>1, AppendWrites
  <2>4. QED BY <1>1, <2>2, <2>3
<1>11. WriteInv'
  BY <1>1, <1>3, <1>9, <1>10 DEF WsInv, WriteInv
<1>12. ClosedInv'
  BY <1>1, <1>3 DEF ClosedInv
<1>13. QED BY <1>6, <1>7, <1>8, <1>11, <1>12 DEF WsInv

LEMMA FailureKeeps ==
    ASSUME WsInv, WriteFails
    PROVE  WsInv'
<1> DEFINE h == [kind |-> "write_failed"]
<1>1. /\ wire # <<>> /\ wire' = Tail(wire) /\ open' = FALSE
      /\ strand' = Append(strand, h)
      /\ UNCHANGED <<closed, queue, writing, timer, reads, closing, delivered, stage, subscribed,
                     posted, notified, raced, undefined, peer>>
  BY DEF WriteFails, Complete, user
<1>2. h \in Handler /\ h.kind = "write_failed"
  <2>1. "write_failed" \in Kinds
    BY DEF Kinds
  <2>2. QED BY <2>1, HandlersTyped
<1> HIDE DEF h
<1>3. /\ ~closed /\ queue # <<>> /\ wire = <<queue[1]>>
      /\ Bare(strand, {"written", "write_failed"})
      /\ stage # "accepting" /\ strand \in Seq(Handler)
  BY <1>1, UnderWay
<1>4. wire' = <<>>
  BY <1>1, <1>3
<1>5. ReadInv' /\ EndInv' /\ StageInv' /\ strand' \in Seq(Handler)
  BY <1>1, <1>2, <1>3, PutKeepsRest
<1>6. WsTypeOK' /\ DeliveredInOrder'
  <2>1. wire' \in Seq(Message)
    BY <1>4
  <2>2. QED BY <1>1, <1>5, <2>1 DEF WsInv, WsTypeOK, DeliveredInOrder
<1>7. HasFailed'
  <2>1. Bare(strand, {"written"})
    BY <1>3 DEF Bare
  <2>2. Bare(strand', {"written"})
    BY <1>1, <1>2, <1>3, <2>1, AppendKinds
  <2>3. QED BY <1>1, <1>4, <2>2 DEF HasFailed
<1>8. WriteInv' /\ ClosedInv'
  BY <1>1, <1>3, <1>7 DEF WsInv, WriteInv, ClosedInv
<1>9. QED BY <1>5, <1>6, <1>8 DEF WsInv

\* A queue of messages that follow one another.
LEMMA QueueGrows ==
    ASSUME NEW q \in Seq(Message), NEW m \in Message
    PROVE  /\ Append(q, m) \in Seq(Message) /\ Append(q, m) # <<>>
           /\ Append(q, m)[Len(Append(q, m))] = m
           /\ q = <<>> => Append(q, m)[1] = m /\ Head(Append(q, m)) = m
           /\ q # <<>> => Append(q, m)[1] = q[1] /\ Len(q) \in DOMAIN q
           /\ (\A i \in DOMAIN q : q[i] = q[1] + i - 1)
                 /\ (q # <<>> => m = q[Len(q)] + 1)
              => \A i \in DOMAIN Append(q, m) : Append(q, m)[i] = Append(q, m)[1] + i - 1
<1>1. /\ Append(q, m) \in Seq(Message) /\ Len(q) \in Nat /\ Len(Append(q, m)) = Len(q) + 1
      /\ DOMAIN q = 1 .. Len(q) /\ DOMAIN Append(q, m) = 1 .. Len(q) + 1
      /\ Append(q, m)[Len(q) + 1] = m
      /\ \A i \in 1 .. Len(q) : Append(q, m)[i] = q[i] /\ q[i] \in Message
      /\ m \in Nat
  BY SessionAssumption DEF Message
<1>2. q = <<>> <=> Len(q) = 0
  BY <1>1
<1>3. q = <<>> => Append(q, m)[1] = m /\ Head(Append(q, m)) = m
  BY <1>1, <1>2
<1>4. q # <<>> => Append(q, m)[1] = q[1] /\ Len(q) \in DOMAIN q /\ q[1] \in Nat
  BY <1>1, <1>2, SessionAssumption DEF Message
<1>5. ASSUME \A i \in DOMAIN q : q[i] = q[1] + i - 1, q # <<>> => m = q[Len(q)] + 1,
             NEW i \in DOMAIN Append(q, m)
      PROVE  Append(q, m)[i] = Append(q, m)[1] + i - 1
  <2>1. CASE q = <<>>
    BY <1>1, <1>2, <1>3, <2>1
  <2>2. CASE q # <<>>
    <3>1. m = q[1] + Len(q) - 1 + 1 /\ q[1] \in Nat
      BY <1>4, <1>5, <2>2
    <3>2. CASE i = Len(q) + 1
      BY <1>1, <1>4, <2>2, <3>1, <3>2
    <3>3. CASE i # Len(q) + 1
      <4>1. i \in 1 .. Len(q)
        BY <1>1, <3>3
      <4>2. QED BY <1>1, <1>4, <1>5, <2>2, <4>1
    <3>4. QED BY <3>2, <3>3
  <2>3. QED BY <2>1, <2>2
<1>6. QED BY <1>1, <1>3, <1>4, <1>5

LEMMA QueueShrinks ==
    ASSUME NEW q \in Seq(Message), q # <<>>, \A i \in DOMAIN q : q[i] = q[1] + i - 1
    PROVE  /\ Tail(q) \in Seq(Message) /\ q[1] \in Nat
           /\ Tail(q) = <<>> => q[Len(q)] = q[1]
           /\ Tail(q) # <<>> => /\ Tail(q)[1] = q[1] + 1 /\ q[2] = q[1] + 1 /\ q[2] \in Message
                                /\ Tail(q)[Len(Tail(q))] = q[Len(q)]
           /\ \A i \in DOMAIN Tail(q) : Tail(q)[i] = Tail(q)[1] + i - 1
<1>1. /\ Tail(q) \in Seq(Message) /\ Len(q) \in Nat \ {0} /\ Len(Tail(q)) = Len(q) - 1
      /\ DOMAIN q = 1 .. Len(q) /\ DOMAIN Tail(q) = 1 .. Len(q) - 1
      /\ \A i \in 1 .. Len(q) - 1 : Tail(q)[i] = q[i + 1]
      /\ \A i \in 1 .. Len(q) : q[i] \in Message
  OBVIOUS
<1>2. q[1] \in Nat
  BY <1>1, SessionAssumption DEF Message
<1>3. Tail(q) = <<>> <=> Len(q) = 1
  BY <1>1
<1>4. ASSUME NEW i \in 1 .. Len(q) - 1
      PROVE  Tail(q)[i] = q[1] + i
  <2>1. i + 1 \in 1 .. Len(q)
    BY <1>1
  <2>2. q[i + 1] = q[1] + (i + 1) - 1
    BY <1>1, <2>1
  <2>3. QED BY <1>1, <1>2, <2>2
<1>5. ASSUME Tail(q) # <<>>
      PROVE  /\ Tail(q)[1] = q[1] + 1 /\ q[2] = q[1] + 1 /\ q[2] \in Message
             /\ Tail(q)[Len(Tail(q))] = q[Len(q)]
  <2>1. Len(q) >= 2 /\ 1 \in 1 .. Len(q) - 1 /\ 2 \in 1 .. Len(q) /\ Len(q) - 1 \in 1 .. Len(q) - 1
    BY <1>1, <1>3, <1>5
  <2>2. Tail(q)[1] = q[1] + 1 /\ Tail(q)[1] = q[2] /\ q[2] \in Message
    BY <1>1, <1>4, <2>1
  <2>3. Tail(q)[Len(q) - 1] = q[Len(q)]
    BY <1>1, <2>1
  <2>4. QED BY <1>1, <2>2, <2>3
<1>6. \A i \in DOMAIN Tail(q) : Tail(q)[i] = Tail(q)[1] + i - 1
  <2> TAKE i \in DOMAIN Tail(q)
  <2>1. i \in 1 .. Len(q) - 1 /\ 1 \in 1 .. Len(q) - 1
    BY <1>1
  <2>2. Tail(q)[i] = q[1] + i
    BY <1>4, <2>1
  <2>3. Tail(q)[1] = q[1] + 1
    BY <1>4, <2>1
  <2>4. i \in Nat
    BY <2>1
  <2>5. QED BY <1>2, <2>2, <2>3, <2>4
<1>7. QED BY <1>1, <1>2, <1>3, <1>5, <1>6

LEMMA RunWriteKeeps ==
    ASSUME WsInv, RunWrite
    PROVE  WsInv'
<1> DEFINE m == Head(strand).msg
<1>1. /\ strand # <<>> /\ Head(strand).kind = "write" /\ ~undefined /\ stage # "accepting"
      /\ strand \in Seq(Handler) /\ Head(strand) \in Handler /\ m \in Message
  <2>1. StrandHas("write")
    BY DEF RunWrite
  <2>2. QED BY <2>1, StrandRuns, HandlersTyped
<1>2. /\ strand' = Tail(strand)
      /\ UNCHANGED <<closed, open, reads, closing, delivered, stage, subscribed, posted, notified,
                     raced, undefined, peer>>
  BY DEF RunWrite, user
<1>3. ReadInv' /\ EndInv' /\ StageInv' /\ strand' \in Seq(Handler)
  BY <1>1, <1>2, RunKeepsRest
<1>4. CASE closed \/ ~open
  <2>1. UNCHANGED <<queue, writing, timer, wire>>
    BY <1>4 DEF RunWrite
  <2>2. ~open
    BY <1>4 DEF WsInv, ClosedInv
  <2>3. WriteInv' /\ ClosedInv'
    BY <1>1, <1>2, <2>1, <2>2, RunKeepsWrites
  <2>4. WsTypeOK' /\ DeliveredInOrder'
    BY <1>2, <1>3, <2>1 DEF WsInv, WsTypeOK, DeliveredInOrder
  <2>5. QED BY <1>3, <2>3, <2>4 DEF WsInv
<1>5. CASE ~closed /\ open
  <2> DEFINE longer == Append(queue, m)
  <2>1. timer' = IdleTimeout /\ queue' = longer /\ StartWrite(longer)
    BY <1>5 DEF RunWrite
  <2>2. queue \in Seq(Message) /\ delivered \in Seq(Message) /\ posted \in Nat /\ wire \in Seq(Message)
    BY SessionAssumption DEF WsInv, WsTypeOK
  <2>3. WritesFrom(strand, LastTaken, posted) /\ LastTaken \in Nat
    BY <1>5 DEF WsInv, WriteInv, WritesFrom
  <2>4. m = LastTaken + 1 /\ WritesFrom(Tail(strand), m, posted)
    BY <1>1, <2>2, <2>3, TailWrites
  <2> HIDE DEF m
  <2>5. /\ \A i \in DOMAIN queue : queue[i] = queue[1] + i - 1
        /\ writing <=> queue # <<>>
        /\ queue = <<>> => wire = <<>> /\ Bare(strand, {"written", "write_failed"})
        /\ queue # <<>> => AtWire \/ IsWritten
    BY <1>5 DEF WsInv, WriteInv, HasFailed
  <2>6. /\ longer \in Seq(Message) /\ longer # <<>> /\ longer[Len(longer)] = m
        /\ queue = <<>> => longer[1] = m /\ Head(longer) = m
        /\ queue # <<>> => longer[1] = queue[1]
        /\ \A i \in DOMAIN longer : longer[i] = longer[1] + i - 1
    <3>1. queue # <<>> => m = queue[Len(queue)] + 1
      BY <2>4 DEF LastTaken
    <3>2. QED BY <1>1, <2>2, <2>5, <3>1, QueueGrows
  <2> HIDE DEF longer
  <2>7. LastTaken' = m
    BY <2>1, <2>6 DEF LastTaken
  <2>8. ASSUME NEW K, Bare(strand, K) PROVE Bare(strand', K)
    BY <1>1, <1>2, <2>8, TailKinds
  <2>9. CASE queue = <<>>
    <3>1. writing' = TRUE /\ wire' = Append(wire, Head(longer)) /\ wire = <<>>
      BY <2>1, <2>5, <2>9 DEF StartWrite
    <3>2. wire' = <<m>> /\ m = Len(delivered) + 1 /\ queue'[1] = m
      BY <2>1, <2>4, <2>6, <2>9, <3>1 DEF LastTaken
    <3>3. AtWire'
      BY <1>2, <2>5, <2>8, <2>9, <3>2 DEF AtWire
    <3>4. wire' \in Seq(Message)
      BY <1>1, <3>2 DEF m
    <3>5. WriteInv'
      BY <1>1, <1>2, <2>1, <2>4, <2>6, <2>7, <3>1, <3>3 DEF WriteInv
    <3>6. WsTypeOK' /\ DeliveredInOrder'
      BY <1>2, <1>3, <2>1, <2>6, <3>1, <3>4, SessionAssumption
         DEF WsInv, WsTypeOK, DeliveredInOrder
    <3>7. ClosedInv'
      BY <1>2, <1>5 DEF ClosedInv
    <3>8. QED BY <1>3, <3>5, <3>6, <3>7 DEF WsInv
  <2>10. CASE queue # <<>>
    <3>1. UNCHANGED <<writing, wire>> /\ queue'[1] = queue[1] /\ writing
      BY <2>1, <2>5, <2>6, <2>10 DEF StartWrite
    <3>2. AtWire => AtWire'
      BY <1>2, <2>8, <3>1 DEF AtWire
    <3>3. ASSUME IsWritten PROVE IsWritten'
      <4>1. Single(strand', {"written"}) /\ Bare(strand', {"write_failed"})
        BY <1>1, <1>2, <3>3, TailKinds DEF IsWritten
      <4>2. \E i \in DOMAIN strand' : strand'[i].kind \in {"written"}
        <5>1. \E i \in DOMAIN strand : strand[i].kind \in {"written"}
          BY <3>3 DEF IsWritten
        <5>2. Head(strand).kind \notin {"written"}
          BY <1>1
        <5>3. QED BY <1>1, <1>2, <5>1, <5>2, TailKinds
      <4>3. QED BY <1>2, <3>1, <3>3, <4>1, <4>2 DEF IsWritten
    <3>4. WriteInv'
      BY <1>1, <1>2, <2>1, <2>4, <2>5, <2>6, <2>7, <2>10, <3>1, <3>2, <3>3 DEF WriteInv
    <3>5. WsTypeOK' /\ DeliveredInOrder'
      BY <1>2, <1>3, <2>1, <2>6, <3>1, SessionAssumption DEF WsInv, WsTypeOK, DeliveredInOrder
    <3>6. ClosedInv'
      BY <1>2, <1>5 DEF ClosedInv
    <3>7. QED BY <1>3, <3>4, <3>5, <3>6 DEF WsInv
  <2>11. QED BY <2>9, <2>10
<1>6. QED BY <1>4, <1>5

LEMMA RunWrittenKeeps ==
    ASSUME WsInv, RunWritten
    PROVE  WsInv'
<1>1. /\ strand # <<>> /\ Head(strand).kind = "written" /\ ~undefined /\ stage # "accepting"
      /\ strand \in Seq(Handler)
  <2>1. StrandHas("written")
    BY DEF RunWritten
  <2>2. QED BY <2>1, StrandRuns
<1>2. /\ strand' = Tail(strand)
      /\ UNCHANGED <<closed, timer, open, reads, closing, delivered, stage, subscribed, posted,
                     notified, raced, peer>>
  BY DEF RunWritten, user
<1>3. ReadInv' /\ EndInv' /\ StageInv' /\ strand' \in Seq(Handler)
  BY <1>1, <1>2, RunKeepsRest
<1>4. Head(strand).kind \in {"written", "write_failed"} /\ Head(strand).kind \in {"written"}
  BY <1>1
<1>5. CASE closed
  <2>1. queue = <<>> /\ wire = <<>> /\ ~writing /\ ~open
    BY <1>5 DEF WsInv, ClosedInv
  <2>2. undefined' = TRUE /\ UNCHANGED <<queue, wire, writing>>
    BY <2>1 DEF RunWritten
  <2>3. WriteInv' /\ ClosedInv'
    BY <1>2, <1>5, <2>1, <2>2 DEF WriteInv, ClosedInv
  <2>4. WsTypeOK' /\ DeliveredInOrder'
    BY <1>2, <1>3, <2>2 DEF WsInv, WsTypeOK, DeliveredInOrder
  <2>5. QED BY <1>3, <2>3, <2>4 DEF WsInv
<1>6. CASE ~closed
  <2>1. queue # <<>> /\ IsWritten
    <3>1. ~Bare(strand, {"written", "write_failed"}) /\ ~Bare(strand, {"written"})
      BY <1>1, <1>4, TailKinds
    <3>2. QED BY <1>6, <3>1 DEF WsInv, WriteInv, AtWire, HasFailed
  <2>2. undefined' = FALSE /\ NextWrite(queue)
    BY <2>1 DEF RunWritten
  <2>3. /\ queue \in Seq(Message) /\ \A i \in DOMAIN queue : queue[i] = queue[1] + i - 1
        /\ posted \in Nat
    BY <1>6, SessionAssumption DEF WsInv, WsTypeOK, WriteInv
  <2>4. /\ Tail(queue) \in Seq(Message) /\ queue[1] \in Nat
        /\ Tail(queue) = <<>> => queue[Len(queue)] = queue[1]
        /\ Tail(queue) # <<>> =>
              /\ Tail(queue)[1] = queue[1] + 1 /\ queue[2] = queue[1] + 1 /\ queue[2] \in Message
              /\ Tail(queue)[Len(Tail(queue))] = queue[Len(queue)]
        /\ \A i \in DOMAIN Tail(queue) : Tail(queue)[i] = Tail(queue)[1] + i - 1
    BY <2>1, <2>3, QueueShrinks
  <2> DEFINE left == Tail(queue)
  <2>5. /\ queue' = left /\ (writing' <=> left # <<>>) /\ wire = <<>>
        /\ wire' = IF left = <<>> THEN <<>> ELSE <<queue[2]>>
    <3>1. wire = <<>>
      BY <2>1 DEF IsWritten
    <3>2. queue' = left /\ wire' = IF left = <<>> THEN wire ELSE Append(wire, queue[2])
      BY <2>2 DEF NextWrite
    <3>3. writing' = (left # <<>>)
      BY <2>2 DEF NextWrite
    <3>4. Append(<<>>, queue[2]) = <<queue[2]>>
      OBVIOUS
    <3>5. wire' = IF left = <<>> THEN <<>> ELSE <<queue[2]>>
      BY <3>1, <3>2, <3>4
    <3>6. writing' <=> left # <<>>
      BY <3>3
    <3>7. QED BY <3>1, <3>2, <3>5, <3>6
  <2> HIDE DEF left
  <2>6. Bare(strand', {"written", "write_failed"})
    <3>1. Single(strand, {"written"}) /\ Bare(strand, {"write_failed"})
      BY <2>1 DEF IsWritten
    <3>2. Bare(Tail(strand), {"written"}) /\ Bare(Tail(strand), {"write_failed"})
      BY <1>1, <1>4, <3>1, TailKinds
    <3>3. QED BY <1>2, <3>2 DEF Bare
  <2>7. queue[1] = Len(delivered)
    BY <2>1 DEF IsWritten
  <2>8. left # <<>> => AtWire'
    BY <1>2, <2>4, <2>5, <2>6, <2>7 DEF AtWire, left
  <2>9. ASSUME open PROVE WritesFrom(strand', LastTaken', posted')
    <3>1. WritesFrom(strand, LastTaken, posted)
      BY <1>6, <2>9 DEF WsInv, WriteInv
    <3>2. WritesFrom(Tail(strand), LastTaken, posted)
      BY <1>1, <2>3, <3>1, TailWrites
    <3>3. LastTaken' = LastTaken
      BY <1>2, <2>1, <2>4, <2>5, <2>7 DEF LastTaken, left
    <3>4. QED BY <1>2, <3>2, <3>3
  <2>10. WriteInv'
    BY <1>2, <2>2, <2>4, <2>5, <2>6, <2>8, <2>9 DEF WriteInv, left
  <2>11. ClosedInv'
    BY <1>2, <1>6 DEF ClosedInv
  <2>12. WsTypeOK' /\ DeliveredInOrder'
    <3>1. wire' \in Seq(Message) /\ queue' \in Seq(Message) /\ writing' \in BOOLEAN
      <4>1. wire' \in Seq(Message)
        BY <2>4, <2>5 DEF left
      <4>2. writing' \in BOOLEAN
        BY <2>2 DEF NextWrite
      <4>3. QED BY <2>4, <2>5, <4>1, <4>2 DEF left
    <3>2. QED BY <1>2, <1>3, <2>2, <3>1 DEF WsInv, WsTypeOK, DeliveredInOrder
  <2>13. QED BY <1>3, <2>10, <2>11, <2>12 DEF WsInv
<1>7. QED BY <1>5, <1>6

-----------------------------------------------------------------------------
(* Reads and the end.                                                      *)

LEMMA RunReadKeeps ==
    ASSUME WsInv, RunRead
    PROVE  WsInv'
<1>1. /\ strand # <<>> /\ Head(strand).kind = "read" /\ ~undefined /\ stage # "accepting"
      /\ strand \in Seq(Handler) /\ Tail(strand) \in Seq(Handler)
  <2>1. StrandHas("read")
    BY DEF RunRead
  <2>2. QED BY <2>1, StrandRuns
<1>2. UNCHANGED <<delivered, stage, subscribed, posted, notified, undefined, peer>>
  BY DEF RunRead, user
<1>3. CASE FrameTaken
  <2>1. /\ strand' = Tail(strand) /\ reads' = reads + 1 /\ timer' = IdleTimeout
        /\ UNCHANGED <<closed, queue, writing, open, wire, closing, raced>>
    BY <1>3 DEF FrameTaken, Read
  <2>2. ReadInv' /\ EndInv' /\ StageInv' /\ strand' \in Seq(Handler)
    BY <1>1, <1>2, <2>1, RunKeepsRest
  <2>3. WriteInv' /\ ClosedInv'
    BY <1>1, <1>2, <2>1, RunKeepsWrites
  <2>4. WsTypeOK' /\ DeliveredInOrder'
    <3>1. reads' \in Nat /\ timer' \in 0 .. IdleTimeout
      BY <2>1, SessionAssumption DEF WsInv, WsTypeOK
    <3>2. QED BY <1>2, <2>1, <2>2, <3>1 DEF WsInv, WsTypeOK, DeliveredInOrder
  <2>5. QED BY <2>2, <2>3, <2>4 DEF WsInv
<1>4. CASE FrameThrows
  <2>1. PrepareClose(Tail(strand)) /\ UNCHANGED <<delivered, user, undefined, peer>>
    BY <1>4 DEF FrameThrows, RunRead
  <2>2. QED BY <1>1, <2>1, TailCloses
<1>5. CASE FrameCloses
  <2> DEFINE all == Tail(strand) \o Abort("write_failed", wire # <<>>)
  <2>1. /\ ~closed /\ closed' = TRUE /\ queue' = <<>> /\ writing' = FALSE /\ open' = FALSE
        /\ wire' = <<>> /\ strand' = all /\ closing' = TRUE
        /\ reads' = reads + 1 /\ timer' = IdleTimeout /\ raced' = WriteCompleted(Tail(strand))
    BY <1>5 DEF FrameCloses, Read
  <2>2. /\ reads \in {0, 1} /\ Single(strand, {"read"}) /\ (reads = 1 => Bare(strand, {"read"}))
        /\ Bare(strand, {"closed"}) /\ notified = 0 /\ Single(strand, {"closed"})
    BY <2>1 DEF WsInv, ReadInv, EndInv
  <2>3. /\ Bare(Tail(strand), {"read"}) /\ reads = 0 /\ Bare(Tail(strand), {"closed"})
    BY <1>1, <2>2, TailKinds
  <2>4. "write_failed" \in Kinds
    BY DEF Kinds
  <2>5. all \in Seq(Handler) /\ Bare(all, {"read"}) /\ Bare(all, {"closed"})
    BY <1>1, <2>3, <2>4, AbortKinds
  <2> HIDE DEF all
  <2>6. Single(all, {"read"}) /\ Single(all, {"closed"})
    BY <2>5 DEF Bare, Single
  <2>7. ReadInv'
    BY <2>1, <2>3, <2>5, <2>6 DEF ReadInv
  <2>8. EndInv'
    BY <1>2, <2>1, <2>2, <2>5, <2>6 DEF EndInv
  <2>9. WriteInv' /\ ClosedInv' /\ StageInv'
    BY <1>1, <1>2, <2>1 DEF WriteInv, ClosedInv, StageInv
  <2>10. WsTypeOK' /\ DeliveredInOrder'
    <3>1. <<>> \in Seq(Message) /\ timer' \in 0 .. IdleTimeout /\ reads' \in Nat
      BY <2>1, <2>3, SessionAssumption
    <3>2. WriteCompleted(Tail(strand)) \in BOOLEAN
      BY Zenon DEF WriteCompleted
    <3>3. QED BY <1>2, <2>1, <2>5, <3>1, <3>2 DEF WsInv, WsTypeOK, DeliveredInOrder
  <2>11. QED BY <2>7, <2>8, <2>9, <2>10 DEF WsInv
<1>6. QED BY <1>3, <1>4, <1>5 DEF RunRead

LEMMA RunEndKeeps ==
    ASSUME WsInv, RunEnding \/ RunWriteFailed
    PROVE  WsInv'
<1>1. strand # <<>> /\ PrepareClose(Tail(strand)) /\ UNCHANGED <<delivered, user, undefined, peer>>
  BY DEF RunEnding, RunWriteFailed, StrandHas
<1>2. QED BY <1>1, TailCloses

LEMMA RunClosedKeeps ==
    ASSUME WsInv, RunClosed
    PROVE  WsInv'
<1>1. /\ strand # <<>> /\ Head(strand).kind = "closed" /\ ~undefined /\ stage # "accepting"
  <2>1. StrandHas("closed")
    BY DEF RunClosed
  <2>2. QED BY <2>1, StrandRuns
<1>2. /\ strand' = Tail(strand)
      /\ UNCHANGED <<closed, queue, writing, timer, open, wire, reads, closing, delivered, stage,
                     posted, raced, undefined, peer>>
      /\ \/ notified' = notified + 1 /\ subscribed' = FALSE
         \/ UNCHANGED <<notified, subscribed>>
  BY DEF RunClosed, socket
<1>3. ReadInv' /\ EndInv' /\ StageInv' /\ strand' \in Seq(Handler)
  BY <1>1, <1>2, RunKeepsRest
<1>4. WriteInv' /\ ClosedInv'
  BY <1>1, <1>2, RunKeepsWrites
<1>5. WsTypeOK' /\ DeliveredInOrder'
  <2>1. notified' \in Nat
    BY <1>2 DEF WsInv, WsTypeOK
  <2>2. subscribed' \in BOOLEAN
    BY <1>2, Zenon DEF WsInv, WsTypeOK
  <2>3. QED BY <1>2, <1>3, <2>1, <2>2 DEF WsInv, WsTypeOK, DeliveredInOrder
<1>6. QED BY <1>3, <1>4, <1>5 DEF WsInv

LEMMA WsStarts == WsInit => WsInv
<1> SUFFICES ASSUME WsInit PROVE WsInv
  OBVIOUS
<1>1. \A K : Bare(<<>>, K) /\ Single(<<>>, K)
  BY DEF Bare, Single
<1>2. WsTypeOK
  <2>1. <<>> \in Seq(Handler)
    OBVIOUS
  <2>2. <<>> \in Seq(Message)
    OBVIOUS
  <2>3. 0 \in 0 .. IdleTimeout /\ 0 \in 0 .. MaxMessages
    BY SessionAssumption
  <2>4. QED BY <2>1, <2>2, <2>3 DEF WsInit, WsTypeOK
<1>3. DeliveredInOrder
  BY DEF WsInit, DeliveredInOrder
<1>4. WriteInv /\ ClosedInv /\ StageInv
  BY <1>1 DEF WsInit, WriteInv, ClosedInv, StageInv
<1>5. ReadInv /\ EndInv
  BY <1>1 DEF WsInit, ReadInv, EndInv
<1>6. QED BY <1>2, <1>3, <1>4, <1>5 DEF WsInv

-----------------------------------------------------------------------------
(* An empty queue is popped after a race only.                              *)

\* What a closed session's strand holds of completed writes it held when it was closed.
RaceInv ==
    /\ UndefinedOnlyByRace
    /\ closed /\ ~raced => Bare(strand, {"written"})

\* A close records what the strand holds.
LEMMA ClosingRecords ==
    ASSUME RaceInv, NEW rest \in Seq(Handler), ~undefined, ~undefined',
           Bare(strand, {"written"}) => Bare(rest, {"written"}),
           PrepareClose(rest)
    PROVE  RaceInv'
<1>1. CASE closed
  <2>1. strand' = rest /\ UNCHANGED <<closed, raced>>
    BY <1>1 DEF PrepareClose
  <2>2. QED BY <1>1, <2>1 DEF RaceInv, UndefinedOnlyByRace
<1>2. CASE ~closed
  <2> DEFINE first == rest \o Abort("read_failed", reads > 0)
  <2>1. /\ raced' = WriteCompleted(rest)
        /\ strand' = first \o Abort("write_failed", wire # <<>>)
    BY <1>2 DEF PrepareClose
  <2>2. ASSUME ~raced' PROVE Bare(strand', {"written"})
    <3>1. Bare(rest, {"written"})
      BY <2>1, <2>2 DEF WriteCompleted, Bare
    <3>2. {"read_failed", "write_failed"} \subseteq Kinds /\ (reads > 0) \in BOOLEAN
          /\ (wire # <<>>) \in BOOLEAN
      BY DEF Kinds
    <3>3. first \in Seq(Handler) /\ Bare(first, {"written"})
      BY <3>1, <3>2, AbortKinds
    <3> HIDE DEF first
    <3>4. QED BY <2>1, <3>2, <3>3, AbortKinds
  <2>3. QED BY <2>2 DEF RaceInv, UndefinedOnlyByRace
<1>3. QED BY <1>1, <1>2

\* What comes onto a strand by itself is no completed write, but for the one of a write under
\* way, and then the session is open.
LEMMA AddingKeepsRace ==
    ASSUME WsInv, RaceInv, NEW h \in Handler, strand' = Append(strand, h),
           h.kind # "written" \/ ~closed, UNCHANGED <<closed, raced, undefined>>
    PROVE  RaceInv'
<1>1. strand \in Seq(Handler)
  BY DEF WsInv, WsTypeOK
<1>2. h.kind # "written" => h.kind \notin {"written"}
  OBVIOUS
<1>3. Bare(strand, {"written"}) /\ h.kind # "written" => Bare(strand', {"written"})
  BY <1>1, <1>2, AppendKinds
<1>4. QED BY <1>3 DEF RaceInv, UndefinedOnlyByRace

LEMMA RaceStep ==
    ASSUME WsInv, RaceInv, [WsNext]_wsVars
    PROVE  RaceInv'
<1>1. strand \in Seq(Handler) /\ (undefined => closed)
  BY DEF WsInv, WsTypeOK, WriteInv
<1>2. ASSUME strand # <<>>
      PROVE  Tail(strand) \in Seq(Handler)
             /\ (Bare(strand, {"written"}) => Bare(Tail(strand), {"written"}))
  BY <1>1, <1>2, StrandTail, TailKinds
<1>3. CASE OpenStream \/ Refuse \/ PeerChanges \/ UNCHANGED wsVars
  <2>1. UNCHANGED <<strand, closed, raced, undefined>>
    BY <1>3 DEF OpenStream, Refuse, PeerChanges, wsVars
  <2>2. QED BY <2>1 DEF RaceInv, UndefinedOnlyByRace, Bare
<1>4. CASE TurnAway
  <2> DEFINE h == [kind |-> "write", msg |-> posted + 1]
             rest == Append(strand, h)
  <2>1. strand = <<>> /\ posted = 0 /\ ~undefined /\ UNCHANGED undefined /\ PrepareClose(rest)
    BY <1>4 DEF TurnAway, WsInv, StageInv
  <2>2. h \in Handler /\ h.kind \notin {"written"}
    <3>1. posted + 1 \in Message
      BY <2>1, SessionAssumption DEF Message
    <3>2. QED BY <3>1, HandlersTyped
  <2> HIDE DEF h
  <2>3. rest \in Seq(Handler) /\ (Bare(strand, {"written"}) => Bare(rest, {"written"}))
    BY <1>1, <2>2, StrandAppend, AppendKinds
  <2> HIDE DEF rest
  <2>4. QED BY <2>1, <2>3, ClosingRecords
<1>5. CASE TopicMessage
  <2> DEFINE h == [kind |-> "write", msg |-> posted + 1]
  <2>1. h \in Handler /\ h.kind # "written"
    <3>1. posted + 1 \in Message
      BY <1>5, SessionAssumption DEF TopicMessage, WsInv, WsTypeOK, Message
    <3>2. QED BY <3>1, HandlersTyped
  <2>2. strand' = Append(strand, h) /\ UNCHANGED <<closed, raced, undefined>>
    BY <1>5 DEF TopicMessage
  <2> HIDE DEF h
  <2>3. QED BY <2>1, <2>2, AddingKeepsRace
<1>6. ASSUME NEW k \in {"close", "read", "read_failed", "write_failed", "closed", "expired"},
             strand' = Append(strand, [kind |-> k]), UNCHANGED <<closed, raced, undefined>>
      PROVE  RaceInv'
  <2> DEFINE h == [kind |-> k]
  <2>1. h \in Handler /\ h.kind # "written"
    <3>1. k \in Kinds
      BY <1>6 DEF Kinds
    <3>2. QED BY <1>6, <3>1, HandlersTyped
  <2> HIDE DEF h
  <2>2. strand' = Append(strand, h)
    BY <1>6 DEF h
  <2>3. QED BY <1>6, <2>1, <2>2, AddingKeepsRace
<1>7. CASE CloseCall \/ FrameArrives \/ ReadEnds \/ WriteFails \/ CloseEnds
  <2>1. \E k \in {"close", "read", "read_failed", "write_failed", "closed"} :
            strand' = Append(strand, [kind |-> k])
    BY <1>7 DEF CloseCall, FrameArrives, ReadEnds, WriteFails, CloseEnds, Complete
  <2>2. UNCHANGED <<closed, raced, undefined>>
    BY <1>7 DEF CloseCall, FrameArrives, ReadEnds, WriteFails, CloseEnds
  <2>3. QED BY <1>6, <2>1, <2>2
<1>8. CASE TimePasses
  <2>1. UNCHANGED <<closed, raced, undefined>>
    BY <1>8 DEF TimePasses
  <2>2. CASE timer = 1
    BY <1>6, <1>8, <2>1, <2>2 DEF TimePasses, Complete
  <2>3. CASE timer # 1
    <3>1. UNCHANGED strand
      BY <1>8, <2>3 DEF TimePasses
    <3>2. QED BY <2>1, <3>1 DEF RaceInv, UndefinedOnlyByRace, Bare
  <2>4. QED BY <2>2, <2>3
<1>9. CASE WriteSucceeds
  <2> DEFINE h == [kind |-> "written"]
  <2>1. h \in Handler
    <3>1. "written" \in Kinds
      BY DEF Kinds
    <3>2. QED BY <3>1, HandlersTyped
  <2>2. /\ strand' = Append(strand, h) /\ wire # <<>>
        /\ UNCHANGED <<closed, raced, undefined>>
    BY <1>9 DEF WriteSucceeds, Complete
  <2> HIDE DEF h
  <2>3. ~closed
    BY <2>2, UnderWay
  <2>4. QED BY <2>1, <2>2, <2>3, AddingKeepsRace
<1>10. CASE RunWrite \/ RunClosed
  <2>1. strand # <<>> /\ strand' = Tail(strand) /\ UNCHANGED <<closed, raced, undefined>>
    BY <1>10 DEF RunWrite, RunClosed, StrandHas
  <2>2. QED BY <1>2, <2>1 DEF RaceInv, UndefinedOnlyByRace
<1>11. CASE RunWritten
  <2>1. StrandHas("written") /\ strand' = Tail(strand) /\ UNCHANGED <<closed, raced>>
    BY <1>11 DEF RunWritten
  <2>2. strand # <<>> /\ Head(strand).kind = "written"
    BY <2>1, StrandRuns
  <2>3. Head(strand).kind \in {"written"}
    BY <2>2
  <2>4. ~Bare(strand, {"written"})
    BY <1>1, <2>2, <2>3, TailKinds
  <2>5. ASSUME ~closed PROVE ~undefined'
    <3>1. WsInv'
      BY <1>11, RunWrittenKeeps
    <3>2. QED BY <2>1, <2>5, <3>1 DEF WsInv, WriteInv
  <2>6. closed => raced
    BY <2>4 DEF RaceInv
  <2>7. QED BY <2>1, <2>5, <2>6 DEF RaceInv, UndefinedOnlyByRace
<1>12. CASE RunEnding \/ RunWriteFailed \/ (RunRead /\ FrameThrows)
  <2>1. strand # <<>> /\ ~undefined /\ UNCHANGED undefined /\ PrepareClose(Tail(strand))
    BY <1>12 DEF RunEnding, RunWriteFailed, RunRead, FrameThrows, StrandHas
  <2>2. QED BY <1>2, <2>1, ClosingRecords
<1>13. CASE RunRead /\ FrameTaken
  <2>1. strand # <<>> /\ strand' = Tail(strand) /\ UNCHANGED <<closed, raced, undefined>>
    BY <1>13 DEF RunRead, FrameTaken, StrandHas
  <2>2. QED BY <1>2, <2>1 DEF RaceInv, UndefinedOnlyByRace
<1>14. CASE RunRead /\ FrameCloses
  <2>1. /\ strand # <<>> /\ ~undefined /\ UNCHANGED undefined
        /\ raced' = WriteCompleted(Tail(strand))
        /\ strand' = Tail(strand) \o Abort("write_failed", wire # <<>>)
    BY <1>14 DEF RunRead, FrameCloses, StrandHas
  <2>2. ASSUME ~raced' PROVE Bare(strand', {"written"})
    <3>1. Bare(Tail(strand), {"written"})
      BY <2>1, <2>2 DEF WriteCompleted, Bare
    <3>2. "write_failed" \in Kinds /\ (wire # <<>>) \in BOOLEAN
      BY DEF Kinds
    <3>3. QED BY <1>2, <2>1, <3>1, <3>2, AbortKinds
  <2>3. QED BY <2>1, <2>2 DEF RaceInv, UndefinedOnlyByRace
<1>15. RunRead => FrameTaken \/ FrameThrows \/ FrameCloses
  BY DEF RunRead
<1>16. QED
  BY <1>3, <1>4, <1>5, <1>7, <1>8, <1>9, <1>10, <1>11, <1>12, <1>13, <1>14, <1>15 DEF WsNext, Run

\* Messages, failures, expiries and closing come in any order, and what reaches the client is
\* in order, with one operation of each kind on the socket; the close handler runs once; the
\* queue is popped empty in one way only, by a write that had completed when the session was
\* closed (write_raw, do_write, prepare_close).
THEOREM StreamsAlwaysSound == WsSpec => []SessionSound
<1>1. WsInv /\ [WsNext]_wsVars => WsInv'
  BY ConnectedKeeps, TurnAwayKeeps, MessageKeeps, OthersPut, TimeKeeps, SuccessKeeps, FailureKeeps,
     RunWriteKeeps, RunWrittenKeeps, RunReadKeeps, RunEndKeeps, RunClosedKeeps DEF WsNext, Run
<1>2. WsInv /\ RaceInv => SessionSound
  <2> SUFFICES ASSUME WsInv, RaceInv PROVE SessionSound
    OBVIOUS
  <2>1. OneOperationEach
    <3>1. Len(wire) <= 1
      <4>1. CASE wire = <<>>
        BY <4>1
      <4>2. CASE wire # <<>>
        <5>1. wire = <<queue[1]>>
          BY <4>2, UnderWay
        <5>2. QED BY <5>1
      <4>3. QED BY <4>1, <4>2
    <3>2. reads <= 1
      BY DEF WsInv, ReadInv
    <3>3. QED BY <3>1, <3>2 DEF OneOperationEach
  <2>2. WrittenIsFront
    <3> SUFFICES ASSUME ~closed, NEW i \in DOMAIN strand, strand[i].kind = "written"
                 PROVE  queue # <<>> /\ Head(queue) = delivered[Len(delivered)]
      BY DEF WrittenIsFront, WsInv, WriteInv
    <3>1. ~Bare(strand, {"written", "write_failed"}) /\ ~Bare(strand, {"written"})
      BY DEF Bare
    <3>2. queue # <<>> /\ queue[1] = Len(delivered)
      BY <3>1 DEF WsInv, WriteInv, AtWire, IsWritten, HasFailed
    <3>3. queue \in Seq(Message) /\ delivered \in Seq(Message) /\ DeliveredInOrder
      BY DEF WsInv, WsTypeOK
    <3>4. queue[1] \in Message /\ Head(queue) = queue[1]
      BY <3>2, <3>3
    <3>5. queue[1] \in Nat /\ queue[1] >= 1
      BY <3>4, SessionAssumption DEF Message
    <3>6. Len(delivered) \in DOMAIN delivered
      BY <3>2, <3>3, <3>5
    <3>7. QED BY <3>2, <3>3, <3>4, <3>6 DEF DeliveredInOrder
  <2>3. NotifiedOnce
    BY DEF WsInv, EndInv, NotifiedOnce
  <2>4. QED BY <2>1, <2>2, <2>3 DEF WsInv, RaceInv, SessionSound
<1>3. WsInit => RaceInv
  BY DEF WsInit, RaceInv, UndefinedOnlyByRace
<1>4. WsInv /\ RaceInv /\ [WsNext]_wsVars => RaceInv'
  BY RaceStep
<1>5. QED BY <1>1, <1>2, <1>3, <1>4, WsStarts, PTL DEF WsSpec
=============================================================================
