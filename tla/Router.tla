------------------------------- MODULE Router -------------------------------
(***************************************************************************)
(* The router of clover2_http: one trie of routes per verb, one of         *)
(* middleware. Routes are registered when the plugins are loaded, before   *)
(* the server listens; a registration that throws is logged and leaves     *)
(* what it had inserted. Requests only search.                             *)
(***************************************************************************)
EXTENDS Naturals, Sequences, SequencesExt, FiniteSets

CONSTANTS
    Verb,        \* HTTP verbs in use
    Pattern,     \* patterns a plugin may register: sequences of tokens
    Middleware,  \* middleware creators
    Path         \* request paths: sequences of segments

ASSUME RouterAssumption ==
    /\ \A p \in Pattern : p \in Seq([kind : {"static", "param", "all", "bad"}, name : STRING])
    /\ \A segs \in Path : segs \in Seq(STRING)

VARIABLES
    routeTrie,  \* m_http_tries
    mwTrie,     \* m_middleware_trie, whose handlers are lists of creators
    mwDepth,    \* m_max_mw_depth
    routes,     \* history: the patterns registered without an exception
    planted     \* history: the ways through a trie that registrations laid

routerVars == <<routeTrie, mwTrie, mwDepth, routes, planted>>

\* A token of a pattern is a static segment, a parameter {name}, a catch-all {name...},
\* or malformed. A node of a trie is the sequence of edges that leads to it: an edge is
\* a segment, or whatever comes.
Static(name) == [kind |-> "static", name |-> name]
Wild(kind) == [kind |-> kind, name |-> ""]
Edge(token) == IF token.kind \in {"param", "all"} THEN Wild(token.kind) ELSE Static(token.name)

\* The way of the first i tokens of a pattern through the trie.
Way(pattern, i) == [j \in 1 .. i |-> Edge(pattern[j])]
Edges(pattern) == Way(pattern, Len(pattern))

\* A map with one entry more, or another.
Bound(f, x, y) == [z \in DOMAIN f \cup {x} |-> IF z = x THEN y ELSE f[z]]

EmptyTrie == [nodes |-> {<<>>}, name |-> <<>>, handler |-> <<>>]

RouterInit ==
    /\ routeTrie = [v \in Verb |-> EmptyTrie]
    /\ mwTrie = EmptyTrie
    /\ mwDepth = 0
    /\ routes = [v \in Verb |-> {}]
    /\ planted = [v \in Verb |-> {<<>>}]

-----------------------------------------------------------------------------
(* trie.hpp                                                                *)

\* fill_parameter(), fill_catch_all(): the name of such a node is that of its first route.
Conflicts(trie, node, name) == node \in trie.nodes /\ trie.name[node] # name

\* The tokens of a pattern insert() gets through before one makes it throw.
Accepted(trie, pattern) ==
    LET ok(i) ==
            /\ pattern[i].kind # "bad"
            /\ pattern[i].kind = "all" => i = Len(pattern)
            /\ pattern[i].kind \in {"param", "all"} =>
                   ~Conflicts(trie, Way(pattern, i), pattern[i].name)
    IN  CHOOSE k \in 0 .. Len(pattern) :
            /\ \A i \in 1 .. k : ok(i)
            /\ k < Len(pattern) => ~ok(k + 1)

\* The nodes insert() makes for the tokens it gets through.
Grown(trie, pattern) ==
    LET made == {Way(pattern, i) : i \in 0 .. Accepted(trie, pattern)}
        named == {Way(pattern, i) : i \in {j \in 1 .. Accepted(trie, pattern) :
                                               pattern[j].kind \in {"param", "all"}}}
    IN  [trie EXCEPT !.nodes = @ \cup made,
                     !.name = [n \in DOMAIN @ \cup named |->
                                   IF n \in DOMAIN @ THEN @[n] ELSE pattern[Len(n)].name]]

Throws(trie, pattern) == Accepted(trie, pattern) < Len(pattern)
Taken(trie, pattern) == Edges(pattern) \in DOMAIN trie.handler

\* insert()
Inserted(trie, pattern, handler) ==
    IF Throws(trie, pattern) \/ Taken(trie, pattern)
    THEN Grown(trie, pattern)
    ELSE [Grown(trie, pattern) EXCEPT !.handler = Bound(@, Edges(pattern), handler)]

\* Fault: a parameter is preferred to a static segment.
StepParamFirst(trie, segs, acc, i) ==
    LET to(edge) == Append(acc.node, edge) IN
    IF acc.done THEN acc
    ELSE IF to(Wild("param")) \in trie.nodes
    THEN [acc EXCEPT !.node = to(Wild("param")),
                     !.params = Bound(@, trie.name[to(Wild("param"))], <<segs[i]>>)]
    ELSE IF to(Static(segs[i])) \in trie.nodes THEN [acc EXCEPT !.node = to(Static(segs[i]))]
    ELSE [acc EXCEPT !.found = FALSE, !.done = TRUE]

\* One turn of the loop of search(): static child, else parameter, else catch-all, which
\* takes the rest; the way chosen is never left again.
Step(trie, segs, acc, i) ==
    LET to(edge) == Append(acc.node, edge) IN
    IF acc.done THEN acc
    ELSE IF to(Static(segs[i])) \in trie.nodes THEN [acc EXCEPT !.node = to(Static(segs[i]))]
    ELSE IF to(Wild("param")) \in trie.nodes
    THEN [acc EXCEPT !.node = to(Wild("param")),
                     !.params = Bound(@, trie.name[to(Wild("param"))], <<segs[i]>>)]
    ELSE IF to(Wild("all")) \in trie.nodes
    THEN [acc EXCEPT !.node = to(Wild("all")), !.done = TRUE,
                     !.params = Bound(@, trie.name[to(Wild("all"))], SubSeq(segs, i, Len(segs)))]
    ELSE [acc EXCEPT !.found = FALSE, !.done = TRUE]

\* Where the loop is after each segment.
Walk(trie, segs) ==
    LET at[i \in 0 .. Len(segs)] ==
            IF i = 0 THEN [node |-> <<>>, params |-> <<>>, found |-> TRUE, done |-> FALSE]
                     ELSE Step(trie, segs, at[i - 1], i)
    IN  at

\* search(): the handler and the parameters, or not found.
Search(trie, segs) ==
    LET acc == Walk(trie, segs)[Len(segs)]
    IN  IF acc.found /\ acc.node \in DOMAIN trie.handler
        THEN [found |-> TRUE, handler |-> trie.handler[acc.node], params |-> acc.params]
        ELSE [found |-> FALSE]

-----------------------------------------------------------------------------
(* router.cpp                                                              *)

\* The middleware of a request: of every prefix of its path, shortest first.
Chain(segs) ==
    LET at(len) == LET r == Search(mwTrie, SubSeq(segs, 1, len))
                   IN  IF r.found THEN r.handler ELSE <<>>
    IN  FlattenSeq([k \in 1 .. (IF Len(segs) < mwDepth THEN Len(segs) ELSE mwDepth) + 1 |->
                        at(k - 1)])

\* dispatch_http(): a preflight is answered by the first middleware (cors), anything else
\* gets through to its handler, or to a 404.
Dispatched(verb, segs, preflight) ==
    LET r == Search(routeTrie[verb], segs) IN
    IF preflight /\ Chain(segs) # <<>> THEN [status |-> 204, ran |-> <<Head(Chain(segs))>>]
    ELSE IF r.found THEN [status |-> 200, ran |-> Chain(segs), handler |-> r.handler]
    ELSE [status |-> 404, ran |-> Chain(segs)]

\* add_http_route() throws when insert() does, and when the route exists.
AddHttpRoute(v, p) ==
    LET trie == routeTrie[v] IN
    /\ routeTrie' = [routeTrie EXCEPT ![v] = Inserted(trie, p, p)]
    /\ routes' = [routes EXCEPT ![v] = @ \cup (IF Throws(trie, p) THEN {} ELSE {p})]
    /\ planted' = [planted EXCEPT ![v] =
                       @ \cup {Way(p, i) : i \in 0 .. Accepted(trie, p)}]
    /\ UNCHANGED <<mwTrie, mwDepth>>

\* add_middleware(): a pattern with a catch-all is refused at once; one that is there
\* already gets one more creator.
AddMiddleware(p, m) ==
    /\ \A i \in DOMAIN p : p[i].kind # "all"
    /\ mwTrie' =
           IF Throws(mwTrie, p) THEN Grown(mwTrie, p)
           ELSE IF Taken(mwTrie, p)
                THEN [mwTrie EXCEPT !.handler[Edges(p)] = Append(@, m)]
                ELSE Inserted(mwTrie, p, <<m>>)
    /\ mwDepth' = IF ~Throws(mwTrie, p) /\ Len(p) > mwDepth THEN Len(p) ELSE mwDepth
    /\ UNCHANGED <<routeTrie, routes, planted>>

-----------------------------------------------------------------------------
\* Bounds of the model: a creator is registered once, a pattern tried once per verb.
Registered == {m \in Middleware : \E n \in DOMAIN mwTrie.handler :
                                      \E i \in DOMAIN mwTrie.handler[n] : mwTrie.handler[n][i] = m}

RouterNext ==
    \/ \E v \in Verb, p \in Pattern : AddHttpRoute(v, p)
    \/ \E p \in Pattern, m \in Middleware \ Registered : AddMiddleware(p, m)

RouterSpec == RouterInit /\ [][RouterNext]_routerVars

-----------------------------------------------------------------------------
(* Properties, against what a pattern means.                               *)

Fits(token, seg) == token.kind # "static" \/ token.name = seg

Matches(pattern, segs) ==
    IF pattern # <<>> /\ Last(pattern).kind = "all"
    THEN /\ Len(segs) >= Len(pattern)
         /\ \A i \in DOMAIN pattern : Fits(pattern[i], segs[i])
    ELSE /\ Len(segs) = Len(pattern)
         /\ \A i \in DOMAIN pattern : Fits(pattern[i], segs[i])

\* Some way laid by a registration, also a failed one, leaves that of the pattern at a
\* segment for an edge search() prefers.
Shadowed(v, pattern, segs) ==
    \E i \in DOMAIN pattern :
        LET laid(edge) == Append(Way(pattern, i - 1), edge) \in planted[v] IN
        \/ pattern[i].kind # "static" /\ laid(Static(segs[i]))
        \/ pattern[i].kind = "all" /\ laid(Wild("param"))

\* A request reaches the one registered route that matches its path and is nowhere
\* shadowed, in whatever order the routes came; otherwise it gets a 404, also when a
\* shadowed route matches.
SearchIsPreferred ==
    \A v \in Verb, segs \in Path :
        LET best == {p \in routes[v] : Matches(p, segs) /\ ~Shadowed(v, p, segs)}
            r == Search(routeTrie[v], segs)
        IN  IF r.found THEN r.handler \in best /\ \A p \in best : Edges(p) = Edges(r.handler)
                       ELSE best = {}

\* The handler is given what its own pattern names: a parameter is its segment, the last
\* one when a name is used twice, a catch-all everything that is left.
ParametersBound ==
    \A v \in Verb, segs \in Path :
        LET r == Search(routeTrie[v], segs) IN
        r.found =>
            LET p == r.handler
                named(n) == {i \in DOMAIN p : p[i].kind \in {"param", "all"} /\ p[i].name = n}
                last(n) == CHOOSE i \in named(n) : \A j \in named(n) : j <= i
            IN  /\ DOMAIN r.params = {p[i].name : i \in {j \in DOMAIN p : p[j].kind # "static"}}
                /\ \A n \in DOMAIN r.params :
                       r.params[n] = IF p[last(n)].kind = "all"
                                     THEN SubSeq(segs, last(n), Len(segs))
                                     ELSE <<segs[last(n)]>>

\* Every answer, a preflight or a 404 too, has passed the middleware of the root first,
\* in the order of registration.
RootMiddlewareFirst ==
    <<>> \in DOMAIN mwTrie.handler =>
        \A v \in Verb, segs \in Path, preflight \in BOOLEAN :
            LET d == Dispatched(v, segs, preflight) IN
            IF d.status = 204 THEN d.ran = <<Head(mwTrie.handler[<<>>])>>
                              ELSE IsPrefix(mwTrie.handler[<<>>], d.ran)

\* A request is answered as the patterns of the plugins say, whatever the order in which
\* they were registered and whichever registrations failed half-way (trie::insert,
\* trie::search, router::dispatch_http; search() takes no way back).
RequestsRouted == SearchIsPreferred /\ ParametersBound /\ RootMiddlewareFirst
=============================================================================
