---------------------------- MODULE MCHttpServer ----------------------------
\* The bridge between browser and ROS: the parts that keep state of their own. They
\* meet only in calls that hand a value over, so each is explored by itself: the first
\* state picks the part that runs.
EXTENDS HttpSession, Router, NodeRegistry, RateLimiter, WsSession, MsgJson

CONSTANTS c1, n1, q1

VARIABLE part

rosVars == <<registryVars, limiterVars>>
otherVars == <<wsVars, jsonVars>>
vars == <<part, httpVars, routerVars, rosVars, otherVars>>

Param(n) == [kind |-> "param", name |-> n]
All(n) == [kind |-> "all", name |-> n]
Bad == [kind |-> "bad", name |-> "{"]

Patterns == {<<>>, <<Static("a")>>, <<Static("a"), Static("b")>>, <<Static("a"), Param("x")>>,
             <<Param("x"), Static("b")>>, <<Param("y")>>, <<Static("a"), All("x")>>,
             <<Param("x"), Param("x")>>, <<Param("x"), Static("a"), Bad>>}
Paths == UNION {[1 .. k -> {"a", "b"}] : k \in 0 .. 3}

\* Messages with every shape of member; "odd" holds what the code has no JSON for.
Member(n, kind, shape, size, type) ==
    [name |-> n, kind |-> kind, shape |-> shape, size |-> size, type |-> type]
Schemas ==
    [outer |-> <<Member("flag", "integer", "one", 0, ""),
                 Member("inner", "message", "one", 0, "inner"),
                 Member("inners", "message", "dynamic", 0, "inner"),
                 Member("pair", "real", "fixed", 2, "")>>,
     inner |-> <<Member("name", "wide", "one", 0, ""), Member("tags", "string", "dynamic", 0, "")>>,
     odd |-> <<Member("words", "wide", "dynamic", 0, "")>>]
Inner(units, tags) == Object([name |-> Text(units), tags |-> Array(tags)])
Outer(flag, inner, inners, pair) ==
    [type |-> "outer", tree |-> Object([flag |-> Number(flag), inner |-> inner,
                                        inners |-> Array(inners), pair |-> Array(pair)])]
In1 == Inner(<<65, 200>>, <<>>)
In2 == Inner(<<2050>>, <<Text(<<66>>), Text(<<67>>)>>)
MessageSet ==
    {Outer(0, In1, <<>>, <<Number(1), Number(2)>>),
     Outer(3, In2, <<In1, In2>>, <<Number(0), Number(0)>>),
     Outer(1, In1, <<In2>>, <<NotANumber, Number(1)>>),
     [type |-> "odd", tree |-> Object([words |-> Array(<<Text(<<65>>)>>)])]}
LeafSet == {Null, Number(5), Text(<<65>>)}

\* A part that does not run is left at one of the states it may start in.
Init ==
    /\ part \in {"sessions", "routes", "nodes", "rate", "streams", "json"}
    /\ HttpInit
    /\ part # "sessions" => \A c \in Conn : ~client[c].pipelines
    /\ RouterInit /\ RegistryInit /\ LimiterInit /\ WsInit /\ JsonInit

Next ==
    \/ part = "sessions" /\ HttpNext /\ UNCHANGED <<part, routerVars, rosVars, otherVars>>
    \/ part = "routes" /\ RouterNext /\ UNCHANGED <<part, httpVars, rosVars, otherVars>>
    \/ /\ part = "nodes" /\ RegistryNext
       /\ UNCHANGED <<part, httpVars, routerVars, limiterVars, otherVars>>
    \/ /\ part = "rate" /\ LimiterNext
       /\ UNCHANGED <<part, httpVars, routerVars, registryVars, otherVars>>
    \/ part = "streams" /\ WsNext /\ UNCHANGED <<part, httpVars, routerVars, rosVars, jsonVars>>
    \/ part = "json" /\ JsonNext /\ UNCHANGED <<part, httpVars, routerVars, rosVars, wsVars>>

\* A part that rests in its initial state has no fair action enabled.
Spec == Init /\ [][Next]_vars /\ HttpFairness /\ RegistryFairness /\ WsFairness

\* A topic stream is sent in order, one operation at a time, and within its byte budget;
\* its messages are shown whole, and what is read back is what was written
\* (base_ws_session, rate_limiter, msg_json).
StreamServed == SessionSound /\ RateKept /\ JsonShowsMessage /\ TakenAsSaid /\ RoundTrip
=============================================================================
