---------------------------- MODULE NodeRegistry ----------------------------
(***************************************************************************)
(* What ros_support knows of the nodes of the ROS graph. A thread waits    *)
(* for graph events and restarts a timer; the timer's callback brings the  *)
(* registry of node clients up to date; a client learns the lifecycle      *)
(* state of its node from one answer of get_state and from events, on the  *)
(* executor; HTTP requests call the services of the node.                  *)
(***************************************************************************)
EXTENDS Naturals, FiniteSets

CONSTANTS
    Node,       \* node names
    HttpCall,   \* HTTP requests about the lifecycle of a node
    MaxLives,   \* bound on how often a node is started
    MaxMoves    \* bound on the transitions of a node by somebody else

ASSUME RegistryAssumption == Node # {} /\ MaxLives \in Nat \ {0} /\ MaxMoves \in Nat

VARIABLES
    graph,     \* the nodes as they are
    lives,     \* starts of a node so far
    moves,     \* transitions of nodes by others so far
    event,     \* the graph event of the listener is set
    woken,     \* the thread has cleared it and not yet restarted the timer
    armed,     \* the timer of the listener waits
    updating,  \* the timer's callback runs: the timer is cancelled, update() under way
    present,   \* the nodes update() has seen
    known,     \* m_nodes: the client of a node
    call       \* the HTTP requests

registryVars == <<graph, lives, moves, event, woken, armed, updating, present, known, call>>

State == {"unconfigured", "inactive", "active", "finalized"}
Unknown == "unknown"

\* The transitions of a lifecycle node by id; one that does not start where the node is
\* gets refused.
Transition == [configure |-> <<"unconfigured", "inactive">>,
               activate |-> <<"inactive", "active">>,
               unconfigured_shutdown |-> <<"unconfigured", "finalized">>,
               inactive_shutdown |-> <<"inactive", "finalized">>,
               active_shutdown |-> <<"active", "finalized">>]
TransitionId == DOMAIN Transition
From(id) == Transition[id][1]
Goal(id) == Transition[id][2]

NoClient == [lifecycle |-> FALSE, there |-> FALSE, matched |-> FALSE, state |-> Unknown,
             ask |-> "none", answer |-> Unknown, behind |-> FALSE, queued |-> Unknown,
             excuse |-> FALSE]
NoCall == [stage |-> "none", node |-> CHOOSE n \in Node : TRUE, list |-> FALSE,
           id |-> "configure", shutdown |-> FALSE, knew |-> FALSE, status |-> 0]

RegistryTypeOK ==
    /\ graph \in [Node -> [alive : BOOLEAN, services : BOOLEAN, state : State]]
    /\ lives \in [Node -> 0 .. MaxLives]
    /\ moves \in 0 .. MaxMoves
    /\ {event, woken, armed, updating} \subseteq BOOLEAN /\ present \subseteq Node
    /\ known \in [Node -> [lifecycle : BOOLEAN, there : BOOLEAN, matched : BOOLEAN,
                           state : State \cup {Unknown}, ask : {"none", "asked", "answered", "lost"},
                           answer : State \cup {Unknown}, behind : BOOLEAN,
                           queued : State \cup {Unknown}, excuse : BOOLEAN]]
    /\ call \in [HttpCall -> [stage : {"none", "asked", "lost", "answered", "done"},
                              node : Node, list : BOOLEAN, id : TransitionId,
                              shutdown : BOOLEAN, knew : BOOLEAN,
                              status : {0, 200, 400, 409, 500}]]

RegistryInit ==
    /\ graph = [n \in Node |-> [alive |-> FALSE, services |-> FALSE, state |-> "unconfigured"]]
    /\ lives = [n \in Node |-> 0]
    /\ moves = 0
    /\ event = FALSE /\ woken = FALSE /\ armed = FALSE /\ updating = FALSE /\ present = {}
    /\ known = [n \in Node |-> NoClient]
    /\ call = [q \in HttpCall |-> NoCall]

Listener == <<woken, armed, updating, present>>

-----------------------------------------------------------------------------
(* The nodes. A start, services that become visible and an end are graph   *)
(* events of their own.                                                    *)

Start(n) ==
    /\ ~graph[n].alive /\ lives[n] < MaxLives
    /\ graph' = [graph EXCEPT ![n] = [alive |-> TRUE, services |-> FALSE,
                                      state |-> "unconfigured"]]
    /\ lives' = [lives EXCEPT ![n] = @ + 1]
    /\ event' = TRUE
    /\ UNCHANGED <<moves, Listener, known, call>>

Advertise(n) ==
    /\ graph[n].alive /\ ~graph[n].services
    /\ graph' = [graph EXCEPT ![n].services = TRUE]
    /\ event' = TRUE
    /\ UNCHANGED <<lives, moves, Listener, known, call>>

\* What a node has not served is never answered. A client that outlives its node, since
\* the registry does not see it gone, still shows the old state.
Die(n) ==
    /\ graph[n].alive
    /\ graph' = [graph EXCEPT ![n] = [@ EXCEPT !.alive = FALSE, !.services = FALSE]]
    /\ event' = TRUE
    /\ known' = [known EXCEPT ![n] =
           [@ EXCEPT !.matched = FALSE, !.excuse = known[n].there,
                     !.ask = IF known[n].ask = "asked" THEN "lost" ELSE known[n].ask]]
    /\ call' = [q \in HttpCall |-> IF call[q].stage = "asked" /\ call[q].node = n
                                   THEN [call[q] EXCEPT !.stage = "lost"] ELSE call[q]]
    /\ UNCHANGED <<lives, moves, Listener>>

\* The client of the node after the node has moved to a state: the event replaces one not
\* yet taken (QoS depth 1), and is lost on a subscription not yet matched. "excuse" is
\* history: the client has missed, or will miss, the last word.
Told(k, state) ==
    IF ~k.there \/ ~k.lifecycle THEN k
    ELSE [k EXCEPT !.queued = IF k.matched THEN state ELSE @,
                   !.behind = @ \/ k.ask = "answered",
                   !.excuse = ~k.matched /\ k.ask # "asked"]

\* The node moves; what was resolved for it before may not fit any more.
Moved(n, id) ==
    /\ graph' = [graph EXCEPT ![n].state = Goal(id)]
    /\ known' = [known EXCEPT ![n] = Told(@, Goal(id))]

Outrun(n) == [q \in HttpCall |-> [call[q] EXCEPT !.knew = call[q].knew /\ call[q].node # n]]

\* Somebody else moves the node.
Move(n, id) ==
    /\ graph[n].services /\ graph[n].state = From(id) /\ moves < MaxMoves
    /\ Moved(n, id)
    /\ call' = Outrun(n)
    /\ moves' = moves + 1
    /\ UNCHANGED <<lives, event, Listener>>

\* Discovery connects the subscription of the client with its publisher.
MatchSubscription(n) ==
    /\ known[n].there /\ known[n].lifecycle /\ graph[n].services /\ ~known[n].matched
    /\ known' = [known EXCEPT ![n].matched = TRUE]
    /\ UNCHANGED <<graph, lives, moves, event, Listener, call>>

-----------------------------------------------------------------------------
(* graph_listener.cpp and node_registry::update()                          *)

\* run(): the event is cleared, and then the timer restarted.
Wake ==
    /\ event /\ ~woken
    /\ event' = FALSE /\ woken' = TRUE
    /\ UNCHANGED <<graph, lives, moves, armed, updating, present, known, call>>

Rearm ==
    /\ woken
    /\ woken' = FALSE /\ armed' = TRUE
    /\ UNCHANGED <<graph, lives, moves, event, updating, present, known, call>>

\* The timer's callback: cancel first, then update() asks for the names of the nodes.
TimerFires ==
    /\ armed /\ ~updating
    /\ armed' = FALSE /\ updating' = TRUE
    /\ present' = {n \in Node : graph[n].alive}
    /\ UNCHANGED <<graph, lives, moves, event, woken, known, call>>

\* node_client::node_client(): whether the node has a lifecycle is decided here, for good;
\* if it has, its state is asked for and its events are subscribed to. The node may be
\* gone by then.
NewClient(n) ==
    [NoClient EXCEPT !.there = TRUE, !.lifecycle = graph[n].services,
                     !.ask = IF graph[n].services THEN "asked" ELSE "none"]

Clients == [n \in Node |-> IF n \notin present THEN NoClient
                           ELSE IF known[n].there THEN known[n] ELSE NewClient(n)]

Answered(c, stage, status) == [c EXCEPT !.stage = stage, !.status = status]

\* A list request holds nothing of its client, and is dropped with it: its reply answers
\* 500 when it is destroyed. A change request keeps its client, and itself, for ever.
Dropped(q) ==
    call[q].stage \in {"asked", "lost", "answered"} /\ call[q].list
        /\ known[call[q].node].there /\ ~Clients[call[q].node].there

\* Fault: the timer is cancelled after the callback.
UpdateThenCancel ==
    /\ updating
    /\ updating' = FALSE /\ armed' = FALSE /\ present' = {}
    /\ known' = Clients
    /\ call' = [q \in HttpCall |-> IF Dropped(q)
                                   THEN Answered(call[q], "done", 500) ELSE call[q]]
    /\ UNCHANGED <<graph, lives, moves, event, woken>>

Update ==
    /\ updating
    /\ updating' = FALSE /\ present' = {}
    /\ known' = Clients
    /\ call' = [q \in HttpCall |-> IF Dropped(q)
                                   THEN Answered(call[q], "done", 500) ELSE call[q]]
    /\ UNCHANGED <<graph, lives, moves, event, woken, armed>>

-----------------------------------------------------------------------------
(* node_client.cpp, on the executor: an answer and an event are taken in   *)
(* any order.                                                              *)

ServeGetState(n) ==
    /\ known[n].ask = "asked" /\ graph[n].services
    /\ known' = [known EXCEPT ![n] = [@ EXCEPT !.ask = "answered", !.answer = graph[n].state]]
    /\ UNCHANGED <<graph, lives, moves, event, Listener, call>>

TakeAnswer(n) ==
    /\ known[n].ask = "answered" /\ ~updating
    /\ known' = [known EXCEPT ![n] =
           [@ EXCEPT !.ask = "none", !.state = known[n].answer, !.answer = Unknown,
                     !.behind = FALSE,
                     !.excuse = known[n].excuse \/ (known[n].behind /\ known[n].queued = Unknown)]]
    /\ UNCHANGED <<graph, lives, moves, event, Listener, call>>

\* Fault: events count while no state is known.
TakeFirstEvent(n) ==
    /\ known[n].queued # Unknown /\ ~updating
    /\ known' = [known EXCEPT ![n] =
           [@ EXCEPT !.queued = Unknown, !.state = IF @ = Unknown THEN known[n].queued ELSE @]]
    /\ UNCHANGED <<graph, lives, moves, event, Listener, call>>

\* transition_callback()
TakeEvent(n) ==
    /\ known[n].queued # Unknown /\ ~updating
    /\ known' = [known EXCEPT ![n] = [@ EXCEPT !.queued = Unknown, !.state = known[n].queued]]
    /\ UNCHANGED <<graph, lives, moves, event, Listener, call>>

\* resolve_transition_id()
Resolved(label, state) ==
    IF label # "shutdown" THEN label
    ELSE CASE state = "inactive" -> "inactive_shutdown"
           [] state = "active" -> "active_shutdown"
           [] OTHER -> "unconfigured_shutdown"

\* A request for the transitions of a node, or for one of them.
NewCall(n, list, label) ==
    LET state == known[n].state IN
    [NoCall EXCEPT !.node = n, !.list = list, !.shutdown = (label = "shutdown"),
                   !.id = Resolved(label, state),
                   !.knew = (state = graph[n].state /\ state # "finalized")]

\* The handlers of ros_support, with transition() or get_available_transitions(), which
\* throw for an unknown node, one without lifecycle and one whose service is not there.
\* They wait for the mutex of an update.
AskNode(q, n, list, label) ==
    LET k == known[n]
        new == NewCall(n, list, label)
    IN  /\ call[q].stage = "none" /\ ~updating
        /\ call' = [call EXCEPT ![q] =
               CASE ~k.there -> Answered(new, "done", IF list THEN 500 ELSE 400)
                 [] k.there /\ ~(k.lifecycle /\ graph[n].services) -> Answered(new, "done", 500)
                 [] k.there /\ k.lifecycle /\ graph[n].services -> [new EXCEPT !.stage = "asked"]]
        /\ UNCHANGED <<graph, lives, moves, event, Listener, known>>

\* The service of the node. Its answer is 200 or 409 for a change.
Serve(q) ==
    LET c == call[q]
        fits == ~c.list /\ graph[c.node].state = From(c.id)
        status == IF c.list \/ fits THEN 200 ELSE 409
    IN  /\ c.stage = "asked" /\ graph[c.node].services
        /\ IF fits THEN Moved(c.node, c.id) ELSE UNCHANGED <<graph, known>>
        /\ call' = [(IF fits THEN Outrun(c.node) ELSE call) EXCEPT
                        ![q] = Answered(@, "answered", status)]
        /\ UNCHANGED <<lives, moves, event, Listener>>

\* The answer is taken on the executor, and the reply sent.
TakeServed(q) ==
    /\ call[q].stage = "answered" /\ ~updating
    /\ call' = [call EXCEPT ![q].stage = "done"]
    /\ UNCHANGED <<graph, lives, moves, event, Listener, known>>

-----------------------------------------------------------------------------
Label == {"activate", "shutdown"}

RegistryNext ==
    \/ Wake \/ Rearm \/ TimerFires \/ Update
    \/ \E n \in Node :
        \/ Start(n) \/ Advertise(n) \/ Die(n) \/ MatchSubscription(n)
        \/ ServeGetState(n) \/ TakeAnswer(n) \/ TakeEvent(n)
        \/ \E id \in TransitionId : Move(n, id)
        \/ \E q \in HttpCall : \/ AskNode(q, n, TRUE, "configure")
                               \/ \E label \in Label : AskNode(q, n, FALSE, label)
    \/ \E q \in HttpCall : Serve(q) \/ TakeServed(q)

RegistrySpec == RegistryInit /\ [][RegistryNext]_registryVars

\* The thread and the executor go on, and a node serves while it lives. Nodes need not
\* start, advertise or die.
RegistryFairness ==
    /\ WF_registryVars(Wake)
    /\ WF_registryVars(Rearm)
    /\ WF_registryVars(TimerFires)
    /\ WF_registryVars(Update)
    /\ \A q \in HttpCall : /\ WF_registryVars(Serve(q))
                           /\ WF_registryVars(TakeServed(q))

-----------------------------------------------------------------------------
(* Properties.                                                             *)

\* The state shown for a node is its state once nothing about it is on its way, unless
\* the client missed the last word: the event came before the subscription was matched,
\* it was taken before an older answer of get_state, or the node was replaced by another
\* of its name within the two seconds of the listener's timer. Nothing else makes it
\* wrong.
KnownStateIsRight ==
    \A n \in Node : LET k == known[n] IN
        (k.there /\ k.lifecycle /\ graph[n].alive /\ k.ask = "none" /\ k.queued = Unknown
            /\ ~k.excuse) => k.state = graph[n].state

\* A shutdown is refused only when the node is finalized, the client did not know its
\* state, or it moved before it served the request.
ShutdownRefusedOnlyIfUnknown ==
    \A q \in HttpCall : call[q].shutdown /\ call[q].status = 409 => ~call[q].knew

\* What the browser is shown of a node is true, and what it asks for is not refused
\* because of it, except for the reasons named (node_client::node_client,
\* transition_callback, resolve_transition_id).
NodesShownTrue == RegistryTypeOK /\ KnownStateIsRight /\ ShutdownRefusedOnlyIfUnknown

\* A node that appears or goes is seen, however its events fall on the thread, the timer
\* and a callback that runs already.
RegistryCatchesUp ==
    \A n \in Node : /\ []<>(known[n].there \/ ~graph[n].alive)
                    /\ []<>(~known[n].there \/ graph[n].alive)

\* An HTTP request about a node ends, unless the node dies before it serves the request:
\* then a change is never answered, and a list is as soon as the registry sees the node
\* gone, which it does not when another of its name is there by then.
CallsEnd ==
    \A q \in HttpCall : []<>
        (\/ call[q].stage \in {"none", "done"}
         \/ call[q].stage = "lost" /\ (call[q].list => graph[call[q].node].alive))

\* The registry follows the graph and its requests end (graph_listener::run,
\* node_registry::update, node_client::transition).
RegistryFollowsGraph == RegistryCatchesUp /\ CallsEnd
=============================================================================
