---------------------------- MODULE TopicStreams ----------------------------
(***************************************************************************)
(* Subscriptions of the web front end: subscribe() with its gate, its      *)
(* socket and its timers, and the two slices of the store that hold one:   *)
(* the view of a topic, which the user opens, closes and retries, and the  *)
(* collector of logs, which reconnects by itself.                          *)
(* A page runs one callback at a time, in the order the browser likes.     *)
(***************************************************************************)
EXTENDS FiniteSetsExt, Naturals

CONSTANTS
    Topic,     \* what the view may show
    Rosout,    \* the topic of the logs
    MaxClicks, \* bound on what the user does
    MaxFaults  \* bound on what the network and the server do wrong

NoTopic == "none"
Nobody == 0

\* A subscription that is over leaves its slot to a new one; two are held, and some of
\* those before them may still be closing. The number of slots is a bound of the model.
Slot == 1 .. 6

ASSUME StreamAssumption == Rosout \notin Topic /\ NoTopic \notin Topic \cup {Rosout} /\ MaxFaults \in Nat

VARIABLES
    subs,       \* the subscriptions: what the closure of subscribe() holds
    view,       \* the stream slice
    logs,       \* the logs slice
    mounted,    \* the topic of the page that is open
    clicks, faults \* history

streamVars == <<subs, view, logs, mounted, clicks, faults>>

Free == [owner |-> "nobody", topic |-> NoTopic, gate |-> "over", socket |-> "closed",
         connectTimer |-> FALSE, keepalive |-> FALSE, disposed |-> TRUE]
\* subscribe(): the capability is asked for first, and answered later, cached or not.
Opened(owner, topic) ==
    [Free EXCEPT !.owner = owner, !.topic = topic, !.gate = "asked", !.socket = "none", !.disposed = FALSE]

\* What no callback can reach any more is collected.
Collected(s) ==
    IF s.disposed /\ s.gate = "over" /\ s.socket \in {"none", "closed"} /\ ~s.connectTimer /\ ~s.keepalive
    THEN Free ELSE s
Room == \E p \in Slot : subs[p] = Free
NextSlot == CHOOSE p \in Slot : subs[p] = Free

\* The handle's close(), and fail() without its callback: what is open begins to close.
Closed(s) ==
    [s EXCEPT !.connectTimer = FALSE, !.keepalive = FALSE, !.disposed = TRUE,
              !.socket = IF @ \in {"connecting", "open"} /\ ~s.disposed THEN "closing" ELSE @]

CloseOne(all, p) == IF p = Nobody THEN all ELSE [all EXCEPT ![p] = Closed(@)]

StreamInit ==
    /\ subs = [p \in Slot |-> Free]
    /\ view = [topic |-> NoTopic, state |-> "idle", held |-> Nobody, shown |-> {}]
    /\ logs = [state |-> "idle", held |-> Nobody, timer |-> FALSE, attempts |-> 0]
    /\ mounted = NoTopic /\ clicks = 0 /\ faults = 0

Click == clicks < MaxClicks /\ clicks' = clicks + 1
Fault == faults < MaxFaults /\ faults' = faults + 1

-----------------------------------------------------------------------------
(* The view of a topic: streamSlice, useTopicStream.                       *)

\* subscribeTopic(): what is connected to the same topic stays.
SubscribeTopic(t) ==
    IF t = view.topic /\ view.state = "connected" THEN UNCHANGED <<subs, view>>
    ELSE /\ Room
         /\ subs' = [CloseOne(subs, view.held) EXCEPT ![NextSlot] = Opened("view", t)]
         /\ view' = [topic |-> t, state |-> "connecting", held |-> NextSlot,
                     shown |-> IF t = view.topic THEN view.shown ELSE {}]

Mount(t) ==
    /\ mounted = NoTopic /\ Click
    /\ mounted' = t /\ SubscribeTopic(t)
    /\ UNCHANGED <<logs, faults>>

\* closeStream(), as the page goes.
Unmount ==
    /\ mounted # NoTopic
    /\ mounted' = NoTopic
    /\ subs' = CloseOne(subs, view.held)
    /\ view' = [view EXCEPT !.held = Nobody, !.state = "idle"]
    /\ UNCHANGED <<logs, clicks, faults>>

RetryStream ==
    /\ mounted # NoTopic /\ view.topic # NoTopic /\ Click
    /\ SubscribeTopic(view.topic)
    /\ UNCHANGED <<logs, mounted, faults>>

-----------------------------------------------------------------------------
(* The collector of logs: logsSlice, useRosoutCollector.                   *)

Connect(all, l) ==
    IF l.held # Nobody THEN subs' = all /\ logs' = l
    ELSE /\ Room
         /\ subs' = [all EXCEPT ![NextSlot] = Opened("logs", Rosout)]
         /\ logs' = [l EXCEPT !.state = "connecting", !.held = NextSlot]

StartRosoutStream ==
    /\ ~logs.timer /\ Click
    /\ Connect(subs, logs)
    /\ UNCHANGED <<view, mounted, faults>>

RetryRosoutStream ==
    /\ Click
    /\ Connect(CloseOne(subs, logs.held), [logs EXCEPT !.timer = FALSE, !.attempts = 0, !.held = Nobody])
    /\ UNCHANGED <<view, mounted, faults>>

\* scheduleReconnect(): the delay grows with the attempts, up to five seconds.
Rescheduled(l) ==
    IF l.timer THEN [l EXCEPT !.held = Nobody]
    ELSE [l EXCEPT !.held = Nobody, !.state = "connecting", !.timer = TRUE, !.attempts = Min({@ + 1, 5})]

ReconnectTimer ==
    /\ logs.timer
    /\ Connect(subs, [logs EXCEPT !.timer = FALSE])
    /\ UNCHANGED <<view, mounted, clicks, faults>>

-----------------------------------------------------------------------------
(* What happens to a subscription.                                         *)

\* onError or onClose of its owner. A view looks whether it still shows that topic.
Lost(p, as) ==
    IF subs[p].owner = "logs" THEN logs' = Rescheduled(logs) /\ UNCHANGED view
    ELSE /\ view' = IF view.topic = subs[p].topic THEN [view EXCEPT !.held = Nobody, !.state = as] ELSE view
         /\ UNCHANGED logs

Fail(p, s) ==
    /\ subs' = [subs EXCEPT ![p] = Collected(Closed(s))]
    /\ IF s.disposed THEN UNCHANGED <<view, logs>> ELSE Lost(p, "error")

GatePasses(p) ==
    /\ subs[p].gate = "asked"
    /\ subs' = [subs EXCEPT ![p] =
                    IF @.disposed THEN Collected([@ EXCEPT !.gate = "over"])
                    ELSE [@ EXCEPT !.gate = "over", !.socket = "connecting", !.connectTimer = TRUE]]
    /\ UNCHANGED <<view, logs, mounted, clicks, faults>>

GateFails(p) ==
    /\ subs[p].gate = "asked" /\ Fault
    /\ Fail(p, [subs[p] EXCEPT !.gate = "over"])
    /\ UNCHANGED <<mounted, clicks>>

ConnectTimesOut(p) ==
    /\ subs[p].connectTimer /\ Fault
    /\ Fail(p, subs[p])
    /\ UNCHANGED <<mounted, clicks>>

OnOpen(p) ==
    /\ subs[p].socket = "connecting"
    /\ subs' = [subs EXCEPT ![p].socket = "open", ![p].connectTimer = FALSE, ![p].keepalive = TRUE]
    /\ UNCHANGED <<view, logs, mounted, clicks, faults>>

\* The browser tells an error before it tells that the socket is closed.
OnError(p) ==
    /\ subs[p].socket \in {"connecting", "open"} /\ Fault
    /\ Fail(p, subs[p])
    /\ UNCHANGED <<mounted, clicks>>

\* One with an error code and one without differ in what the view says of it.
OnClose(p) ==
    /\ subs[p].socket \in {"open", "closing"}
    /\ IF subs[p].socket = "open" THEN Fault ELSE UNCHANGED faults
    /\ subs' = [subs EXCEPT ![p] = Collected([Closed(@) EXCEPT !.socket = "closed"])]
    /\ IF subs[p].disposed THEN UNCHANGED <<view, logs>> ELSE \E as \in {"error", "closed"} : Lost(p, as)
    /\ UNCHANGED <<mounted, clicks>>

\* A frame with an error ends the subscription; one that is no JSON is passed over.
OnMessage(p) ==
    /\ subs[p].socket = "open" /\ ~subs[p].disposed
    /\ \/ /\ UNCHANGED <<subs, faults>>
          /\ IF subs[p].owner = "logs"
             THEN logs' = [logs EXCEPT !.state = "connected", !.attempts = 0] /\ UNCHANGED view
             ELSE /\ view' = IF view.topic = subs[p].topic
                             THEN [view EXCEPT !.state = "connected", !.shown = @ \cup {subs[p].topic}]
                             ELSE view
                  /\ UNCHANGED logs
       \/ Fault /\ Fail(p, subs[p])
    /\ UNCHANGED <<mounted, clicks>>

-----------------------------------------------------------------------------

Progress(p) == GatePasses(p) \/ OnOpen(p) \/ OnMessage(p) \/ OnClose(p)
Faults(p) == GateFails(p) \/ ConnectTimesOut(p) \/ OnError(p)

StreamNext ==
    \/ \E t \in Topic : Mount(t)
    \/ Unmount \/ RetryStream \/ StartRosoutStream \/ RetryRosoutStream \/ ReconnectTimer
    \/ \E p \in Slot : Progress(p) \/ Faults(p)

\* Timers of the browser fire; a server that is up answers, and logs keep coming.
StreamFairness ==
    /\ WF_streamVars(ReconnectTimer)
    /\ \A p \in Slot : WF_streamVars(Progress(p))

StreamSpec == StreamInit /\ [][StreamNext]_streamVars /\ StreamFairness

-----------------------------------------------------------------------------
(* Properties.                                                             *)

\* A subscription that is not over is held by the slice it belongs to, and the other way
\* round: no socket is left behind by a page that goes, a retry or a change of topic.
HeldOrDisposed ==
    \A p \in Slot : ~subs[p].disposed <=> (p = view.held \/ p = logs.held)

\* What the view and the collector say is so: connected only over an open socket, nothing
\* held once it is over, and no message but of the topic shown.
StateShown ==
    /\ view.state \in {"idle", "closed", "error"} <=> view.held = Nobody
    /\ view.state = "connected" => subs[view.held].socket = "open"
    /\ logs.state = "connected" => logs.held # Nobody /\ subs[logs.held].socket = "open"
    /\ view.held # Nobody => subs[view.held].topic = view.topic /\ view.topic = mounted
    /\ view.shown \subseteq {view.topic}

\* A timer runs only for a socket that is being opened, or is open, and wanted.
TimersEnd ==
    \A p \in Slot :
        /\ subs[p].connectTimer => subs[p].socket = "connecting" /\ ~subs[p].disposed
        /\ subs[p].keepalive => subs[p].socket = "open" /\ ~subs[p].disposed

\* A collector that was started is waiting for its socket or for its timer.
CollectorAwake == logs.state # "idle" => (logs.held # Nobody) # logs.timer

StreamsSound == HeldOrDisposed /\ StateShown /\ TimersEnd /\ CollectorAwake

\* The logs come: once started, they come again after every fault (logsSlice.ts).
LogsThere == logs.state \in {"idle", "connected"}
=============================================================================
