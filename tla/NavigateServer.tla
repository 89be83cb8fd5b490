--------------------------- MODULE NavigateServer ---------------------------
(***************************************************************************)
(* The bridge server of clover2_fcu_bridge (server.cpp) around an offboard *)
(* controller: the navigate_async action with its one slot, the bond that  *)
(* watches the client of the goal in the slot, the process callback run by *)
(* the controller's timer, the land / navigate / set_position services any *)
(* other node may call meanwhile, and the lifecycle of the node.           *)
(*                                                                         *)
(* The controller is the one OffboardContract describes; OffboardFsm shows *)
(* that the flight state machine is such a controller.  A command is named *)
(* by who gave it: a goal, or Service.                                     *)
(*                                                                         *)
(* main() spins a SingleThreadedExecutor: every callback is one step.      *)
(***************************************************************************)
EXTENDS Integers

CONSTANTS
    Goal,              \* goals, each sent once by a client of its own
    NoGoal,            \* an empty slot, bond or callback
    Service,           \* the commands given by service calls
    NoCommand,         \* the controller has been reset
    HeartbeatTimeout,  \* kNavigateBondHeartbeatTimeout, in units of Elapse
    GracePeriod,       \* kNavigateCompletionGracePeriod
    Services,          \* the services other nodes call
    MaxTransitions     \* bound on lifecycle transitions and restarts

ASSUME GoalsAssumption ==
    /\ NoGoal \notin Goal
    /\ Service \notin Goal
    /\ NoCommand \notin Goal \cup {Service}
    /\ Services \subseteq {"land", "command"}
    /\ MaxTransitions \in Nat

\* 1.0 s and 1.2 s in the source.
ASSUME GraceAssumption ==
    /\ HeartbeatTimeout \in Nat \ {0}
    /\ GracePeriod \in Nat
    /\ GracePeriod > HeartbeatTimeout

VARIABLES
    life,     \* lifecycle state of the node, or "crashed"
    moves,    \* lifecycle transitions so far (bounded by MaxTransitions)
    final,    \* on_shutdown() has run: no more transitions
    orphans,  \* goals of an action server that on_activate() replaced
    phase,    \* of the offboard controller
    cmd,      \* who gave the controller its command
    ready,    \* m_fcu.ready()
    goal,     \* state of each goal handle
    active,   \* m_active_navigate_goal
    cb,       \* the goal m_process_callback is bound to
    bond,     \* m_navigate_bond, m_navigate_bond_id
    formed,   \* the bond has formed
    late,     \* bonds no longer current whose callbacks may still be called
    client,   \* what each goal's client does
    silence,  \* time since the current bond's client was last heard
    grace,    \* m_navigate_completion_started_at, as time since then
    arrived,  \* history: goals whose command reached its target
    doomed    \* history: goals whose client was lost when the grace began

serverVars == <<goal, active, cb, bond, formed, late, grace>>
historyVars == <<arrived, doomed>>
lifeVars == <<life, moves, final, orphans>>
vars == <<life, moves, final, orphans, phase, cmd, ready, goal, active, cb, bond, formed,
          late, client, silence, grace, arrived, doomed>>

Offboard == INSTANCE OffboardContract WITH Command <- Goal \cup {Service}

NotStarted == -1

LiveStates == {"executing", "canceling"}
FinalStates == {"rejected", "succeeded", "canceled", "aborted", "lost"}
Live(g) == goal[g] \in LiveStates

TypeOK ==
    /\ life \in {"active", "inactive", "unconfigured", "crashed"}
    /\ moves \in 0 .. MaxTransitions
    /\ final \in BOOLEAN
    /\ orphans \subseteq Goal
    /\ Offboard!ContractTypeOK
    /\ ready \in BOOLEAN
    /\ goal \in [Goal -> {"unsent"} \cup LiveStates \cup FinalStates]
    /\ active \in Goal \cup {NoGoal}
    /\ cb \in Goal \cup {NoGoal}
    /\ bond \in Goal \cup {NoGoal}
    /\ formed \in BOOLEAN
    /\ late \subseteq Goal
    /\ client \in [Goal -> {"alive", "silent", "broke"}]
    /\ silence \in 0 .. HeartbeatTimeout
    /\ grace \in NotStarted .. GracePeriod
    /\ arrived \subseteq Goal
    /\ doomed \subseteq Goal

\* The node as the launch file leaves it: configured and activated.
Init ==
    /\ life = "active"
    /\ moves = 0
    /\ final = FALSE
    /\ orphans = {}
    /\ Offboard!ContractInit
    /\ ready \in BOOLEAN
    /\ goal = [g \in Goal |-> "unsent"]
    /\ active = NoGoal
    /\ cb = NoGoal
    /\ bond = NoGoal
    /\ formed = FALSE
    /\ late = {}
    /\ client = [g \in Goal |-> "alive"]
    /\ silence = 0
    /\ grace = NotStarted
    /\ arrived = {}
    /\ doomed = {}

Running == life # "crashed"
HasOffboard == life \in {"active", "inactive"}

-----------------------------------------------------------------------------
(* Pieces of handlers.                                                     *)

\* cleanup_navigate_bond(): the bond is closed by the server; bondcpp may
\* still have a callback of it to run.
CleanupBond ==
    /\ bond' = NoGoal
    /\ formed' = FALSE
    /\ late' = late \cup ({bond} \ {NoGoal})
    /\ grace' = NotStarted

\* Fault: the slot stays taken.
FinishActiveKeepsSlot(result) ==
    /\ goal' = [goal EXCEPT ![active] = result]
    /\ UNCHANGED active

\* The slot is emptied, its goal (if it has one) ends in state result.
FinishActive(result) ==
    /\ goal' = [goal EXCEPT ![active] = result]
    /\ active' = NoGoal

\* A goal handle nobody refers to any more cancels its goal.  The process
\* callback is the only other holder of a handle.
Dropped(g) == IF goal[g] \in LiveStates THEN "canceled" ELSE goal[g]

-----------------------------------------------------------------------------
(* The action: goal, accepted and cancel callbacks.                        *)

\* handle_navigate_async_goal() and, as rclcpp_action calls it at once,
\* handle_navigate_async_accepted() with start_navigate_bond().
GoalRequest(g) ==
    /\ Running
    /\ goal[g] = "unsent"
    /\ IF active # NoGoal
       THEN /\ goal' = [goal EXCEPT ![g] = "rejected"]
            /\ UNCHANGED <<active, bond, formed, late, silence, grace>>
       ELSE /\ goal' = [goal EXCEPT ![g] = "executing"]
            /\ active' = g
            /\ bond' = g
            /\ formed' = FALSE
            /\ late' = late \cup ({bond} \ {NoGoal})
            /\ silence' = 0
            /\ grace' = NotStarted
    /\ UNCHANGED <<lifeVars, phase, cmd, ready, cb, client, historyVars>>

\* Fault: the process callback is removed with the command.
CancelRequestDropsCallback(g) ==
    /\ HasOffboard
    /\ Live(g)
    /\ g = active
    /\ Offboard!Reset
    /\ goal' = [goal EXCEPT ![g] = "canceling"]
    /\ cb' = NoGoal
    /\ UNCHANGED <<lifeVars, ready, active, bond, formed, late, client, silence, grace,
                   historyVars>>

\* handle_navigate_async_cancel(): only the goal in the slot is canceled, and
\* the controller stops at once.  The action server that could take the request
\* for an orphan is gone.
CancelRequest(g) ==
    /\ Running
    /\ Live(g)
    /\ g = active
    /\ g \notin orphans
    /\ IF HasOffboard
       THEN /\ Offboard!Reset
            /\ goal' = [goal EXCEPT ![g] = "canceling"]
            /\ UNCHANGED life
       ELSE /\ life' = "crashed"
            /\ UNCHANGED <<phase, cmd, goal>>
    /\ UNCHANGED <<moves, final, orphans, ready, active, cb, bond, formed, late, client,
                   silence, grace, historyVars>>

-----------------------------------------------------------------------------
(* Bond callbacks.  A callback of a bond that is no longer current can only *)
(* be one of late.                                                          *)

LateFormed(g) ==
    /\ Running
    /\ g \in late
    /\ g # bond
    /\ late' = late \ {g}
    /\ UNCHANGED <<lifeVars, phase, cmd, ready, goal, active, cb, bond, formed,
                   client, silence, grace, historyVars>>

\* handle_navigate_bond_formed() for the current bond.
FormedWhileCanceling ==
    /\ goal[active] = "canceling"
    /\ FinishActive("canceled")
    /\ CleanupBond
    /\ UNCHANGED <<life, phase, cmd, cb>>

FormedAndStarted ==
    /\ goal[active] = "executing"
    /\ HasOffboard
    /\ Offboard!Take(active)
    /\ cb' = active
    /\ goal' = IF cb \in Goal \ {active} THEN [goal EXCEPT ![cb] = Dropped(cb)] ELSE goal
    /\ formed' = TRUE
    /\ UNCHANGED <<life, active, bond, late, grace>>

\* navigate() throws: wrong state, or a missing transform.
FormedButRefused ==
    /\ goal[active] = "executing"
    /\ HasOffboard
    /\ Offboard!Reset
    /\ FinishActive("aborted")
    /\ CleanupBond
    /\ UNCHANGED <<life, cb>>

\* m_offboard is null after on_cleanup().
FormedWithoutOffboard ==
    /\ goal[active] = "executing"
    /\ ~HasOffboard
    /\ life' = "crashed"
    /\ UNCHANGED <<phase, cmd, goal, active, cb, bond, formed, late, grace>>

BondFormed(g) ==
    /\ Running
    /\ g = bond
    /\ ~formed
    /\ client[g] = "alive"
    /\ g = active
    /\ \/ FormedWhileCanceling
       \/ FormedAndStarted
       \/ FormedButRefused
       \/ FormedWithoutOffboard
    /\ UNCHANGED <<moves, final, orphans, ready, client, silence, historyVars>>

\* bondcpp finds the current bond broken: it did not connect in time, the
\* client said so, or its heartbeats stopped.
BreakDue(g) ==
    /\ g = bond
    /\ \/ ~formed
       \/ client[g] = "broke"
       \/ silence >= HeartbeatTimeout

\* Fault: the controller is not reset before landing.
StopAndLandNoReset ==
    /\ bond' = NoGoal
    /\ formed' = FALSE
    /\ grace' = NotStarted
    /\ IF HasOffboard THEN cb' = NoGoal ELSE UNCHANGED cb
    /\ UNCHANGED <<phase, cmd>>
    /\ goal' = [g \in Goal |->
                   IF g = active /\ Live(g) THEN "aborted"
                   ELSE IF g = cb /\ HasOffboard THEN Dropped(g) ELSE goal[g]]
    /\ active' = NoGoal

\* What handle_navigate_bond_broken() does when its guard lets it through.
StopAndLand ==
    /\ bond' = NoGoal
    /\ formed' = FALSE
    /\ grace' = NotStarted
    /\ IF HasOffboard THEN Offboard!Reset /\ cb' = NoGoal ELSE UNCHANGED <<phase, cmd, cb>>
    /\ goal' = [g \in Goal |->
                   IF g = active /\ Live(g) THEN "aborted"
                   ELSE IF g = cb /\ HasOffboard THEN Dropped(g) ELSE goal[g]]
    /\ active' = NoGoal

\* Fault: any bond's break is taken for the current one's.
AnyBond(g) == TRUE

\* The guard of handle_navigate_bond_broken().
CurrentBond(g) == g = bond

\* handle_navigate_bond_broken(): a call for another bond, or a repeated one,
\* is ignored.
BondBroken(g) ==
    /\ Running
    /\ \/ BreakDue(g)
       \/ g \in late
    /\ late' = IF BreakDue(g) THEN late \cup {g} ELSE late \ {g}
    /\ IF CurrentBond(g)
       THEN StopAndLand
       ELSE UNCHANGED <<phase, cmd, goal, active, cb, bond, formed, grace>>
    /\ UNCHANGED <<lifeVars, ready, client, silence, historyVars>>

-----------------------------------------------------------------------------
(* The controller's timer and the process callback it runs.                *)

\* Fault: the first quiet period of the timer ends the goal.
GraceSkipped == grace >= 0
GraceOver == grace >= GracePeriod

\* process_navigate_async() for the goal in the slot, after the controller
\* moved to phase p.
ProcessGoal(g, p) ==
    \/ /\ goal[g] = "canceling"
       /\ FinishActive("canceled")
       /\ cb' = NoGoal
       /\ CleanupBond
       /\ UNCHANGED doomed
    \/ /\ goal[g] # "canceling"
       /\ p = "error"
       /\ FinishActive("aborted")
       /\ cb' = NoGoal
       /\ CleanupBond
       /\ UNCHANGED doomed
    \/ /\ goal[g] # "canceling"
       /\ p = "busy"
       /\ grace' = NotStarted
       /\ UNCHANGED <<goal, active, cb, bond, formed, late, doomed>>
    \/ /\ goal[g] # "canceling"
       /\ p \in Offboard!Quiescent
       /\ grace = NotStarted
       /\ grace' = 0
       /\ doomed' = IF client[g] = "alive" THEN doomed ELSE doomed \cup {g}
       /\ UNCHANGED <<goal, active, cb, bond, formed, late>>
    \/ /\ goal[g] # "canceling"
       /\ p \in Offboard!Quiescent
       /\ grace # NotStarted
       /\ ~GraceOver
       /\ UNCHANGED <<serverVars, doomed>>
    \/ /\ goal[g] # "canceling"
       /\ p \in Offboard!Quiescent
       /\ grace # NotStarted
       /\ GraceOver
       /\ FinishActive("succeeded")
       /\ cb' = NoGoal
       /\ CleanupBond
       /\ UNCHANGED doomed

\* publish_offboard()
Publish ==
    /\ Running
    /\ HasOffboard
    /\ ready \/ phase # "idle"
    /\ Offboard!Update
    /\ arrived' = IF phase = "busy" /\ phase' = "hold"
                  THEN arrived \cup ({cmd} \cap Goal) ELSE arrived
    /\ IF cb # NoGoal /\ cb = active
       THEN ProcessGoal(cb, phase')
       ELSE UNCHANGED <<serverVars, doomed>>
    /\ UNCHANGED <<lifeVars, ready, cmd, client, silence>>

-----------------------------------------------------------------------------
(* Services.  Neither looks at the goal in the slot.                       *)

\* handle_land()
Land ==
    /\ life = "active"
    /\ "land" \in Services
    /\ Offboard!Reset
    /\ UNCHANGED <<lifeVars, ready, serverVars, client, silence, historyVars>>

\* handle_navigate(), handle_set_position(): taken; a refusal changes nothing.
ServiceCommand ==
    /\ life = "active"
    /\ "command" \in Services
    /\ Offboard!Take(Service)
    /\ UNCHANGED <<lifeVars, ready, serverVars, client, silence, historyVars>>

-----------------------------------------------------------------------------
(* The environment.                                                        *)

\* The client of a goal in progress dies without a word, or is interrupted and
\* breaks its bond on the way out.
ClientLost(g) ==
    /\ Live(g)
    /\ client[g] = "alive"
    /\ \E how \in {"silent", "broke"} : client' = [client EXCEPT ![g] = how]
    /\ UNCHANGED <<lifeVars, phase, cmd, ready, serverVars, silence, historyVars>>

LinkChanges ==
    /\ ready' = ~ready
    /\ UNCHANGED <<lifeVars, phase, cmd, serverVars, client, silence, historyVars>>

ClientSilent == bond # NoGoal /\ client[bond] # "alive"

\* The heartbeat timer runs on the same executor: time does not pass its
\* deadline before the broken callback has been called.
Elapse ==
    /\ ~(ClientSilent /\ silence >= HeartbeatTimeout)
    /\ silence' = IF ClientSilent THEN silence + 1 ELSE silence
    /\ grace' = IF grace \in 0 .. GracePeriod - 1 THEN grace + 1 ELSE grace
    /\ UNCHANGED <<lifeVars, phase, cmd, ready, goal, active, cb, bond, formed, late,
                   client, historyVars>>

-----------------------------------------------------------------------------
(* Lifecycle.                                                              *)

Moves == moves < MaxTransitions /\ moves' = moves + 1
Transition == Moves /\ ~final

\* The slot is emptied; the goal in it lives on where the process callback is
\* bound to it.
VacateSlot ==
    /\ CleanupBond
    /\ active' = NoGoal
    /\ goal' = IF active # NoGoal /\ cb # active
               THEN [goal EXCEPT ![active] = Dropped(active)] ELSE goal

\* on_deactivate(): the services go, the bond is closed, the slot emptied; the
\* controller, its callback and the action server stay.
Deactivate ==
    /\ Transition
    /\ life = "active"
    /\ life' = "inactive"
    /\ VacateSlot
    /\ UNCHANGED <<final, orphans, phase, cmd, ready, cb, client, silence, historyVars>>

\* on_activate(): a new action server takes the place of the old one.  Goals of
\* the old one can no longer be canceled and their results reach nobody.
Activate ==
    /\ Transition
    /\ life = "inactive"
    /\ life' = "active"
    /\ orphans' = orphans \cup {g \in Goal : Live(g)}
    /\ UNCHANGED <<final, phase, cmd, ready, serverVars, client, silence, historyVars>>

\* Fault: the goal of the destroyed callback is left as it was.
CleanupForgetsCallback ==
    /\ Transition
    /\ life = "inactive"
    /\ life' = "unconfigured"
    /\ CleanupBond
    /\ active' = NoGoal
    /\ cb' = NoGoal
    /\ goal' = [g \in Goal |-> IF g = active THEN Dropped(g) ELSE goal[g]]
    /\ Offboard!Reset
    /\ UNCHANGED <<final, orphans, ready, client, silence, historyVars>>

\* on_cleanup(): the controller is destroyed with its callback.
Cleanup ==
    /\ Transition
    /\ life = "inactive"
    /\ life' = "unconfigured"
    /\ CleanupBond
    /\ active' = NoGoal
    /\ cb' = NoGoal
    /\ goal' = [g \in Goal |-> IF g \in {active, cb} THEN Dropped(g) ELSE goal[g]]
    /\ Offboard!Reset
    /\ UNCHANGED <<final, orphans, ready, client, silence, historyVars>>

\* on_configure(): a new controller.
Configure ==
    /\ Transition
    /\ life = "unconfigured"
    /\ life' = "inactive"
    /\ UNCHANGED <<final, orphans, phase, cmd, ready, serverVars, client, silence, historyVars>>

\* on_shutdown(), from any state: services, timer and controller stay as they
\* are, and the node answers on.
Shutdown ==
    /\ Transition
    /\ Running
    /\ final' = TRUE
    /\ VacateSlot
    /\ UNCHANGED <<life, orphans, phase, cmd, ready, cb, client, silence, historyVars>>

\* The process dies, by itself or by a crash above, and is respawned.
Respawn ==
    /\ Moves
    /\ life' = "active"
    /\ final' = FALSE
    /\ orphans' = {}
    /\ Offboard!Reset
    /\ goal' = [g \in Goal |-> IF Live(g) THEN "lost" ELSE goal[g]]
    /\ active' = NoGoal
    /\ cb' = NoGoal
    /\ bond' = NoGoal
    /\ formed' = FALSE
    /\ late' = {}
    /\ grace' = NotStarted
    /\ ready' = FALSE
    /\ UNCHANGED <<client, silence, historyVars>>

-----------------------------------------------------------------------------
\* What happens when no other node calls a service of the bridge.
AloneNext ==
    \/ \E g \in Goal : \/ GoalRequest(g) \/ CancelRequest(g)
                       \/ BondFormed(g) \/ BondBroken(g) \/ LateFormed(g)
                       \/ ClientLost(g)
    \/ Publish
    \/ LinkChanges
    \/ Elapse

FlightNext == AloneNext \/ Land \/ ServiceCommand

LifecycleNext == Deactivate \/ Activate \/ Cleanup \/ Configure \/ Shutdown \/ Respawn

Next == FlightNext \/ LifecycleNext

Spec == Init /\ [][Next]_vars

\* The node stays up.
FlightSpec == Init /\ [][FlightNext]_vars

\* Timers fire: the controller's, the bond's and the clock behind them.
Fairness ==
    /\ WF_vars(Publish)
    /\ WF_vars(Elapse)
    /\ \A g \in Goal : WF_vars(BondBroken(g) /\ g = bond)

FairFlightSpec == FlightSpec /\ Fairness

-----------------------------------------------------------------------------
(* Properties.                                                             *)

\* The slot, the bond, the process callback and the goal handles agree after
\* every callback: exactly the goal in the slot is unfinished, the bond is its
\* bond, and the process callback is bound to it from the moment the bond
\* formed until it ends ("Goal that owns the current navigation and operation
\* bond", server.hpp).
SlotConsistent ==
    /\ \A g \in Goal : Live(g) <=> g = active
    /\ bond = active
    /\ cb = IF formed THEN active ELSE NoGoal
    /\ formed => bond # NoGoal

\* A goal's command flies only under that goal's formed bond and with the
\* callback that will end it in place ("Bond that watches the lifetime of the
\* current navigation action", server.hpp; "The drone is not controlled before
\* the bond is formed", handle_navigate_bond_formed).
WatchedFlight ==
    phase = "busy" /\ cmd \in Goal => bond = cmd /\ formed /\ cb = cmd

\* The grace period outlasts the heartbeat timeout, so a goal whose client was
\* lost before its completion began is landed and aborted, never reported as a
\* success (process_navigate_async, kNavigateCompletionGracePeriod).
NoSuccessForLostClient == \A g \in Goal : goal[g] = "succeeded" => g \notin doomed

\* A goal under way with its client there is aborted by an error of the
\* controller and by nothing else: a late or repeated break of an earlier bond
\* does not touch it (handle_navigate_bond_broken, "The UUID and goal handle
\* allow you to filter the callback from the old action").
HealthyGoalNotAborted ==
    [][\A g \in Goal :
          /\ goal[g] = "executing" /\ bond = g /\ formed /\ client[g] = "alive"
          /\ goal'[g] = "aborted"
          => phase' = "error"]_vars

\* Success means that the vehicle reached the goal's target ("Navigate async
\* target reached, waiting for bond grace period", process_navigate_async).
SuccessMeansArrived == \A g \in Goal : goal[g] = "succeeded" => g \in arrived

\* The watchdog: a goal whose client is lost ends, whatever the vehicle and the
\* flight controller do (handle_navigate_bond_broken).
LostClientEndsGoal ==
    \A g \in Goal : Live(g) /\ client[g] # "alive" ~> ~Live(g)

\* Once the flight controller stays reachable, an accepted cancel is carried
\* out; the callback that does it runs only while the controller is ready or not
\* idle (publish_offboard, process_navigate_async).
CancelEnds ==
    <>[]ready => \A g \in Goal : goal[g] = "canceling" ~> goal[g] # "canceling"

\* A goal is not left hanging: neither by a client that is lost nor by a cancel.
GoalsEnd == LostClientEndsGoal /\ CancelEnds

\* An unfinished goal is in the slot under its own bond, or stranded: it has
\* left the slot, and the process callback alone still refers to it.  That
\* callback returns at its first line (server.cpp:585), so nobody ends a stranded
\* goal as it is; there is one at most, and it ends with the callback, when that
\* is replaced or dropped.
GoalsAccountedFor ==
    \A g \in Goal : Live(g) => IF g = active THEN bond = g ELSE cb = g

\* The command of a goal flies only while that goal is executing and the process
\* callback is its own; in the slot the goal also has its formed bond.
FlyingGoalAccountedFor ==
    phase = "busy" /\ cmd \in Goal => /\ goal[cmd] = "executing"
                                      /\ cb = cmd
                                      /\ cmd = active => bond = cmd /\ formed

\* Transitions of the node between any two steps of its goals lose no goal and
\* start none: an unfinished goal, flying or not, is watched by its bond or is the
\* one stranded goal (and some are stranded, see WatchedFlight), and the node is
\* without a controller only when none of its commands is in flight, also when a
\* cancel or a bond that finds no controller kills it (on_deactivate, on_cleanup,
\* on_shutdown, set_process_callback, handle_navigate_async_cancel).
LifecycleSound ==
    /\ TypeOK
    /\ GoalsAccountedFor
    /\ FlyingGoalAccountedFor
    /\ ~HasOffboard => phase = "idle" /\ cb = NoGoal
=============================================================================
