---------------------------- MODULE OffboardFsm ----------------------------
(***************************************************************************)
(* The flight state machine of clover2_fcu_bridge: offboard_fsm, the       *)
(* navigation_controller it drives, the offboard wrapper whose 20 ms timer *)
(* ticks both, and, as far as they read it, the flight controller behind   *)
(* the backend.                                                            *)
(*                                                                         *)
(* The executor is single threaded, so a service call, a timer callback    *)
(* and a subscription callback are each one step.  The members of the C++  *)
(* objects form the record fsm; what the backend last heard from the       *)
(* flight controller is in link, pose, timely, mode and armed, which the   *)
(* environment changes as it likes: requests may be refused, lost or       *)
(* answered late, a pilot may change the mode, telemetry may stop.         *)
(*                                                                         *)
(* A pose is a height on a line.  Two values stand for what is not one:    *)
(* NoPose is a default PoseStamped with an empty frame, BadPose one with a *)
(* non-finite field.                                                       *)
(***************************************************************************)
EXTENDS Integers

CONSTANTS
    MaxPlace,         \* places are the heights 0..MaxPlace
    HeightLow,        \* m_height_low: no command is completed below it
    StreamTime,       \* k_stream_before_offboard_ns, in units of Elapse
    OffboardTimeout,  \* k_waiting_offboard_ns
    ArmTimeout,       \* k_waiting_arm_ns
    MaxAge            \* ages from here on are not told apart

ASSUME TimesAssumption ==
    /\ MaxPlace \in Nat
    /\ HeightLow \in 0 .. MaxPlace
    /\ MaxAge \in Nat
    /\ {StreamTime, OffboardTimeout, ArmTimeout} \subseteq 1 .. MaxAge

VARIABLES
    fsm,      \* the members of offboard_fsm, navigation_controller, offboard
    link,     \* the last mavros State said connected
    pose,     \* the last local pose; NoPose until the first one
    timely,   \* its stamp is neither stale nor in the future
    mode,     \* the last reported flight mode
    armed,    \* the last reported arming state
    rungs,    \* history: how many of the three checks the command in hand
              \* has passed (see Climbed)
    heard     \* history: a State was reported since that command was taken

env == <<link, pose, timely, mode, armed>>
vars == <<fsm, link, pose, timely, mode, armed, rungs, heard>>

-----------------------------------------------------------------------------
Place == 0 .. MaxPlace
NoPose == -1
BadPose == -2
Poses == Place \cup {NoPose, BadPose}

Finite(p) == p # BadPose

States == {"idle", "streaming_setpoints", "waiting_offboard", "waiting_arm",
           "hold", "position", "navigation", "error"}
Requests == {"navigate_request", "position_request"}
Failures == {"fcu_lost", "timeout", "backend_error", "tf_failed"}
Events == Requests \cup Failures \cup
          {"stream_primed", "offboard_enabled", "armed", "target_reached", "none"}
Modes == {"position", "offboard"}

\* The states a command passes through before it is done, in order.
Starting == {"streaming_setpoints", "waiting_offboard", "waiting_arm"}
Flying == {"position", "navigation"}
Busy == Starting \cup Flying

\* Fault: hold is not watched.
MotionStateBusyOnly(s) == s \in Busy
MotionState(s) == s \in Busy \cup {"hold"}

\* Fault: a command is taken in error.
CanAcceptCommandInError(s) == s \in {"idle", "hold", "error"}
CanAcceptCommand(s) == s \in {"idle", "hold"}

NavController == [has: BOOLEAN, target: Poses, reached: BOOLEAN, setpoint: Poses]
NoNavigation == [has |-> FALSE, target |-> NoPose, reached |-> FALSE, setpoint |-> NoPose]

FsmRecord ==
    [st: States, age: 0 .. MaxAge, cmd: Poses, isNav: BOOLEAN, hold: Poses,
     safe: Poses, last: Poses, setpoint: Poses, nav: NavController]

\* offboard_fsm::reset() and navigation_controller::reset() on a machine whose
\* last setpoint becomes p.
Cleared(p) ==
    [st |-> "idle", age |-> 0, cmd |-> NoPose, isNav |-> FALSE, hold |-> NoPose,
     safe |-> NoPose, last |-> NoPose, setpoint |-> p, nav |-> NoNavigation]

TypeOK ==
    /\ fsm \in FsmRecord
    /\ link \in BOOLEAN
    /\ pose \in Poses
    /\ timely \in BOOLEAN
    /\ mode \in Modes
    /\ armed \in BOOLEAN
    /\ rungs \in 0 .. 3
    /\ heard \in BOOLEAN

Ready == link /\ pose # NoPose

Init ==
    /\ fsm = Cleared(NoPose)
    /\ link = FALSE
    /\ pose = NoPose
    /\ timely = TRUE
    /\ mode = "position"
    /\ armed = FALSE
    /\ rungs = 0
    /\ heard = FALSE

-----------------------------------------------------------------------------
(* The transition table and what entering a state does.                    *)

\* Fault: OFFBOARD mode is taken for permission to fly.
NextStateNoArming(s, isNav, ev) ==
    CASE CanAcceptCommand(s) /\ ev \in Requests               -> "streaming_setpoints"
      [] s = "hold" /\ ev = "backend_error"                   -> "error"
      [] s \in Busy /\ ev \in Failures                        -> "error"
      [] s = "streaming_setpoints" /\ ev = "stream_primed"    -> "waiting_offboard"
      [] s = "waiting_offboard" /\ ev = "offboard_enabled" /\ isNav  -> "navigation"
      [] s = "waiting_offboard" /\ ev = "offboard_enabled" /\ ~isNav -> "position"
      [] s \in Flying /\ ev = "target_reached"                -> "hold"
      [] OTHER                                                -> s

NextState(s, isNav, ev) ==
    CASE CanAcceptCommand(s) /\ ev \in Requests               -> "streaming_setpoints"
      [] s = "hold" /\ ev = "backend_error"                   -> "error"
      [] s \in Busy /\ ev \in Failures                        -> "error"
      [] s = "streaming_setpoints" /\ ev = "stream_primed"    -> "waiting_offboard"
      [] s = "waiting_offboard" /\ ev = "offboard_enabled"    -> "waiting_arm"
      [] s = "waiting_arm" /\ ev = "armed" /\ isNav           -> "navigation"
      [] s = "waiting_arm" /\ ev = "armed" /\ ~isNav          -> "position"
      [] s \in Flying /\ ev = "target_reached"                -> "hold"
      [] OTHER                                                -> s

\* Fault: m_has_target is not set.
SetTargetUnset(nav, target) ==
    [nav EXCEPT !.target = target, !.reached = FALSE]

\* navigation_controller::set_target(): the setpoint is left as it was.
SetTarget(nav, target) ==
    [nav EXCEPT !.has = TRUE, !.target = target, !.reached = FALSE]

\* transition(): entering error remembers where the vehicle was, or the
\* command if no pose was ever seen; entering navigation hands the command to
\* the controller.
Enter(f, to) ==
    IF to = f.st
    THEN f
    ELSE [f EXCEPT
            !.st = to,
            !.age = 0,
            !.safe = IF to # "error" THEN @ ELSE IF f.last = NoPose THEN f.cmd ELSE f.last,
            !.nav = IF to = "navigation" THEN SetTarget(@, f.cmd) ELSE @]

\* handle_event(): refused says that the set_mode call made on entering
\* waiting_offboard throws.
HandleEvent(f, ev, refused) ==
    LET to == NextState(f.st, f.isNav, ev)
        noted == [f EXCEPT
                    !.hold = IF f.st \in Flying /\ ev = "target_reached" THEN f.cmd ELSE @]
        entered == Enter(noted, to)
        settled == IF refused /\ to = "waiting_offboard" /\ f.st # to
                   THEN Enter(entered, "error") ELSE entered
    IN  IF f.st = "navigation" /\ to # "navigation"
        THEN [settled EXCEPT !.nav = NoNavigation]
        ELSE settled

-----------------------------------------------------------------------------
(* One period of the 20 ms timer.                                          *)

TelemetryOk == Finite(pose) /\ (pose = NoPose \/ timely)

\* Fault: nobody gives up waiting to be armed.
ExpiredModeOnly(f) == f.st = "waiting_offboard" /\ f.age >= OffboardTimeout
Expired(f) ==
    \/ f.st = "waiting_offboard" /\ f.age >= OffboardTimeout
    \/ f.st = "waiting_arm" /\ f.age >= ArmTimeout

Answer(f) ==
    CASE f.st = "streaming_setpoints" /\ f.age >= StreamTime -> "stream_primed"
      [] f.st = "waiting_offboard" /\ mode = "offboard"      -> "offboard_enabled"
      [] f.st = "waiting_arm" /\ armed                       -> "armed"
      [] OTHER                                               -> "none"

\* poll_automatic_events(): loss first, then a deadline, then the answer the
\* deadline was waiting for.
PollEvent(f) ==
    IF ~MotionState(f.st) THEN "none"
    ELSE IF ~Ready THEN "fcu_lost"
    ELSE IF Expired(f) THEN "timeout"
    ELSE Answer(f)

\* The carrot: one place from where the vehicle is towards the target.
Carrot(from, to) ==
    IF ~Finite(from) \/ ~Finite(to) THEN BadPose
    ELSE IF from < to THEN from + 1 ELSE IF from > to THEN from - 1 ELSE to

\* Fault: the target is not checked for non-finite fields.
NavUpdateUnchecked(nav, current) ==
    IF ~nav.has
    THEN [nav EXCEPT !.setpoint = current, !.reached = TRUE]
    ELSE [nav EXCEPT !.setpoint = Carrot(current, nav.target),
                     !.reached = Finite(current) /\ current = nav.target]

\* navigation_controller::update()
NavUpdate(nav, current) ==
    IF ~nav.has
    THEN [nav EXCEPT !.setpoint = current, !.reached = TRUE]
    ELSE IF ~Finite(current) \/ ~Finite(nav.target)
         THEN [nav EXCEPT !.setpoint = current, !.reached = FALSE]
         ELSE [nav EXCEPT !.setpoint = Carrot(current, nav.target),
                          !.reached = (current = nav.target)]

\* position_close_enough(): any comparison with a non-finite field is false.
CloseEnough(current, target) == Finite(current) /\ Finite(target) /\ current = target

\* Fault: the command is streamed while the flight controller is being asked.
OutputEager(f, current) ==
    CASE f.st = "hold"                             -> f.hold
      [] f.st \in Starting \cup {"position"}       -> f.cmd
      [] f.st = "navigation"                       -> f.nav.setpoint
      [] f.st = "error"                            -> f.safe
      [] OTHER                                     -> current

\* What is sent to the flight controller in each state.
Output(f, current) ==
    CASE f.st = "hold"       -> f.hold
      [] f.st = "position"   -> f.cmd
      [] f.st = "navigation" -> f.nav.setpoint
      [] f.st = "error"      -> f.safe
      [] OTHER               -> current

\* The stages of tick(): telemetry check, automatic events, arrival, setpoint.
Checked(f) ==
    IF MotionState(f.st) /\ ~TelemetryOk
    THEN HandleEvent(f, "backend_error", FALSE) ELSE f

Polled(f, refused) ==
    IF f.st # "error" THEN HandleEvent(f, PollEvent(f), refused) ELSE f

Arrived(f) ==
    IF f.st = "navigation"
    THEN LET moved == [f EXCEPT !.nav = NavUpdate(@, pose)]
         IN  IF moved.nav.reached
             THEN HandleEvent(moved, "target_reached", FALSE) ELSE moved
    ELSE IF f.st = "position" /\ CloseEnough(pose, f.cmd)
         THEN HandleEvent(f, "target_reached", FALSE)
         ELSE f

FsmTick(refused) ==
    \E placed \in {[fsm EXCEPT !.last = pose]} :
    \E checked \in {Checked(placed)} :
    \E polled \in {Polled(checked, refused)} :
    \E done \in {IF fsm.st = "error" THEN placed ELSE Arrived(polled)} :
        fsm' = [done EXCEPT !.setpoint = Output(done, pose)]

\* The history variable climbs one rung when a period of the timer finds, with
\* a live link, setpoints streamed for long enough, then OFFBOARD in the last
\* report, then arming in it.  Each command starts at the bottom, but the last
\* report stands: it may have come before the command.
Climbed ==
    IF Ready /\ \/ rungs = 0 /\ fsm.st \in Starting /\ fsm.age >= StreamTime
                \/ rungs = 1 /\ mode = "offboard"
                \/ rungs = 2 /\ armed
    THEN rungs + 1 ELSE rungs

\* publish_offboard(): nothing happens while idle and not ready.
Tick(refused) ==
    /\ Ready \/ fsm.st # "idle"
    /\ FsmTick(refused)
    /\ rungs' = Climbed
    /\ UNCHANGED <<env, heard>>

-----------------------------------------------------------------------------
(* Commands.                                                               *)

\* A height too low is raised; a non-finite one compares with nothing and
\* stays what it is.
Clamped(p) == IF Finite(p) /\ p < HeightLow THEN HeightLow ELSE p

\* complete_setpoint(): coordinates left open are taken from the last
\* setpoint, whose default is the origin.
Completed(target) ==
    Clamped(IF target # NoPose THEN target
            ELSE IF fsm.setpoint = NoPose THEN 0 ELSE fsm.setpoint)

\* Fault: the command is stored before the state is checked.
RequestAnytime(ev, target) ==
    /\ fsm' = HandleEvent([fsm EXCEPT !.cmd = Completed(target),
                                      !.isNav = (ev = "navigate_request")],
                          ev, FALSE)
    /\ rungs' = IF CanAcceptCommand(fsm.st) THEN 0 ELSE rungs
    /\ heard' = (heard /\ ~CanAcceptCommand(fsm.st))
    /\ UNCHANGED env

\* request_navigate() and request_position(), from a state that takes commands.
Request(ev, target) ==
    /\ CanAcceptCommand(fsm.st)
    /\ fsm' = HandleEvent([fsm EXCEPT !.cmd = Completed(target),
                                      !.isNav = (ev = "navigate_request")],
                          ev, FALSE)
    /\ rungs' = 0
    /\ heard' = FALSE
    /\ UNCHANGED env

Navigate(target) == Request("navigate_request", target)
SetPosition(target) == Request("position_request", target)

\* reset_state(): the land and cancel paths, and a failed navigation.
ResetState ==
    /\ fsm' = Cleared(pose)
    /\ rungs' = 0
    /\ heard' = FALSE
    /\ UNCHANGED env

-----------------------------------------------------------------------------
(* The environment.                                                        *)

Elapse ==
    /\ fsm.age < MaxAge
    /\ fsm' = [fsm EXCEPT !.age = @ + 1]
    /\ UNCHANGED <<link, pose, timely, mode, armed, rungs, heard>>

PoseReport ==
    /\ pose' \in Place \cup {BadPose}
    /\ timely' = TRUE
    /\ UNCHANGED <<fsm, link, mode, armed, rungs, heard>>

\* The pose on record ages past k_stale_pose_ns, or carries a future stamp.
PoseAges ==
    /\ pose # NoPose
    /\ timely' = FALSE
    /\ UNCHANGED <<fsm, link, pose, mode, armed, rungs, heard>>

StateReport ==
    /\ link' \in BOOLEAN
    /\ mode' \in Modes
    /\ armed' \in BOOLEAN
    /\ heard' = TRUE
    /\ UNCHANGED <<fsm, pose, timely, rungs>>

\* The process dies and the launch file respawns it.
Respawn ==
    /\ fsm' = Cleared(NoPose)
    /\ link' = FALSE
    /\ pose' = NoPose
    /\ timely' = TRUE
    /\ mode' = "position"
    /\ armed' = FALSE
    /\ rungs' = 0
    /\ heard' = FALSE

Next ==
    \/ \E refused \in BOOLEAN : Tick(refused)
    \/ \E target \in Place \cup {NoPose} : Navigate(target) \/ SetPosition(target)
    \/ ResetState
    \/ Elapse
    \/ PoseReport
    \/ PoseAges
    \/ StateReport
    \/ Respawn

Spec == Init /\ [][Next]_vars

\* The timer fires and time passes.
Fairness == WF_vars(\E refused \in BOOLEAN : Tick(refused)) /\ WF_vars(Elapse)
FairSpec == Spec /\ Fairness

-----------------------------------------------------------------------------
(* Properties.                                                             *)

TimerFires == \E refused \in BOOLEAN : Tick(refused)

\* A command moves the vehicle only after three checks made for it, in this
\* order and in as many periods: a primed setpoint stream, OFFBOARD mode and
\* arming (poll_automatic_events and handle_event).  A check passed for an
\* earlier command does not count, nor a deadline that passes with the answer.
\* The report a check reads may be older than the command, since no member
\* dates it (mavros.cpp:118): with no report since, the vehicle moves only
\* while the one left over says OFFBOARD and armed.
LadderBeforeFlight ==
    fsm.st \in Flying \cup {"hold"} =>
        /\ rungs = 3
        /\ heard \/ (mode = "offboard" /\ armed)

\* What is streamed is what the state stands for, however commands, resets and
\* failures interleave: the hold pose is the command last reached, the
\* controller navigates to the command in hand, an error freezes the setpoint.
FlightIntent ==
    /\ fsm.st = "hold" => fsm.setpoint = fsm.hold /\ fsm.hold = fsm.cmd
    /\ fsm.st = "position" => fsm.setpoint = fsm.cmd
    /\ fsm.st = "navigation" => /\ fsm.nav.has
                                /\ fsm.nav.target = fsm.cmd
                                /\ fsm.setpoint = fsm.nav.setpoint
    /\ fsm.st = "error" => fsm.setpoint = fsm.safe

\* Navigating and holding never stream a non-finite setpoint, although a
\* command may inherit one from the setpoint that completes it
\* (navigation_controller::update, the telemetry check in tick).
FiniteNavigation == fsm.st \in {"navigation", "hold"} => Finite(fsm.setpoint)

\* Before it is confirmed, and after a reset, a command does not pull the
\* vehicle: a period of the timer publishes a place other than where the vehicle
\* is only at the top of the ladder or in error (tick).
NoJumpBeforeConfirmed ==
    [][TimerFires /\ fsm'.setpoint # pose => rungs' = 3 \/ fsm'.st = "error"]_vars

\* Hold is entered only where the command wanted the vehicle: a stale
\* target_reached flag or an old hold pose never ends a command (tick, update).
HoldOnlyAtTarget ==
    [][fsm.st # "hold" /\ fsm'.st = "hold" => pose = fsm.cmd]_vars

\* One period of the timer is enough to stop a command when the link or the
\* telemetry is gone; a vehicle in hold stops on bad telemetry only
\* (telemetry_ok, poll_automatic_events).
LossEndsCommand ==
    [][TimerFires => /\ fsm.st \in Busy /\ ~(Ready /\ TelemetryOk) => fsm'.st = "error"
                     /\ fsm.st = "hold" /\ ~TelemetryOk => fsm'.st = "error"]_vars

\* A command does not stay in the starting states for ever, whatever the
\* flight controller answers or fails to answer.
StartingEnds == fsm.st \in Starting ~> fsm.st \notin Starting

\* The state machine is an offboard controller as the bridge server sees it.
Phase ==
    CASE fsm.st \in Busy -> "busy"
      [] OTHER           -> fsm.st

Contract == INSTANCE OffboardContract
    WITH Command <- Place \cup {BadPose}, NoCommand <- NoPose,
         phase <- Phase, cmd <- fsm.cmd

ImplementsContract == Contract!ContractSpec
=============================================================================
