-------------------------- MODULE OffboardFsmProofs --------------------------
(***************************************************************************)
(* Theorems about OffboardFsm for any line of places and any deadlines:    *)
(* types, the ladder of confirmations, what is streamed, and that the      *)
(* state machine is the controller OffboardContract describes.             *)
(***************************************************************************)
EXTENDS OffboardFsm, TLAPS

USE TimesAssumption DEF Place, NoPose, BadPose, Poses

LEMMA NextStateIsState ==
    ASSUME NEW s \in States, NEW isNav \in BOOLEAN, NEW ev \in Events
    PROVE  NextState(s, isNav, ev) \in States
  BY DEF NextState, States, Busy, Starting, Flying

\* What entering a state leaves alone.
LEMMA EnterFacts ==
    ASSUME NEW f \in FsmRecord, NEW to \in States
    PROVE  /\ Enter(f, to) \in FsmRecord
           /\ Enter(f, to).st = to
           /\ Enter(f, to).cmd = f.cmd
           /\ Enter(f, to).isNav = f.isNav
           /\ Enter(f, to).hold = f.hold
           /\ Enter(f, to).setpoint = f.setpoint
           /\ to # "navigation" => Enter(f, to).nav = f.nav
           /\ to = "navigation" /\ f.st # to => Enter(f, to).nav = SetTarget(f.nav, f.cmd)
<1>1. CASE to = f.st
  BY <1>1 DEF Enter
<1>2. CASE to # f.st
  <2> DEFINE safe == IF to # "error" THEN f.safe ELSE IF f.last = NoPose THEN f.cmd ELSE f.last
             nav == IF to = "navigation" THEN SetTarget(f.nav, f.cmd) ELSE f.nav
  <2>1. safe \in Poses
    BY DEF FsmRecord
  <2>2. f.nav \in NavController /\ f.cmd \in Poses
    BY DEF FsmRecord
  <2>3. nav \in NavController
    BY <2>2 DEF SetTarget, NavController
  <2>4. 0 \in 0 .. MaxAge
    OBVIOUS
  <2>5. Enter(f, to) = [f EXCEPT !.st = to, !.age = 0, !.safe = safe, !.nav = nav]
    BY <1>2 DEF Enter
  <2> HIDE DEF safe, nav
  <2>6. /\ Enter(f, to) \in FsmRecord
        /\ Enter(f, to).st = to
        /\ Enter(f, to).cmd = f.cmd
        /\ Enter(f, to).isNav = f.isNav
        /\ Enter(f, to).hold = f.hold
        /\ Enter(f, to).setpoint = f.setpoint
        /\ Enter(f, to).nav = nav
    BY <2>1, <2>3, <2>4, <2>5 DEF FsmRecord
  <2>7. QED
    BY <1>2, <2>6 DEF nav
<1>3. QED
  BY <1>1, <1>2

\* What an event does, whatever its state table entry.
LEMMA HandleEventFacts ==
    ASSUME NEW f \in FsmRecord, NEW ev \in Events, NEW refused \in BOOLEAN
    PROVE  LET g == HandleEvent(f, ev, refused)
               to == NextState(f.st, f.isNav, ev)
           IN  /\ g \in FsmRecord
               /\ g.cmd = f.cmd
               /\ g.setpoint = f.setpoint
               /\ \/ g.st = to
                  \/ g.st = "error" /\ to = "waiting_offboard" /\ f.st # to
               /\ ~refused => g.st = to
               /\ g.hold = IF f.st \in Flying /\ ev = "target_reached" THEN f.cmd ELSE f.hold
               /\ to = "navigation" /\ f.st # to => g.nav = SetTarget(f.nav, f.cmd)
               /\ to = "navigation" /\ f.st = to => g.nav = f.nav
<1> DEFINE to == NextState(f.st, f.isNav, ev)
           reached == f.st \in Flying /\ ev = "target_reached"
           noted == [f EXCEPT !.hold = IF reached THEN f.cmd ELSE f.hold]
           entered == Enter(noted, to)
           refusal == refused /\ to = "waiting_offboard" /\ f.st # to
           settled == IF refusal THEN Enter(entered, "error") ELSE entered
           g == HandleEvent(f, ev, refused)
<1>1. to \in States
  BY NextStateIsState DEF FsmRecord
<1>2. /\ noted \in FsmRecord
      /\ noted.st = f.st /\ noted.cmd = f.cmd /\ noted.setpoint = f.setpoint /\ noted.nav = f.nav
      /\ noted.hold = IF reached THEN f.cmd ELSE f.hold
  BY DEF FsmRecord
<1>3. g = IF f.st = "navigation" /\ to # "navigation"
          THEN [settled EXCEPT !.nav = NoNavigation] ELSE settled
  BY DEF HandleEvent
<1> HIDE DEF to, noted
<1>4. /\ entered \in FsmRecord
      /\ entered.st = to /\ entered.cmd = f.cmd /\ entered.setpoint = f.setpoint
      /\ entered.hold = noted.hold
      /\ to = "navigation" /\ f.st # to => entered.nav = SetTarget(f.nav, f.cmd)
      /\ to = f.st => entered.nav = f.nav
  <2>1. to = f.st => entered = noted
    BY <1>2 DEF Enter
  <2>2. QED
    BY <1>1, <1>2, <2>1, EnterFacts
<1> HIDE DEF entered
<1>5. /\ settled \in FsmRecord
      /\ settled.st = IF refusal THEN "error" ELSE to
      /\ settled.cmd = f.cmd /\ settled.setpoint = f.setpoint
      /\ settled.hold = noted.hold
      /\ ~refusal => settled.nav = entered.nav
  <2>1. "error" \in States
    BY DEF States
  <2>2. QED
    BY <1>4, <2>1, EnterFacts
<1> HIDE DEF settled, g
<1>6. NoNavigation \in NavController
  BY DEF NoNavigation, NavController
<1>7. /\ g \in FsmRecord
      /\ g.st = settled.st /\ g.cmd = f.cmd /\ g.setpoint = f.setpoint /\ g.hold = noted.hold
      /\ to = "navigation" => g.nav = settled.nav
  BY <1>3, <1>5, <1>6 DEF FsmRecord
<1>8. QED
  BY <1>2, <1>4, <1>5, <1>7 DEF g, to

-----------------------------------------------------------------------------
\* The stages of a tick.
LEMMA CheckedFacts ==
    ASSUME NEW f \in FsmRecord
    PROVE  /\ Checked(f) \in FsmRecord
           /\ Checked(f).cmd = f.cmd
           /\ MotionState(f.st) /\ ~TelemetryOk => Checked(f).st = "error"
           /\ ~(MotionState(f.st) /\ ~TelemetryOk) => Checked(f) = f
<1>1. "backend_error" \in Events /\ FALSE \in BOOLEAN
  BY DEF Events, Failures
<1>2. MotionState(f.st) => NextState(f.st, f.isNav, "backend_error") = "error"
  BY DEF MotionState, NextState, Busy, Starting, Flying, Requests, Failures, CanAcceptCommand
<1>3. QED
  BY <1>1, <1>2, HandleEventFacts DEF Checked

LEMMA PollEventFacts ==
    ASSUME NEW f \in FsmRecord
    PROVE  /\ PollEvent(f) \in Events \ (Requests \cup {"target_reached"})
           /\ f.st = "idle" => PollEvent(f) = "none"
           /\ PollEvent(f) = "stream_primed" => Ready /\ f.age >= StreamTime
           /\ PollEvent(f) = "offboard_enabled" => Ready /\ mode = "offboard"
           /\ PollEvent(f) = "armed" => Ready /\ armed
           /\ f.st \in Flying \cup {"hold"} => PollEvent(f) \in {"none", "fcu_lost"}
           /\ MotionState(f.st) /\ ~Ready => PollEvent(f) = "fcu_lost"
<1>1. /\ Answer(f) \in {"stream_primed", "offboard_enabled", "armed", "none"}
      /\ Answer(f) = "stream_primed" => f.age >= StreamTime
      /\ Answer(f) = "offboard_enabled" => mode = "offboard"
      /\ Answer(f) = "armed" => armed
      /\ f.st \in Flying \cup {"hold"} => Answer(f) = "none"
  BY DEF Answer, Flying
<1>2. f.st \in Flying \cup {"hold"} => ~Expired(f)
  BY DEF Expired, Flying
<1>3. QED
  BY <1>1, <1>2 DEF PollEvent, Events, Requests, Failures, MotionState, Busy, Starting, Flying

LEMMA PolledFacts ==
    ASSUME NEW f \in FsmRecord, NEW refused \in BOOLEAN
    PROVE  LET p == Polled(f, refused)
           IN  /\ p \in FsmRecord
               /\ p.cmd = f.cmd
               /\ p.hold = f.hold
               /\ f.st \in {"idle", "hold", "error"} => p.st = f.st
               /\ f.st = "streaming_setpoints" =>
                     \/ p.st \in {f.st, "error"}
                     \/ p.st = "waiting_offboard" /\ Ready /\ f.age >= StreamTime
               /\ f.st = "waiting_offboard" =>
                     \/ p.st \in {f.st, "error"}
                     \/ p.st = "waiting_arm" /\ Ready /\ mode = "offboard"
               /\ f.st = "waiting_arm" =>
                     \/ p.st \in {f.st, "error"}
                     \/ p.st \in Flying /\ Ready /\ armed
               /\ f.st \in Flying => p.st \in {f.st, "error"}
               /\ f.st \in Busy /\ ~Ready => p.st = "error"
               /\ p.st = "navigation" =>
                     p.nav = IF f.st = p.st THEN f.nav ELSE SetTarget(f.nav, f.cmd)
<1> DEFINE ev == PollEvent(f)
           to == NextState(f.st, f.isNav, ev)
           p == Polled(f, refused)
<1>1. f.st = "error" => p = f
  BY DEF Polled
<1>2. ASSUME f.st # "error"
      PROVE  p = HandleEvent(f, ev, refused) /\ ev \in Events /\ ev # "target_reached"
  BY <1>2, PollEventFacts DEF Polled, Events
<1>3. /\ f.st \in {"idle", "hold"} => to = f.st
      /\ f.st = "streaming_setpoints" =>
            \/ to \in {f.st, "error"}
            \/ to = "waiting_offboard" /\ Ready /\ f.age >= StreamTime
      /\ f.st = "waiting_offboard" =>
            \/ to \in {f.st, "error"}
            \/ to = "waiting_arm" /\ Ready /\ mode = "offboard"
      /\ f.st = "waiting_arm" =>
            \/ to \in {f.st, "error"}
            \/ to \in Flying /\ Ready /\ armed
      /\ f.st \in Flying => to \in {f.st, "error"}
      /\ f.st \in Busy /\ ~Ready => to = "error"
  BY PollEventFacts DEF NextState, Busy, Starting, Flying, Requests, Failures, CanAcceptCommand,
                        MotionState, FsmRecord, States
<1> HIDE DEF ev, to, p
<1>4. CASE f.st = "error"
  BY <1>1, <1>4 DEF p, Flying, Busy, Starting
<1>5. CASE f.st # "error"
  <2>1. /\ p \in FsmRecord /\ p.cmd = f.cmd /\ p.hold = f.hold
        /\ \/ p.st = to
           \/ p.st = "error" /\ to = "waiting_offboard" /\ f.st # to
        /\ to = "navigation" => p.nav = IF f.st = to THEN f.nav ELSE SetTarget(f.nav, f.cmd)
    BY <1>2, <1>5, HandleEventFacts DEF to
  <2>2. QED
    BY <1>3, <1>5, <2>1 DEF p, Flying, Busy, Starting
<1>6. QED
  BY <1>4, <1>5

\* The carrot stays on the line and the controller keeps its target; what it
\* streams is finite when the vehicle's pose is.
LEMMA NavUpdateFacts ==
    ASSUME NEW nav \in NavController, NEW current \in Poses
    PROVE  LET n == NavUpdate(nav, current)
           IN  /\ n \in NavController
               /\ n.has = nav.has
               /\ n.target = nav.target
               /\ Finite(current) => Finite(n.setpoint)
               /\ nav.has /\ n.reached => Finite(current) /\ current = nav.target
<1> DEFINE n == NavUpdate(nav, current)
<1>1. CASE ~nav.has
  BY <1>1 DEF NavUpdate, NavController
<1>2. CASE nav.has /\ (~Finite(current) \/ ~Finite(nav.target))
  BY <1>2 DEF NavUpdate, NavController
<1>3. CASE nav.has /\ Finite(current) /\ Finite(nav.target)
  <2>1. current \in Int /\ nav.target \in Poses /\ nav.target \in Int
    BY DEF NavController
  <2>2. Carrot(current, nav.target) \in Poses \ {BadPose}
    BY <1>3, <2>1 DEF Carrot, Finite
  <2>3. n = [nav EXCEPT !.setpoint = Carrot(current, nav.target),
                        !.reached = (current = nav.target)]
    BY <1>3 DEF NavUpdate
  <2> HIDE DEF n
  <2>4. QED
    BY <1>3, <2>2, <2>3 DEF NavController, Finite, n
<1>4. QED
  BY <1>1, <1>2, <1>3 DEF NavController

LEMMA ArrivedFacts ==
    ASSUME NEW f \in FsmRecord, pose \in Poses
    PROVE  LET a == Arrived(f)
           IN  /\ a \in FsmRecord
               /\ a.cmd = f.cmd
               /\ f.st \notin Flying => a = f
               /\ f.st \in Flying => a.st \in {f.st, "hold"}
               /\ f.st \in Flying /\ a.st = "hold" =>
                     /\ a.hold = f.cmd
                     /\ f.st = "position" => Finite(pose) /\ pose = f.cmd
                     /\ f.st = "navigation" => NavUpdate(f.nav, pose).reached
               /\ a.st = "navigation" => a.nav = NavUpdate(f.nav, pose)
<1> DEFINE a == Arrived(f)
           moved == [f EXCEPT !.nav = NavUpdate(f.nav, pose)]
<1>1. "target_reached" \in Events /\ FALSE \in BOOLEAN
  BY DEF Events
<1>2. ASSUME NEW h \in FsmRecord, h.st \in Flying
      PROVE  LET g == HandleEvent(h, "target_reached", FALSE)
             IN  g \in FsmRecord /\ g.cmd = h.cmd /\ g.st = "hold" /\ g.hold = h.cmd
  <2>1. NextState(h.st, h.isNav, "target_reached") = "hold"
    BY <1>2 DEF NextState, Requests, Failures, CanAcceptCommand, Busy, Starting, Flying
  <2>2. QED
    BY <1>1, <1>2, <2>1, HandleEventFacts
<1>3. CASE f.st = "navigation"
  <2>1. /\ moved \in FsmRecord
        /\ moved.st = f.st /\ moved.cmd = f.cmd /\ moved.nav = NavUpdate(f.nav, pose)
    BY NavUpdateFacts DEF FsmRecord
  <2>2. CASE moved.nav.reached
    <3>1. a = HandleEvent(moved, "target_reached", FALSE)
      BY <1>3, <2>2 DEF Arrived
    <3> HIDE DEF moved, a
    <3>2. a \in FsmRecord /\ a.cmd = f.cmd /\ a.st = "hold" /\ a.hold = f.cmd
      BY <1>2, <1>3, <2>1, <3>1 DEF Flying
    <3>3. "hold" # "navigation" /\ "navigation" # "position" /\ "hold" # "position"
      OBVIOUS
    <3>4. NavUpdate(f.nav, pose).reached
      BY <2>1, <2>2
    <3>5. QED
      BY <1>3, <3>2, <3>3, <3>4 DEF Flying, a
  <2>3. CASE ~moved.nav.reached
    <3>1. a = moved
      BY <1>3, <2>3 DEF Arrived
    <3> HIDE DEF moved
    <3>2. QED
      BY <1>3, <2>1, <3>1 DEF Flying
  <2>4. QED
    BY <2>2, <2>3
<1>4. CASE f.st = "position" /\ CloseEnough(pose, f.cmd)
  <2>1. a = HandleEvent(f, "target_reached", FALSE)
    BY <1>4 DEF Arrived
  <2> HIDE DEF a
  <2>2. a \in FsmRecord /\ a.cmd = f.cmd /\ a.st = "hold" /\ a.hold = f.cmd
    BY <1>2, <1>4, <2>1 DEF Flying
  <2>3. QED
    BY <1>4, <2>2 DEF Flying, CloseEnough, a
<1>5. CASE f.st # "navigation" /\ ~(f.st = "position" /\ CloseEnough(pose, f.cmd))
  <2>1. a = f
    BY <1>5 DEF Arrived
  <2>2. QED
    BY <1>5, <2>1 DEF Flying
<1>6. QED
  BY <1>3, <1>4, <1>5

\* The setpoint a tick leaves is the one its last state stands for.
LEMMA TickSetpoint ==
    ASSUME TypeOK, NEW done \in FsmRecord
    PROVE  LET g == [done EXCEPT !.setpoint = Output(done, pose)]
           IN  /\ g \in FsmRecord
               /\ g.st = done.st /\ g.cmd = done.cmd /\ g.hold = done.hold /\ g.nav = done.nav
               /\ g.setpoint = Output(g, pose)
<1>1. Output(done, pose) \in Poses
  <2>1. /\ done.hold \in Poses /\ done.cmd \in Poses /\ done.safe \in Poses
        /\ done.nav.setpoint \in Poses /\ pose \in Poses
    BY DEF FsmRecord, NavController, TypeOK
  <2>2. QED
    BY <2>1 DEF Output
<1> DEFINE o == Output(done, pose)
           g == [done EXCEPT !.setpoint = o]
<1> HIDE DEF o
<1>2. /\ g \in FsmRecord
      /\ g.st = done.st /\ g.cmd = done.cmd /\ g.hold = done.hold /\ g.nav = done.nav
      /\ g.safe = done.safe
      /\ g.setpoint = o
  BY <1>1 DEF FsmRecord, o
<1> HIDE DEF g
<1>3. Output(g, pose) = o
  BY <1>2 DEF Output, o
<1>4. QED
  BY <1>2, <1>3 DEF g, o

\* The stages of a tick put together, in every state but error.
LEMMA StagesFacts ==
    ASSUME TypeOK, NEW refused \in BOOLEAN, fsm.st # "error"
    PROVE  LET a == Arrived(Polled(Checked([fsm EXCEPT !.last = pose]), refused))
           IN  /\ a \in FsmRecord
               /\ a.cmd = fsm.cmd
               /\ fsm.st = "idle" => a.st = "idle"
               /\ fsm.st = "streaming_setpoints" =>
                     \/ a.st \in {fsm.st, "error"}
                     \/ a.st = "waiting_offboard" /\ Ready /\ fsm.age >= StreamTime
               /\ fsm.st = "waiting_offboard" =>
                     \/ a.st \in {fsm.st, "error"}
                     \/ a.st = "waiting_arm" /\ Ready /\ mode = "offboard"
               /\ fsm.st = "waiting_arm" =>
                     \/ a.st \in {fsm.st, "error"}
                     \/ a.st \in Flying \cup {"hold"} /\ Ready /\ armed
               /\ fsm.st \in Flying => a.st \in {fsm.st, "hold", "error"}
               /\ fsm.st = "hold" => a.st \in {"hold", "error"} /\ a.hold = fsm.hold
               /\ fsm.st \in Busy /\ ~(Ready /\ TelemetryOk) => a.st = "error"
               /\ fsm.st = "hold" /\ ~TelemetryOk => a.st = "error"
               /\ fsm.st # "hold" /\ a.st = "hold" => a.hold = fsm.cmd
               /\ FlightIntent =>
                     /\ fsm.st # "hold" /\ a.st = "hold" => Finite(pose) /\ pose = fsm.cmd
                     /\ a.st = "navigation" => /\ a.nav.has
                                               /\ a.nav.target = fsm.cmd
                                               /\ Finite(a.nav.setpoint)
<1> DEFINE placed == [fsm EXCEPT !.last = pose]
           c == Checked(placed)
           p == Polled(c, refused)
           a == Arrived(p)
<1>1. /\ placed \in FsmRecord
      /\ placed.st = fsm.st /\ placed.cmd = fsm.cmd /\ placed.hold = fsm.hold
      /\ placed.nav = fsm.nav /\ placed.age = fsm.age
  BY DEF TypeOK, FsmRecord
<1> HIDE DEF placed
<1>2. /\ c \in FsmRecord
      /\ c.cmd = fsm.cmd
      /\ MotionState(fsm.st) /\ ~TelemetryOk => c.st = "error"
      /\ ~(MotionState(fsm.st) /\ ~TelemetryOk) => c = placed
  BY <1>1, CheckedFacts
<1> HIDE DEF c
<1>3. p \in FsmRecord /\ p.cmd = fsm.cmd /\ p.hold = c.hold
  BY <1>2, PolledFacts
<1>4. /\ c.st \in {"idle", "hold", "error"} => p.st = c.st
      /\ c.st = "streaming_setpoints" =>
            \/ p.st \in {c.st, "error"}
            \/ p.st = "waiting_offboard" /\ Ready /\ c.age >= StreamTime
      /\ c.st = "waiting_offboard" =>
            \/ p.st \in {c.st, "error"}
            \/ p.st = "waiting_arm" /\ Ready /\ mode = "offboard"
      /\ c.st = "waiting_arm" =>
            \/ p.st \in {c.st, "error"}
            \/ p.st \in Flying /\ Ready /\ armed
      /\ c.st \in Flying => p.st \in {c.st, "error"}
      /\ c.st \in Busy /\ ~Ready => p.st = "error"
      /\ p.st = "navigation" =>
            p.nav = IF c.st = p.st THEN c.nav ELSE SetTarget(c.nav, c.cmd)
  BY <1>2, PolledFacts
<1> HIDE DEF p
<1>5. /\ a \in FsmRecord
      /\ a.cmd = fsm.cmd
      /\ p.st \notin Flying => a = p
      /\ p.st \in Flying => a.st \in {p.st, "hold"}
      /\ p.st \in Flying /\ a.st = "hold" =>
            /\ a.hold = fsm.cmd
            /\ p.st = "position" => Finite(pose) /\ pose = fsm.cmd
            /\ p.st = "navigation" => NavUpdate(p.nav, pose).reached
      /\ a.st = "navigation" => a.nav = NavUpdate(p.nav, pose)
  BY <1>3, ArrivedFacts DEF TypeOK
<1> HIDE DEF a
<1>6. fsm.st \in States \ {"error"} /\ p.st \in States /\ a.st \in States
  BY <1>3, <1>5 DEF TypeOK, FsmRecord
<1>7. CASE MotionState(fsm.st) /\ ~TelemetryOk
  <2>1. a.st = "error" /\ fsm.st # "idle"
    BY <1>2, <1>4, <1>5, <1>7 DEF Flying, MotionState, Busy, Starting
  <2>2. a \in FsmRecord /\ a.cmd = fsm.cmd
    BY <1>5
  <2>3. fsm.st = "hold" => a.hold = fsm.hold
    <3>1. c.hold = placed.hold
      <4>1. "backend_error" \in Events /\ FALSE \in BOOLEAN /\ "backend_error" # "target_reached"
        BY DEF Events, Failures
      <4>2. c = HandleEvent(placed, "backend_error", FALSE)
        BY <1>1, <1>7 DEF Checked, c
      <4>3. QED
        BY <1>1, <4>1, <4>2, HandleEventFacts
    <3>2. p.st = "error" /\ a = p
      BY <1>2, <1>4, <1>5, <1>7 DEF Flying
    <3>3. QED
      BY <1>1, <1>3, <3>1, <3>2
  <2>4. QED
    BY <2>1, <2>2, <2>3 DEF Flying, a, p, c, placed
<1>8. CASE ~(MotionState(fsm.st) /\ ~TelemetryOk)
  <2>1. c.st = fsm.st /\ c.nav = fsm.nav /\ c.hold = fsm.hold /\ c.age = fsm.age
    BY <1>1, <1>2, <1>8
  <2>2. /\ fsm.st = "idle" => a.st = "idle"
        /\ fsm.st = "streaming_setpoints" =>
              \/ a.st \in {fsm.st, "error"}
              \/ a.st = "waiting_offboard" /\ Ready /\ fsm.age >= StreamTime
        /\ fsm.st = "waiting_offboard" =>
              \/ a.st \in {fsm.st, "error"}
              \/ a.st = "waiting_arm" /\ Ready /\ mode = "offboard"
        /\ fsm.st = "waiting_arm" =>
              \/ a.st \in {fsm.st, "error"}
              \/ a.st \in Flying \cup {"hold"} /\ Ready /\ armed
        /\ fsm.st \in Flying => a.st \in {fsm.st, "hold", "error"}
        /\ fsm.st = "hold" => a.st = "hold" /\ a.hold = fsm.hold
    BY <1>3, <1>4, <1>5, <2>1 DEF Flying
  <2>3. /\ fsm.st \in Busy /\ ~(Ready /\ TelemetryOk) => a.st = "error"
        /\ ~(fsm.st = "hold" /\ ~TelemetryOk)
    BY <1>4, <1>5, <1>8, <2>1 DEF Flying, MotionState, Busy, Starting
  <2>4. fsm.st # "hold" /\ a.st = "hold" =>
            /\ p.st \in Flying
            /\ a.hold = fsm.cmd
            /\ fsm.st \in Flying \cup {"waiting_arm"}
            /\ fsm.st \in Flying => fsm.st = p.st
    BY <1>4, <1>5, <1>6, <2>1 DEF Flying, States
  <2>5. ASSUME FlightIntent
        PROVE  /\ fsm.st # "hold" /\ a.st = "hold" => Finite(pose) /\ pose = fsm.cmd
               /\ a.st = "navigation" => /\ a.nav.has
                                         /\ a.nav.target = fsm.cmd
                                         /\ Finite(a.nav.setpoint)
    <3>1. p.st = "navigation" => p.nav \in NavController /\ p.nav.has /\ p.nav.target = fsm.cmd
      <4>1. fsm.st = "navigation" => fsm.nav.has /\ fsm.nav.target = fsm.cmd
        BY <2>5 DEF FlightIntent
      <4>2. /\ SetTarget(fsm.nav, fsm.cmd).has
            /\ SetTarget(fsm.nav, fsm.cmd).target = fsm.cmd
        BY DEF SetTarget, TypeOK, FsmRecord, NavController
      <4>3. QED
        BY <1>2, <1>3, <1>4, <2>1, <4>1, <4>2 DEF FsmRecord
    <3>2. pose \in Poses
      BY DEF TypeOK
    <3>3. fsm.st # "hold" /\ a.st = "hold" => Finite(pose) /\ pose = fsm.cmd
      BY <1>5, <2>4, <3>1, <3>2, NavUpdateFacts DEF Flying
    <3>4. a.st = "navigation" => p.st = "navigation" /\ Finite(pose)
      <4>1. a.st = "navigation" => p.st = "navigation"
        BY <1>5 DEF Flying
      <4>2. p.st = "navigation" => fsm.st \in Flying \cup {"waiting_arm"}
        BY <1>4, <1>6, <2>1 DEF States, Flying
      <4>3. fsm.st \in Flying \cup {"waiting_arm"} => Finite(pose)
        BY <1>8 DEF MotionState, Busy, Starting, TelemetryOk
      <4>4. QED
        BY <4>1, <4>2, <4>3
    <3>5. QED
      BY <1>5, <3>1, <3>2, <3>3, <3>4, NavUpdateFacts
  <2>6. QED
    BY <1>5, <2>2, <2>3, <2>4, <2>5 DEF a, p, c, placed
<1>9. QED
  BY <1>7, <1>8

-----------------------------------------------------------------------------
\* What one period of the timer does to the machine.
LEMMA TickFacts ==
    ASSUME TypeOK, NEW refused \in BOOLEAN, Tick(refused)
    PROVE  /\ fsm' \in FsmRecord
           /\ fsm'.cmd = fsm.cmd
           /\ fsm'.setpoint = Output(fsm', pose)
           /\ fsm.st = "idle" => fsm'.st = "idle"
           /\ fsm.st = "error" => fsm'.st = "error"
           /\ fsm.st = "streaming_setpoints" =>
                 \/ fsm'.st \in {fsm.st, "error"}
                 \/ fsm'.st = "waiting_offboard" /\ Ready /\ fsm.age >= StreamTime
           /\ fsm.st = "waiting_offboard" =>
                 \/ fsm'.st \in {fsm.st, "error"}
                 \/ fsm'.st = "waiting_arm" /\ Ready /\ mode = "offboard"
           /\ fsm.st = "waiting_arm" =>
                 \/ fsm'.st \in {fsm.st, "error"}
                 \/ fsm'.st \in Flying \cup {"hold"} /\ Ready /\ armed
           /\ fsm.st \in Flying => fsm'.st \in {fsm.st, "hold", "error"}
           /\ fsm.st = "hold" => fsm'.st \in {"hold", "error"} /\ fsm'.hold = fsm.hold
           /\ fsm.st \in Busy /\ ~(Ready /\ TelemetryOk) => fsm'.st = "error"
           /\ fsm.st = "hold" /\ ~TelemetryOk => fsm'.st = "error"
           /\ fsm.st # "hold" /\ fsm'.st = "hold" => fsm'.hold = fsm.cmd
           /\ FlightIntent =>
                 /\ fsm.st # "hold" /\ fsm'.st = "hold" => Finite(pose) /\ pose = fsm.cmd
                 /\ fsm'.st = "navigation" => /\ fsm'.nav.has
                                              /\ fsm'.nav.target = fsm.cmd
                                              /\ Finite(fsm'.nav.setpoint)
<1> DEFINE placed == [fsm EXCEPT !.last = pose]
           done == IF fsm.st = "error" THEN placed
                   ELSE Arrived(Polled(Checked(placed), refused))
<1>1. fsm' = [done EXCEPT !.setpoint = Output(done, pose)]
  BY DEF Tick, FsmTick
<1>2. CASE fsm.st = "error"
  <2>1. done = placed
    BY <1>2
  <2>2. placed \in FsmRecord /\ placed.st = "error" /\ placed.cmd = fsm.cmd
    BY <1>2 DEF TypeOK, FsmRecord
  <2> HIDE DEF placed, done
  <2>3. fsm' \in FsmRecord /\ fsm'.st = "error" /\ fsm'.cmd = fsm.cmd
        /\ fsm'.setpoint = Output(fsm', pose)
    BY <1>1, <2>1, <2>2, TickSetpoint
  <2>4. QED
    BY <1>2, <2>3 DEF Flying, Busy, Starting
<1>3. CASE fsm.st # "error"
  <2>1. done = Arrived(Polled(Checked(placed), refused))
    BY <1>3
  <2>2. done \in FsmRecord
    BY <1>3, <2>1, StagesFacts
  <2> HIDE DEF done
  <2>3. /\ fsm' \in FsmRecord
        /\ fsm'.st = done.st /\ fsm'.cmd = done.cmd
        /\ fsm'.hold = done.hold /\ fsm'.nav = done.nav
        /\ fsm'.setpoint = Output(fsm', pose)
    BY <1>1, <2>2, TickSetpoint
  <2>4. QED
    BY <1>3, <2>1, <2>3, StagesFacts
<1>4. QED
  BY <1>2, <1>3

\* What taking a command does.
LEMMA RequestFacts ==
    ASSUME TypeOK, NEW ev \in Requests, NEW target \in Place \cup {NoPose},
           Request(ev, target)
    PROVE  /\ fsm.st \in {"idle", "hold"}
           /\ fsm' \in FsmRecord
           /\ fsm'.st = "streaming_setpoints"
           /\ fsm'.cmd = Completed(target)
           /\ Completed(target) \in Place \cup {BadPose}
           /\ rungs' = 0
           /\ heard' = FALSE
           /\ UNCHANGED env
<1> DEFINE asked == [fsm EXCEPT !.cmd = Completed(target), !.isNav = (ev = "navigate_request")]
<1>1. Completed(target) \in Place \cup {BadPose}
  BY DEF Completed, Clamped, Finite, TypeOK, FsmRecord
<1>2. /\ asked \in FsmRecord
      /\ asked.st = fsm.st /\ asked.cmd = Completed(target)
  BY <1>1 DEF TypeOK, FsmRecord
<1>3. fsm.st \in {"idle", "hold"} /\ fsm' = HandleEvent(asked, ev, FALSE)
  BY DEF Request, CanAcceptCommand
<1> HIDE DEF asked
<1>4. NextState(asked.st, asked.isNav, ev) = "streaming_setpoints"
  BY <1>2, <1>3 DEF NextState, CanAcceptCommand, Requests, Failures, Busy, Starting, Flying
<1>5. ev \in Events /\ FALSE \in BOOLEAN
  BY DEF Events
<1>6. fsm' \in FsmRecord /\ fsm'.cmd = asked.cmd /\ fsm'.st = "streaming_setpoints"
  BY <1>2, <1>3, <1>4, <1>5, HandleEventFacts
<1>7. QED
  BY <1>1, <1>2, <1>3, <1>6 DEF Request

LEMMA ClearedFacts ==
    ASSUME NEW p \in Poses
    PROVE  /\ Cleared(p) \in FsmRecord
           /\ Cleared(p).st = "idle" /\ Cleared(p).cmd = NoPose
<1>1. NoNavigation \in NavController /\ 0 \in 0 .. MaxAge
  BY DEF NoNavigation, NavController
<1>2. QED
  BY <1>1 DEF Cleared, FsmRecord, States

LEMMA PristineFacts ==
    /\ Cleared(NoPose) \in FsmRecord /\ Cleared(NoPose).cmd = NoPose
    /\ NoPose \in Poses /\ "position" \in Modes
<1>1. NoPose \in Poses
  OBVIOUS
<1> HIDE DEF NoPose
<1>2. QED
  BY <1>1, ClearedFacts DEF Modes

LEMMA ElapseFacts ==
    ASSUME TypeOK, Elapse
    PROVE  /\ fsm' \in FsmRecord
           /\ fsm'.st = fsm.st /\ fsm'.cmd = fsm.cmd /\ fsm'.hold = fsm.hold
           /\ fsm'.nav = fsm.nav /\ fsm'.setpoint = fsm.setpoint /\ fsm'.safe = fsm.safe
           /\ UNCHANGED <<link, pose, timely, mode, armed, rungs, heard>>
<1>1. fsm.age + 1 \in 0 .. MaxAge
  BY DEF TypeOK, FsmRecord, Elapse
<1>2. QED
  BY <1>1 DEF TypeOK, FsmRecord, Elapse

\* The steps of the flight controller and its telemetry leave the machine alone.
World == PoseReport \/ PoseAges \/ StateReport

-----------------------------------------------------------------------------
\* Types, for every line of places and every deadline.
THEOREM FsmTypes == Spec => []TypeOK
<1>1. Init => TypeOK
  <2> HIDE DEF NoPose, Poses
  <2>1. Init => fsm \in FsmRecord /\ pose \in Poses /\ mode \in Modes
    BY PristineFacts DEF Init
  <2>2. Init => link \in BOOLEAN /\ timely \in BOOLEAN /\ armed \in BOOLEAN /\ heard \in BOOLEAN
    BY DEF Init
  <2>3. Init => rungs \in 0 .. 3
    BY DEF Init
  <2>4. QED
    BY <2>1, <2>2, <2>3 DEF TypeOK
<1>2. TypeOK /\ [Next]_vars => TypeOK'
  <2> SUFFICES ASSUME TypeOK, [Next]_vars
               PROVE  TypeOK'
    OBVIOUS
  <2>1. ASSUME NEW refused \in BOOLEAN, Tick(refused)
        PROVE  TypeOK'
    <3>1. fsm' \in FsmRecord
      BY <2>1, TickFacts
    <3>2. rungs' \in 0 .. 3
      BY <2>1 DEF Tick, Climbed, TypeOK
    <3>3. QED
      BY <2>1, <3>1, <3>2 DEF Tick, TypeOK, env
  <2>2. ASSUME NEW ev \in Requests, NEW target \in Place \cup {NoPose}, Request(ev, target)
        PROVE  TypeOK'
    <3>1. heard' \in BOOLEAN
      BY <2>2 DEF Request
    <3>2. fsm' \in FsmRecord /\ rungs' = 0 /\ UNCHANGED <<link, pose, timely, mode, armed>>
      BY <2>2, RequestFacts DEF env
    <3>3. QED
      BY <3>1, <3>2 DEF TypeOK
  <2>3. CASE ResetState
    <3>1. heard' \in BOOLEAN
      BY <2>3 DEF ResetState
    <3>2. fsm' \in FsmRecord /\ rungs' \in 0 .. 3
      BY <2>3, ClearedFacts DEF ResetState, TypeOK
    <3>3. QED
      BY <2>3, <3>1, <3>2 DEF ResetState, TypeOK, env
  <2>4. CASE Elapse
    BY <2>4, ElapseFacts DEF TypeOK
  <2>5. CASE World
    BY <2>5 DEF World, PoseReport, PoseAges, StateReport, TypeOK
  <2>6. CASE Respawn
    <3> HIDE DEF NoPose, Poses
    <3>1. fsm' \in FsmRecord /\ pose' \in Poses /\ mode' \in Modes
      BY <2>6, PristineFacts DEF Respawn
    <3>2. link' \in BOOLEAN /\ timely' \in BOOLEAN /\ armed' \in BOOLEAN /\ heard' \in BOOLEAN
      BY <2>6 DEF Respawn
    <3>3. rungs' \in 0 .. 3
      BY <2>6 DEF Respawn
    <3>4. QED
      BY <3>1, <3>2, <3>3 DEF TypeOK
  <2>7. CASE UNCHANGED vars
    BY <2>7 DEF vars, TypeOK
  <2>8. QED
    BY <2>1, <2>2, <2>3, <2>4, <2>5, <2>6, <2>7 DEF Next, Navigate, SetPosition, World, Requests
<1>3. QED
  BY <1>1, <1>2, PTL DEF Spec

\* The rungs a state implies: LadderBeforeFlight made inductive.
Ladder ==
    /\ fsm.st = "waiting_offboard" => rungs >= 1
    /\ fsm.st = "waiting_arm" => rungs >= 2 /\ (heard \/ mode = "offboard")
    /\ LadderBeforeFlight

\* No command moves the vehicle before a primed stream, OFFBOARD mode and
\* arming were checked for it, in that order, against the report in hand; and
\* a report older than the command serves only while nothing newer came.
THEOREM ConfirmedBeforeFlight == Spec => []LadderBeforeFlight
<1>1. Init => Ladder
  BY DEF Init, Cleared, Ladder, LadderBeforeFlight, Flying
<1>2. TypeOK /\ Ladder /\ [Next]_vars => Ladder'
  <2> SUFFICES ASSUME TypeOK, Ladder, [Next]_vars
               PROVE  Ladder'
    OBVIOUS
  <2>1. ASSUME NEW refused \in BOOLEAN, Tick(refused)
        PROVE  Ladder'
    <3>1. rungs \in 0 .. 3 /\ fsm.st \in States /\ fsm.age \in Nat
      BY DEF TypeOK, FsmRecord
    <3>2. rungs' = Climbed
      BY <2>1 DEF Tick
    <3>3. rungs' >= rungs /\ rungs' \in 0 .. 3 /\ UNCHANGED <<heard, mode, armed>>
      BY <2>1, <3>1, <3>2 DEF Climbed, Tick, env
    <3>4. CASE fsm.st \in {"idle", "error"}
      BY <2>1, <3>4, TickFacts DEF Ladder, LadderBeforeFlight, Flying
    <3>5. CASE fsm.st = "streaming_setpoints"
      <4>1. Ready /\ fsm.age >= StreamTime => rungs' >= 1
        BY <3>1, <3>2, <3>5 DEF Climbed, Starting
      <4>2. QED
        BY <2>1, <3>5, <4>1, TickFacts DEF Ladder, LadderBeforeFlight, Flying
    <3>6. CASE fsm.st = "waiting_offboard"
      <4>1. rungs >= 1 /\ rungs' >= 1 /\ (Ready /\ mode = "offboard" => rungs' >= 2)
        BY <3>1, <3>2, <3>6 DEF Climbed, Ladder
      <4>2. QED
        BY <2>1, <3>3, <3>6, <4>1, TickFacts DEF Ladder, LadderBeforeFlight, Flying
    <3>7. CASE fsm.st = "waiting_arm"
      <4>1. rungs >= 2 /\ rungs' >= 2 /\ (Ready /\ armed => rungs' = 3)
        BY <3>1, <3>2, <3>7 DEF Climbed, Ladder
      <4>2. QED
        BY <2>1, <3>3, <3>7, <4>1, TickFacts DEF Ladder, LadderBeforeFlight, Flying
    <3>8. CASE fsm.st \in Flying \cup {"hold"}
      <4>1. rungs' = 3
        BY <3>1, <3>3, <3>8 DEF Ladder, LadderBeforeFlight
      <4>2. QED
        BY <2>1, <3>3, <3>8, <4>1, TickFacts DEF Ladder, LadderBeforeFlight, Flying
    <3>9. QED
      BY <3>1, <3>4, <3>5, <3>6, <3>7, <3>8 DEF States, Flying
  <2>2. ASSUME NEW ev \in Requests, NEW target \in Place \cup {NoPose}, Request(ev, target)
        PROVE  Ladder'
    BY <2>2, RequestFacts DEF Ladder, LadderBeforeFlight, Flying
  <2>3. CASE ResetState \/ Respawn
    BY <2>3 DEF ResetState, Respawn, Cleared, Ladder, LadderBeforeFlight, Flying
  <2>4. CASE Elapse
    BY <2>4, ElapseFacts DEF Ladder, LadderBeforeFlight
  <2>5. CASE World
    BY <2>5 DEF World, PoseReport, PoseAges, StateReport, Ladder, LadderBeforeFlight
  <2>6. CASE UNCHANGED vars
    BY <2>6 DEF vars, Ladder, LadderBeforeFlight
  <2>7. QED
    BY <2>1, <2>2, <2>3, <2>4, <2>5, <2>6 DEF Next, Navigate, SetPosition, World, Requests
<1>3. Ladder => LadderBeforeFlight
  BY DEF Ladder
<1>4. QED
  BY <1>1, <1>2, <1>3, FsmTypes, PTL DEF Spec

-----------------------------------------------------------------------------
\* What is streamed in flight, hold and error is what the state stands for.
THEOREM StreamsTheCommand == Spec => []FlightIntent
<1>1. Init => FlightIntent
  BY DEF Init, Cleared, FlightIntent
<1>2. TypeOK /\ FlightIntent /\ [Next]_vars => FlightIntent'
  <2> SUFFICES ASSUME TypeOK, FlightIntent, [Next]_vars
               PROVE  FlightIntent'
    OBVIOUS
  <2>1. ASSUME NEW refused \in BOOLEAN, Tick(refused)
        PROVE  FlightIntent'
    <3>1. fsm'.setpoint = Output(fsm', pose) /\ fsm'.cmd = fsm.cmd
      BY <2>1, TickFacts
    <3>2. fsm'.st = "hold" => fsm'.hold = fsm.cmd
      <4>1. fsm.st = "hold" /\ fsm'.st = "hold" => fsm'.hold = fsm.hold
        BY <2>1, TickFacts
      <4>2. fsm.st # "hold" /\ fsm'.st = "hold" => fsm'.hold = fsm.cmd
        BY <2>1, TickFacts
      <4>3. QED
        BY <4>1, <4>2 DEF FlightIntent
    <3>3. fsm'.st = "navigation" => fsm'.nav.has /\ fsm'.nav.target = fsm.cmd
      BY <2>1, TickFacts
    <3>4. QED
      BY <3>1, <3>2, <3>3 DEF FlightIntent, Output
  <2>2. ASSUME NEW ev \in Requests, NEW target \in Place \cup {NoPose}, Request(ev, target)
        PROVE  FlightIntent'
    BY <2>2, RequestFacts DEF FlightIntent
  <2>3. CASE ResetState \/ Respawn
    BY <2>3 DEF ResetState, Respawn, Cleared, FlightIntent
  <2>4. CASE Elapse
    BY <2>4, ElapseFacts DEF FlightIntent
  <2>5. CASE World \/ UNCHANGED vars
    BY <2>5 DEF World, PoseReport, PoseAges, StateReport, vars, FlightIntent
  <2>6. QED
    BY <2>1, <2>2, <2>3, <2>4, <2>5 DEF Next, Navigate, SetPosition, World, Requests
<1>3. QED
  BY <1>1, <1>2, FsmTypes, PTL DEF Spec

\* Navigating and holding never stream a non-finite setpoint.
THEOREM StreamsFinite == Spec => []FiniteNavigation
<1>1. Init => FiniteNavigation
  BY DEF Init, Cleared, FiniteNavigation
<1>2. TypeOK /\ FlightIntent /\ FlightIntent' /\ FiniteNavigation /\ [Next]_vars
        => FiniteNavigation'
  <2> SUFFICES ASSUME TypeOK, FlightIntent, FlightIntent', FiniteNavigation, [Next]_vars
               PROVE  FiniteNavigation'
    OBVIOUS
  <2>1. ASSUME NEW refused \in BOOLEAN, Tick(refused)
        PROVE  FiniteNavigation'
    <3>1. CASE fsm'.st = "navigation"
      <4>1. Finite(fsm'.nav.setpoint)
        BY <2>1, <3>1, TickFacts
      <4>2. fsm'.setpoint = fsm'.nav.setpoint
        BY <3>1 DEF FlightIntent
      <4>3. QED
        BY <3>1, <4>1, <4>2 DEF FiniteNavigation, Finite
    <3>2. CASE fsm'.st = "hold"
      <4>1. fsm'.setpoint = fsm.cmd
        <5>1. fsm'.setpoint = fsm'.cmd
          BY <3>2 DEF FlightIntent
        <5>2. QED
          BY <2>1, <5>1, TickFacts
      <4>2. fsm.st = "hold" => Finite(fsm.cmd)
        BY DEF FlightIntent, FiniteNavigation
      <4>3. fsm.st # "hold" => Finite(fsm.cmd)
        BY <2>1, <3>2, TickFacts
      <4>4. QED
        BY <4>1, <4>2, <4>3 DEF FiniteNavigation, Finite
    <3>3. QED
      BY <3>1, <3>2 DEF FiniteNavigation
  <2>2. ASSUME NEW ev \in Requests, NEW target \in Place \cup {NoPose}, Request(ev, target)
        PROVE  FiniteNavigation'
    BY <2>2, RequestFacts DEF FiniteNavigation
  <2>3. CASE ResetState \/ Respawn
    BY <2>3 DEF ResetState, Respawn, Cleared, FiniteNavigation
  <2>4. CASE Elapse
    BY <2>4, ElapseFacts DEF FiniteNavigation, Finite
  <2>5. CASE World \/ UNCHANGED vars
    BY <2>5 DEF World, PoseReport, PoseAges, StateReport, vars, FiniteNavigation, Finite
  <2>6. QED
    BY <2>1, <2>2, <2>3, <2>4, <2>5 DEF Next, Navigate, SetPosition, World, Requests
<1>3. QED
  BY <1>1, <1>2, FsmTypes, StreamsTheCommand, PTL DEF Spec

-----------------------------------------------------------------------------
\* Hold is entered only where the command wanted the vehicle.
THEOREM HoldsOnlyOnArrival == Spec => HoldOnlyAtTarget
<1>1. TypeOK /\ FlightIntent /\ [Next]_vars
        => (fsm.st # "hold" /\ fsm'.st = "hold" => pose = fsm.cmd)
  <2> SUFFICES ASSUME TypeOK, FlightIntent, [Next]_vars, fsm.st # "hold", fsm'.st = "hold"
               PROVE  pose = fsm.cmd
    OBVIOUS
  <2>1. ASSUME NEW refused \in BOOLEAN, Tick(refused)
        PROVE  pose = fsm.cmd
    BY <2>1, TickFacts
  <2>2. ASSUME NEW ev \in Requests, NEW target \in Place \cup {NoPose}, Request(ev, target)
        PROVE  FALSE
    BY <2>2, RequestFacts
  <2>3. ~ResetState /\ ~Respawn
    BY DEF ResetState, Respawn, Cleared
  <2>4. ~Elapse
    BY ElapseFacts
  <2>5. ~World /\ ~UNCHANGED vars
    BY DEF World, PoseReport, PoseAges, StateReport, vars
  <2>6. QED
    BY <2>1, <2>2, <2>3, <2>4, <2>5 DEF Next, Navigate, SetPosition, World, Requests
<1>2. TypeOK /\ FlightIntent /\ [Next]_vars
        => [fsm.st # "hold" /\ fsm'.st = "hold" => pose = fsm.cmd]_vars
  BY <1>1
<1>3. QED
  BY <1>2, FsmTypes, StreamsTheCommand, PTL DEF Spec, HoldOnlyAtTarget

\* One period of the timer ends a command whose link or telemetry is gone.
THEOREM LossEnds == Spec => LossEndsCommand
<1>1. TypeOK => [TimerFires => /\ fsm.st \in Busy /\ ~(Ready /\ TelemetryOk) => fsm'.st = "error"
                               /\ fsm.st = "hold" /\ ~TelemetryOk => fsm'.st = "error"]_vars
  BY TickFacts DEF TimerFires
<1>2. QED
  BY <1>1, FsmTypes, PTL DEF Spec, LossEndsCommand

\* Short of the top of the ladder and of an error, the timer streams the place
\* where the vehicle is.
THEOREM NoEarlyJump == Spec => NoJumpBeforeConfirmed
<1>1. TypeOK /\ LadderBeforeFlight' =>
        [TimerFires /\ fsm'.setpoint # pose => rungs' = 3 \/ fsm'.st = "error"]_vars
  <2> SUFFICES ASSUME TypeOK, LadderBeforeFlight', TimerFires, fsm'.setpoint # pose,
                      fsm'.st # "error"
               PROVE  rungs' = 3
    OBVIOUS
  <2>1. fsm'.setpoint = Output(fsm', pose)
    BY TickFacts DEF TimerFires
  <2>2. fsm'.st \in Flying \cup {"hold"}
    BY <2>1 DEF Output, Flying
  <2>3. QED
    BY <2>2 DEF LadderBeforeFlight
<1>2. QED
  BY <1>1, FsmTypes, ConfirmedBeforeFlight, PTL DEF Spec, NoJumpBeforeConfirmed

\* The state machine does what the bridge server is promised: it takes a
\* command only when quiescent, and only a reset ends an error.
THEOREM FsmIsController == Spec => ImplementsContract
<1> USE DEF Phase, Busy, Starting, Flying
<1>1. Init => Contract!ContractInit
  BY DEF Init, Cleared, Contract!ContractInit
<1>2. TypeOK /\ [Next]_vars => [Contract!ContractNext]_(Contract!contractVars)
  <2> SUFFICES ASSUME TypeOK, [Next]_vars
               PROVE  Contract!ContractNext \/ UNCHANGED Contract!contractVars
    OBVIOUS
  <2>1. ASSUME NEW refused \in BOOLEAN, Tick(refused)
        PROVE  Contract!Update
    <3>1. fsm.st \in States /\ fsm'.cmd = fsm.cmd
      BY <2>1, TickFacts DEF TypeOK, FsmRecord
    <3>2. Phase' \in Contract!MayBecome(Phase)
      <4>1. CASE fsm.st \in {"idle", "error"}
        BY <2>1, <4>1, TickFacts DEF Contract!MayBecome
      <4>2. CASE fsm.st = "hold"
        BY <2>1, <4>2, TickFacts DEF Contract!MayBecome
      <4>3. CASE fsm.st \in Busy
        <5>1. fsm'.st \in Busy \cup {"hold", "error"}
          BY <2>1, <4>3, TickFacts
        <5>2. Phase' \in {"busy", "hold", "error"} /\ Phase = "busy"
          BY <4>3, <5>1
        <5>3. QED
          BY <5>2 DEF Contract!MayBecome
      <4>4. QED
        BY <3>1, <4>1, <4>2, <4>3 DEF States
    <3>3. QED
      BY <3>1, <3>2 DEF Contract!Update
  <2>2. ASSUME NEW ev \in Requests, NEW target \in Place \cup {NoPose}, Request(ev, target)
        PROVE  \E c \in Place \cup {BadPose} : Contract!Take(c)
    <3>1. Contract!Take(Completed(target))
      BY <2>2, RequestFacts DEF Contract!Take, Contract!Quiescent
    <3>2. QED
      BY <2>2, <3>1, RequestFacts
  <2>3. CASE ResetState \/ Respawn
    <3>1. fsm'.st = "idle" /\ fsm'.cmd = NoPose
      BY <2>3 DEF ResetState, Respawn, Cleared
    <3>2. Contract!Reset
      BY <3>1 DEF Contract!Reset
    <3>3. QED
      BY <3>2 DEF Contract!ContractNext
  <2>4. CASE Elapse
    BY <2>4, ElapseFacts DEF Contract!contractVars
  <2>5. CASE World \/ UNCHANGED vars
    BY <2>5 DEF World, PoseReport, PoseAges, StateReport, vars, Contract!contractVars
  <2>6. QED
    BY <2>1, <2>2, <2>3, <2>4, <2>5
       DEF Next, Navigate, SetPosition, World, Requests, Contract!ContractNext
<1>3. QED
  BY <1>1, <1>2, FsmTypes, PTL DEF Spec, ImplementsContract, Contract!ContractSpec
=============================================================================
