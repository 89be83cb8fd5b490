----------------------------- MODULE VisionPose -----------------------------
(***************************************************************************)
(* From markers to the flight controller: the tracker of clover2_aruco     *)
(* turns the markers of a picture into a pose of the vehicle in the map,   *)
(* clover2_vio hands it to the flight controller and hides its jumps by an *)
(* offset, and the controller's own estimate comes back as the position    *)
(* the next offset is made from.                                           *)
(*                                                                         *)
(* A position is one whole number, a pose nothing but its position: an     *)
(* offset keeps distances, whatever it turns. The flight controller is     *)
(* external, and reports any position.                                     *)
(***************************************************************************)
EXTENDS Integers, FiniteSets, FiniteSetsExt

CONSTANTS
    Beacon,       \* ids of markers, the map's and others
    Sight,        \* how far the vehicle may be from a marker it sees
    Place,        \* positions a marker may be given in the map
    JumpReset,    \* m_jump_reset
    GapReset,     \* m_pose_gap_reset
    NaN,          \* a coordinate that is not a number
    Counters,     \* values of m_reset_counter, 256 in the code
    MaxStamp      \* bound on the stamps of pictures

ASSUME VisionAssumption ==
    /\ Place \subseteq Int /\ Sight \subseteq Int \cup {NaN} /\ JumpReset \in Nat /\ GapReset \in Nat
    /\ NaN \notin Int
    /\ Counters \in Nat \ {0, 1} /\ MaxStamp \in Nat /\ IsFiniteSet(Beacon)

VARIABLES
    chart,            \* the tracker's map: where each fixed marker is; others are absent
    tracking,         \* m_markers_sub exists
    camera_tf,        \* the transform between camera and tracking frame is known
    pose,             \* the pose_cov on its way, or NoPose
    m_world_current,  \* the position last reported
    reported,         \* history: LOCAL_POSITION_NED has come
    m_first_pose, m_last_vio_position, m_last_pose_recv, m_offset, m_reset_counter,
    estimate          \* the last VISION_POSITION_ESTIMATE

trackerVars == <<chart, tracking, camera_tf>>
vioVars == <<m_first_pose, m_last_vio_position, m_last_pose_recv, m_offset, m_reset_counter>>
visionVars == <<trackerVars, pose, m_world_current, reported, vioVars, estimate>>

-----------------------------------------------------------------------------
NoPose == [stamp |-> 0, at |-> 0]
NoEstimate == [stamp |-> 0, at |-> 0, counter |-> 0]

\* Arithmetic of doubles: nothing is greater than NaN.
Plus(a, b) == IF NaN \in {a, b} THEN NaN ELSE a + b
Minus(a, b) == IF NaN \in {a, b} THEN NaN ELSE a - b
Apart(a, b, bound) == NaN \notin {a, b} /\ (a - b > bound \/ b - a > bound)

Coordinates == Int \cup {NaN}

VisionTypeOK ==
    /\ DOMAIN chart \subseteq Beacon /\ \A b \in DOMAIN chart : chart[b] \in Place
    /\ tracking \in BOOLEAN /\ camera_tf \in BOOLEAN
    /\ pose.stamp \in 0 .. MaxStamp /\ pose.at \in Coordinates
    /\ m_world_current \in Coordinates /\ reported \in BOOLEAN
    /\ m_first_pose \in BOOLEAN /\ m_last_vio_position \in Coordinates
    /\ m_last_pose_recv \in 0 .. MaxStamp
    /\ m_offset \in Coordinates /\ m_reset_counter \in 0 .. Counters - 1
    /\ estimate.stamp = m_last_pose_recv /\ estimate.counter = m_reset_counter

\* m_world_current is not initialized: before the first report it holds anything.
VisionInit ==
    /\ chart \in UNION {[S -> Place] : S \in SUBSET Beacon}
    /\ tracking = FALSE /\ camera_tf = FALSE
    /\ pose = NoPose
    /\ m_world_current \in Place \cup {NaN} /\ reported = FALSE
    /\ m_first_pose = TRUE /\ m_last_vio_position = 0 /\ m_last_pose_recv = 0
    /\ m_offset = 0 /\ m_reset_counter = 0
    /\ estimate = NoEstimate

-----------------------------------------------------------------------------
(* The tracker.                                                            *)

\* on_activate(), on_deactivate(): a new buffer knows no transform. on_shutdown() stops
\* nothing.
SwitchTracking ==
    /\ tracking' = ~tracking
    /\ camera_tf' = FALSE
    /\ UNCHANGED <<chart, pose, m_world_current, reported, vioVars, estimate>>

LearnTransform ==
    /\ tracking /\ ~camera_tf /\ camera_tf' = TRUE
    /\ UNCHANGED <<chart, tracking, pose, m_world_current, reported, vioVars, estimate>>

\* A marker moved in the map, added to it or taken out of it.
EditChart ==
    /\ \E b \in Beacon :
           \/ \E x \in Place :
                  chart' = [c \in DOMAIN chart \cup {b} |-> IF c = b THEN x ELSE chart[c]]
           \/ chart' = [c \in DOMAIN chart \ {b} |-> chart[c]]
    /\ UNCHANGED <<tracking, camera_tf, pose, m_world_current, reported, vioVars, estimate>>

\* The markers the pose is made from.
Fixed(seen) == DOMAIN seen \cap DOMAIN chart

\* markers_callback(): the mean of where each fixed marker says the vehicle is. "seen"
\* holds how far the vehicle is from each marker in the picture; a marker seen head-on
\* has no axis of rotation, and its pose is NaN (fill_pose_stamped).
Averaged(seen) ==
    IF \E b \in Fixed(seen) : seen[b] = NaN THEN NaN
    ELSE FoldSet(LAMBDA b, sum : sum + chart[b] + seen[b], 0, Fixed(seen))
             \div Cardinality(Fixed(seen))

Sights == UNION {[S -> Sight] : S \in SUBSET Beacon}
Means == {Averaged(seen) : seen \in {s \in Sights : Fixed(s) # {}}}

\* The subscription of clover2_vio keeps the newest pose only.
Track(stamp) ==
    /\ tracking /\ camera_tf
    /\ \E at \in Means : pose' = [stamp |-> stamp, at |-> at]
    /\ UNCHANGED <<trackerVars, m_world_current, reported, vioVars, estimate>>

-----------------------------------------------------------------------------
(* clover2_vio.                                                            *)

\* handle_local_position_ned().
ReportPosition(x) ==
    /\ m_world_current' = x /\ reported' = TRUE
    /\ UNCHANGED <<trackerVars, pose, vioVars, estimate>>

\* Fault: a pose after a gap is taken for the one that follows.
ResetOnJump ==
    /\ ~m_first_pose
    /\ Apart(pose.at, m_last_vio_position, JumpReset)

\* is_vio_reset(): never for the first pose; a distance to NaN is no jump.
IsReset ==
    /\ ~m_first_pose
    /\ \/ pose.stamp - m_last_pose_recv > GapReset
       \/ Apart(pose.at, m_last_vio_position, JumpReset)

\* Where the estimates of the new epoch start: where the vehicle is said to be.
NewOffset == Minus(m_world_current, pose.at)

\* pose_cov_cb() drops a pose with a covariance that is not finite.
DropPose ==
    /\ pose # NoPose /\ pose' = NoPose
    /\ UNCHANGED <<trackerVars, m_world_current, reported, vioVars, estimate>>

\* send_vision_estimate(): a pose with the stamp of the last one is dropped.
SendEstimate ==
    /\ pose # NoPose /\ pose' = NoPose
    /\ IF pose.stamp = m_last_pose_recv
       THEN UNCHANGED <<vioVars, estimate>>
       ELSE /\ m_first_pose' = FALSE
            /\ m_last_vio_position' = pose.at
            /\ m_last_pose_recv' = pose.stamp
            /\ m_offset' = IF IsReset THEN NewOffset ELSE m_offset
            /\ m_reset_counter' =
                   IF IsReset THEN (m_reset_counter + 1) % Counters ELSE m_reset_counter
            /\ estimate' = [stamp |-> pose.stamp, at |-> Plus(m_offset', pose.at),
                            counter |-> m_reset_counter']
    /\ UNCHANGED <<trackerVars, m_world_current, reported>>

VisionNext ==
    \/ SwitchTracking \/ LearnTransform \/ EditChart
    \/ \E stamp \in 1 .. MaxStamp : Track(stamp)
    \/ \E x \in Place : ReportPosition(x)
    \/ DropPose \/ SendEstimate

VisionSpec == VisionInit /\ [][VisionNext]_visionVars

-----------------------------------------------------------------------------
Near(a, b) == a - b <= JumpReset /\ b - a <= JumpReset

\* An estimate that keeps the counter follows the one before it without a gap in time. If
\* its position is a number, and so was that of the pose before, then the one before it was
\* a number too, and near, whatever becomes of the map. The one way around that is a pose
\* whose position is no number (a marker seen head-on): the estimate after it may be
\* anywhere, under the same counter. An estimate that changes the counter is where the
\* controller last said the vehicle is, wherever the markers now put it
\* (clover2_vio::is_vio_reset, send_vision_estimate).
VisionContinuous ==
    /\ []VisionTypeOK
    /\ [][ estimate' # estimate /\ estimate # NoEstimate =>
             IF estimate'.counter = estimate.counter
             THEN /\ estimate'.stamp - estimate.stamp <= GapReset
                  /\ estimate'.at # NaN /\ m_last_vio_position # NaN =>
                         estimate.at # NaN /\ Near(estimate'.at, estimate.at)
             ELSE reported /\ pose.at # NaN => estimate'.at = m_world_current
         ]_visionVars
=============================================================================
