---------------------------- MODULE OpticalFlow ----------------------------
(***************************************************************************)
(* The node clover2_optical_flow: pictures in, the shift of each against   *)
(* a reference picture out. A flow message says over how long its shift    *)
(* was seen, and the flight controller integrates one after the other.     *)
(* All callbacks run one after another.                                    *)
(*                                                                         *)
(* A picture is its stamp and its width, and its number in the order they  *)
(* come; the unit of time is such that LongestGap of them are 0.1 s.       *)
(* Stamps may repeat, and go back when the clock is set or the simulation  *)
(* starts over.                                                            *)
(***************************************************************************)
EXTENDS Integers

CONSTANTS
    Width,        \* widths of pictures
    RoiSide,      \* values of the parameter roi_px
    LongestGap,   \* age from which the reference is replaced
    WordSize,     \* values of a uint32_t
    MaxTime,      \* bound on stamps
    MaxPictures   \* bound on the pictures looked at

ASSUME FlowAssumption ==
    /\ Width \subseteq Nat \ {0} /\ RoiSide \subseteq Nat
    /\ LongestGap \in Nat \ {0} /\ MaxTime \in Nat
    /\ WordSize \in Nat /\ LongestGap < WordSize /\ MaxPictures \in Nat

VARIABLES
    flowLife,      \* state of the life cycle; "died" when an exception ended the process
    cameraModel,   \* m_camera_model is initialized
    fcuTf,         \* the transform to the frame of the flight controller is known
    m_roi_px,      \* the parameter
    m_roi,         \* side of the region looked at; 0 is the whole picture
    m_prev,        \* the reference: what was cut out of which picture, or NoPicture
    m_prev_stamp,  \* the stamp kept with it
    pictures,      \* history: pictures looked at so far
    fresh,         \* history: number of the last reference taken without a flow
    flow           \* the last message: its stamp and integration time, and the numbers of
                   \* the pictures whose shift it is

seenVars == <<pictures, fresh, flow>>
flowVars == <<flowLife, cameraModel, fcuTf, m_roi_px, m_roi, m_prev, m_prev_stamp, seenVars>>

Stamp == 1 .. MaxTime
NoPicture == [number |-> 0, stamp |-> 0, width |-> 0]
NoFlow == [stamp |-> 0, lasted |-> 0, of |-> 0, to |-> 0]
Subscribed == flowLife = "active"

FlowTypeOK ==
    /\ flowLife \in {"unconfigured", "inactive", "active", "finalized", "died"}
    /\ cameraModel \in BOOLEAN /\ fcuTf \in BOOLEAN
    /\ m_roi_px \in RoiSide /\ m_roi \in RoiSide \cup {0}
    /\ m_prev.number \in 0 .. pictures /\ m_prev.stamp \in 0 .. MaxTime
    /\ m_prev.width \in Width \cup RoiSide \cup {0}
    /\ m_prev_stamp \in 0 .. MaxTime
    /\ pictures \in 0 .. MaxPictures /\ fresh \in 0 .. pictures
    /\ flow \in [stamp : 0 .. MaxTime, lasted : Nat, of : 0 .. pictures, to : 0 .. pictures]

FlowInit ==
    /\ flowLife = "unconfigured"
    /\ cameraModel = FALSE /\ fcuTf = FALSE
    /\ m_roi_px \in RoiSide /\ m_roi = 0
    /\ m_prev = NoPicture /\ m_prev_stamp = 0
    /\ pictures = 0 /\ fresh = 0 /\ flow = NoFlow

-----------------------------------------------------------------------------
(* Life cycle and surroundings.                                            *)

\* on_configure(): the buffer is new and knows no transform.
ConfigureFlow ==
    /\ flowLife = "unconfigured" /\ flowLife' = "inactive"
    /\ fcuTf' = FALSE
    /\ UNCHANGED <<cameraModel, m_roi_px, m_roi, m_prev, m_prev_stamp, seenVars>>

\* on_activate() and on_deactivate() keep the reference.
ToggleFlow ==
    /\ \/ flowLife = "inactive" /\ flowLife' = "active"
       \/ flowLife = "active" /\ flowLife' = "inactive"
    /\ UNCHANGED <<cameraModel, fcuTf, m_roi_px, m_roi, m_prev, m_prev_stamp, seenVars>>

\* on_cleanup(): m_prev_stamp stays, and is not looked at before it is set.
CleanupFlow ==
    /\ flowLife = "inactive" /\ flowLife' = "unconfigured"
    /\ fcuTf' = FALSE
    /\ m_prev' = NoPicture /\ m_roi' = 0
    /\ UNCHANGED <<cameraModel, m_roi_px, m_prev_stamp, seenVars>>

\* on_shutdown().
ShutdownFlow ==
    /\ flowLife \in {"unconfigured", "inactive", "active"} /\ flowLife' = "finalized"
    /\ fcuTf' = FALSE
    /\ UNCHANGED <<cameraModel, m_roi_px, m_roi, m_prev, m_prev_stamp, seenVars>>

\* camera_info_callback().
LearnCamera ==
    /\ Subscribed /\ ~cameraModel /\ cameraModel' = TRUE
    /\ UNCHANGED <<flowLife, fcuTf, m_roi_px, m_roi, m_prev, m_prev_stamp, seenVars>>

\* The transform to the FCU frame comes, and can be missing for a stamp again.
ChangeTf ==
    /\ flowLife \in {"inactive", "active"} /\ fcuTf' = ~fcuTf
    /\ UNCHANGED <<flowLife, cameraModel, m_roi_px, m_roi, m_prev, m_prev_stamp, seenVars>>

\* The watcher of the parameter.
SetRoi(side) ==
    /\ m_roi_px' = side
    /\ UNCHANGED <<flowLife, cameraModel, fcuTf, m_roi, m_prev, m_prev_stamp, seenVars>>

-----------------------------------------------------------------------------
(* flow_callback().                                                        *)

\* The region: a parameter of 0 leaves the one there is.
RoiFor == IF m_roi_px > 0 THEN m_roi_px ELSE m_roi

\* img(m_roi), as wide as the region.
Cut(stamp, width) ==
    [number |-> pictures + 1, stamp |-> stamp, width |-> IF RoiFor = 0 THEN width ELSE RoiFor]

\* Fault: only a missing reference is replaced.
MissingOnly(stamp) == m_prev = NoPicture

\* reference_empty || reference_outdated.
Outdated(stamp) == m_prev = NoPicture \/ stamp - m_prev_stamp > LongestGap

\* A region that does not fit, and pictures of two sizes, make OpenCV throw what main()
\* does not catch.
Throws(stamp, width) ==
    \/ RoiFor > width
    \/ ~Outdated(stamp) /\ m_prev.width # Cut(stamp, width).width

Die(stamp, width) ==
    /\ Subscribed /\ cameraModel
    /\ Throws(stamp, width)
    /\ flowLife' = "died"
    /\ UNCHANGED <<cameraModel, fcuTf, m_roi_px, m_roi, m_prev, m_prev_stamp, seenVars>>

\* A picture that is looked at.
Accept(stamp, width) ==
    /\ Subscribed /\ cameraModel
    /\ ~Throws(stamp, width)
    /\ pictures < MaxPictures /\ pictures' = pictures + 1
    /\ m_roi' = RoiFor
    /\ UNCHANGED <<flowLife, cameraModel, fcuTf, m_roi_px>>

\* The first picture, and one that comes too late to be compared.
TakeReference(stamp, width) ==
    /\ Accept(stamp, width) /\ Outdated(stamp)
    /\ m_prev' = Cut(stamp, width) /\ m_prev_stamp' = stamp /\ fresh' = pictures'
    /\ UNCHANGED flow

\* integration_time_us: a duration below 0 is cast to uint32_t, which on some processors
\* wraps around and on others gives 0.
Cast(duration) == IF duration >= 0 THEN {duration} ELSE {0, duration % WordSize}

\* A shift against the reference. Without the transform the reference stays for the next
\* picture.
ComparePicture(stamp, width) ==
    /\ Accept(stamp, width) /\ ~Outdated(stamp)
    /\ IF fcuTf
       THEN /\ \E lasted \in Cast(stamp - m_prev_stamp) :
                   flow' = [stamp |-> stamp, lasted |-> lasted,
                            of |-> m_prev.number, to |-> pictures']
            /\ m_prev' = Cut(stamp, width) /\ m_prev_stamp' = stamp
       ELSE UNCHANGED <<flow, m_prev, m_prev_stamp>>
    /\ UNCHANGED fresh

FlowNext ==
    \/ ConfigureFlow \/ ToggleFlow \/ CleanupFlow \/ ShutdownFlow
    \/ LearnCamera \/ ChangeTf
    \/ \E side \in RoiSide : SetRoi(side)
    \/ \E stamp \in Stamp, width \in Width :
           Die(stamp, width) \/ TakeReference(stamp, width) \/ ComparePicture(stamp, width)

FlowSpec == FlowInit /\ [][FlowNext]_flowVars

-----------------------------------------------------------------------------
\* No motion is counted twice, whatever failed in between: the pictures of a flow come after
\* those of the one before it, and the first of them is the last one counted, or a picture
\* taken as a new reference since. A flow says how long its shift took, and that is at most
\* the longest gap, unless the stamps went back between its pictures: then the time it
\* names means nothing (optical_flow::flow_callback).
FlowsTile ==
    /\ []FlowTypeOK
    /\ [][ flow' # flow =>
             /\ flow.to <= flow'.of /\ flow'.of < flow'.to
             /\ flow'.of \in {flow.to, fresh}
             /\ flow'.stamp >= m_prev.stamp =>
                    /\ flow'.lasted = flow'.stamp - m_prev.stamp
                    /\ flow'.lasted <= LongestGap
         ]_flowVars
=============================================================================
