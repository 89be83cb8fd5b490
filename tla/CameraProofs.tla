---------------------------- MODULE CameraProofs ----------------------------
(***************************************************************************)
(* Theorems about what is made of the camera's pictures. OpticalFlow: for  *)
(* any widths, any regions, any longest gap and stamps in any order.       *)
(* MarkerDetector: for any plugins, markers, dictionaries and edits of the *)
(* map.                                                                    *)
(***************************************************************************)
EXTENDS OpticalFlow, MarkerDetector, VisionPose, TLAPS, FiniteSetTheorems, WellFoundedInduction

USE FlowAssumption, DetectorAssumption DEF Stamp

-----------------------------------------------------------------------------
(* OpticalFlow.                                                            *)

\* The reference is the picture its stamp belongs to, and is where the last flow ended or
\* a picture taken afresh since.
ReferenceKnown ==
    m_prev # NoPicture =>
        /\ m_prev.stamp = m_prev_stamp
        /\ m_prev.number \in {flow.to, fresh} /\ flow.to <= m_prev.number

FlowInv == FlowTypeOK /\ ReferenceKnown

LEMMA FlowInvInit == FlowInit => FlowInv
<1> SUFFICES ASSUME FlowInit PROVE FlowInv
  OBVIOUS
<1>1. m_prev.number = 0 /\ m_prev.stamp = 0 /\ m_prev.width = 0 /\ ReferenceKnown
  BY DEF FlowInit, NoPicture, ReferenceKnown
<1>2. flow \in [stamp : 0 .. MaxTime, lasted : Nat, of : 0 .. 0, to : 0 .. 0]
  BY DEF FlowInit, NoFlow
<1>3. m_prev_stamp \in 0 .. MaxTime /\ pictures = 0 /\ fresh = 0
  BY DEF FlowInit
<1>4. /\ flow \in [stamp : 0 .. MaxTime, lasted : Nat, of : 0 .. pictures, to : 0 .. pictures]
      /\ fresh \in 0 .. pictures /\ m_prev.number \in 0 .. pictures
      /\ pictures \in 0 .. MaxPictures
  BY <1>1, <1>2, <1>3
<1>5. m_prev.stamp \in 0 .. MaxTime /\ m_prev.width \in Width \cup RoiSide \cup {0}
  BY <1>1
<1>6. QED
  BY <1>1, <1>3, <1>4, <1>5 DEF FlowInit, FlowInv, FlowTypeOK

LEMMA RoiForType == FlowTypeOK => RoiFor \in RoiSide \cup {0}
  BY DEF FlowTypeOK, RoiFor

LEMMA CutType ==
    ASSUME FlowTypeOK, NEW stamp \in Stamp, NEW width \in Width
    PROVE  /\ Cut(stamp, width).stamp = stamp /\ Cut(stamp, width).number = pictures + 1
           /\ Cut(stamp, width).width \in Width \cup RoiSide \cup {0}
  BY RoiForType DEF Cut

\* A step of the life cycle, of the surroundings or of the parameter leaves flows alone.
LEMMA SurroundingsKeep ==
    ASSUME FlowInv,
           \/ ConfigureFlow \/ ToggleFlow \/ CleanupFlow \/ ShutdownFlow
           \/ LearnCamera \/ ChangeTf
           \/ \E side \in RoiSide : SetRoi(side)
           \/ \E stamp \in Stamp, width \in Width : Die(stamp, width)
           \/ UNCHANGED flowVars
    PROVE  FlowInv' /\ UNCHANGED flow
<1> USE DEF FlowInv, FlowTypeOK, ReferenceKnown, seenVars
<1>1. CASE ConfigureFlow
  BY <1>1 DEF ConfigureFlow
<1>2. CASE ToggleFlow
  BY <1>2 DEF ToggleFlow
<1>3. CASE CleanupFlow
  <2>1. m_prev'.number = 0 /\ m_prev'.stamp = 0 /\ m_prev'.width = 0 /\ ReferenceKnown'
    BY <1>3 DEF CleanupFlow, NoPicture
  <2>2. m_prev'.stamp \in 0 .. MaxTime /\ m_roi' \in RoiSide \cup {0}
    BY <1>3, <2>1 DEF CleanupFlow
  <2>3. fcuTf' \in BOOLEAN /\ cameraModel' \in BOOLEAN
    BY <1>3 DEF CleanupFlow
  <2>4. FlowTypeOK'
    BY <1>3, <2>1, <2>2, <2>3 DEF CleanupFlow
  <2>5. QED
    BY <1>3, <2>1, <2>4 DEF CleanupFlow
<1>4. CASE ShutdownFlow
  BY <1>4 DEF ShutdownFlow
<1>5. CASE LearnCamera \/ ChangeTf
  BY <1>5 DEF LearnCamera, ChangeTf
<1>6. CASE \E side \in RoiSide : SetRoi(side)
  BY <1>6 DEF SetRoi
<1>7. CASE \E stamp \in Stamp, width \in Width : Die(stamp, width)
  BY <1>7 DEF Die
<1>8. CASE UNCHANGED flowVars
  BY <1>8 DEF flowVars
<1>9. QED
  BY <1>1, <1>2, <1>3, <1>4, <1>5, <1>6, <1>7, <1>8

LEMMA AcceptKeeps ==
    ASSUME FlowInv, NEW stamp \in Stamp, NEW width \in Width, Accept(stamp, width)
    PROVE  /\ pictures' = pictures + 1 /\ pictures' \in 0 .. MaxPictures
           /\ pictures \in 0 .. pictures' /\ pictures' \in 0 .. pictures'
           /\ flowLife' \in {"unconfigured", "inactive", "active", "finalized", "died"}
           /\ cameraModel' \in BOOLEAN /\ fcuTf' \in BOOLEAN
           /\ m_roi_px' \in RoiSide /\ m_roi' \in RoiSide \cup {0}
  BY RoiForType DEF FlowInv, FlowTypeOK, Accept

LEMMA TakeReferenceKeeps ==
    ASSUME FlowInv, NEW stamp \in Stamp, NEW width \in Width, TakeReference(stamp, width)
    PROVE  FlowInv' /\ UNCHANGED flow
<1>1. /\ Accept(stamp, width) /\ UNCHANGED flow /\ fresh' = pictures'
      /\ m_prev' = Cut(stamp, width) /\ m_prev_stamp' = stamp
  BY DEF TakeReference
<1>2. /\ m_prev'.number = pictures' /\ m_prev'.stamp = stamp /\ stamp \in 0 .. MaxTime
      /\ m_prev'.width \in Width \cup RoiSide \cup {0}
  BY <1>1, CutType, AcceptKeeps DEF FlowInv
<1>3. flow' \in [stamp : 0 .. MaxTime, lasted : Nat, of : 0 .. pictures', to : 0 .. pictures']
  <2>1. 0 .. pictures \subseteq 0 .. pictures'
    BY <1>1, AcceptKeeps DEF FlowInv, FlowTypeOK
  <2>2. QED BY <1>1, <2>1 DEF FlowInv, FlowTypeOK
<1>4. FlowTypeOK'
  BY <1>1, <1>2, <1>3, AcceptKeeps DEF FlowTypeOK
<1>5. ReferenceKnown'
  <2>1. flow.to \in 0 .. pictures
    BY DEF FlowInv, FlowTypeOK
  <2>2. QED BY <1>1, <1>2, <2>1, AcceptKeeps DEF ReferenceKnown
<1>6. QED BY <1>1, <1>4, <1>5 DEF FlowInv

LEMMA CastType ==
    ASSUME NEW d \in Int, NEW lasted \in Cast(d)
    PROVE  lasted \in Nat /\ (d >= 0 => lasted = d)
<1>1. CASE d >= 0
  BY <1>1 DEF Cast
<1>2. CASE d < 0
  <2>1. WordSize \in Nat /\ WordSize > 0
    OBVIOUS
  <2>2. d % WordSize \in Nat
    BY <2>1
  <2>3. QED BY <1>2, <2>2 DEF Cast
<1>3. QED BY <1>1, <1>2

\* What a new flow says of the one before it.
Tiles ==
    /\ flow.to <= flow'.of /\ flow'.of < flow'.to
    /\ flow'.of \in {flow.to, fresh}
    /\ flow'.stamp >= m_prev.stamp =>
           /\ flow'.lasted = flow'.stamp - m_prev.stamp
           /\ flow'.lasted <= LongestGap

LEMMA ComparePictureTiles ==
    ASSUME FlowInv, NEW stamp \in Stamp, NEW width \in Width, ComparePicture(stamp, width)
    PROVE  FlowInv' /\ (flow' # flow => Tiles)
<1>1. /\ Accept(stamp, width) /\ ~Outdated(stamp) /\ UNCHANGED fresh
  BY DEF ComparePicture
<1>2. /\ pictures \in Nat /\ pictures' = pictures + 1 /\ 0 .. pictures \subseteq 0 .. pictures'
      /\ fresh' \in 0 .. pictures'
  BY <1>1, AcceptKeeps DEF FlowInv, FlowTypeOK
<1>3. CASE fcuTf
  <2>1. PICK lasted \in Cast(stamp - m_prev_stamp) :
            flow' = [stamp |-> stamp, lasted |-> lasted, of |-> m_prev.number, to |-> pictures']
    BY <1>3 DEF ComparePicture
  <2>2. m_prev' = Cut(stamp, width) /\ m_prev_stamp' = stamp
    BY <1>3 DEF ComparePicture
  <2>3. /\ m_prev.stamp = m_prev_stamp /\ m_prev.number \in {flow.to, fresh}
        /\ flow.to <= m_prev.number /\ m_prev.number \in 0 .. pictures
        /\ stamp - m_prev_stamp <= LongestGap /\ m_prev_stamp \in Int /\ stamp \in 0 .. MaxTime
    BY <1>1 DEF Outdated, FlowInv, ReferenceKnown, FlowTypeOK
  <2>4. lasted \in Nat /\ (stamp - m_prev_stamp >= 0 => lasted = stamp - m_prev_stamp)
    BY <2>3, CastType
  <2>5. /\ flow'.stamp = stamp /\ flow'.lasted = lasted /\ flow'.of = m_prev.number
        /\ flow'.to = pictures'
    BY <2>1
  <2>6. /\ m_prev'.number = pictures' /\ m_prev'.stamp = stamp
        /\ m_prev'.width \in Width \cup RoiSide \cup {0}
    BY <1>2, <2>2, CutType DEF FlowInv
  <2>7. flow' \in [stamp : 0 .. MaxTime, lasted : Nat, of : 0 .. pictures', to : 0 .. pictures']
    BY <1>2, <2>1, <2>3, <2>4
  <2>8. FlowTypeOK'
    BY <1>1, <1>2, <2>2, <2>3, <2>6, <2>7, AcceptKeeps DEF FlowTypeOK
  <2>9. ReferenceKnown'
    BY <1>2, <2>2, <2>5, <2>6 DEF ReferenceKnown
  <2>10. Tiles
    BY <1>2, <2>3, <2>4, <2>5 DEF Tiles
  <2>11. QED BY <2>8, <2>9, <2>10 DEF FlowInv
<1>4. CASE ~fcuTf
  <2>1. UNCHANGED <<flow, m_prev, m_prev_stamp>>
    BY <1>4 DEF ComparePicture
  <2>2. /\ m_prev'.number \in 0 .. pictures'
        /\ flow' \in [stamp : 0 .. MaxTime, lasted : Nat, of : 0 .. pictures', to : 0 .. pictures']
    BY <1>2, <2>1 DEF FlowInv, FlowTypeOK
  <2>3. FlowTypeOK'
    BY <1>1, <1>2, <2>1, <2>2, AcceptKeeps DEF FlowInv, FlowTypeOK
  <2>4. ReferenceKnown'
    BY <1>1, <2>1 DEF FlowInv, ReferenceKnown
  <2>5. QED BY <2>1, <2>3, <2>4 DEF FlowInv
<1>5. QED BY <1>3, <1>4

\* For every value of the constants: the pictures of two flows do not overlap, so that no
\* motion is counted twice, and a flow whose stamps went forward names the time between its
\* pictures, at most the longest gap (optical_flow::flow_callback).
THEOREM FlowsTileAlways == FlowSpec => FlowsTile
<1>1. ASSUME FlowInv, [FlowNext]_flowVars
      PROVE  FlowInv' /\ (flow' # flow => Tiles)
  BY <1>1, SurroundingsKeep, TakeReferenceKeeps, ComparePictureTiles DEF FlowNext
<1>2. FlowSpec => []FlowInv
  BY FlowInvInit, <1>1, PTL DEF FlowSpec
<1>3. FlowInv => FlowTypeOK
  BY DEF FlowInv
<1>4. FlowInv /\ [FlowNext]_flowVars =>
          [ flow' # flow =>
              /\ flow.to <= flow'.of /\ flow'.of < flow'.to
              /\ flow'.of \in {flow.to, fresh}
              /\ flow'.stamp >= m_prev.stamp =>
                     /\ flow'.lasted = flow'.stamp - m_prev.stamp
                     /\ flow'.lasted <= LongestGap
          ]_flowVars
  BY <1>1 DEF Tiles
<1>5. QED
  BY <1>2, <1>3, <1>4, PTL DEF FlowSpec, FlowsTile

-----------------------------------------------------------------------------
(* MarkerDetector.                                                         *)

\* Only a host whose plugins are all made and active listens to pictures.
HostInv ==
    /\ camLife \in {"unconfigured", "inactive"} => ~listening
    /\ camLife \in {"inactive", "active"} => created = Plugin
    /\ listening => created = Plugin /\ publishing = created

\* A plugin that was made has a dictionary OpenCV knows.
DictInv == \A p \in created : dictionary[p] \in KnownDict

\* The points a plugin keeps for a marker are for the side in the map it has, unless that
\* side has changed since.
CacheFits(p, m) ==
    objCache[p][m] # 0 => /\ Valid
                          /\ m \in resized[p] \/ objCache[p][m] = copy.sides[m]
CacheInv == \A p \in Plugin, m \in Mark : CacheFits(p, m)

\* The dictionary d is the one that the map, or the parameter of p, asks for.
Asked(p, d) ==
    /\ copy.dict \in KnownDict => d = copy.dict
    /\ copy.dict = NoDict /\ marker_dict[p] \in KnownDict => d = marker_dict[p]

\* What may be published of a marker.
Published(d) ==
    /\ copy.sides[d.id] = d.size
    /\ Asked(d.plugin, d.dict)
    /\ d.scale = d.size \/ d.id \in resized[d.plugin] \/ d.clashed

\* The tasks of a picture are about marks in the map, and what is done fits.
TaskFits(m) ==
    /\ poseTask[m] # "none" => InMap(m)
    /\ poseTask[m] = "done" => clashed \/ m \in resized[plugin] \/ points[m] = copy.sides[m]

PictureInv ==
    /\ stage # "idle" => created = Plugin /\ \A d \in found : Published(d)
    /\ stage = "tasks" => /\ plugin \in Plugin /\ Valid /\ Asked(plugin, dictionary[plugin])
                          /\ \A m \in Mark : TaskFits(m)

DetectorInv == DetectorTypeOK /\ HostInv /\ DictInv /\ CacheInv /\ PictureInv

LEMMA MapTypes ==
    /\ \A map \in MarkerMaps : /\ map.dict \in MarkerDict \cup {NoDict}
                               /\ \A m \in Mark : map.sides[m] \in Sides
    /\ NoMap.dict = NoDict /\ \A m \in Mark : NoMap.sides[m] = -1
    /\ 0 \in Sides /\ Side \subseteq Nat \ {0} /\ Sides \subseteq Nat /\ -1 \notin Sides
    /\ NoDict \notin KnownDict
<1>1. /\ \A map \in MarkerMaps : /\ map.dict \in MarkerDict \cup {NoDict}
                                   /\ map.sides \in [Mark -> Sides]
      /\ NoMap.dict = NoDict /\ NoMap.sides = [m \in Mark |-> -1]
  BY DEF MarkerMaps, NoMap
<1>2. 0 \in Sides /\ Side \subseteq Nat \ {0} /\ Sides \subseteq Nat /\ -1 \notin Sides
  BY DEF Sides
<1>3. QED BY <1>1, <1>2

\* The types of what belongs to the picture, apart.
PictureTypes ==
    /\ found \subseteq Findings
    /\ stage \in {"idle", "plugins", "tasks"}
    /\ waiting \subseteq Plugin /\ plugin \in Plugin \cup {NoPlugin}
    /\ poseTask \in [Mark -> {"none", "look", "add", "done"}]
    /\ points \in [Mark -> Sides] /\ clashed \in BOOLEAN

OtherTypes ==
    /\ served \in MarkerMaps /\ mapEdits \in 0 .. MaxMapEdits
    /\ marker_dict \in [Plugin -> MarkerDict]
    /\ camLife \in {"unconfigured", "inactive", "active", "finalized", "dead"}
    /\ created \subseteq Plugin /\ publishing \subseteq Plugin
    /\ copy \in MarkerMaps \cup {NoMap}
    /\ dictionary \in [Plugin -> KnownDict \cup {NoDict}]
    /\ objCache \in [Plugin -> [Mark -> Sides]]
    /\ resized \in [Plugin -> SUBSET Mark]
    /\ listening \in BOOLEAN /\ calibrated \in BOOLEAN

LEMMA TypesSplit == DetectorTypeOK <=> OtherTypes /\ PictureTypes
  BY DEF DetectorTypeOK, OtherTypes, PictureTypes

LEMMA DetectorInitInv == DetectorInit => DetectorInv
<1> SUFFICES ASSUME DetectorInit PROVE DetectorInv
  OBVIOUS
<1>1. served \in MarkerMaps
  BY DEF DetectorInit, MarkerMaps
<1>2. /\ dictionary \in [Plugin -> KnownDict \cup {NoDict}]
      /\ objCache \in [Plugin -> [Mark -> Sides]] /\ resized \in [Plugin -> SUBSET Mark]
  BY MapTypes DEF DetectorInit
<1>3. OtherTypes
  <2>1. mapEdits \in 0 .. MaxMapEdits /\ marker_dict \in [Plugin -> MarkerDict]
    BY DEF DetectorInit
  <2>2. copy = NoMap /\ created = {} /\ publishing = {} /\ camLife = "unconfigured"
        /\ listening = FALSE /\ calibrated = FALSE
    BY DEF DetectorInit
  <2>3. QED BY <1>1, <1>2, <2>1, <2>2 DEF OtherTypes
<1>4. PictureTypes
  <2>1. poseTask \in [Mark -> {"none", "look", "add", "done"}] /\ points \in [Mark -> Sides]
    BY MapTypes DEF DetectorInit, NoTasks
  <2>2. found = {} /\ stage = "idle" /\ waiting = {} /\ plugin = NoPlugin /\ clashed = FALSE
    BY DEF DetectorInit
  <2>3. QED BY <2>1, <2>2 DEF PictureTypes
<1>5. HostInv /\ DictInv /\ CacheInv /\ PictureInv
  BY DEF DetectorInit, HostInv, DictInv, CacheInv, CacheFits, PictureInv
<1>6. QED BY <1>3, <1>4, <1>5, TypesSplit DEF DetectorInv

LEMMA EditMapKeeps == ASSUME DetectorInv, EditMap PROVE DetectorInv'
<1>1. served' \in MarkerMaps /\ mapEdits' \in 0 .. MaxMapEdits
  <2>1. mapEdits' \in 0 .. MaxMapEdits
    BY DEF EditMap, DetectorInv, DetectorTypeOK
  <2>2. ASSUME NEW m \in Mark, NEW s \in Sides, served' = [served EXCEPT !.sides[m] = s]
        PROVE  served' \in MarkerMaps
    BY <2>2 DEF DetectorInv, DetectorTypeOK, MarkerMaps
  <2>3. ASSUME NEW d \in MarkerDict \cup {NoDict}, served' = [served EXCEPT !.dict = d]
        PROVE  served' \in MarkerMaps
    BY <2>3 DEF DetectorInv, DetectorTypeOK, MarkerMaps
  <2>4. QED BY <2>1, <2>2, <2>3 DEF EditMap
<1>2. UNCHANGED <<marker_dict, hostVars, arucoVars, copy, resized, pictureVars>>
  BY DEF EditMap
<1>3. OtherTypes' /\ PictureTypes'
  BY <1>1, <1>2, TypesSplit
  DEF DetectorInv, OtherTypes, PictureTypes, hostVars, arucoVars, pictureVars, taskVars
<1>4. (HostInv /\ DictInv /\ CacheInv)'
  BY <1>2 DEF DetectorInv, HostInv, DictInv, CacheInv, CacheFits, Valid, hostVars, arucoVars
<1>5. PictureInv'
  BY <1>2 DEF DetectorInv, PictureInv, Published, Asked, TaskFits, InMap, Valid, hostVars,
              arucoVars, pictureVars, taskVars
<1>6. QED BY <1>3, <1>4, <1>5 DEF DetectorInv, DetectorTypeOK, OtherTypes, PictureTypes

\* Between two pictures nothing is on its way.
LEMMA IdleKeeps ==
    ASSUME DetectorInv, Idle
    PROVE  UNCHANGED pictureVars /\ PictureTypes' /\ PictureInv'
<1>1. UNCHANGED pictureVars /\ stage = "idle"
  BY DEF Idle
<1>2. PictureTypes'
  BY <1>1, TypesSplit DEF DetectorInv, PictureTypes, pictureVars, taskVars
<1>3. PictureInv'
  BY <1>1 DEF PictureInv, pictureVars
<1>4. QED BY <1>1, <1>2, <1>3

LEMMA SetMarkerDictKeeps ==
    ASSUME DetectorInv, NEW p \in Plugin, SetMarkerDict(p)
    PROVE  DetectorInv'
<1>1. /\ UNCHANGED <<served, hostVars, arucoVars, copy, resized>> /\ Idle
      /\ mapEdits' \in 0 .. MaxMapEdits
  BY DEF SetMarkerDict, DetectorInv, DetectorTypeOK
<1>2. marker_dict' \in [Plugin -> MarkerDict]
  BY DEF SetMarkerDict, DetectorInv, DetectorTypeOK
<1>3. OtherTypes'
  BY <1>1, <1>2, TypesSplit DEF DetectorInv, OtherTypes, hostVars, arucoVars
<1>4. (HostInv /\ DictInv /\ CacheInv)'
  BY <1>1 DEF DetectorInv, HostInv, DictInv, CacheInv, CacheFits, Valid, hostVars, arucoVars
<1>5. QED BY <1>1, <1>3, <1>4, IdleKeeps DEF DetectorInv, DetectorTypeOK, OtherTypes, PictureTypes

LEMMA TakeMarkerMapKeeps == ASSUME DetectorInv, TakeMarkerMap PROVE DetectorInv'
<1>1. /\ UNCHANGED <<worldVars, hostVars, arucoVars>> /\ copy' = served
      /\ served \in MarkerMaps /\ Idle
  BY DEF TakeMarkerMap, DetectorInv, DetectorTypeOK
<1>2. /\ resized' \in [Plugin -> SUBSET Mark]
      /\ \A p \in Plugin : resized'[p] = resized[p] \cup
             {m \in Mark : Valid /\ copy.sides[m] # served.sides[m]}
  BY DEF TakeMarkerMap, DetectorInv, DetectorTypeOK
<1>3. OtherTypes'
  BY <1>1, <1>2, TypesSplit DEF DetectorInv, OtherTypes, worldVars, hostVars, arucoVars
<1>4. HostInv' /\ DictInv'
  BY <1>1 DEF DetectorInv, HostInv, DictInv, hostVars, arucoVars
<1>5. ASSUME NEW p \in Plugin, NEW m \in Mark PROVE CacheFits(p, m)'
  <2>1. copy' # NoMap
    BY <1>1, MapTypes
  <2>2. objCache'[p][m] = objCache[p][m] /\ CacheFits(p, m)
    BY <1>1 DEF DetectorInv, CacheInv, arucoVars
  <2>3. ASSUME objCache[p][m] # 0, m \notin resized'[p] PROVE objCache[p][m] = copy'.sides[m]
    BY <1>1, <1>2, <2>2, <2>3 DEF CacheFits
  <2>4. QED BY <2>1, <2>2, <2>3 DEF CacheFits, Valid
<1>6. QED BY <1>1, <1>3, <1>4, <1>5, IdleKeeps
  DEF DetectorInv, DetectorTypeOK, OtherTypes, PictureTypes, CacheInv

\* What is emptied fits.
LEMMA EmptiedFits ==
    ASSUME DetectorInv, Emptied
    PROVE  /\ created' = {} /\ copy' \in MarkerMaps \cup {NoMap}
           /\ dictionary' \in [Plugin -> KnownDict \cup {NoDict}]
           /\ objCache' \in [Plugin -> [Mark -> Sides]] /\ resized' \in [Plugin -> SUBSET Mark]
           /\ DictInv' /\ CacheInv'
<1>1. /\ created' = {} /\ copy' \in MarkerMaps \cup {NoMap}
      /\ dictionary' \in [Plugin -> KnownDict \cup {NoDict}]
      /\ objCache' \in [Plugin -> [Mark -> Sides]] /\ resized' \in [Plugin -> SUBSET Mark]
  BY MapTypes DEF Emptied
<1>2. \A p \in Plugin, m \in Mark : objCache'[p][m] = 0
  BY DEF Emptied
<1>3. QED BY <1>1, <1>2 DEF DictInv, CacheInv, CacheFits

LEMMA ConfigureKeeps == ASSUME DetectorInv, Configure PROVE DetectorInv'
<1>1. /\ UNCHANGED <<worldVars, publishing, listening, calibrated>> /\ Idle
      /\ camLife = "unconfigured" /\ ~listening
  BY DEF Configure, DetectorInv, HostInv
<1>2. ASSUME \A p \in Plugin : marker_dict[p] \in KnownDict, camLife' = "inactive",
             created' = Plugin, dictionary' = marker_dict, UNCHANGED <<copy, objCache, resized>>
      PROVE  OtherTypes' /\ HostInv' /\ DictInv' /\ CacheInv'
  <2>1. dictionary' \in [Plugin -> KnownDict \cup {NoDict}]
    BY <1>2 DEF DetectorInv, DetectorTypeOK
  <2>2. OtherTypes'
    BY <1>1, <1>2, <2>1, TypesSplit DEF DetectorInv, OtherTypes, worldVars
  <2>3. HostInv' /\ DictInv' /\ CacheInv'
    BY <1>1, <1>2 DEF DetectorInv, HostInv, DictInv, CacheInv, CacheFits, Valid, worldVars
  <2>4. QED BY <2>2, <2>3
<1>3. ASSUME Emptied, UNCHANGED camLife PROVE OtherTypes' /\ HostInv' /\ DictInv' /\ CacheInv'
  <2>1. OtherTypes'
    BY <1>1, <1>3, EmptiedFits, TypesSplit DEF DetectorInv, OtherTypes, worldVars
  <2>2. HostInv' /\ DictInv' /\ CacheInv'
    BY <1>1, <1>3, EmptiedFits DEF HostInv
  <2>3. QED BY <2>1, <2>2
<1>4. OtherTypes' /\ HostInv' /\ DictInv' /\ CacheInv'
  BY <1>2, <1>3 DEF Configure
<1>5. QED BY <1>1, <1>4, IdleKeeps DEF DetectorInv, DetectorTypeOK, OtherTypes, PictureTypes

LEMMA CleanupKeeps == ASSUME DetectorInv, Cleanup PROVE DetectorInv'
<1>1. /\ UNCHANGED <<worldVars, publishing, listening, calibrated>> /\ Emptied /\ Idle
      /\ camLife' = "unconfigured" /\ ~listening
  BY DEF Cleanup, DetectorInv, HostInv
<1>2. OtherTypes'
  BY <1>1, EmptiedFits, TypesSplit DEF DetectorInv, OtherTypes, worldVars
<1>3. HostInv' /\ DictInv' /\ CacheInv'
  BY <1>1, EmptiedFits DEF HostInv
<1>4. QED BY <1>1, <1>2, <1>3, IdleKeeps DEF DetectorInv, DetectorTypeOK, OtherTypes, PictureTypes

\* The transitions that make and destroy no plugin, and the calibration of the camera.
LEMMA SwitchesKeep ==
    ASSUME DetectorInv,
           Activate \/ Deactivate \/ Shutdown \/ TakeCameraInfo
    PROVE  DetectorInv'
<1>1. UNCHANGED <<worldVars, arucoVars, created, copy, resized>> /\ Idle
  BY DEF Activate, Deactivate, Shutdown, TakeCameraInfo
<1>2. /\ camLife' \in {"unconfigured", "inactive", "active", "finalized", "dead"}
      /\ publishing' \subseteq Plugin /\ listening' \in BOOLEAN /\ calibrated' \in BOOLEAN
  BY DEF Activate, Deactivate, Shutdown, TakeCameraInfo, DetectorInv, DetectorTypeOK
<1>3. HostInv'
  <2>1. CASE Activate
    BY <2>1 DEF Activate, DetectorInv, HostInv
  <2>2. CASE Deactivate
    BY <2>2 DEF Deactivate, DetectorInv, HostInv
  <2>3. CASE Shutdown
    BY <2>3 DEF Shutdown, DetectorInv, HostInv
  <2>4. CASE TakeCameraInfo
    BY <2>4 DEF TakeCameraInfo, DetectorInv, HostInv
  <2>5. QED BY <2>1, <2>2, <2>3, <2>4
<1>4. OtherTypes'
  BY <1>1, <1>2, TypesSplit DEF DetectorInv, OtherTypes, worldVars, arucoVars
<1>5. DictInv' /\ CacheInv'
  BY <1>1 DEF DetectorInv, DictInv, CacheInv, CacheFits, Valid, worldVars, arucoVars
<1>6. QED BY <1>1, <1>3, <1>4, <1>5, IdleKeeps
  DEF DetectorInv, DetectorTypeOK, OtherTypes, PictureTypes

\* ensure_dictionary() brings the dictionary that is asked for, if there is one to be had.
LEMMA EnsuredSound ==
    ASSUME DetectorInv, NEW p \in created, Valid
    PROVE  Ensured(p) \in KnownDict /\ Asked(p, Ensured(p))
<1>1. dictionary[p] \in KnownDict /\ NoDict \notin KnownDict
  BY MapTypes DEF DetectorInv, DictInv
<1>2. QED BY <1>1 DEF Ensured, ResolvedDict, Asked

LEMMA CopySides ==
    ASSUME DetectorInv, NEW m \in Mark, InMap(m)
    PROVE  copy.sides[m] \in Side
<1>1. copy \in MarkerMaps /\ copy.sides[m] > 0
  BY DEF DetectorInv, DetectorTypeOK, InMap, Valid
<1>2. QED BY <1>1, MapTypes DEF Sides

\* The points a task is to use fit.
LEMMA MadeForFits ==
    ASSUME DetectorInv, stage = "tasks", NEW m \in Mark, poseTask[m] # "none"
    PROVE  /\ plugin \in Plugin /\ Valid /\ MadeFor(m) \in Side /\ MadeFor(m) \in Sides
           /\ m \in resized[plugin] \/ MadeFor(m) = copy.sides[m]
<1>1. plugin \in Plugin /\ Valid /\ InMap(m)
  BY DEF DetectorInv, PictureInv, TaskFits
<1>2. copy.sides[m] \in Side
  BY <1>1, CopySides
<1>3. objCache[plugin][m] \in Sides /\ CacheFits(plugin, m)
  BY <1>1 DEF DetectorInv, DetectorTypeOK, CacheInv
<1>4. CASE objCache[plugin][m] = 0
  BY <1>1, <1>2, <1>4 DEF MadeFor, Sides
<1>5. CASE objCache[plugin][m] # 0
  BY <1>1, <1>3, <1>5 DEF MadeFor, CacheFits, Sides
<1>6. QED BY <1>4, <1>5

LEMMA TakeImageKeeps == ASSUME DetectorInv, TakeImage PROVE DetectorInv'
<1>1. /\ UNCHANGED <<worldVars, hostVars, arucoVars, copy, resized, taskVars>> /\ listening
      /\ stage' = "plugins" /\ waiting' = created /\ found' = {}
  BY DEF TakeImage
<1>2. OtherTypes' /\ PictureTypes'
  BY <1>1, TypesSplit
  DEF DetectorInv, OtherTypes, PictureTypes, worldVars, hostVars, arucoVars, taskVars
<1>3. HostInv' /\ DictInv' /\ CacheInv'
  BY <1>1 DEF DetectorInv, HostInv, DictInv, CacheInv, CacheFits, Valid, worldVars, hostVars,
              arucoVars
<1>4. PictureInv'
  BY <1>1 DEF DetectorInv, HostInv, PictureInv, hostVars
<1>5. QED BY <1>2, <1>3, <1>4 DEF DetectorInv, DetectorTypeOK, OtherTypes, PictureTypes

\* Within a picture neither the map nor the parameters change, and what was found still fits.
LEMMA FoundStays ==
    ASSUME DetectorInv, stage # "idle", UNCHANGED <<created, copy, resized, marker_dict>>,
           found' \subseteq found
    PROVE  created' = Plugin /\ \A d \in found' : Published(d)'
  BY DEF DetectorInv, PictureInv, Published, Asked

LEMMA ProcessKeeps ==
    ASSUME DetectorInv, NEW p \in Plugin, NEW seen \in SUBSET Mark, Process(p, seen)
    PROVE  DetectorInv'
<1>1. /\ UNCHANGED <<worldVars, hostVars, objCache, copy, resized, points, clashed, found>>
      /\ stage = "plugins" /\ p \in waiting /\ waiting' \subseteq waiting
  BY DEF Process
<1>2. created = Plugin
  BY <1>1 DEF DetectorInv, PictureInv
<1>3. created' = Plugin /\ \A d \in found' : Published(d)'
  BY <1>1, FoundStays DEF worldVars, hostVars
<1>4. HostInv' /\ CacheInv'
  BY <1>1 DEF DetectorInv, HostInv, CacheInv, CacheFits, Valid, hostVars
<1>5. CASE Valid
  <2>1. /\ dictionary' = [dictionary EXCEPT ![p] = Ensured(p)]
        /\ stage' = "tasks" /\ plugin' = p
        /\ poseTask' = [m \in Mark |-> IF m \in seen /\ InMap(m) THEN "look" ELSE "none"]
    BY <1>5 DEF Process
  <2>2. Ensured(p) \in KnownDict /\ Asked(p, Ensured(p))
    BY <1>2, <1>5, EnsuredSound
  <2>3. dictionary' \in [Plugin -> KnownDict \cup {NoDict}] /\ dictionary'[p] = Ensured(p)
    BY <2>1, <2>2 DEF DetectorInv, DetectorTypeOK
  <2>4. OtherTypes'
    BY <1>1, <2>3, TypesSplit DEF DetectorInv, OtherTypes, worldVars, hostVars
  <2>5. poseTask' \in [Mark -> {"none", "look", "add", "done"}]
    BY <2>1
  <2>6. PictureTypes'
    BY <1>1, <2>1, <2>5, TypesSplit DEF DetectorInv, PictureTypes
  <2>7. DictInv'
    BY <1>1, <2>1, <2>2 DEF DetectorInv, DetectorTypeOK, DictInv, hostVars
  <2>8. \A m \in Mark : TaskFits(m)'
    BY <1>1, <2>1 DEF TaskFits, InMap, Valid
  <2>9. Valid' /\ Asked(plugin, dictionary[plugin])'
    BY <1>1, <1>5, <2>1, <2>2, <2>3 DEF Valid, Asked, worldVars
  <2>10. PictureInv'
    BY <1>3, <2>1, <2>8, <2>9 DEF PictureInv
  <2>11. QED BY <1>4, <2>4, <2>6, <2>7, <2>10
    DEF DetectorInv, DetectorTypeOK, OtherTypes, PictureTypes
<1>6. CASE ~Valid
  <2>1. UNCHANGED <<dictionary, stage, plugin, poseTask>>
    BY <1>6 DEF Process
  <2>2. OtherTypes' /\ PictureTypes'
    BY <1>1, <2>1, TypesSplit DEF DetectorInv, OtherTypes, PictureTypes, worldVars, hostVars
  <2>3. DictInv' /\ PictureInv'
    BY <1>1, <1>3, <2>1 DEF DetectorInv, DictInv, PictureInv, hostVars
  <2>4. QED BY <1>4, <2>2, <2>3 DEF DetectorInv, DetectorTypeOK, OtherTypes, PictureTypes
<1>7. QED BY <1>5, <1>6

\* What is left to show of a step of the tasks: that the table and the tasks still fit.
LEMMA TasksKeep ==
    ASSUME DetectorInv, stage = "tasks",
           UNCHANGED <<worldVars, created, publishing, listening, calibrated, dictionary, copy,
                       resized, stage, waiting, plugin, found>>,
           camLife' \in {camLife, "dead"},
           objCache' \in [Plugin -> [Mark -> Sides]], CacheInv',
           poseTask' \in [Mark -> {"none", "look", "add", "done"}], points' \in [Mark -> Sides],
           clashed' \in BOOLEAN, \A m \in Mark : TaskFits(m)'
    PROVE  DetectorInv'
<1>1. OtherTypes' /\ PictureTypes'
  BY TypesSplit DEF DetectorInv, OtherTypes, PictureTypes, worldVars
<1>2. HostInv' /\ DictInv'
  BY DEF DetectorInv, HostInv, DictInv
<1>3. created' = Plugin /\ \A d \in found' : Published(d)'
  BY FoundStays DEF worldVars
<1>4. plugin' \in Plugin /\ Valid' /\ Asked(plugin, dictionary[plugin])'
  BY DEF DetectorInv, PictureInv, Valid, Asked, worldVars
<1>5. PictureInv'
  BY <1>3, <1>4 DEF PictureInv
<1>6. QED BY <1>1, <1>2, <1>5 DEF DetectorInv, DetectorTypeOK, OtherTypes, PictureTypes

LEMMA FindPointsKeeps ==
    ASSUME DetectorInv, NEW m \in Mark, FindPoints(m)
    PROVE  DetectorInv'
<1>1. /\ UNCHANGED <<worldVars, hostVars, arucoVars, copy, resized, stage, waiting, plugin,
                     clashed, found>>
      /\ stage = "tasks" /\ poseTask[m] = "look"
  BY DEF FindPoints
<1>2. /\ MadeFor(m) \in Sides /\ (m \in resized[plugin] \/ MadeFor(m) = copy.sides[m])
      /\ poseTask \in [Mark -> {"none", "look", "add", "done"}] /\ points \in [Mark -> Sides]
      /\ \A n \in Mark : TaskFits(n)
  BY <1>1, MadeForFits DEF DetectorInv, DetectorTypeOK, PictureInv
<1>3. /\ poseTask' \in [Mark -> {"none", "look", "add", "done"}] /\ points' \in [Mark -> Sides]
      /\ \A n \in Mark : n # m => poseTask'[n] = poseTask[n] /\ points'[n] = points[n]
      /\ poseTask'[m] \in {"add", "done"} /\ (poseTask'[m] = "done" => points'[m] = MadeFor(m))
  BY <1>2 DEF FindPoints
<1>4. ASSUME NEW n \in Mark PROVE TaskFits(n)'
  BY <1>1, <1>2, <1>3 DEF TaskFits, InMap, Valid
<1>5. CacheInv'
  BY <1>1 DEF DetectorInv, CacheInv, CacheFits, Valid, arucoVars
<1>6. objCache' \in [Plugin -> [Mark -> Sides]] /\ clashed' \in BOOLEAN
  BY <1>1 DEF DetectorInv, DetectorTypeOK, arucoVars
<1>7. QED BY <1>1, <1>3, <1>4, <1>5, <1>6, TasksKeep DEF hostVars, arucoVars

LEMMA AddPointsKeeps ==
    ASSUME DetectorInv, NEW m \in Mark, AddPoints(m)
    PROVE  DetectorInv'
<1>1. /\ UNCHANGED <<worldVars, hostVars, dictionary, copy, resized, stage, waiting, plugin,
                     clashed, found>>
      /\ stage = "tasks" /\ poseTask[m] = "add"
      /\ objCache' = [objCache EXCEPT ![plugin][m] = MadeFor(m)]
      /\ points' = [points EXCEPT ![m] = MadeFor(m)]
      /\ poseTask' = [poseTask EXCEPT ![m] = "done"]
  BY DEF AddPoints
<1>2. /\ plugin \in Plugin /\ Valid
      /\ MadeFor(m) \in Sides /\ (m \in resized[plugin] \/ MadeFor(m) = copy.sides[m])
      /\ poseTask \in [Mark -> {"none", "look", "add", "done"}] /\ points \in [Mark -> Sides]
      /\ objCache \in [Plugin -> [Mark -> Sides]] /\ clashed \in BOOLEAN
      /\ \A n \in Mark : TaskFits(n)
  BY <1>1, MadeForFits DEF DetectorInv, DetectorTypeOK, PictureInv
<1>3. /\ poseTask' \in [Mark -> {"none", "look", "add", "done"}] /\ points' \in [Mark -> Sides]
      /\ objCache' \in [Plugin -> [Mark -> Sides]] /\ clashed' \in BOOLEAN
  BY <1>1, <1>2
<1>4. ASSUME NEW n \in Mark PROVE TaskFits(n)'
  BY <1>1, <1>2 DEF TaskFits, InMap, Valid
<1>5. ASSUME NEW q \in Plugin, NEW n \in Mark PROVE CacheFits(q, n)'
  <2>1. CacheFits(q, n)
    BY DEF DetectorInv, CacheInv
  <2>2. CASE q = plugin /\ n = m
    <3>1. objCache'[q][n] = MadeFor(m)
      BY <1>1, <1>2, <2>2
    <3>2. QED BY <1>1, <1>2, <2>2, <3>1 DEF CacheFits, Valid
  <2>3. CASE ~(q = plugin /\ n = m)
    <3>1. objCache'[q][n] = objCache[q][n]
      BY <1>1, <1>2, <2>3
    <3>2. QED BY <1>1, <2>1, <3>1 DEF CacheFits, Valid
  <2>4. QED BY <2>2, <2>3
<1>6. QED BY <1>1, <1>3, <1>4, <1>5, TasksKeep DEF CacheInv, hostVars

LEMMA ClashKeeps ==
    ASSUME DetectorInv, NEW m \in Mark, NEW n \in Mark, Clash(m, n)
    PROVE  DetectorInv'
<1>1. /\ UNCHANGED <<worldVars, created, publishing, listening, calibrated, dictionary, copy,
                     resized, stage, waiting, plugin, found>>
      /\ stage = "tasks" /\ poseTask[m] # "none" /\ poseTask[n] # "none"
  BY DEF Clash
<1>2. /\ plugin \in Plugin /\ Valid
      /\ \A i \in {m, n} : /\ MadeFor(i) \in Sides
                           /\ i \in resized[plugin] \/ MadeFor(i) = copy.sides[i]
      /\ poseTask \in [Mark -> {"none", "look", "add", "done"}] /\ points \in [Mark -> Sides]
      /\ objCache \in [Plugin -> [Mark -> Sides]] /\ clashed \in BOOLEAN
      /\ CacheInv /\ \A i \in Mark : TaskFits(i)
  BY <1>1, MadeForFits DEF DetectorInv, DetectorTypeOK, PictureInv
<1>3. CASE camLife' = "dead" /\ UNCHANGED <<objCache, points, poseTask, clashed>>
  <2>1. CacheInv' /\ \A i \in Mark : TaskFits(i)'
    BY <1>1, <1>2, <1>3 DEF CacheInv, CacheFits, TaskFits, InMap, Valid
  <2>2. QED BY <1>1, <1>2, <1>3, <2>1, TasksKeep
<1>4. ASSUME poseTask' = [poseTask EXCEPT ![m] = "done", ![n] = "done"], clashed' = TRUE,
             points' = [points EXCEPT ![m] = 0, ![n] = 0], UNCHANGED camLife,
             NEW lost \in SUBSET Mark,
             objCache' = [objCache EXCEPT ![plugin] =
                 [i \in Mark |-> IF i \in lost THEN 0
                                 ELSE IF i \in {m, n} THEN MadeFor(i) ELSE @[i]]]
      PROVE  DetectorInv'
  <2>1. /\ poseTask' \in [Mark -> {"none", "look", "add", "done"}] /\ points' \in [Mark -> Sides]
        /\ clashed' \in BOOLEAN
    BY <1>2, <1>4, MapTypes
  <2>2. ASSUME NEW i \in Mark PROVE TaskFits(i)'
    <3>1. poseTask[i] # "none" => InMap(i)
      BY <1>2 DEF TaskFits
    <3>2. InMap(m) /\ InMap(n)
      BY <1>1, <1>2 DEF TaskFits
    <3>3. poseTask'[i] # "none" => InMap(i)
      BY <1>2, <1>4, <3>1, <3>2
    <3>4. QED BY <1>1, <1>4, <3>3 DEF TaskFits, InMap, Valid
  <2>3. /\ \A q \in Plugin : q # plugin => objCache'[q] = objCache[q]
        /\ objCache'[plugin] = [i \in Mark |-> IF i \in lost THEN 0
                                ELSE IF i \in {m, n} THEN MadeFor(i) ELSE objCache[plugin][i]]
    BY <1>2, <1>4
  <2>4. objCache'[plugin] \in [Mark -> Sides]
    BY <1>2, <2>3, MapTypes
  <2>5. objCache' \in [Plugin -> [Mark -> Sides]]
    BY <1>2, <1>4, <2>4
  <2>6. ASSUME NEW q \in Plugin, NEW i \in Mark PROVE CacheFits(q, i)'
    <3>1. CacheFits(q, i)
      BY <1>2 DEF CacheInv
    <3>2. CASE objCache'[q][i] = objCache[q][i]
      BY <1>1, <3>1, <3>2 DEF CacheFits, Valid
    <3>3. CASE objCache'[q][i] = 0
      BY <3>3 DEF CacheFits
    <3>4. CASE q = plugin /\ i \in {m, n} /\ objCache'[q][i] = MadeFor(i)
      BY <1>1, <1>2, <3>4 DEF CacheFits, Valid
    <3>5. QED BY <2>3, <3>2, <3>3, <3>4
  <2>7. QED BY <1>1, <1>4, <2>1, <2>2, <2>5, <2>6, TasksKeep DEF CacheInv
<1>5. QED BY <1>3, <1>4 DEF Clash

LEMMA ReportKeeps == ASSUME DetectorInv, Report PROVE DetectorInv'
<1> DEFINE Done == {m \in Mark : poseTask[m] = "done"}
           Finding(m) == [plugin |-> plugin, id |-> m, size |-> copy.sides[m],
                          scale |-> points[m], dict |-> dictionary[plugin], clashed |-> clashed]
<1>1. /\ UNCHANGED <<worldVars, hostVars, arucoVars, copy, resized, waiting>> /\ stage = "tasks"
      /\ stage' = "plugins" /\ plugin' = NoPlugin /\ poseTask' = NoTasks
      /\ points' = [m \in Mark |-> 0] /\ clashed' = FALSE
      /\ found' = found \cup {Finding(m) : m \in Done}
  BY DEF Report
<1>2. /\ created = Plugin /\ plugin \in Plugin /\ Asked(plugin, dictionary[plugin])
      /\ dictionary[plugin] \in KnownDict
  BY <1>1 DEF DetectorInv, PictureInv, DictInv
<1>3. ASSUME NEW m \in Done PROVE Finding(m) \in Findings /\ Published(Finding(m))
  <2>1. m \in Mark /\ InMap(m) /\ (clashed \/ m \in resized[plugin] \/ points[m] = copy.sides[m])
    BY <1>1 DEF DetectorInv, PictureInv, TaskFits
  <2>2. copy.sides[m] \in Side /\ points[m] \in Sides /\ clashed \in BOOLEAN
    BY <2>1, CopySides DEF DetectorInv, DetectorTypeOK
  <2>3. Finding(m) \in Findings
    BY <1>2, <2>1, <2>2 DEF Findings
  <2>4. Published(Finding(m))
    BY <1>2, <2>1 DEF Published
  <2>5. QED BY <2>3, <2>4
<1>4. PictureTypes'
  <2>1. poseTask' \in [Mark -> {"none", "look", "add", "done"}] /\ points' \in [Mark -> Sides]
    BY <1>1, MapTypes DEF NoTasks
  <2>2. found' \subseteq Findings /\ waiting' \subseteq Plugin
    BY <1>1, <1>3 DEF DetectorInv, DetectorTypeOK
  <2>3. QED BY <1>1, <2>1, <2>2 DEF PictureTypes
<1>5. OtherTypes'
  BY <1>1, TypesSplit DEF DetectorInv, OtherTypes, worldVars, hostVars, arucoVars
<1>6. HostInv' /\ DictInv' /\ CacheInv'
  BY <1>1 DEF DetectorInv, HostInv, DictInv, CacheInv, CacheFits, Valid, hostVars, arucoVars
<1>7. PictureInv'
  <2>1. \A d \in found : Published(d)
    BY <1>1 DEF DetectorInv, PictureInv
  <2>2. \A d \in found' : Published(d)
    BY <1>1, <1>3, <2>1
  <2>3. \A d \in found' : Published(d)'
    BY <1>1, <2>2 DEF Published, Asked, worldVars
  <2>4. QED BY <1>1, <1>2, <2>3 DEF PictureInv, hostVars
<1>8. QED BY <1>4, <1>5, <1>6, <1>7 DEF DetectorInv, DetectorTypeOK, OtherTypes, PictureTypes

LEMMA PublishKeeps == ASSUME DetectorInv, Publish PROVE DetectorInv'
<1>1. /\ UNCHANGED <<worldVars, hostVars, arucoVars, copy, resized, waiting, taskVars>>
      /\ stage' = "idle" /\ found' = {}
  BY DEF Publish
<1>2. OtherTypes' /\ PictureTypes'
  BY <1>1, TypesSplit
  DEF DetectorInv, OtherTypes, PictureTypes, worldVars, hostVars, arucoVars, taskVars
<1>3. HostInv' /\ DictInv' /\ CacheInv' /\ PictureInv'
  BY <1>1 DEF DetectorInv, HostInv, DictInv, CacheInv, CacheFits, Valid, PictureInv, hostVars,
              arucoVars
<1>4. QED BY <1>2, <1>3 DEF DetectorInv, DetectorTypeOK, OtherTypes, PictureTypes

LEMMA NothingKeeps == ASSUME DetectorInv, UNCHANGED detectorVars PROVE DetectorInv'
<1>1. OtherTypes' /\ PictureTypes'
  BY TypesSplit DEF DetectorInv, OtherTypes, PictureTypes, detectorVars, worldVars, hostVars,
                    arucoVars, pictureVars, taskVars
<1>2. HostInv' /\ DictInv' /\ CacheInv'
  BY DEF DetectorInv, HostInv, DictInv, CacheInv, CacheFits, Valid, detectorVars, hostVars,
         arucoVars
<1>3. PictureInv'
  BY DEF DetectorInv, PictureInv, Published, Asked, TaskFits, InMap, Valid, detectorVars,
         worldVars, hostVars, arucoVars, pictureVars, taskVars
<1>4. QED BY <1>1, <1>2, <1>3 DEF DetectorInv, DetectorTypeOK, OtherTypes, PictureTypes

\* For any plugins, markers, dictionaries and edits, and any interleaving of the tasks: what
\* is published is what the map the host has asks for, with poses for its sides, but where a
\* side changed or two tasks met in the table (aruco::ensure_dictionary,
\* maker_base::process and get_marker_obj_points, cam_feature::on_activate).
THEOREM DetectionsAlwaysTrue == DetectorSpec => DetectionsTrue
<1> DEFINE Step == /\ listening' => publishing' = created' /\ created' = Plugin
                   /\ stage = "plugins" /\ stage' = "idle" => \A d \in found : Published(d)
<1>1. ASSUME DetectorInv, [DetectorNext]_detectorVars
      PROVE  DetectorInv'
  BY <1>1, EditMapKeeps, TakeMarkerMapKeeps, SetMarkerDictKeeps, ConfigureKeeps, CleanupKeeps,
     SwitchesKeep, TakeImageKeeps, ProcessKeeps, FindPointsKeeps, AddPointsKeeps, ClashKeeps,
     ReportKeeps, PublishKeeps, NothingKeeps DEF DetectorNext
<1>2. ASSUME DetectorInv, DetectorInv' PROVE Step
  BY <1>2 DEF DetectorInv, HostInv, PictureInv
<1>3. DetectorSpec => []DetectorInv
  BY DetectorInitInv, <1>1, PTL DEF DetectorSpec
<1>4. DetectorInv => DetectorTypeOK
  BY DEF DetectorInv
<1>5. DetectorInv /\ [DetectorNext]_detectorVars =>
          [ /\ listening' => publishing' = created' /\ created' = Plugin
            /\ stage = "plugins" /\ stage' = "idle" =>
                 \A d \in found :
                    /\ copy.sides[d.id] = d.size
                    /\ copy.dict \in KnownDict => d.dict = copy.dict
                    /\ copy.dict = NoDict /\ marker_dict[d.plugin] \in KnownDict =>
                           d.dict = marker_dict[d.plugin]
                    /\ d.scale = d.size \/ d.id \in resized[d.plugin] \/ d.clashed
          ]_detectorVars
  BY <1>1, <1>2 DEF Published, Asked
<1>6. QED
  BY <1>3, <1>4, <1>5, PTL DEF DetectorSpec, DetectionsTrue

-----------------------------------------------------------------------------
(* Sums over sets, on which the tracker's mean rests.                      *)

\* A set of numbers has a least one: the induction below is on the size of a set.
LEMMA LeastNumber ==
    ASSUME NEW T, T \subseteq Nat, T # {}
    PROVE  \E n \in T : \A m \in T : n <= m
<1> DEFINE Less == OpToRel(<, Nat)
<1>1. IsWellFoundedOn(Less, Nat)
  BY NatLessThanWellFounded
<1>2. PICK n \in T : \A m \in T : <<m, n>> \notin Less
  BY <1>1, WFMin
<1>3. \A m \in T : ~(m < n)
  BY <1>2 DEF OpToRel
<1>4. QED BY <1>3

Numbers(C, S) == \A x \in S : C[x] \in Int
Pick(s) == CHOOSE x \in s : TRUE
\* A sum over a set, taken one element after another.
Summed(C, D, f, s) == IF s = {} THEN 0 ELSE f[s \ {Pick(s)}] + C[Pick(s)] + D[Pick(s)]
HasSum(C, D, S) == \E f : f = [s \in SUBSET S |-> Summed(C, D, f, s)]
SumOver(C, D, S) == CHOOSE f : f = [s \in SUBSET S |-> Summed(C, D, f, s)]

LEMMA SmallerSets ==
    ASSUME NEW S, IsFiniteSet(S), NEW s \in SUBSET S, s # {}
    PROVE  /\ Pick(s) \in s /\ IsFiniteSet(s) /\ Cardinality(s) \in Nat \ {0}
           /\ s \ {Pick(s)} \in SUBSET S /\ Cardinality(s \ {Pick(s)}) = Cardinality(s) - 1
<1>1. IsFiniteSet(s) /\ Cardinality(s) \in Nat
  BY FS_Subset, FS_CardinalityType
<1>2. Pick(s) \in s
  BY DEF Pick
<1>3. Cardinality(s \ {Pick(s)}) = Cardinality(s) - 1 /\ Cardinality(s) # 0
  BY <1>1, <1>2, FS_RemoveElement, FS_EmptySet
<1>4. QED BY <1>1, <1>2, <1>3

LEMMA SumDefined ==
    ASSUME NEW S, IsFiniteSet(S), NEW C, NEW D, Numbers(C, S), Numbers(D, S)
    PROVE  HasSum(C, D, S)
<1> DEFINE UpTo(n) == {s \in SUBSET S : Cardinality(s) <= n}
           Sums(f, n) == f \in [UpTo(n) -> Int] /\ \A s \in UpTo(n) : f[s] = Summed(C, D, f, s)
           Bad == {n \in Nat : ~\E f : Sums(f, n)}
<1>1. \E f : Sums(f, 0)
  <2> DEFINE f == [s \in UpTo(0) |-> 0]
  <2>1. ASSUME NEW s \in UpTo(0), s # {} PROVE FALSE
    <3>1. Cardinality(s) \in Nat \ {0}
      BY <2>1, SmallerSets
    <3>2. QED BY <3>1
  <2>2. Sums(f, 0)
    BY <2>1 DEF Summed
  <2>3. QED BY <2>2
<1>2. ASSUME NEW n \in Nat, \E f : Sums(f, n) PROVE \E f : Sums(f, n + 1)
  <2> PICK f : Sums(f, n)
    BY <1>2
  <2> DEFINE g == [s \in UpTo(n + 1) |-> Summed(C, D, f, s)]
  <2>1. ASSUME NEW s \in UpTo(n + 1), s # {} PROVE s \ {Pick(s)} \in UpTo(n) /\ Pick(s) \in S
    BY <2>1, SmallerSets
  <2>2. \A s \in UpTo(n) : s \in UpTo(n + 1) /\ g[s] = f[s]
    <3>1. ASSUME NEW s \in UpTo(n) PROVE s \in UpTo(n + 1)
      <4>1. Cardinality(s) \in Nat
        BY FS_Subset, FS_CardinalityType
      <4>2. QED BY <4>1
    <3>2. QED BY <3>1
  <2>3. \A s \in UpTo(n + 1) : Summed(C, D, g, s) = Summed(C, D, f, s)
    BY <2>1, <2>2 DEF Summed
  <2>4. ASSUME NEW s \in UpTo(n + 1) PROVE Summed(C, D, f, s) \in Int
    BY <2>1 DEF Summed, Numbers
  <2>5. g \in [UpTo(n + 1) -> Int]
    BY <2>4
  <2>6. \A s \in UpTo(n + 1) : g[s] = Summed(C, D, g, s)
    BY <2>3
  <2>7. QED BY <2>5, <2>6
<1>3. Bad = {}
  <2> HIDE DEF Sums
  <2> SUFFICES ASSUME Bad # {} PROVE FALSE
    OBVIOUS
  <2>1. PICK n \in Bad : \A m \in Bad : n <= m
    BY LeastNumber
  <2>2. n # 0 /\ n \in Nat
    BY <1>1
  <2>3. n - 1 \in Nat /\ n - 1 \notin Bad
    BY <2>1, <2>2
  <2>4. \E f : Sums(f, (n - 1) + 1)
    BY <1>2, <2>3
  <2>5. (n - 1) + 1 = n
    BY <2>2
  <2>6. QED BY <2>1, <2>4, <2>5
<1>4. Cardinality(S) \in Nat /\ UpTo(Cardinality(S)) = SUBSET S
  BY FS_CardinalityType, FS_Subset
<1>5. PICK f : Sums(f, Cardinality(S))
  BY <1>3, <1>4
<1>6. f = [s \in SUBSET S |-> Summed(C, D, f, s)]
  BY <1>4, <1>5
<1>7. QED BY <1>6 DEF HasSum

LEMMA SumTyped ==
    ASSUME NEW S, IsFiniteSet(S), NEW C, NEW D, Numbers(C, S), Numbers(D, S)
    PROVE  SumOver(C, D, S)[S] \in Int
<1> DEFINE F == SumOver(C, D, S)
           Bad == {n \in Nat : \E s \in SUBSET S : Cardinality(s) = n /\ F[s] \notin Int}
<1>1. F = [s \in SUBSET S |-> Summed(C, D, F, s)]
  <2>1. HasSum(C, D, S)
    BY SumDefined
  <2>2. QED BY <2>1 DEF HasSum, SumOver
<1> HIDE DEF F
<1>2. Bad = {}
  <2> SUFFICES ASSUME Bad # {} PROVE FALSE
    OBVIOUS
  <2>1. PICK n \in Bad : \A m \in Bad : n <= m
    BY LeastNumber
  <2>2. PICK s \in SUBSET S : Cardinality(s) = n /\ F[s] \notin Int
    BY <2>1
  <2>3. CASE s = {}
    BY <1>1, <2>2, <2>3 DEF Summed
  <2>4. CASE s # {}
    <3> DEFINE t == s \ {Pick(s)}
    <3>1. /\ Pick(s) \in S /\ t \in SUBSET S /\ n \in Nat \ {0} /\ Cardinality(t) = n - 1
      BY <2>2, <2>4, SmallerSets
    <3>2. F[s] = F[t] + C[Pick(s)] + D[Pick(s)]
      BY <1>1, <2>4 DEF Summed
    <3>3. F[t] \notin Int
      BY <2>2, <3>1, <3>2 DEF Numbers
    <3>4. n - 1 \in Bad
      BY <3>1, <3>3
    <3>5. QED BY <2>1, <3>1, <3>4
  <2>5. QED BY <2>3, <2>4
<1>3. \A s \in SUBSET S : F[s] \in Int
  BY <1>2, FS_Subset, FS_CardinalityType
<1>4. QED BY <1>3 DEF F

-----------------------------------------------------------------------------
(* VisionPose.                                                             *)

\* The last estimate is the last pose, moved by the offset.
EstimateKnown ==
    estimate = NoEstimate \/ (~m_first_pose /\ estimate.at = Plus(m_offset, m_last_vio_position))

VisionInv == VisionTypeOK /\ EstimateKnown

LEMMA CoordinatesClosed ==
    ASSUME NEW a \in Coordinates, NEW b \in Coordinates
    PROVE  Plus(a, b) \in Coordinates /\ Minus(a, b) \in Coordinates
  BY VisionAssumption DEF Coordinates, Plus, Minus

\* An offset keeps numbers that are near each other near.
LEMMA OffsetKeepsDistance ==
    ASSUME NEW a \in Coordinates, NEW b \in Coordinates, NEW o \in Coordinates,
           ~Apart(a, b, JumpReset), b # NaN, Plus(o, a) # NaN
    PROVE  Plus(o, b) # NaN /\ Near(Plus(o, a), Plus(o, b))
<1>1. NaN \notin {a, b, o}
  BY DEF Plus
<1>2. a \in Int /\ b \in Int /\ o \in Int
  BY <1>1 DEF Coordinates
<1>3. /\ Plus(o, a) = o + a /\ Plus(o, b) = o + b
      /\ ~(a - b > JumpReset) /\ ~(b - a > JumpReset)
  BY <1>1 DEF Plus, Apart
<1>4. (o + a) - (o + b) <= JumpReset /\ (o + b) - (o + a) <= JumpReset
  BY <1>2, <1>3, VisionAssumption
<1>5. o + b \in Int /\ NaN \notin Int
  BY <1>2, VisionAssumption
<1>6. QED BY <1>3, <1>4, <1>5 DEF Near

\* The offset that is made of the reported position leads back to it.
LEMMA OffsetLeadsBack ==
    ASSUME NEW w \in Coordinates, NEW a \in Coordinates, a # NaN
    PROVE  Plus(Minus(w, a), a) = w
<1>1. CASE w = NaN
  BY <1>1 DEF Plus, Minus
<1>2. CASE w # NaN
  <2>1. w \in Int /\ a \in Int /\ NaN \notin Int
    BY <1>2, VisionAssumption DEF Coordinates
  <2>2. Minus(w, a) = w - a /\ w - a \in Int
    BY <1>2, <2>1 DEF Minus
  <2>3. QED BY <2>1, <2>2 DEF Plus
<1>3. QED BY <1>1, <1>2

LEMMA AveragedTyped ==
    ASSUME VisionTypeOK, NEW S \in SUBSET Beacon, NEW seen \in [S -> Sight], Fixed(seen) # {}
    PROVE  Averaged(seen) \in Coordinates
<1> DEFINE T == Fixed(seen)
<1>1. T \subseteq S /\ T \subseteq DOMAIN chart /\ IsFiniteSet(T)
  BY FS_Subset, VisionAssumption DEF Fixed
<1>2. CASE \E b \in T : seen[b] = NaN
  BY <1>2 DEF Averaged, Coordinates
<1>3. CASE ~\E b \in T : seen[b] = NaN
  <2>1. Numbers(chart, T) /\ Numbers(seen, T)
    <3>1. \A b \in T : chart[b] \in Place /\ seen[b] \in Sight /\ seen[b] # NaN
      BY <1>1, <1>3 DEF VisionTypeOK
    <3>2. Place \subseteq Int /\ Sight \subseteq Int \cup {NaN}
      BY VisionAssumption
    <3>3. QED BY <3>1, <3>2 DEF Numbers
  <2>2. SumOver(chart, seen, T)[T] \in Int
    BY <1>1, <2>1, SumTyped
  <2>3. Cardinality(T) \in Nat \ {0}
    BY <1>1, FS_CardinalityType, FS_EmptySet
  <2>4. Averaged(seen) = SumOver(chart, seen, T)[T] \div Cardinality(T)
    BY <1>3 DEF Averaged, FoldSet, MapThenFoldSet, SumOver, Summed, Pick
  <2>5. \A x \in Int, n \in Nat \ {0} : x \div n \in Int
    OBVIOUS
  <2>6. QED BY <2>2, <2>3, <2>4, <2>5 DEF Coordinates
<1>4. QED BY <1>2, <1>3

LEMMA VisionInitInv == VisionInit => VisionInv
<1> SUFFICES ASSUME VisionInit PROVE VisionInv
  OBVIOUS
<1>1. m_world_current \in Coordinates /\ 0 \in Coordinates
  BY VisionAssumption DEF VisionInit, Coordinates
<1>2. PICK S \in SUBSET Beacon : chart \in [S -> Place]
  BY DEF VisionInit
<1>3. /\ pose.stamp = 0 /\ pose.at = 0 /\ estimate.stamp = 0 /\ estimate.counter = 0
      /\ 0 \in 0 .. MaxStamp /\ 0 \in 0 .. Counters - 1
  BY VisionAssumption DEF VisionInit, NoPose, NoEstimate
<1>4. VisionTypeOK
  BY <1>1, <1>2, <1>3 DEF VisionInit, VisionTypeOK
<1>5. QED BY <1>4 DEF VisionInit, VisionInv, EstimateKnown

\* A step of the tracker, of the map or of the flight controller tells it nothing.
LEMMA TrackingKeeps ==
    ASSUME VisionInv,
           \/ SwitchTracking \/ LearnTransform \/ EditChart \/ DropPose
           \/ \E stamp \in 1 .. MaxStamp : Track(stamp)
           \/ \E x \in Place : ReportPosition(x)
           \/ UNCHANGED visionVars
    PROVE  VisionInv' /\ UNCHANGED estimate
<1>1. UNCHANGED <<vioVars, estimate>>
  BY DEF SwitchTracking, LearnTransform, EditChart, DropPose, Track, ReportPosition, visionVars
<1>2. DOMAIN chart' \subseteq Beacon /\ \A b \in DOMAIN chart' : chart'[b] \in Place
  <2>1. CASE EditChart
    <3>1. ASSUME NEW b \in Beacon, NEW x \in Place,
                 chart' = [c \in DOMAIN chart \cup {b} |-> IF c = b THEN x ELSE chart[c]]
          PROVE  DOMAIN chart' \subseteq Beacon /\ \A c \in DOMAIN chart' : chart'[c] \in Place
      BY <3>1 DEF VisionInv, VisionTypeOK
    <3>2. ASSUME NEW b \in Beacon, chart' = [c \in DOMAIN chart \ {b} |-> chart[c]]
          PROVE  DOMAIN chart' \subseteq Beacon /\ \A c \in DOMAIN chart' : chart'[c] \in Place
      BY <3>2 DEF VisionInv, VisionTypeOK
    <3>3. QED BY <2>1, <3>1, <3>2 DEF EditChart
  <2>2. CASE ~EditChart
    <3>1. UNCHANGED chart
      BY <2>2 DEF SwitchTracking, LearnTransform, DropPose, Track, ReportPosition, visionVars,
                  trackerVars
    <3>2. QED BY <3>1 DEF VisionInv, VisionTypeOK
  <2>3. QED BY <2>1, <2>2
<1>3. pose'.stamp \in 0 .. MaxStamp /\ pose'.at \in Coordinates
  <2>1. ASSUME NEW stamp \in 1 .. MaxStamp, Track(stamp)
        PROVE  pose'.stamp \in 0 .. MaxStamp /\ pose'.at \in Coordinates
    <3>1. PICK at \in Means : pose' = [stamp |-> stamp, at |-> at]
      BY <2>1 DEF Track
    <3>2. PICK seen \in Sights : at = Averaged(seen) /\ Fixed(seen) # {}
      BY <3>1 DEF Means
    <3>3. PICK S \in SUBSET Beacon : seen \in [S -> Sight]
      BY <3>2 DEF Sights
    <3>4. at \in Coordinates
      BY <3>2, <3>3, AveragedTyped DEF VisionInv
    <3>5. pose'.stamp = stamp /\ pose'.at = at /\ stamp \in 0 .. MaxStamp
      BY <3>1, VisionAssumption
    <3>6. QED BY <3>4, <3>5
  <2>2. CASE DropPose
    <3>1. pose'.stamp = 0 /\ pose'.at = 0
      BY <2>2 DEF DropPose, NoPose
    <3>2. QED BY <3>1, VisionAssumption DEF Coordinates
  <2>3. CASE UNCHANGED pose
    BY <2>3 DEF VisionInv, VisionTypeOK
  <2>4. QED
    BY <2>1, <2>2, <2>3 DEF SwitchTracking, LearnTransform, EditChart, ReportPosition, visionVars
<1>4. /\ m_world_current' \in Coordinates /\ reported' \in BOOLEAN
      /\ tracking' \in BOOLEAN /\ camera_tf' \in BOOLEAN
  <2>1. ASSUME NEW x \in Place, ReportPosition(x)
        PROVE  m_world_current' \in Coordinates /\ reported' \in BOOLEAN /\ UNCHANGED trackerVars
    BY <2>1, VisionAssumption DEF ReportPosition, Coordinates
  <2>2. CASE UNCHANGED <<m_world_current, reported>>
    BY <2>2 DEF VisionInv, VisionTypeOK, SwitchTracking, LearnTransform, EditChart, DropPose, Track,
                ReportPosition, visionVars, trackerVars
  <2>3. QED
    BY <2>1, <2>2 DEF VisionInv, VisionTypeOK, SwitchTracking, LearnTransform, EditChart, DropPose,
                      Track, visionVars, trackerVars
<1>5. VisionTypeOK'
  BY <1>1, <1>2, <1>3, <1>4 DEF VisionInv, VisionTypeOK, vioVars
<1>6. EstimateKnown'
  BY <1>1 DEF VisionInv, EstimateKnown, vioVars
<1>7. QED BY <1>1, <1>5, <1>6 DEF VisionInv

\* What an estimate says of the one before it.
Continuous ==
    IF estimate'.counter = estimate.counter
    THEN /\ estimate'.stamp - estimate.stamp <= GapReset
         /\ estimate'.at # NaN /\ m_last_vio_position # NaN =>
                estimate.at # NaN /\ Near(estimate'.at, estimate.at)
    ELSE reported /\ pose.at # NaN => estimate'.at = m_world_current

LEMMA CounterMoves ==
    ASSUME NEW n \in 0 .. Counters - 1
    PROVE  (n + 1) % Counters \in 0 .. Counters - 1 /\ (n + 1) % Counters # n
<1>1. Counters \in Nat /\ Counters > 1 /\ n \in Nat /\ n < Counters
  BY VisionAssumption
<1>2. CASE n + 1 < Counters
  <2>1. (n + 1) % Counters = n + 1
    BY <1>1, <1>2
  <2>2. QED BY <1>1, <1>2, <2>1
<1>3. CASE n + 1 = Counters
  <2>1. (n + 1) % Counters = 0
    BY <1>1, <1>3
  <2>2. QED BY <1>1, <1>3, <2>1
<1>4. QED BY <1>1, <1>2, <1>3

LEMMA SendEstimateContinuous ==
    ASSUME VisionInv, SendEstimate
    PROVE  VisionInv' /\ (estimate' # estimate /\ estimate # NoEstimate => Continuous)
<1>1. /\ pose' = NoPose /\ UNCHANGED <<trackerVars, m_world_current, reported>>
      /\ pose'.stamp = 0 /\ pose'.at = 0 /\ 0 \in Coordinates /\ 0 \in 0 .. MaxStamp
  BY VisionAssumption DEF SendEstimate, NoPose, Coordinates
<1>2. /\ pose.at \in Coordinates /\ m_world_current \in Coordinates /\ m_offset \in Coordinates
      /\ m_last_vio_position \in Coordinates /\ pose.stamp \in 0 .. MaxStamp
      /\ m_last_pose_recv \in 0 .. MaxStamp /\ m_reset_counter \in 0 .. Counters - 1
      /\ estimate.stamp = m_last_pose_recv /\ estimate.counter = m_reset_counter
  BY DEF VisionInv, VisionTypeOK
<1>3. CASE pose.stamp = m_last_pose_recv
  <2>1. UNCHANGED <<vioVars, estimate>>
    BY <1>3 DEF SendEstimate
  <2>2. VisionTypeOK'
    BY <1>1, <2>1 DEF VisionInv, VisionTypeOK, trackerVars, vioVars
  <2>3. EstimateKnown'
    BY <2>1 DEF VisionInv, EstimateKnown, vioVars
  <2>4. QED BY <2>1, <2>2, <2>3 DEF VisionInv
<1>4. CASE pose.stamp # m_last_pose_recv
  <2>1. /\ m_first_pose' = FALSE /\ m_last_vio_position' = pose.at /\ m_last_pose_recv' = pose.stamp
        /\ m_offset' = (IF IsReset THEN NewOffset ELSE m_offset)
        /\ m_reset_counter' =
               (IF IsReset THEN (m_reset_counter + 1) % Counters ELSE m_reset_counter)
        /\ estimate' = [stamp |-> pose.stamp, at |-> Plus(m_offset', pose.at),
                        counter |-> m_reset_counter']
    BY <1>4 DEF SendEstimate
  <2>2. /\ m_offset' \in Coordinates /\ m_reset_counter' \in 0 .. Counters - 1
        /\ IsReset => m_reset_counter' # m_reset_counter
    BY <1>2, <2>1, CoordinatesClosed, CounterMoves DEF NewOffset
  <2>3. /\ estimate'.stamp = pose.stamp /\ estimate'.at = Plus(m_offset', pose.at)
        /\ estimate'.counter = m_reset_counter'
    BY <2>1
  <2>4. VisionTypeOK'
    BY <1>1, <1>2, <2>1, <2>2, <2>3 DEF VisionInv, VisionTypeOK, trackerVars
  <2>5. EstimateKnown'
    BY <2>1, <2>3 DEF EstimateKnown
  <2>6. ASSUME estimate # NoEstimate PROVE Continuous
    <3>1. ~m_first_pose /\ estimate.at = Plus(m_offset, m_last_vio_position)
      BY <2>6 DEF VisionInv, EstimateKnown
    <3>2. CASE IsReset
      <4>1. pose.at # NaN => estimate'.at = m_world_current
        BY <1>2, <2>1, <2>3, <3>2, OffsetLeadsBack DEF NewOffset
      <4>2. QED BY <1>2, <2>2, <2>3, <3>2, <4>1 DEF Continuous
    <3>3. CASE ~IsReset
      <4>1. /\ ~(pose.stamp - m_last_pose_recv > GapReset)
            /\ ~Apart(pose.at, m_last_vio_position, JumpReset)
        BY <3>1, <3>3 DEF IsReset
      <4>2. m_offset' = m_offset /\ m_reset_counter' = m_reset_counter
        BY <2>1, <3>3
      <4>3. estimate'.at # NaN /\ m_last_vio_position # NaN =>
                estimate.at # NaN /\ Near(estimate'.at, estimate.at)
        BY <1>2, <2>3, <3>1, <4>1, <4>2, OffsetKeepsDistance
      <4>4. pose.stamp - m_last_pose_recv <= GapReset
        BY <1>2, <4>1, VisionAssumption
      <4>5. estimate'.stamp - estimate.stamp <= GapReset
        BY <1>2, <2>3, <4>4
      <4>6. QED BY <1>2, <2>3, <4>2, <4>3, <4>5 DEF Continuous
    <3>4. QED BY <3>2, <3>3
  <2>7. QED BY <2>4, <2>5, <2>6 DEF VisionInv
<1>5. QED BY <1>3, <1>4

\* For any map, any markers in sight and anything the flight controller reports: what it is
\* told does not jump under one counter, but after a pose that is no number
\* (clover2_vio::is_vio_reset, send_vision_estimate).
THEOREM VisionAlwaysContinuous == VisionSpec => VisionContinuous
<1>1. ASSUME VisionInv, [VisionNext]_visionVars
      PROVE  VisionInv' /\ (estimate' # estimate /\ estimate # NoEstimate => Continuous)
  <2>1. CASE SendEstimate
    BY <1>1, <2>1, SendEstimateContinuous
  <2>2. CASE ~SendEstimate
    BY <1>1, <2>2, TrackingKeeps DEF VisionNext
  <2>3. QED BY <2>1, <2>2
<1>2. VisionSpec => []VisionInv
  BY VisionInitInv, <1>1, PTL DEF VisionSpec
<1>3. VisionInv => VisionTypeOK
  BY DEF VisionInv
<1>4. VisionInv /\ [VisionNext]_visionVars =>
          [ estimate' # estimate /\ estimate # NoEstimate =>
              IF estimate'.counter = estimate.counter
              THEN /\ estimate'.stamp - estimate.stamp <= GapReset
                   /\ estimate'.at # NaN /\ m_last_vio_position # NaN =>
                          estimate.at # NaN /\ Near(estimate'.at, estimate.at)
              ELSE reported /\ pose.at # NaN => estimate'.at = m_world_current
          ]_visionVars
  BY <1>1 DEF Continuous
<1>5. QED
  BY <1>2, <1>3, <1>4, PTL DEF VisionSpec, VisionContinuous
=============================================================================
