--------------------------- MODULE MarkerDetector ---------------------------
(***************************************************************************)
(* The camera feature host of clover2_cam_feature and its ArUco plugins:   *)
(* the life cycle that creates and starts the plugins, and the detection   *)
(* of a picture against a map that other programs edit meanwhile.          *)
(*                                                                         *)
(* The callbacks of the host share one group, so that they run one after   *)
(* another; but within the callback of a picture, a plugin computes the    *)
(* poses of the marks it sees on several threads, which share one table of *)
(* points and take no lock. What OpenCV finds in a picture is any marks.   *)
(***************************************************************************)
EXTENDS Integers, FiniteSets

CONSTANTS
    Plugin,          \* feature_plugins
    NoPlugin,        \* none of them
    Mark,            \* ids of markers
    Side,            \* sides a marker may have
    MarkerDict,      \* names of dictionaries, KnownDict those OpenCV has
    KnownDict,
    NoDict,          \* no name: the map leaves the choice to the parameter
    MaxMapEdits      \* bound on the edits of the map and of the parameter

ASSUME DetectorAssumption ==
    /\ Side \subseteq Nat \ {0} /\ KnownDict \subseteq MarkerDict /\ NoDict \notin MarkerDict
    /\ NoPlugin \notin Plugin /\ MaxMapEdits \in Nat

VARIABLES
    served,        \* the map of the map server: [dict, sides]; absent markers have side 0
    mapEdits,      \* bound: edits so far
    marker_dict,   \* the parameter of each plugin
    camLife,       \* state of the life cycle
    created,       \* m_plugins
    publishing,    \* the plugins whose debug publisher exists
    copy,          \* the map client's copy
    dictionary,    \* m_dictionary_id of each plugin
    objCache,         \* m_marker_obj_cache of each plugin: the side its points were made for
    resized,       \* history: markers whose side in the copy changed since the plugin was made
    listening,     \* m_image_sub exists
    calibrated,    \* m_camera_model is initialized
    stage,         \* of image_callback(): "idle", "plugins" or "tasks"
    waiting,       \* the plugins that have not been given the picture yet
    plugin,        \* the one whose process() runs
    poseTask,      \* what the task of each mark is about to do
    points,        \* the side the points it uses were made for; 0: any or none
    clashed,       \* two tasks met in the table
    found          \* marker_list: what they found; published when the callback ends

hostVars == <<camLife, created, publishing, listening, calibrated>>
arucoVars == <<dictionary, objCache>>
worldVars == <<served, mapEdits, marker_dict>>
taskVars == <<plugin, poseTask, points, clashed>>
pictureVars == <<stage, waiting, taskVars, found>>
detectorVars == <<worldVars, hostVars, arucoVars, copy, resized, pictureVars>>

-----------------------------------------------------------------------------
Sides == {0} \cup Side
MarkerMaps == [dict : MarkerDict \cup {NoDict}, sides : [Mark -> Sides]]
NoMap == [dict |-> NoDict, sides |-> [m \in Mark |-> -1]]
Valid == copy # NoMap
InMap(m) == Valid /\ copy.sides[m] > 0
Findings == [plugin : Plugin, id : Mark, size : Side, scale : Sides, dict : KnownDict,
             clashed : BOOLEAN]
NoTasks == [m \in Mark |-> "none"]

DetectorTypeOK ==
    /\ served \in MarkerMaps /\ mapEdits \in 0 .. MaxMapEdits
    /\ marker_dict \in [Plugin -> MarkerDict]
    /\ camLife \in {"unconfigured", "inactive", "active", "finalized", "dead"}
    /\ created \subseteq Plugin /\ publishing \subseteq Plugin
    /\ copy \in MarkerMaps \cup {NoMap}
    /\ dictionary \in [Plugin -> KnownDict \cup {NoDict}]
    /\ objCache \in [Plugin -> [Mark -> Sides]]
    /\ resized \in [Plugin -> SUBSET Mark]
    /\ listening \in BOOLEAN /\ calibrated \in BOOLEAN
    /\ found \subseteq Findings
    /\ stage \in {"idle", "plugins", "tasks"}
    /\ waiting \subseteq Plugin /\ plugin \in Plugin \cup {NoPlugin}
    /\ poseTask \in [Mark -> {"none", "look", "add", "done"}]
    /\ points \in [Mark -> Sides] /\ clashed \in BOOLEAN

DetectorInit ==
    /\ served \in [dict : {NoDict}, sides : [Mark -> Sides]] /\ mapEdits = 0
    /\ marker_dict \in [Plugin -> MarkerDict]
    /\ camLife = "unconfigured"
    /\ created = {} /\ publishing = {}
    /\ copy = NoMap
    /\ dictionary = [p \in Plugin |-> NoDict]
    /\ objCache = [p \in Plugin |-> [m \in Mark |-> 0]]
    /\ resized = [p \in Plugin |-> {}]
    /\ listening = FALSE /\ calibrated = FALSE
    /\ found = {}
    /\ stage = "idle" /\ waiting = {} /\ plugin = NoPlugin
    /\ poseTask = NoTasks /\ points = [m \in Mark |-> 0] /\ clashed = FALSE

\* A callback other than that of a picture runs before or after it.
Idle == stage = "idle" /\ camLife # "dead" /\ UNCHANGED pictureVars

-----------------------------------------------------------------------------
(* The map.                                                                *)

EditMap ==
    /\ mapEdits < MaxMapEdits /\ mapEdits' = mapEdits + 1
    /\ \/ \E m \in Mark, s \in Sides : served' = [served EXCEPT !.sides[m] = s]
       \/ \E d \in MarkerDict \cup {NoDict} : served' = [served EXCEPT !.dict = d]
    /\ served' # served
    /\ UNCHANGED <<marker_dict, hostVars, arucoVars, copy, resized, pictureVars>>

\* A client sets the parameter, to any name; it is read with the next picture that the map
\* leaves the choice to.
SetMarkerDict(p) ==
    /\ Idle
    /\ mapEdits < MaxMapEdits /\ mapEdits' = mapEdits + 1
    /\ \E d \in MarkerDict \ {marker_dict[p]} : marker_dict' = [marker_dict EXCEPT ![p] = d]
    /\ UNCHANGED <<served, hostVars, arucoVars, copy, resized>>

\* update_cached_map(): whenever the answer to get_map comes.
TakeMarkerMap ==
    /\ Idle
    /\ created # {} /\ copy # served
    /\ copy' = served
    /\ resized' = [p \in Plugin |->
           resized[p] \cup {m \in Mark : Valid /\ copy.sides[m] # served.sides[m]}]
    /\ UNCHANGED <<worldVars, hostVars, arucoVars>>

-----------------------------------------------------------------------------
(* The plugin.                                                             *)

\* Fault: the parameter wins over the map.
ParameterWins(p) == marker_dict[p]

\* resolve_dictionary_id(): the map's dictionary, if it has a map that names one.
ResolvedDict(p) == IF Valid /\ copy.dict # NoDict THEN copy.dict ELSE marker_dict[p]

\* ensure_dictionary(): one OpenCV does not have is logged, and the old one stays.
Ensured(p) == IF ResolvedDict(p) \in KnownDict THEN ResolvedDict(p) ELSE dictionary[p]

\* The side that points are for: made once for the side the map gives, then kept by id.
MadeFor(m) == IF objCache[plugin][m] = 0 THEN copy.sides[m] ELSE objCache[plugin][m]

-----------------------------------------------------------------------------
(* The host.                                                               *)

\* cleanup() of the plugins the host has, each in turn, and then they are destroyed.
Emptied ==
    /\ created' = {}
    /\ copy' = NoMap
    /\ dictionary' = [p \in Plugin |-> NoDict]
    /\ objCache' = [p \in Plugin |-> [m \in Mark |-> 0]]
    /\ resized' = [p \in Plugin |-> {}]

\* on_configure(): the client is new, so that the dictionary is the parameter's. One that
\* is unknown, or a class that does not load, undoes all the others.
Configure ==
    /\ Idle
    /\ camLife = "unconfigured"
    /\ \/ /\ \A p \in Plugin : marker_dict[p] \in KnownDict
          /\ camLife' = "inactive"
          /\ created' = Plugin
          /\ dictionary' = marker_dict
          /\ UNCHANGED <<copy, objCache, resized>>
       \/ Emptied /\ UNCHANGED camLife
    /\ UNCHANGED <<worldVars, publishing, listening, calibrated>>

\* on_activate(): a plugin, or a topic, that throws has on_deactivate() undo the others.
Activate ==
    /\ Idle
    /\ camLife = "inactive"
    /\ \/ camLife' = "active" /\ publishing' = created /\ listening' = TRUE
       \/ UNCHANGED camLife /\ publishing' = {} /\ listening' = FALSE
    /\ UNCHANGED <<worldVars, arucoVars, created, copy, resized, calibrated>>

\* on_deactivate().
Deactivate ==
    /\ Idle
    /\ camLife = "active"
    /\ camLife' = "inactive"
    /\ publishing' = {} /\ listening' = FALSE
    /\ UNCHANGED <<worldVars, arucoVars, created, copy, resized, calibrated>>

\* on_cleanup().
Cleanup ==
    /\ Idle
    /\ camLife = "inactive"
    /\ camLife' = "unconfigured"
    /\ Emptied
    /\ UNCHANGED <<worldVars, publishing, listening, calibrated>>

\* on_shutdown() stops nothing: a host shut down while active goes on detecting.
Shutdown ==
    /\ Idle
    /\ camLife # "finalized"
    /\ camLife' = "finalized"
    /\ UNCHANGED <<worldVars, arucoVars, created, publishing, listening, calibrated, copy,
                   resized>>

\* camera_info_callback(): infos without a size or distortion are passed over.
TakeCameraInfo ==
    /\ Idle
    /\ listening /\ ~calibrated
    /\ calibrated' = TRUE
    /\ UNCHANGED <<worldVars, camLife, created, publishing, listening, arucoVars, copy, resized>>

-----------------------------------------------------------------------------
(* The callback of a picture.                                              *)

\* image_callback(): nothing before the camera is known.
TakeImage ==
    /\ stage = "idle" /\ camLife # "dead"
    /\ listening /\ calibrated
    /\ stage' = "plugins" /\ waiting' = created /\ found' = {}
    /\ UNCHANGED <<worldVars, hostVars, arucoVars, copy, resized, taskVars>>

\* process(), up to the tasks: nothing without a map; detect_markers() brings the dictionary
\* up to date and sees some marks, and those that are not in the map have no pose.
Process(p, seen) ==
    /\ stage = "plugins" /\ p \in waiting
    /\ waiting' = waiting \ {p}
    /\ IF Valid
       THEN /\ dictionary' = [dictionary EXCEPT ![p] = Ensured(p)]
            /\ stage' = "tasks" /\ plugin' = p
            /\ poseTask' = [m \in Mark |-> IF m \in seen /\ InMap(m) THEN "look" ELSE "none"]
       ELSE UNCHANGED <<dictionary, stage, plugin, poseTask>>
    /\ UNCHANGED <<worldVars, hostVars, objCache, copy, resized, points, clashed, found>>

\* get_marker_obj_points(), in the task of a mark: points in the table are taken ...
FindPoints(m) ==
    /\ stage = "tasks" /\ poseTask[m] = "look"
    /\ IF objCache[plugin][m] # 0
       THEN /\ poseTask' = [poseTask EXCEPT ![m] = "done"]
            /\ points' = [points EXCEPT ![m] = MadeFor(m)]
       ELSE poseTask' = [poseTask EXCEPT ![m] = "add"] /\ UNCHANGED points
    /\ UNCHANGED <<worldVars, hostVars, arucoVars, copy, resized, stage, waiting, plugin,
                   clashed, found>>

\* ... and others are made for the side of the marker, and added.
AddPoints(m) ==
    /\ stage = "tasks" /\ poseTask[m] = "add"
    /\ objCache' = [objCache EXCEPT ![plugin][m] = MadeFor(m)]
    /\ points' = [points EXCEPT ![m] = MadeFor(m)]
    /\ poseTask' = [poseTask EXCEPT ![m] = "done"]
    /\ UNCHANGED <<worldVars, hostVars, dictionary, copy, resized, stage, waiting, plugin,
                   clashed, found>>

\* The table is no place for two threads: while one adds, another that looks or adds may
\* find any points, entries may be lost, or the host may crash or loop for ever.
Clash(m, n) ==
    /\ stage = "tasks" /\ m # n
    /\ poseTask[m] = "add" /\ poseTask[n] \in {"look", "add"}
    /\ \/ camLife' = "dead" /\ UNCHANGED <<objCache, points, poseTask, clashed>>
       \/ /\ poseTask' = [poseTask EXCEPT ![m] = "done", ![n] = "done"]
          /\ clashed' = TRUE
          /\ points' = [points EXCEPT ![m] = 0, ![n] = 0]
          /\ \E lost \in SUBSET Mark : objCache' = [objCache EXCEPT ![plugin] =
                 [i \in Mark |-> IF i \in lost THEN 0
                                 ELSE IF i \in {m, n} THEN MadeFor(i) ELSE @[i]]]
          /\ UNCHANGED camLife
    /\ UNCHANGED <<worldVars, created, publishing, listening, calibrated, dictionary, copy,
                   resized, stage, waiting, plugin, found>>

\* process(), when every task is done: the poses, in a row.
Report ==
    /\ stage = "tasks" /\ camLife # "dead"
    /\ \A m \in Mark : poseTask[m] \in {"none", "done"}
    /\ found' = found \cup
           {[plugin |-> plugin, id |-> m, size |-> copy.sides[m], scale |-> points[m],
             dict |-> dictionary[plugin], clashed |-> clashed] :
                m \in {n \in Mark : poseTask[n] = "done"}}
    /\ stage' = "plugins" /\ plugin' = NoPlugin /\ poseTask' = NoTasks
    /\ points' = [m \in Mark |-> 0] /\ clashed' = FALSE
    /\ UNCHANGED <<worldVars, hostVars, arucoVars, copy, resized, waiting>>

\* Then one array with what they all found is published.
Publish ==
    /\ stage = "plugins" /\ waiting = {}
    /\ stage' = "idle" /\ found' = {}
    /\ UNCHANGED <<worldVars, hostVars, arucoVars, copy, resized, waiting, taskVars>>

DetectorNext ==
    \/ EditMap \/ TakeMarkerMap \/ \E p \in Plugin : SetMarkerDict(p)
    \/ Configure \/ Activate \/ Deactivate \/ Cleanup \/ Shutdown
    \/ TakeCameraInfo
    \/ TakeImage \/ Report \/ Publish
    \/ \E p \in Plugin, seen \in SUBSET Mark : Process(p, seen)
    \/ camLife # "dead" /\ \E m \in Mark : FindPoints(m) \/ AddPoints(m) \/ \E n \in Mark : Clash(m, n)

DetectorSpec == DetectorInit /\ [][DetectorNext]_detectorVars

-----------------------------------------------------------------------------
\* However the tasks of a picture interleave and whatever was edited before it: every marker
\* published has the side it has in the map that the host has; it was looked for with the
\* dictionary that this map asks for, or with the parameter's if it asks for none, whenever
\* OpenCV has that one; and its pose was computed for its side, unless the map changed that
\* side since the plugin was made, or two tasks met in the table of points. A picture finds
\* every plugin there is to be made and active (aruco::ensure_dictionary,
\* maker_base::process and get_marker_obj_points, cam_feature::on_activate).
DetectionsTrue ==
    /\ []DetectorTypeOK
    /\ [][ /\ listening' => publishing' = created' /\ created' = Plugin
           /\ stage = "plugins" /\ stage' = "idle" =>
                \A d \in found :
                    /\ copy.sides[d.id] = d.size
                    /\ copy.dict \in KnownDict => d.dict = copy.dict
                    /\ copy.dict = NoDict /\ marker_dict[d.plugin] \in KnownDict =>
                           d.dict = marker_dict[d.plugin]
                    /\ d.scale = d.size \/ d.id \in resized[d.plugin] \/ d.clashed
         ]_detectorVars
=============================================================================
