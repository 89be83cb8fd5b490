----------------------------- MODULE MapEditor -----------------------------
(***************************************************************************)
(* The map page of the web front end: the store with the markers last      *)
(* loaded, the formulas being edited, the baseline that tells what is not  *)
(* yet saved, and saveMap(), which sends one request per marker. The map   *)
(* on the server is one others edit too; a request may be refused, may be  *)
(* served and yet fail for the page, or be served after it was given up.   *)
(***************************************************************************)
EXTENDS Integers

CONSTANTS
    MarkerId,   \* ids are taken upwards: 0, 1, ...
    Info,       \* what a marker has besides its pose: a size, a name
    NewInfo,    \* that of a new marker
    Place,      \* poses
    NewPlace,   \* that of a new marker
    Formula,    \* what is typed for a pose, over the id
    Literal,    \* the formula a pose is shown as
    Resolves,   \* the pose a formula stands for
    MaxChanges, \* bound on what the user and others change
    MaxSaves    \* bound on the saves

NoPlace == "none"

ASSUME EditorAssumption ==
    /\ {0, 1} \subseteq MarkerId /\ MarkerId \subseteq Nat
    /\ NewInfo \in Info /\ NewPlace \in Place /\ NoPlace \notin Place
    /\ Literal \in [Place \cup {NoPlace} -> Formula]
    /\ Resolves \in [Formula -> [MarkerId -> Place]]
    /\ \A p \in Place, id \in MarkerId : Resolves[Literal[p]][id] = p

VARIABLES
    remote,     \* the markers of the map server
    markers, markerUi, baseline,
    loaded,     \* mapMeta is there: a map was loaded once
    load,       \* mapLoading, and the answer under way
    mapError,
    mapSaving,  \* saving
    ops,        \* what saveMap() has yet to send
    call,       \* the request that is awaited
    straggler,  \* a request given up, that may still be served
    dialog,     \* ids of the question whether to delete them
    frame,      \* ids to delete in the next animation frame
    done,       \* history: how many changes and saves
    excused     \* history: the ids for which the page may be wrong

pageVars == <<markers, markerUi, baseline, loaded, load, mapError>>
saveVars == <<mapSaving, ops, call, straggler>>
deleteVars == <<dialog, frame>>
editorVars == <<remote, pageVars, saveVars, deleteVars, done, excused>>

None == [id \in {} |-> NoPlace]
With(f, id, v) == [i \in DOMAIN f \cup {id} |-> IF i = id THEN v ELSE f[i]]
Without(f, ids) == [i \in DOMAIN f \ ids |-> f[i]]

NoCall == [phase |-> "none"]
NoLoad == [phase |-> "no"]

EditorInit ==
    /\ remote \in UNION {[ids -> [info : {NewInfo}, pose : Place \cup {NoPlace}]] : ids \in {{}, {0}, {0, 1}}}
    /\ markers = None /\ markerUi = None /\ baseline = None
    /\ loaded = FALSE /\ load = NoLoad /\ mapError = FALSE
    /\ mapSaving = FALSE /\ ops = {} /\ call = NoCall /\ straggler = NoCall
    /\ dialog = {} /\ frame = {}
    /\ done = [changes |-> 0, saves |-> 0] /\ excused = {}

Count(what, bound) == done[what] < bound /\ done' = [done EXCEPT ![what] = @ + 1]

\* Nothing is on its way between the page and the server, and the map is shown.
AtRest == ~mapSaving /\ load = NoLoad /\ ~mapError

\* mapDirtyIds()
Retyped == {id \in DOMAIN markerUi : id \notin DOMAIN baseline \/ markerUi[id] # baseline[id].formula}
Dirty ==
    (DOMAIN baseline \ DOMAIN markers) \cup (DOMAIN markers \cap Retyped)
        \cup {id \in DOMAIN markers : id \notin DOMAIN baseline \/ markers[id].info # baseline[id].info}

\* The ids of the save that is under way.
UnderWay == IF mapSaving THEN call.before \cup {call.op.id} \cup {op.id : op \in ops} ELSE {}

-----------------------------------------------------------------------------
(* Loading: reloadMap().                                                   *)

\* The page is opened, or the user tries again after an error: formulas not yet saved
\* outlive the load and count as saved after it.
Reload ==
    /\ load = NoLoad
    /\ load' = [phase |-> "asked"] /\ mapError' = FALSE
    /\ excused' = excused \cup Retyped \cup UnderWay
    /\ UNCHANGED <<remote, markers, markerUi, baseline, loaded, saveVars, deleteVars, done>>

ServeMapPage ==
    /\ load.phase = "asked"
    /\ load' = [phase |-> "answered", markers |-> remote]
    /\ UNCHANGED <<remote, markers, markerUi, baseline, loaded, mapError, saveVars, deleteVars>>
    /\ UNCHANGED <<done, excused>>

LoadFails ==
    /\ load.phase = "asked"
    /\ load' = NoLoad /\ mapError' = TRUE
    /\ UNCHANGED <<remote, markers, markerUi, baseline, loaded, saveVars, deleteVars, done, excused>>

\* seedUiFor(): formulas are made from a pose once, and never again.
Seeded(m) ==
    [id \in DOMAIN markerUi \cup DOMAIN m |->
        IF id \in DOMAIN markerUi THEN markerUi[id] ELSE Literal[m[id].pose]]

\* captureBaseline(): everything loaded is considered saved.
Captured(m, ui) == [id \in DOMAIN m |-> [info |-> m[id].info, formula |-> ui[id]]]

TakeMapPage ==
    /\ load.phase = "answered"
    /\ markers' = load.markers
    /\ markerUi' = Seeded(load.markers)
    /\ baseline' = Captured(markers', markerUi')
    /\ loaded' = TRUE /\ load' = NoLoad /\ mapError' = FALSE
    /\ UNCHANGED <<remote, saveVars, deleteVars, done, excused>>

-----------------------------------------------------------------------------
(* Editing. A question to the user takes all keys.                         *)

PanelShown == loaded /\ dialog = {} /\ ~mapError /\ (load = NoLoad \/ markers # None)

\* setMarkerInfoLocal() of every selected marker
SetInfo ==
    /\ PanelShown /\ Count("changes", MaxChanges)
    /\ \E ids \in SUBSET DOMAIN markers \ {{}}, i \in Info :
           markers' = [id \in DOMAIN markers |->
                          IF id \in ids THEN [markers[id] EXCEPT !.info = i] ELSE markers[id]]
    /\ UNCHANGED <<remote, markerUi, baseline, loaded, load, mapError, saveVars, deleteVars, excused>>

\* setExpr() of every selected marker, by the panel or by the arrow keys. A load or a save
\* that is under way does not know of it.
SetExpr ==
    /\ dialog = {} /\ Count("changes", MaxChanges)
    /\ \E ids \in SUBSET DOMAIN markers \ {{}}, f \in Formula :
           /\ \E id \in ids : markers[id].pose # NoPlace
           /\ markerUi' = [id \in DOMAIN markerUi |-> IF id \in ids THEN f ELSE markerUi[id]]
           /\ excused' = IF AtRest THEN excused ELSE excused \cup ids
    /\ UNCHANGED <<remote, markers, baseline, loaded, load, mapError, saveVars, deleteVars>>

\* The first id above every one of the page, saved or not.
Unknown(id) ==
    LET known == DOMAIN markers \cup DOMAIN baseline
    IN  (\A k \in known : k < id) /\ (id = 0 \/ id - 1 \in known)

NewMarker == [info |-> NewInfo, pose |-> NewPlace]

\* addMarker(): an id seen before keeps its formulas.
AddMarker ==
    /\ PanelShown /\ Count("changes", MaxChanges)
    /\ \E id \in MarkerId :
           /\ Unknown(id)
           /\ markers' = With(markers, id, NewMarker)
           /\ markerUi' = Seeded([i \in {id} |-> NewMarker])
    /\ UNCHANGED <<remote, baseline, loaded, load, mapError, saveVars, deleteVars, excused>>

AskDelete ==
    /\ dialog = {} /\ Count("changes", MaxChanges)
    /\ dialog' \in SUBSET DOMAIN markers \ {{}}
    /\ UNCHANGED <<remote, pageVars, saveVars, frame, excused>>

\* deleteMarkersAfterDetach()
Confirm ==
    /\ dialog # {}
    /\ dialog' = {} /\ frame' \in {frame, frame \cup dialog}
    /\ UNCHANGED <<remote, pageVars, saveVars, done, excused>>

DeleteMarkers ==
    /\ frame # {}
    /\ frame' = {} /\ markers' = Without(markers, frame)
    /\ UNCHANGED <<remote, markerUi, baseline, loaded, load, mapError, saveVars, dialog, done, excused>>

-----------------------------------------------------------------------------
(* Saving: saveMap().                                                      *)

\* markerToInfo(): a marker without a pose is sent with that of its formulas.
Sent(id) == [info |-> markers[id].info, pose |-> Resolves[markerUi[id]][id]]
Op(id) ==
    IF id \notin DOMAIN markers THEN [kind |-> "delete", id |-> id]
    ELSE [kind |-> IF id \in DOMAIN baseline THEN "edit" ELSE "add", id |-> id, marker |-> Sent(id)]

SaveOps == {Op(id) : id \in Dirty}

\* Markers that stand come before those that are gone, each in the order of their ids.
NextOp(list) ==
    LET standing == {op \in list : op.kind # "delete"}
        first == IF standing # {} THEN standing ELSE list
    IN  CHOOSE op \in first : \A q \in first : op.id <= q.id

\* `before` is history: the ids whose requests of this save have been served.
Send(list, before) ==
    /\ call' = [phase |-> "sent", op |-> NextOp(list), before |-> before]
    /\ ops' = list \ {NextOp(list)}

\* A load under way brings the map from before.
SaveMap ==
    /\ ~mapSaving /\ Dirty # {} /\ dialog = {}
    /\ Count("saves", MaxSaves)
    /\ mapSaving' = TRUE /\ Send(SaveOps, {})
    /\ excused' = IF load = NoLoad THEN excused ELSE excused \cup Dirty
    /\ UNCHANGED <<remote, pageVars, straggler, deleteVars>>

Admits(op) == (op.id \in DOMAIN remote) = (op.kind # "add")
Served(op) == IF op.kind = "delete" THEN Without(remote, {op.id}) ELSE With(remote, op.id, op.marker)

Serve ==
    /\ call.phase = "sent" /\ Admits(call.op)
    /\ remote' = Served(call.op)
    /\ \E end \in {"ok", "failed"} : call' = [call EXCEPT !.phase = end]
    /\ UNCHANGED <<pageVars, mapSaving, ops, straggler, deleteVars, done, excused>>

Refuse ==
    /\ call.phase = "sent"
    /\ call' = [call EXCEPT !.phase = "failed"]
    /\ UNCHANGED <<remote, pageVars, mapSaving, ops, straggler, deleteVars, done, excused>>

TimesOutAtPage ==
    /\ call.phase = "sent" /\ straggler = NoCall
    /\ call' = [call EXCEPT !.phase = "failed"]
    /\ straggler' = call
    /\ UNCHANGED <<remote, pageVars, mapSaving, ops, deleteVars, done, excused>>

ServeLate ==
    /\ straggler # NoCall
    /\ straggler' = NoCall
    /\ remote' = IF Admits(straggler.op) THEN Served(straggler.op) ELSE remote
    /\ excused' = excused \cup {straggler.op.id}
    /\ UNCHANGED <<pageVars, mapSaving, ops, call, deleteVars, done>>

\* Fault: after the last one the page is taken for the map, without loading it.
OpSucceededTrusting ==
    /\ call.phase = "ok"
    /\ IF ops # {}
       THEN Send(ops, call.before \cup {call.op.id}) /\ UNCHANGED <<mapSaving, baseline>>
       ELSE /\ mapSaving' = FALSE /\ call' = NoCall /\ ops' = {}
            /\ baseline' = Captured(markers, markerUi)
    /\ UNCHANGED <<remote, markers, markerUi, loaded, load, mapError, straggler, deleteVars, done, excused>>

\* After the last one the map is loaded again, unless it is being loaded.
OpSucceeded ==
    /\ call.phase = "ok"
    /\ IF ops # {}
       THEN Send(ops, call.before \cup {call.op.id}) /\ UNCHANGED <<mapSaving, load, mapError>>
       ELSE /\ mapSaving' = FALSE /\ call' = NoCall /\ ops' = {}
            /\ IF load = NoLoad THEN load' = [phase |-> "asked"] /\ mapError' = FALSE
               ELSE UNCHANGED <<load, mapError>>
    /\ UNCHANGED <<remote, markers, markerUi, baseline, loaded, straggler, deleteVars, done, excused>>

\* The rest is not sent. What was served is not in the baseline, so that taking the change
\* back makes the page look saved.
OpFailed ==
    /\ call.phase = "failed"
    /\ mapSaving' = FALSE /\ call' = NoCall /\ ops' = {}
    /\ excused' = excused \cup call.before \cup {call.op.id}
    /\ UNCHANGED <<remote, pageVars, straggler, deleteVars, done>>

Foreign ==
    /\ Count("changes", MaxChanges)
    /\ \E id \in MarkerId :
           /\ remote' \in {With(remote, id, [info |-> i, pose |-> p]) : i \in Info, p \in Place}
                              \cup {Without(remote, {id})}
           /\ remote' # remote
           /\ excused' = excused \cup {id}
    /\ UNCHANGED <<pageVars, saveVars, deleteVars>>

-----------------------------------------------------------------------------

Loads == ServeMapPage \/ LoadFails \/ TakeMapPage
Saves == Serve \/ Refuse \/ TimesOutAtPage \/ OpSucceeded \/ OpFailed

EditorNext ==
    \/ Reload \/ SetInfo \/ SetExpr \/ AddMarker \/ AskDelete \/ Confirm \/ DeleteMarkers
    \/ SaveMap \/ ServeLate \/ Foreign \/ Loads \/ Saves

\* fetch() is given a time-out, and what it is awaited by goes on.
EditorFairness == WF_editorVars(Loads) /\ WF_editorVars(Saves)

EditorSpec == EditorInit /\ [][EditorNext]_editorVars /\ EditorFairness

-----------------------------------------------------------------------------
(* Properties.                                                             *)

\* Every marker of the page has its formulas, and the rest of a save belongs to one.
EditorTypeOK ==
    /\ DOMAIN markers \subseteq DOMAIN markerUi /\ DOMAIN baseline \subseteq DOMAIN markerUi
    /\ (call # NoCall) = mapSaving /\ (ops # {} => mapSaving)

\* At rest, what the page holds for saved is what the map server has: the markers, what
\* they are, and the pose their formulas stand for. Excepted are the ids for which a
\* formula was typed while a save or a load was under way, or was not saved before a load;
\* of a save that overlaps a load or fails half way; and what others or a request given
\* up changed (mapSlice.ts, mapMutations.ts).
CleanIsServed ==
    loaded /\ AtRest =>
        \A id \in MarkerId \ (Dirty \cup excused) :
            /\ id \in DOMAIN markers <=> id \in DOMAIN remote
            /\ id \in DOMAIN markers =>
                   /\ markers[id].info = remote[id].info
                   /\ remote[id].pose \in {NoPlace, Resolves[markerUi[id]][id]}

\* No save is under way: every save ends, whatever becomes of its requests (saveMap()).
SaveOver == ~mapSaving
=============================================================================
