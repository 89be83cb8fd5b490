-------------------------- MODULE MCUserInterface --------------------------
(***************************************************************************)
(* The programs that face the user: on the vehicle, in the browser and in  *)
(* Python, and the tools of those who build the system. The notification   *)
(* node and the driver of the LED strip run together, the one asking the   *)
(* other for animations; the others meet only in topics and requests that  *)
(* hand a value over, so that each is explored by itself: the first state  *)
(* picks what runs.                                                        *)
(***************************************************************************)
EXTENDS Notification, LedDriver, Settings, DiagnosticsView, MapEditor, SettingsForm, TopicStreams,
        OffboardClient, VideoStream, Releases, Patches, Toolkit, LineEditor

VARIABLES
    part,   \* what runs
    played, \* history: the animations asked for by events that were started
    since   \* the event whose animation has not had its duration yet, 0 for none

hereVars == <<notificationVars, ledVars, settingsVars, viewVars, toolkitVars, lineVars>>
webVars == <<editorVars, formVars, streamVars, videoVars>>
toolVars == <<releaseVars, patchVars>>
vars == <<part, played, since, hereVars, webVars, toolVars, clientVars>>

Says(name, level, message, value) == [name |-> name, level |-> level, message |-> message, value |-> value]
Statuses ==
    {Says("power", "ok", "t1", NoText), Says("power", "warning", "t1", NoText),
     Says("power", "error", "t1", NoText), Says("power", "error", "t2", NoText),
     Says("cpu", "ok", "t1", "t1"), Says("cpu", "error", "t1", "t2"), Says("sensor", "ok", "t1", "t1")}
Severities == [t \in Text |-> IF t = "t1" THEN "ok" ELSE "error"]

Groups == [l \in Leaf |-> IF l = "l1" THEN "g1" ELSE "g2"]
Fitting == [l \in Leaf |-> IF l = "l1" THEN {"s1"} ELSE {"s1", "s2"}]
Defaults == [l \in Leaf |-> IF l = "l1" THEN "s1" ELSE NoSetting]
Files == {Broken, Yaml([l \in Leaf |-> IF l = "l1" THEN NoSetting ELSE "s2"])}

Tells(path, level) == [path |-> path, level |-> level]
Reports ==
    {<<Tells(<<"a", "b">>, l1), Tells(<<"a", "c">>, l2)>> : l1 \in Levels, l2 \in {"STALE"}}
        \cup {<<Tells(<<"d">>, l1), Tells(<<"a", "b">>, l2), Tells(<<"a">>, "WARN")>> :
                  l1 \in {"OK", "ERROR"}, l2 \in Levels}
        \cup {<<Tells(<<"d">>, "WARN"), Tells(<<"d">>, "OK")>>}

Literals == [p \in Place \cup {NoPlace} |-> IF p = "p1" THEN "f1" ELSE "f0"]
\* "fid" stands for a formula over the id.
Formulas ==
    [f \in Formula |-> [id \in MarkerId |-> IF f = "f1" \/ (f = "fid" /\ id = 1) THEN "p1" ELSE "p0"]]
FirstMaps ==
    {None, [id \in {0, 1} |-> [info |-> "i0", pose |-> IF id = 0 THEN NoPlace ELSE "p1"]]}

SmallTerminal == "t80"
FieldTexts == {<<>>, <<"a", " ", "lead", "cont">>}
PasteTexts == {<<"lead", "cont">>, <<"newline">>}
Originals == [f \in Field |-> "s1"]

\* A part that does not run is left at one of the states it may start in.
Init ==
    /\ part \in {"reactions", "screen", "strip", "settings", "view", "editor", "form", "streams", "video", "client",
                "releases", "patches", "toolkit", "line"}
    /\ played = {} /\ since = 0
    /\ NotificationInit
    /\ outputs = CASE part = "reactions" -> {"led"} [] part = "screen" -> {"display"} [] OTHER -> {}
    /\ LedInit
    /\ part \notin {"reactions", "strip"} => ledDevice = "none"
    /\ SettingsInit
    /\ inodes[1] \in IF part = "settings" THEN Files ELSE {Broken}
    /\ inodes[1] = Broken => valuesFile = 0
    /\ ViewInit
    /\ EditorInit
    /\ remote \in IF part = "editor" THEN FirstMaps ELSE {None}
    /\ FormInit
    /\ part # "form" => \A f \in Field : values[f] = "s1"
    /\ StreamInit /\ VideoInit /\ ClientInit
    /\ ReleaseInit
    /\ part # "releases" => tags = <<>>
    /\ ToolkitInit
    /\ part # "toolkit" => timers = FALSE /\ termSize = SmallTerminal
    /\ LineInit
    /\ part # "line" => line.text = <<>>
    /\ PatchInit
    /\ part # "patches" => tree = <<>> /\ bad = {} /\ \A p \in Patch : touches[p] = {}

\* call_animation(): the request is on its way before the wait for its answer fails. A
\* driver that is gone does not hear of it.
CallAnimation ==
    IF asked' # asked /\ ledLife = "up"
    THEN Sends(Animated(ledSent + 1, "blink", TRUE))
    ELSE UNCHANGED ledVars

React ==
    \/ (Diagnose \/ SystemEventPeriodPasses \/ \E s \in Published : s.name = "power" /\ Publish(s))
           /\ CallAnimation
    \/ LedStep /\ UNCHANGED notificationVars

\* The display is asked to show what the other statuses and the sensors say.
Draws ==
    \/ Diagnose \/ TemperatureUpdate \/ RenderAndSend \/ SystemEventPeriodPasses
    \/ DisplayPeriodPasses
    \/ \E s \in Published : s.name # "power" /\ Publish(s)

Here ==
    \/ part = "reactions" /\ React /\ played' = played \cup {animation'.id}
                          /\ UNCHANGED <<settingsVars, viewVars, toolkitVars, lineVars>>
    \/ part = "screen" /\ Draws /\ UNCHANGED <<played, ledVars, settingsVars, viewVars, toolkitVars, lineVars>>
    \/ /\ part = "strip" /\ LedNext
       /\ UNCHANGED <<played, notificationVars, settingsVars, viewVars, toolkitVars, lineVars>>
    \/ /\ part \in {"settings", "view", "toolkit", "line"}
       /\ UNCHANGED <<played, notificationVars, ledVars>>
       /\ \/ part = "settings" /\ SettingsNext /\ UNCHANGED <<viewVars, toolkitVars, lineVars>>
          \/ part = "view" /\ ViewNext /\ UNCHANGED <<settingsVars, toolkitVars, lineVars>>
          \/ part = "toolkit" /\ ToolkitNext /\ UNCHANGED <<settingsVars, viewVars, lineVars>>
          \/ part = "line" /\ LineNext /\ UNCHANGED <<settingsVars, viewVars, toolkitVars>>

Web ==
    \/ part = "editor" /\ EditorNext /\ UNCHANGED <<formVars, streamVars, videoVars>>
    \/ part = "form" /\ FormNext /\ UNCHANGED <<editorVars, streamVars, videoVars>>
    \/ part = "streams" /\ StreamNext /\ UNCHANGED <<editorVars, formVars, videoVars>>
    \/ part = "video" /\ VideoNext /\ UNCHANGED <<editorVars, formVars, streamVars>>

Tools ==
    \/ part = "releases" /\ ReleaseNext /\ UNCHANGED patchVars
    \/ part = "patches" /\ PatchNext /\ UNCHANGED releaseVars

Next ==
    /\ UNCHANGED since
    /\ \/ Here /\ UNCHANGED <<part, webVars, toolVars, clientVars>>
       \/ Web /\ UNCHANGED <<part, played, hereVars, toolVars, clientVars>>
       \/ Tools /\ UNCHANGED <<part, played, hereVars, webVars, clientVars>>
       \/ part = "client" /\ ClientNext /\ UNCHANGED <<part, played, hereVars, webVars, toolVars>>

\* A part that rests in its initial state has no fair action enabled.
Fairness ==
    /\ NotificationFairness /\ LedFairness
    /\ EditorFairness /\ StreamFairness /\ VideoFairness /\ ClientFairness
    /\ WF_toolkitVars(part = "toolkit" /\ LoopStep) /\ SF_toolkitVars(part = "toolkit" /\ TakesSize)

Spec == Init /\ [][Next]_vars /\ Fairness

\* Every event with a reaction that is handled while the driver has its device starts its
\* animation in the end, events in quick succession included (led::process_event,
\* animation_server::start).
ReactionsPlayed == ledDevice = "ready" => \A i \in LedRequest : Len(asked) >= i => i \in played

\* Animations are played, and end: requests are finitely many here, so that the driver
\* must come to rest (animation_server).
AnimationsPlay == []<>(StripRests /\ ReactionsPlayed)

\* The programs of a terminal: the settings a user saves, the status shown and the toolkit
\* both are built on, the versions that are released, and the patches a repository is
\* given.
TerminalSound ==
    /\ part = "settings" => SettingsKept
    /\ part = "view" => ViewSound
    /\ part = "toolkit" => ToolkitSound
    /\ part = "line" => LineSound
    /\ part = "releases" => ReleasesSound
    /\ part = "patches" => AllOrNone

\* The pages of the browser: what the map page takes for saved is saved, the settings page
\* keeps what was typed, and subscriptions and video streams are neither lost nor left
\* behind.
PagesSound ==
    /\ part = "editor" => EditorTypeOK /\ CleanIsServed
    /\ part = "form" => FormSound
    /\ part = "streams" => StreamsSound
    /\ part = "video" => VideoSound

\* Who asks is told in the end, and told what happened: a save of the map page, the
\* collector of logs, who waits for a video to load, a Python program that waits for a
\* navigation, and who types in a terminal. The parts that do not run are at rest, so that
\* one formula speaks of all.
AskersTold ==
    /\ NavigateTold
    /\ []<>(SaveOver /\ LogsThere /\ VideoSettled /\ CallOver /\ (part = "toolkit" => LoopSettled))

-----------------------------------------------------------------------------
(* What the queue of an output is to do while an event has its animation.   *)

\* The first event of a row is the one whose animation has its duration.
Occupies == since' = IF since = 0 /\ asked' # asked THEN Len(asked') ELSE since

RowNext ==
    \/ /\ Diagnose \/ \E s \in Published : s.name = "power" /\ Publish(s)
       /\ CallAnimation /\ Occupies
       /\ UNCHANGED <<played, settingsVars, viewVars, toolkitVars, lineVars>>
    \/ LedStep /\ UNCHANGED <<played, since, notificationVars, settingsVars, viewVars, toolkitVars, lineVars>>
    \/ since # 0 /\ since' = 0 /\ UNCHANGED <<played, hereVars>>

RowSpec ==
    /\ Init /\ part = "reactions"
    /\ [][RowNext /\ UNCHANGED <<part, webVars, toolVars, clientVars>>]_vars

PriorityValue == [level \in Level |-> CASE level = "ok" -> 0 [] level = "warning" -> 1
                                        [] level = "error" -> 2 [] level = "stale" -> 3]

\* "Events with a higher priority value are processed before events with lower priority
\* values" (output.hpp): of the events that come while one has its animation, no lower
\* one is handled before a higher one (output::try_process_next, led::process_event).
HigherFirst ==
    since # 0 =>
        \A i, k \in since + 1 .. Len(asked) :
            i < k => PriorityValue[asked[i].priority] >= PriorityValue[asked[k].priority]
=============================================================================
