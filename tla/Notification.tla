---------------------------- MODULE Notification ----------------------------
(***************************************************************************)
(* The notification node. Providers turn diagnostics and temperature       *)
(* readings into events, the controller holds back system events that      *)
(* follow each other too closely, and the outputs react: the LED output    *)
(* asks for an animation, the display output redraws its screen. The node  *)
(* has one thread, and every output is done with an event before the       *)
(* callback that pushed it returns: the LED output waits a second for an   *)
(* answer that only this thread could take, gives up, and is done with the *)
(* event at once. So its queue never holds a second event to put in order  *)
(* of priority, and events are handled as they come.                       *)
(***************************************************************************)
EXTENDS Naturals, Sequences

CONSTANTS
    StatusName,   \* names of diagnostic statuses
    CpuStatus,    \* those that end with "CPU Information"
    SensorStatus, \* those that end with "Sensor Status"
    Ignored,      \* those that match a pattern of ignore_names
    Reacting,     \* names of events with an LED reaction
    Text,         \* messages, loads and temperatures
    Severity,     \* the level of each temperature, by the two thresholds
    Published,    \* the statuses the aggregator publishes
    TopicDepth,   \* depth of the diagnostics subscription
    MaxStatuses,  \* bound on the statuses received
    MaxReadings   \* bound on the temperatures read

NoText == "n/a"
Level == {"ok", "warning", "error", "stale"}

\* A status: its value is what a cpu or sensor status has to say, if anything.
Status == [name : StatusName, level : Level, message : Text, value : Text \cup {NoText}]

ASSUME NotificationAssumption ==
    /\ CpuStatus \subseteq StatusName /\ SensorStatus \subseteq StatusName
    /\ CpuStatus \cap SensorStatus = {} /\ Ignored \subseteq StatusName
    /\ NoText \notin Text /\ "none" \notin StatusName
    /\ Severity \in [Text -> {"ok", "warning", "error"}]
    /\ Published \subseteq Status
    /\ TopicDepth \in Nat \ {0} /\ MaxStatuses \in Nat /\ MaxReadings \in Nat

VARIABLES
    outputs,    \* the outputs whose initialize() succeeded
    diagnosed,  \* statuses on the topic that the node has not taken
    previous,   \* m_previous of the diagnostics provider
    held,       \* names of system events less than a period old
    screen,     \* display_screen: its values, its alerts and the inverted phase
    display,    \* the last picture the display took
    displayed,  \* less than a frame period since then
    received,   \* history: the statuses taken, in order
    readings,   \* history: how many temperatures were read
    asked       \* history: the events for which an animation was asked

notificationVars ==
    <<outputs, diagnosed, previous, held, screen, display, displayed, received, readings, asked>>

Event(priority, source, name, message) ==
    [priority |-> priority, source |-> source, name |-> name, message |-> message]
Notices == [priority : Level, source : {"system", "diagnostics"},
           name : StatusName \cup {"cpu", "temperature"}, message : Text \cup {NoText}]
NoStatus == [name |-> "none"]
BlankScreen == [cpu |-> NoText, temp |-> NoText, alerts |-> {}, inverted |-> FALSE]
Screen == [cpu : Text \cup {NoText}, temp : Text \cup {NoText}, alerts : SUBSET {"cpu", "temp"},
           inverted : BOOLEAN]

NotificationTypeOK ==
    /\ outputs \subseteq {"led", "display"}
    /\ diagnosed \in Seq(Status) /\ Len(diagnosed) <= TopicDepth
    /\ previous \in [StatusName -> Status \cup {NoStatus}]
    /\ held \subseteq {"cpu", "temperature"}
    /\ screen \in Screen /\ display \in Screen /\ displayed \in BOOLEAN
    /\ received \in Seq(Status) /\ readings \in 0 .. MaxReadings
    /\ asked \in Seq(Notices) /\ Len(asked) <= 2 * Len(received) + readings

\* The driver of an output may not be there, its client then throws, and the node goes
\* on without that output.
NotificationInit ==
    /\ outputs \in SUBSET {"led", "display"}
    /\ diagnosed = <<>> /\ previous = [n \in StatusName |-> NoStatus]
    /\ held = {} /\ screen = BlankScreen /\ display = BlankScreen /\ displayed = FALSE
    /\ received = <<>> /\ readings = 0 /\ asked = <<>>

-----------------------------------------------------------------------------
(* The controller and the outputs.                                         *)

\* What the events so far have done, to which one callback may add several.
SoFar == [held |-> held, screen |-> screen, asked |-> asked]
Become(done) == held' = done.held /\ screen' = done.screen /\ asked' = done.asked

ShouldForward(e, recent) == e.source # "system" \/ e.name \notin recent

\* The name of a value on the screen.
Label(e) == IF e.name = "cpu" THEN "cpu" ELSE "temp"

\* process_event() of the display output.
DisplayProcess(s, e) ==
    IF e.source # "system" THEN s
    ELSE [s EXCEPT ![Label(e)] = e.message,
                   !.alerts = IF e.priority = "ok" THEN @ \ {Label(e)} ELSE @ \cup {Label(e)}]

\* process_event() of the LED output: an event without a reaction is done with, and so is
\* one that has one, when the wait for the answer has timed out.
LedProcess(requests, e) == IF e.name \in Reacting THEN Append(requests, e) ELSE requests

\* provider_callback(): the throttle, and push2queue() of every output, whose queue is
\* empty and whose last event is done with.
ProviderCallback(done, e) ==
    IF ~ShouldForward(e, done.held) THEN done
    ELSE [held |-> IF e.source = "system" THEN done.held \cup {e.name} ELSE done.held,
          screen |-> IF "display" \in outputs THEN DisplayProcess(done.screen, e) ELSE done.screen,
          asked |-> IF "led" \in outputs THEN LedProcess(done.asked, e) ELSE done.asked]

-----------------------------------------------------------------------------
(* Providers.                                                              *)

\* status_changed(), or the first status of that name.
Changed(s, known) ==
    LET last == known[s.name]
    IN  last.name = "none" \/ last.level # s.level \/ last.message # s.message

\* process_system_status(): what a cpu or sensor status has to say.
ProcessSystemStatus(done, s) ==
    IF s.value = NoText \/ s.name \notin CpuStatus \cup SensorStatus THEN done
    ELSE LET name == IF s.name \in CpuStatus THEN "cpu" ELSE "temperature"
         IN  ProviderCallback(done, Event(s.level, "system", name, s.value))

\* process_status(): a system event from any status, and a diagnostics event from one
\* that is not ignored, has changed and is not OK.
ProcessStatus(done, s, known) ==
    LET told == ProcessSystemStatus(done, s)
    IN  IF s.name \notin Ignored /\ Changed(s, known) /\ s.level # "ok"
        THEN ProviderCallback(told, Event(s.level, "diagnostics", s.name, s.message))
        ELSE told

\* Fault: an OK status is not remembered.
RememberBad(s, known) == IF s.name \in Ignored \/ s.level = "ok" THEN known ELSE [known EXCEPT ![s.name] = s]

Remember(s, known) == IF s.name \in Ignored THEN known ELSE [known EXCEPT ![s.name] = s]

-----------------------------------------------------------------------------
(* The callbacks of the node.                                              *)

\* diagnostics_callback(), one status at a time: nothing else runs between them.
Diagnose ==
    /\ diagnosed # <<>>
    /\ LET s == Head(diagnosed)
       IN  /\ Become(ProcessStatus(SoFar, s, previous))
           /\ previous' = Remember(s, previous)
           /\ received' = Append(received, s)
    /\ diagnosed' = Tail(diagnosed)
    /\ UNCHANGED <<outputs, display, displayed, readings>>

\* The temperature provider's timer: the highest reading there is, if there is one.
TemperatureUpdate ==
    /\ readings < MaxReadings
    /\ readings' = readings + 1
    /\ \/ \E text \in Text :
              Become(ProviderCallback(SoFar, Event(Severity[text], "system", "temperature", text)))
       \/ Become(ProviderCallback(SoFar, Event("stale", "system", "temperature", NoText)))
    /\ UNCHANGED <<outputs, diagnosed, previous, display, displayed, received>>

\* display_screen::render(): with an alert, every other picture is inverted.
Render(s) == [s EXCEPT !.inverted = s.alerts # {} /\ ~s.inverted]

\* on_image() of the display driver, which logs a picture the device refuses and
\* forgets it.
OnImage(picture) ==
    /\ display' = IF displayed THEN display ELSE picture
    /\ displayed' = TRUE

\* Fault: a picture is sent only while something is wrong.
RenderAlerts ==
    /\ "display" \in outputs /\ screen.alerts # {}
    /\ screen' = Render(screen)
    /\ OnImage(screen')
    /\ UNCHANGED <<outputs, diagnosed, previous, held, received, readings, asked>>

\* render_and_send() of the display output, and the driver that takes the picture.
RenderAndSend ==
    /\ "display" \in outputs
    /\ screen' = Render(screen)
    /\ OnImage(screen')
    /\ UNCHANGED <<outputs, diagnosed, previous, held, received, readings, asked>>

-----------------------------------------------------------------------------
(* The aggregator, and time.                                               *)

\* A full queue of the subscription loses its oldest message.
Publish(s) ==
    /\ Len(received) + Len(diagnosed) < MaxStatuses
    /\ diagnosed' = Append(IF Len(diagnosed) < TopicDepth THEN diagnosed ELSE Tail(diagnosed), s)
    /\ UNCHANGED <<outputs, previous, held, screen, display, displayed, received, readings, asked>>

SystemEventPeriodPasses ==
    /\ \E name \in held : held' = held \ {name}
    /\ UNCHANGED <<outputs, diagnosed, previous, screen, display, displayed, received, readings,
                   asked>>

DisplayPeriodPasses ==
    /\ displayed
    /\ displayed' = FALSE
    /\ UNCHANGED <<outputs, diagnosed, previous, held, screen, display, received, readings, asked>>

NotificationNext ==
    \/ Diagnose \/ TemperatureUpdate \/ RenderAndSend
    \/ \E s \in Published : Publish(s)
    \/ SystemEventPeriodPasses \/ DisplayPeriodPasses

NotificationSpec == NotificationInit /\ [][NotificationNext]_notificationVars

\* The executor serves its callbacks, the refresh timer among them, and time passes.
NotificationFairness ==
    /\ WF_notificationVars(Diagnose)
    /\ SF_notificationVars(RenderAndSend /\ ~displayed)
    /\ WF_notificationVars(DisplayPeriodPasses)

-----------------------------------------------------------------------------
(* Properties.                                                             *)

\* The j-th status is the last of its name before the i-th.
LastBefore(j, i) ==
    /\ j < i /\ received[j].name = received[i].name
    /\ \A k \in j + 1 .. i - 1 : received[k].name # received[i].name

\* What ought to be told: each turn of a status for the worse or to another message.
Worth(i) ==
    LET s == received[i] IN
    /\ s.name \notin Ignored /\ s.name \in Reacting /\ s.level # "ok"
    /\ \A j \in DOMAIN received :
           LastBefore(j, i) => received[j].level # s.level \/ received[j].message # s.message

Told == {i \in DOMAIN asked : asked[i].source = "diagnostics"}
WorthTelling == {i \in DOMAIN received : Worth(i)}

\* Every change to a bad status that arrives has one animation asked for, and nothing
\* else has: no change is told twice, lost between the throttle and the queue, or hidden
\* by an OK in between, whatever the order (process_status, push2queue).
ChangesAreTold ==
    "led" \in outputs =>
        \E about \in [Told -> WorthTelling] :
            /\ \A j \in WorthTelling : \E i \in Told : about[i] = j
            /\ \A i, k \in Told : about[i] = about[k] => i = k
            /\ \A i \in Told : LET s == received[about[i]]
                               IN  asked[i] = Event(s.level, "diagnostics", s.name, s.message)

\* A picture is inverted only while something is wrong, and so is what the screen will
\* draw next (display_screen::render, set_alert).
InvertedOnlyForAlert ==
    /\ display.inverted => display.alerts # {}
    /\ display.alerts # {} => "display" \in outputs

\* Both outputs tell what came in (controller, providers, outputs).
EventsReachOutputs == NotificationTypeOK /\ ChangesAreTold /\ InvertedOnlyForAlert

\* Whatever stays on the screen is on the display in the end, which refuses pictures
\* that follow each other too closely, and without an alert it does not stay inverted
\* (render_and_send, driver::on_image).
ScreenReachesDisplay ==
    "display" \in outputs =>
        /\ \A text \in Text : <>[](screen.cpu = text) => <>[](display.cpu = text)
        /\ <>[](screen.alerts = {}) => <>[](~display.inverted)
=============================================================================
