# Verification of clover2

TLA+ models of the parts of clover2 that carry its own logic, the TLC runs that check them on small
instances, and the theorems TLAPS proves about them for every value of the constants.

- `tlc -config MCVehicle.cfg MCVehicle` runs a model; `tlapm VehicleProofs.tla` checks proofs.
- `PROJECT.json` maps every definition to the lines it translates, and lists components, runs, hazards, findings,
  theorems and, for every property, a fault put into the model that makes it fail.

Contents: 1 The system, 2 The modules, 3 Runs and bounds, 4 Fairness, 5 Proofs, 6 What the models leave out,
7 Where code and documents disagree, 8 Seen in the models, 9 What is left.

## 1. The system

clover2 is the on-board software of an educational quadcopter: ROS 2 nodes in C++, Python clients, an HTTP server
with plugins, a terminal program, a web interface, and the tools that build and release it. Nodes talk by topics
(latched or not), services and actions; inside a node every callback runs on one executor thread unless said
otherwise.

### 1.1 Flight: `clover2_nav/clover2_fcu_bridge`

| Part | State | Operations |
| --- | --- | --- |
| `offboard_fsm`, `navigation_controller`, `offboard` | the state (idle, streaming_setpoints, waiting_offboard, waiting_arm, position, navigation, hold, error), time of entry, commanded, held, frozen and last pose, last setpoint, the carrot controller's target and reached flag | a 20 ms timer ticks the machine: telemetry check, automatic event, arrival, setpoint; set_position and navigate give commands; reset_state drops them |
| `server` | lifecycle state; one slot for the goal of `navigate_async`; the bond with the client of that goal; the process callback run after every tick; the start of the grace period; watched parameters | goal and cancel, bond formed and broken, process callback, services land, navigate, set_position, get_telemetry, lifecycle transitions |
| `backend/mavros` | last state, pose, ... heard from the flight controller; service clients | set_mode, arm, land as unanswered service requests; publishers of setpoints |

A client (`offboard_client.py`) sends a goal and a bond id and waits. If it dies, the bond breaks and the server
stops the controller and lands. The launch file respawns the process.

Hard: goal, cancel, bond, timer and service callbacks interleave; callbacks of an earlier bond come late; a client
may vanish at any point, also between the arrival and the result; the flight controller may refuse, answer late, or
lose its link; deadlines race answers; the lifecycle goes on underneath. Correct means: the vehicle moves for a
command only after stream, OFFBOARD and arming were checked for that very command (the report a check reads may be
older than the command); it flies a goal's command only while somebody watches that goal; a goal ends exactly once,
with the result that happened.

### 1.2 Modes, telemetry and estimates: `clover2_fcu`, `clover2_fcu_fake`, `clover2_mavros`

`bridge` keeps the registered modes (id, name, bond), the set of broken ones, the next id and the id of the active
mode, which it publishes on a latched topic. `mode_base` registers itself with a blocking call, opens a bond, follows
`mode_state`, activates and deactivates, and releases the lease with an unanswered request. `setpoint_base` streams
while the last `mode_state` it took is its mode's token. `client` connects to the bridge and hands out providers of
telemetry that keep the last value and call back; the fake backend injects values into all that live, under a mutex.
`clover2_vio` turns poses into vision odometry and counts resets.

Hard: `mode_state` is cached twice on its way; bonds break on the two sides at different times; requests are handled
late; the bridge restarts alone; callbacks of providers run under the registry's mutex; coordinates are NaN. Correct
means: one mode streams at a time and holds the lease, a mode that is gone loses it; injected telemetry reaches every
provider; the estimate never jumps under an unchanged reset counter.

### 1.3 HTTP: `clover2_http`, `clover2_http_plugins`

`listener` accepts and makes an `http_session` per connection (read, dispatch through `router`, reply from any
thread through the strand, keep-alive, time-out). An upgrade makes a `base_ws_session`: strand, write queue, reads,
idle timer, close handshake. `router` is a trie over path segments with static, parameter and catch-all children. A
`reply_base` answers once, or with a 500 when it is destroyed unanswered. `ros_support` keeps a registry of the
nodes of the ROS graph (a thread and a debounce timer), node clients that follow lifecycle states, and topic streams
with a byte budget; `msg_json` converts messages of any type. Two plugins edit maps and settings.

Hard: replies and messages come from other threads; completions that are already queued are not undone by a cancel;
closing runs at once while writes are posted; the graph changes while a node client is built; a conversion keeps
addresses into containers that grow. Correct means: every request is answered once and in order, operations on a
socket never overlap, what a connection holds is released when it ends, what is shown of a node is its state.

### 1.4 Localisation: `clover2_loc`

`map_server` keeps one marker map loaded from a file; `modify_map` edits it in place, saves it and restores the copy
in memory when anything throws; a parameter replaces it by another file. `map::client` keeps a cached copy. The
camera feature host creates detection plugins, hands them pictures and publishes what they find; the tracker turns
markers into a pose; optical flow measures the shift against a reference picture.

Hard: edits fail half-way, the server dies while it writes; points are cached per marker while the map changes; the
reference picture survives transitions; stamps go back; the markers of one picture are tasks on several threads over
one unlocked table; a write is cut short and nothing says so. Correct means: memory and file agree after a failed edit,
clients end up with the server's map, detections are those of the present map, no motion is counted twice.

### 1.5 User interface: `clover2_ui`, `clover2` (Python), `frontend`

The LED `driver` arbitrates between frames and animations on a device that refuses writes above its frame rate.
`notification::controller` forwards events of its providers to outputs; the display driver draws pictures. The
terminal interface is a stack of screens over settings and diagnostics, on a toolkit carried in the repository
(`cpptui.hpp`). The web pages keep stores of their own: the map being edited, subscriptions, settings, video. Python
clients wrap actions and services for programs that run from top to bottom.

Hard: a queue of callbacks and a device that refuses; two programs that save one file; answers that come after the
page went on; input that is torn, typed ahead or meant for a screen that is gone. Correct means: events reach the
outputs, what is shown as saved is saved, what was typed is kept, who waits is told.

### 1.6 The rest

`clover2_common` (parameter watcher, autostart, diagnostics), `clover2_bringup` (launch files), `tooling` and the
release workflow (versions, tags, patches, images), documentation. `PROJECT.json` lists every component with its
status and the reason for what is left out.

## 2. The modules

A module's variables are the members of the C++ objects or of the store it models, under their names where that is
possible; one action is one callback, handler, request or step of a thread, with every call it makes. What the
environment does (a client, the flight controller, the kernel, a user, a browser) are actions of their own.
Variables marked "history" in a module are not in the code and only properties read them.

### 2.1 Flight

| Module | Models | State and actions |
| --- | --- | --- |
| `OffboardFsm` | `offboard_fsm`, `navigation_controller`, `offboard` and what the backend last heard | `fsm` holds the members of the three objects; `Tick` is the timer's callback (`PollEvent`: loss, then deadline, then answer; `NavUpdate`; `publish_offboard` with its early return); `Navigate`, `SetPosition`, `Completed`, `ResetState` the commands; reports, ageing poses, time and respawn are the environment. `rungs` and `heard` (history): how many of the three checks this command has passed, and whether a State was reported since it was given |
| `OffboardContract` | what the server reads of a controller | idle, busy, hold or error, who gave the command, when a new one is taken; error is left by a reset only |
| `NavigateServer` | `server.cpp` over that contract | slot, process callback, bond, replaced bonds whose callbacks may still come (`late`), grace period, goal handles, clients, lifecycle; each callback an action, `ProcessGoal` one case of `process_navigate_async` per disjunct; a handle nobody holds cancels its goal, as rclcpp_action's destructor does, and one whose action server was replaced on activation is an orphan it ends with; a callback that dereferences the controller after cleanup takes the node to `crashed` |
| `NodeParameters` | `NodeParametersWatcher` with the battery thresholds of the bridge | a request of several parameters runs functor by functor; the members, the parameters and the diagnostic task |
| `OffboardClient` | `navigate_wait` with its wait for the server, services, `ActionHelper` | the program's thread, the executor's thread, the goal on the server; status, result and event are written in steps |

### 2.2 Flight controller side

| Module | Models | State and actions |
| --- | --- | --- |
| `ModeLease` | `bridge`, `mode_base`, `setpoint_base` | records, lease, queues of registration and release, `inbox` and `pinbox` for the `mode_state` not yet taken (depth one), bonds on both sides, restart |
| `FcuProviders` | `client`, `backend_base`, the fake's `registry` | connection, providers with callbacks that note, throw or command; injection step by step under the mutex |
| `VisionPose` | `tracker`, `clover2_vio` | map, markers in sight, the averaged pose, offset, reset counter; the controller reports any position |

### 2.3 HTTP

| Module | Models | State and actions |
| --- | --- | --- |
| `HttpSession` | `listener`, `http_session`, `reply_base`, `adapter` | one strand per connection, socket operations, timer, reply objects on other threads; refused, malformed and pipelined requests |
| `Router` | `router`, `trie`, middleware | registrations in any order, half-way failures; `search` against a reference definition |
| `WsSession` | `base_ws_session`, the topic stream of `ros_support` | strand, write queue, subscription, closing; the client is up, mute or gone; popping an empty queue is `undefined`, and `raced` (history) that a completed write was queued when the session closed |
| `NodeRegistry` | `graph_listener`, `node_registry`, `node_client` | thread, timer, clients that learn states from an answer and from events, requests |
| `RateLimiter` | `rate_limiter.hpp` | bucket, time, messages; the history says what passed in each window |
| `MsgJson` | `msg_json.cpp`, `message_type.cpp` | both walks with their stack of addresses, memory and refusals |

### 2.4 Localisation

| Module | Models | State and actions |
| --- | --- | --- |
| `MapService` | `map_server`, `map::client`, the map plugin | map, provider, files, death while writing; announcements, discovery, `get_map`; requests with their five seconds; `modify_map` called by the plugin or by any other client. A marker is an id and a kind, which says what each format of file makes of it; a write may be cut short unnoticed; a client's copy is the version it shows |
| `MarkerDetector` | `cam_feature`, `maker_base`, `aruco` | lifecycle, plugins that fail to load, parameters, points cached per marker; the tasks of a picture, each finding and adding points in steps that may meet, while the map changes |
| `OpticalFlow` | `optical_flow.cpp` | region, reference picture, stamps in any order and the unsigned word a negative duration becomes, lifecycle; pictures are numbered (history), so that a flow says which two it measured |

### 2.5 What the user sees

| Module | Models | State and actions |
| --- | --- | --- |
| `Notification` | controller, providers, outputs, display screen | statuses, throttle, readings, the screen and the display that refuses early pictures |
| `LedDriver` | led `driver`, `animation_server`, device | queue, animation, frame period; writes that throw out of a callback end the process |
| `Panels` | `ssd1306_i2c`, `ws2812_spi`, device bases | a flush sent byte by byte, to a controller that takes commands and their arguments; any byte may break off; packing of pixels, pulses and brightness |
| `Settings` | `config_field`, terminal editor, settings plugin | trees, temporary file, rename, crash or full disk at any step, screens |
| `DiagnosticsView` | diagnostics model and screen | tree, filter, folding, selection, snapshot |
| `Toolkit`, `LineEditor` | `cpptui`'s loop, focus, resize; its input line | escape sequences, timers, posted calls, pointers to widgets; bytes, characters and cells, selection, clipboard, undo |
| `MapEditor` | the map page's store and `saveMap` | markers, formulas, baseline, the save's requests one after the other, loads, others' edits |
| `SettingsForm` | `useSettingsConfig`, `useAsyncResource` | fetched copy, edited copy, save, others' saves |
| `TopicStreams` | `subscribe`, stream and log slices | gate, socket, timers of every subscription ever made, which call back after it was closed |
| `VideoStream` | `useMseStream` | one closure per attempt, entered long after the next has begun |

### 2.6 Tools

`Releases` is the release workflow with `versioning.py` (jobs queued and replaced, commit and tag pushed one after the
other); `Patches` is `apply_patches.py` with its unwinding.

### 2.7 Compositions

NavigateServer holds a controller by OffboardContract, and OffboardFsm is shown to be one. In `MCUserInterface` the
notification node and the LED driver run together, one asking the other for animations (`RowSpec` watches that pair
alone, one stretch of an animation at a time, for `notification_priority`). The other modules of `MCHttpServer`,
`MCVehicle` and `MCUserInterface` meet in the code only in values handed over, and none reads the other's state: each
is explored by itself in one run, whose first state picks what runs. MapService contains server, clients and plugin
together, ModeLease bridge, modes and providers, VisionPose tracker and bridge.

## 3. Runs and bounds

Each run asks its question under bounds small enough to end in minutes; each property is broken, under the very
bounds of its run, by a plausible fault in a mapped definition (`mutants` in `PROJECT.json`), so that no bound
hides the case a property is about.

| Run | What it shows | Bounds and why they do |
| --- | --- | --- |
| `offboard_fsm` | `LadderBeforeFlight` (three checks made for this very command, and what a report left over may do), `NoJumpBeforeConfirmed`, `FlightIntent` (what is streamed is what the state stands for), `FiniteNavigation`, `HoldOnlyAtTarget`, `LossEndsCommand` (one tick), `StartingEnds`, and `ImplementsContract` | two places and the two special poses: a carrot that arrives, overshoots or starts at its target; deadlines of 1 and 2 units, ages told apart to 2, so that a deadline passes before, with and after its answer |
| `navigate_flight` | `SlotConsistent`; `WatchedFlight`; `NoSuccessForLostClient`; `HealthyGoalNotAborted`; `AloneSuccessMeansArrived`; `GoalsEnd` | two goals: one in the slot, one refused, queued or whose callbacks come late; services used or not, as the first state says; heartbeat 2, grace 3 as 1.0 s and 1.2 s in the source |
| `navigate_lifecycle` | `LifecycleSound`: every unfinished goal is accounted for, and a node that died did so with nothing in flight. A goal stranded by a transition is referred to by the process callback alone, which ends nothing (section 8): the property says that there is at most that one | two interchangeable goals, three transitions, shutdown among them, or respawns: down, up, and down again; `GoalSymmetry` is sound since no property names a goal |
| `mode_lease` | `SettledLease`, `SettledExclusion`, `RevokedModeStops`, `NamesUnique`, `LeaseWithTheLiving` | the first state picks one of two: two modes with providers, one late release, one restart; or three modes, one reborn under another's name, without providers or releases. Three ids |
| `http_server` | `SessionsAnswerInOrder`, `RequestsRouted`, `NodesShownTrue`, `StreamServed` (order, single operations, byte budget, conversions), `ConnectionsComeAndGo`, `RegistryFollowsGraph`, `StreamReleased` | one connection of two requests, one listener error; nine patterns in which every kind shadows every other, one bad; a node that lives twice; two messages and two units of idle time; four message values that have every shape of member |
| `vehicle` | `MapSound`, `ClientsGetMap`, `DetectionsTrue`, `VisionContinuous`, `FlowsTile`, `FlightSideSound` (thresholds, injections, panels) | one id so that every collision happens, markers that both formats keep, one keeps or none reads, a text file, another and a broken one, three versions and one other client's call; one plugin whose two markers are two tasks, two dictionaries and a third nobody knows, two edits; two markers, one of which may be NaN; four stamps and a gap of two, four pictures, words of eight values; three providers; a display of two pages and three columns, three pictures that light cells across both, two LEDs |
| `user_interface` | `EventsReachOutputs`, `ScreenReachesDisplay`, `StripAccountedFor`, `AnimationsPlay`, `TerminalSound` (settings, monitor, toolkit, input line, releases, patches), `PagesSound`, `AskersTold` | three statuses and requests; two leaves and values, a file that is broken, sets one leaf or is not there, two changes typed; two markers, three formulas and one save, so that a load, others' edits and a straggler meet it; two topics; three attempts, clicks, calls and keys |

The other five runs are counterexamples, section 7. In `http_server`, `vehicle` and `user_interface` the parts are
explored one by one and the properties are conjunctions whose parts speak of one component each; a part that rests
stays at one state. These three, `ws_error_frame` and `notification_priority` switch deadlock checking off: a closed
session, a server that cannot load its file, a finished release and a program that was left do nothing more, and the
environment's actions are bounded.

Liveness of a composition is stated so that one formula speaks of all parts: `[]<>(at rest)` where a part that does
not run is at rest.

## 4. Fairness

Weak fairness is asked of what the code schedules (executors, strands, timers, threads, browsers' event loops) and
of time, never of clients, users, the flight controller or the network unless named here.

| Module | Fair | Not fair, or assumed in a property |
| --- | --- | --- |
| `OffboardFsm` | the 20 ms timer, time | the flight controller owes nothing |
| `NavigateServer` | the controller's timer, time, the bond timer of the current bond | clients, services, link; `CancelEnds` says that the link comes back for good |
| `ModeLease` | messages sent are taken; a bond with nobody at its other end times out | registrations, releases and activations need not be handled; `LeaseWithTheLiving` excepts a restart |
| `HttpSession` | the io thread, operations of the kernel that can complete, timers | clients and threads that keep a reply |
| `WsSession` | the strand; reads and writes on a dead socket end; a close handshake ends unless the client is mute | the clock: release does not rest on the idle timer; nothing makes a mute client answer, since Beast's time-outs are not set |
| `NodeRegistry` | the thread, the timer, the executor, a living node's services | nodes need not start, advertise or die |
| `MapService` | executors, discovery of what lives, timers | a server need not be respawned, an edit need not be served; `ClientsGetMap` says that the service stays in sight |
| `Notification` | the diagnostics' callback and the display's period, and strong fairness of drawing: the refresh timer is often enabled between refusals | statuses need not come |
| `LedDriver` | queue, timer, frame period, durations | requests need not come |
| `MapEditor`, `TopicStreams`, `VideoStream` | fetches end (they are given a time-out), timers fire, an open source opens, a server that is up answers | users, faults |
| `OffboardClient` | both threads; a goal on a server that lives ends, which is `GoalsEnd` | a server that died: the wait is for ever |
| `Toolkit` | the loop; strong fairness of taking the terminal's size, for a user who lets go of its border | keys |

## 5. Proofs

A theorem holds for every value of the constants that satisfies the named assumptions of its modules. `Spec`
is the specification of the module the proof module extends; theorems about one part of a composition are about that
part's own specification where they say so. Recursion is met by induction on a number, as the least counterexample.

### 5.1 `OffboardFsmProofs` (Spec of OffboardFsm; `TimesAssumption`)

The stages of a tick are lemmas over any record (`CheckedFacts`, `PolledFacts`, `ArrivedFacts`), put together in
`TickFacts`, which every theorem cites for the tick.

| Theorem | Argument |
| --- | --- |
| `FsmTypes` | types, with the stages of the tick |
| `ConfirmedBeforeFlight`: `[]LadderBeforeFlight` | `Ladder`: waiting for arming implies two rungs and waiting for OFFBOARD one, without which a single step up the ladder proves nothing; while nothing was reported since the command, each rung shows that the report left over says what it checked |
| `StreamsTheCommand`: `[]FlightIntent` | inductive with the types |
| `StreamsFinite`: `[]FiniteNavigation` | from FlightIntent: a non-finite command is never reached |
| `HoldsOnlyOnArrival`, `LossEnds`, `NoEarlyJump` | action properties from the stages and the invariants before and after the step |
| `FsmIsController`: `ImplementsContract` | refinement, step by step: a tick is `Update`, a request `Take`, `ResetState` and `Respawn` are `Reset`, the rest stutters |

### 5.2 `NavigateServerProofs` (`GoalsAssumption`, `GraceAssumption`)

| Theorem | Argument |
| --- | --- |
| `SlotAlwaysConsistent`: `FlightSpec => [](TypeOK /\ SlotConsistent)` | `SlotInv`: types, the node active, SlotConsistent; one lemma per callback |
| `TransitionsAccountForGoals`: `Spec => []LifecycleSound` | `LifeInv`: what slot, deadline, bond and handle may be in each state of the life cycle; a goal without a slot is executing only under the process callback |
| `FlightIsWatched`: `FlightSpec => []WatchedFlight` | `WatchInv`: a controller busy for a goal has that goal executing, its bond formed, the callback installed |
| `LostClientNeverSucceeds`: `Spec => []NoSuccessForLostClient` | `DoomInv` over LifeInv: a doomed goal's grace period is no older than its client's silence; silence reaches the heartbeat time-out first since `GracePeriod > HeartbeatTimeout`, and time stops there until the bond is broken |
| `OnlyErrorAborts`: `Spec => HealthyGoalNotAborted` | `BondInv`: late bonds are not the current one, and a client that is there has no silence |
| `SuccessIsArrival`: `AloneOrNot => []AloneSuccessMeansArrived` | `TargetInv`, `AloneInv`: while goals come one at a time the command in the controller is that of the goal in the slot, from the request to the arrival |

With the lifecycle WatchedFlight is false (section 7), hence `FlightSpec` there. The theorems are about a server over
the contract, and `FsmIsController` says that the flight state machine keeps it.

### 5.3 `ModeLeaseProofs` (`ModesAssumption`)

| Theorem | Argument |
| --- | --- |
| `LeaseTypes`, `RegistrySound`: `[](LeaseHolderRegistered /\ NamesUnique)` | `RegistryInv`: ids in use are below the next one, broken modes are registered ones |
| `GatesFollowLease`: `[]SettledLease` | `GateInv`: what is on its way to a mode or provider is the present lease, which SettledLease does not say and every `TakeModeState` needs |
| `OneModeStreams`: `[]SettledExclusion` | `IdInv`: until a restart, ids of living modes differ; two streaming modes would hold one id |

### 5.4 `HttpProofs` (`HttpAssumption`, `RegistryAssumption`, `SessionAssumption`, `RouterAssumption`, `LimiterAssumption`)

| Theorem | Argument |
| --- | --- |
| `SessionsAlwaysAnswerInOrder`: `HttpSpec => []SessionsAnswerInOrder` | `HttpInv`: per connection (`ConnectionInv`), what moves an open session on is in exactly one place, the socket's operation, a handler that holds the reply, or one entry of the strand, and requests taken, answered and on their way are numbered; the strand may also hold an expiry a cancel did not take back, and a session that refused a request with 413 only ends |
| `NodesAlwaysShownTrue`: `RegistrySpec => []NodesShownTrue` | `RegistryInv`: what is on its way to a client, an answer or an event, belongs to the life of the node it was asked of |
| `StreamsAlwaysSound`: `WsSpec => []SessionSound`, the part of `StreamServed` about the stream itself | `WsInv`: the queue is a run of consecutive messages and the strand's unwritten ones follow it; while the session is open its front is in exactly one place, on the wire, written with its completion queued, or failed with the socket shut (`AtWire`, `IsWritten`, `HasFailed`), and `delivered` ends accordingly; one read is under way or its handler is queued; the close handler is yet to be asked for, asked for, queued, or has run. `RaceInv`: a close that found no completed write on the strand is followed by none, so that an empty queue is popped by that one race only |
| `RequestsAlwaysRouted`: `RouterSpec => []RequestsRouted` | `RouterInv`: what registration, finished or broken off, leaves in a trie of each verb (`RoutesLaid`) and in that of the middleware (`MiddlewareKept`). The search (`Walk`) is followed by counting up over the segments: every edge taken was the first that could be, so where it ends is what the definition by choice picks |
| `RateAlwaysKept`: `LimiterSpec => []RateKept`, the part of `StreamServed` about the byte budget | `LimiterInv`, the account of the bucket: what it holds and what passed since any message are within the burst and the refills; a bucket that is not full has a message that accounts for all that is missing, so that a drop means the budget was spent |

### 5.5 `VehicleProofs` (MCVehicle; the assumptions of its parts)

| Theorem | Argument |
| --- | --- |
| `MapAlwaysSound`: `MapSpec => MapSound` | `MapInv` = types, `FilesInv` (what a living server has loaded or saved, and what each format reads back of it), `RequestsInv` (what a request under way was told and what had become of it), `CallsInv`; with the action property `AnsweredOnce` |
| `FlightSideAlwaysSound`: `Spec => []FlightSideSound` | `FlightSideInv`, one invariant per part, below; a step of the composition is a step of one part or none (`FlightSideSteps`) |

- The thresholds are their own invariant. A request runs functors until one throws: by the least counterexample over
  the number that ran (`RunningKeepsOrder`), each keeps the order the one before left.
- `ProviderInv`, the fake backend: an injection under way has come to a place of the list, and a provider that lives
  and was born before has the value, or was passed over by one that threw (`missed`), or is further on (`Ahead`).
- `DisplayInv`, the display: what its controller waits for before each byte of a flush (`Waiting`), whatever the last
  one broke off in; where its place is and which cells are drawn by then (`Placed`). The arithmetic is that of rows and
  columns laid out in one sequence (`PlaceOf`, `RowParts`). A flush that began where a command ends leaves the picture
  in memory and, if no transfer ever broke off inside a command, on the glass.
- The strip: a byte is its eight bits (`ByteOfBits`), three bytes of pulses carry it (`PulsesCarry`), each LED takes
  nine bytes of its own (`BytesOfLed`, `TakesOwn`).

### 5.6 `CameraProofs` (`FlowAssumption`, `DetectorAssumption`, `VisionAssumption`)

| Theorem | Argument |
| --- | --- |
| `FlowsTileAlways`: `FlowSpec => FlowsTile` | `FlowInv`: the reference picture is the one its stamp belongs to, and either the last one measured or one taken afresh since |
| `DetectionsAlwaysTrue`: `DetectorSpec => DetectionsTrue` | `DetectorInv`: `HostInv` (which plugins live in which state), `DictInv`, `CacheInv` (what the points kept for a marker were made from), `PictureInv` (what the tasks of a picture under way have done; two that meet in the table leave a trace) |
| `VisionAlwaysContinuous`: `VisionSpec => VisionContinuous` | `VisionInv`: the last estimate is the last pose moved by the offset, number or not, so that a finite one after a finite pose came from a finite one. The average needs that the sum of a finite set is a number: induction on the size of the set, by the least counterexample (`LeastNumber`), since the library's induction takes an operator |

### 5.7 `UserInterfaceProofs`, `TerminalProofs` (Spec of MCUserInterface)

| Theorem | Argument |
| --- | --- |
| `PagesAlwaysSound`: `Spec => []PagesSound` | one inductive invariant per page, below; a step of the composition is a step of one page or none (`PartsStep`) |
| `StripAlwaysAccountedFor`: `Spec => []StripAccountedFor` | inductive with `RequestKnown`, that an animation was asked for; the requests of the notification node are among any (`StripPart`) |
| `EventsAlwaysReachOutputs`: `NotificationSpec => []EventsReachOutputs` | inductive with `KnowsLast`, that of each name not ignored the last status is remembered. What was asked for and what was worth asking for grow together: a step that receives a status worth telling appends its event last (`ChangeTold`), every other adds system events or nothing (`NothingToTell`) |
| `SettingsAlwaysKept`: `Spec => []SettingsKept` | `SettingsInv`: where the content of each inode comes from (`ProvenanceInv`); while no two saves met and the disk was not full, one at most is under way and has the temporary file to itself (`WorkInv`, `UndisturbedInv`); one callback at most waits, and a form shows what it edits (`ScreensInv`) |
| `ViewAlwaysSound`: `Spec => []ViewSound` | `MonitorInv`: the rows are what snapshot, folded groups and filters make. The recursion over the tree of names ends at the longest ones (`RowsExist`), a row reaches the list through each node above it (`RowsReach`), and a group shows the worst level below it (`LevelIs`) |
| `ToolkitAlwaysSound`: `Spec => []ToolkitSound` | `ToolkitInv` over what each widget, screen and callback leaves to the next (`EventDone`), and that what was posted fits the screen in front (`CallsFit`) |
| `LineAlwaysSound`: `Spec => []LineSound` | `LineInv`: the two ends of a selection lie in the text (`LineOK`), the history's entries are the texts undo and redo owe (`UndoTrue`); lemmas on what cuts and insertions do to the characters a text of bytes reads as |
| `ReleasesAlwaysSound`: `Spec => []ReleasesSound` | `ReleaseInv`: what a job that may still push found on master is still so (`JobInv`), versions on master ascend (`MasterAscends`), and a stable tag ends its candidates (`StableOrCandidates`); the candidate of a named tag lies on that tag's commit, which is behind the head (`TagsBehindHead`) |
| `PatchesAlwaysAllOrNone`: `Spec => []AllOrNone` | `PatchInv`: what is applied are the first patches, and they are unwound newest first |
| `TerminalAlwaysSound`: `Spec => []TerminalSound` | from the six above |

- `EditorInv`, the map page. Saved means: the baseline, the formulas' value and the server agree. In between they
  need not, so the invariant says of each marker where the agreement is: an answer under way is the map
  (`AnswerInv`); a marker whose baseline is about to be replaced, because a load is under way, failed or its request
  was served, is on the server what its formulas stand for (`FormulasInv`); all others are what their baseline says
  (`BaselineInv`); what differs from its baseline is under way (`RetypedInv`, `PendingInv`); and what a save meets a
  load in is excused (`OverlapInv`), as is what others edited, since section 8 lists those as lost.
- `FormInv`, the settings page: the copy is the answer with what was typed since (`CopyInv`, `WishesInv`), and at
  rest nothing is outstanding (`RestInv`).
- `StreamInv`, subscriptions: for each the states its gate, socket and timers may be in together (`SubsInv`), and who
  holds it (`ViewInv`, `LogsInv`, `HeldInv`: what nobody holds is closed).
- `VideoInv`, video: of every attempt but the last the reader is gone and the pump ended, cancelled or never began.

### 5.8 What the proofs found

`AnswersTrue`, a part of MapSound, was bracketed so that one conjunct said nothing: the proof of it needed no
hypothesis. "Some plugin" in DetectionsTrue had to be "every plugin". A read begun on a socket that a time-out had
closed was left waiting in HttpSession; it fails at once (`BeginRead`). The map page's save kept its requests as a
sequence made by recursion; as a set with an order of taking, what is left to send can be reasoned about. A flush was
one step that sent a sequence of bytes: sent byte by byte, the invariant is about what the controller waits for. The
notification node pushed the events of a status as one sequence; one at a time, as its providers call it, no fold
stands between a step and what it did, and what was told is matched with what was worth telling by a function rather
than by filtering both. No status is named "none", which marks a name without one (`NotificationAssumption`). The key
of the settings' root is no leaf's and a save needs an inode (`SettingsAssumption`); a status has a name of at least
one part (`ViewAssumption`). Patches are unwound by taking the entry out at its place (`Unwind`), as the script does.
A trie's edges are records, static or wild, told apart by a conditional where two overlapping cases had left a choice.
What is recursive is a function (the router's `Walk`, the limiter's `Sent`, the line's `Readings` and `Cells`, the
monitor's rows by their place in the report), of which the value at one more is a fact the provers can use, as it is
not of a fold or a filter. A rate of zero is no limit, of which `PassedWithinRate` had claimed one. For displays of 34
or 35 columns the last column would itself be a command (`PanelAssumption`).

### 5.9 Only model-checked

- Liveness, which this prover does not reach: `StartingEnds`, `GoalsEnd`, `RevokedModeStops`, the second half of
  `LeaseWithTheLiving`, `ConnectionsComeAndGo`, `RegistryFollowsGraph`, `StreamReleased`, `ClientsGetMap`,
  `ScreenReachesDisplay`, `AnimationsPlay`, `AskersTold`.
- `StreamServed` but for `SessionSound` and `RateKept`: MsgJson's trees are walked by RECURSIVE operators, with which
  the prover has no SMT, and what such a walk computes for every message is an induction over data.

Every other safety invariant and action property of the passing runs is stated by a theorem.

## 6. What the models leave out

Geometry (yaw, frames, the shift of two pictures, distortion), the contents of telemetry and of most messages,
logging, diagnostics, headers and bodies, drawing and layout. The flight controller is an environment without
memory: its own failsafes are not modelled. OpenCV, Beast, rclcpp, the bus drivers and the browser are external,
modelled from how they are used. Ping frames have no state. Times are counted in small units. A parser's syntax is
not modelled, only what loads; formulas the page writes for numbers are taken to parse back, though `1e-7` would not
(exprEval.ts:17). Strings of a message are whole: arrays of bounded strings (msg_json.cpp:159-195) and text that ends
inside a character (msg_json.cpp:84-104) are not told apart. An animation's constructor throws what the LED driver
catches (driver.cpp:176). MAVROS's request services are
what the state machine reads of them. Of the toolkit's widgets only those the programs build on are there. The image
builder is not modelled: every step is a command of another program. `PROJECT.json` gives the reason for each
component that is "partly" covered; no component is without a module, and those that only assemble launch
descriptions or hand messages over keep no state.

## 7. Where code and documents disagree

Each is a run TLC refutes, with the quoted line in `PROJECT.json`.

- `navigate_false_success`: land or navigate, called in the middle of a goal, makes the controller quiescent and the
  process callback takes that for an arrival.
- `navigate_deactivate`: deactivation closes the bond and leaves the controller flying the goal.
- `mode_late_release`: a late `completed()` request revokes another mode's lease.
- `ws_error_frame`: the error frame of a refused stream is posted, the close after it runs at once and drops it.
- `notification_priority`: events with a higher priority are to be processed first (output.hpp:73, event.hpp:23), but
  an event that comes while another has its animation is handled at once: the queue never holds two, and a lower one
  goes before a higher one that comes in the same stretch.

## 8. Seen in the models

Behaviour met while modelling that no run is about; properties exclude it by name where it would break them.

Flight and modes
- The report a check reads may be older than the command (mavros.cpp:118 keeps no time): right after a flight, or
  after an arming by hand, OFFBOARD and armed left over let the next command through before anything new was heard.
- A goal whose bond was closed by a deactivation is ended by nobody: its process callback returns early
  (server.cpp:585) until the next goal replaces it, and an activation that makes a new action server (server.cpp:245)
  leaves goals of the old one without.
- After a restart the bridge hands out ids that living modes hold, and two modes may stream. A mode whose bond broke
  is activated again by the next `mode_state`. Two modes on one client share its token, and a provider made on first
  use gets that of the mode built last (`mode_base.hpp:37` says it is bound to its own).
- Callbacks that use the controller crash the node after cleanup (server.cpp:395, 431, 378, 546).
- `connected` stays true after MAVROS dies; requests are fire and forget; `future.get()` is outside the `try` in
  set_mode (mavros.cpp:250); a reset's set_mode(position) and a landing go to two services in no order, so that a
  landing may be undone (server.cpp:431).
- A refused batch of parameters leaves the members of its first ones changed.
- Python: `yaw != NAN` is always true; `navigate_wait` waits for the server without time-out and hangs if it dies; a
  service call told False may still be carried out; the camera client's events are never cleared; `Clover2.__getattr__` skips falsy values.

HTTP
- A message written resets the idle timer, so a silent client with a live topic is not closed after 60 s; the
  completion of a write that was queued when the socket failed pops an empty queue after the close
  (base_ws_session.cpp:190, 205). `UndefinedOnlyByRace` says that nothing else does.
- `deserialize_message` leaks its message when it throws (ros_support.cpp:107); text that is not UTF-8 makes `dump()`
  throw outside its `try`.
- `SettingsServer.md` and `RosSupport.md:54` differ from the handlers in the capability, PUT and the error text.

Localisation
- A rejected `map` parameter leaves the new file and part of its map in use, and the next edit saves that part; one
  that is accepted is not announced, though `ArucoMap.md:125` has `map_update` sent. The file is written in place, so
  a death in between leaves one the respawned server cannot load. `handle_map` reads the map and then whether there
  is one. A marker's points keep the side it was first seen with (`Marker.msg:9` has the size of the map).
- A save checks the stream when it opens it and never again (yaml.cpp:207, txt.cpp:37): cut short, it is answered with
  success, and a text file that lost its end loads as part of the map. A marker of a type beyond the three, or with a
  negative size or id, is saved and cannot be loaded again (marker.cpp:22); a text file drops a marker's own frame.
- The markers of a picture are worked on in parallel over a map of points without a lock (maker_base.cpp:45, 146): two
  that meet may read anything.
- A pose that is no number (a marker seen head-on) passes the check for jumps, so the estimate after it may be
  anywhere under the same counter; a reset that meets one makes the offset no number, and so every estimate until the
  next reset (clover2_vio.cpp:65, 101).
- The time between two pictures whose stamps go back is cast to an unsigned word (optical_flow.cpp:258).
- A camera host shut down while active goes on detecting, since on_shutdown stops nothing.

LED strip and display
- `cleanup()` of the LED driver is never reached, and the zero bytes it would send would not darken the strip; a
  failed transfer is only logged. An event that comes while another's animation runs ends it (`output.hpp:31` has one
  at a time). A direct command is not what `LED.md` says is shown.
- A transfer to the display that breaks off inside a command makes the next last-column byte a start-line command:
  the picture is one line off until a restart. A display whose initialization failed stays attached and answers ok.

Terminal
- Once the input line has the keyboard it takes every key but Tab: Escape, arrows and Enter do nothing and Ctrl+S
  types an "s", though the footer offers them. Ctrl+Z right after a field is opened empties it; redo past the end
  makes the next undo do nothing; a selection anchor left by a click outlives edits.
- A character of several bytes moves the cursor once per byte (a comment has characters): typed in the middle, the
  text is garbled; after one at the end the first Backspace does nothing, and Ctrl+Left may read past the vector.
- An arrow or a paste torn by 50 ms, or by a resize, is Escape and characters, so that unsaved settings may be lost. A
  press on one button and a release on another clicks it; the diagnostics screen rebuilds its buttons every 500 ms
  and may lose a click; a press right after a screen change is swallowed.
- A resize within 25 ms of the loop's turn waits for the next event when there is no timer; a notification stays
  until the next redraw; quitting inside a batch still handles up to 49 events.

Browser
- Map: formulas typed during a save or a load count as saved (mapSlice.ts:131); a save that failed half-way and was
  undone looks saved; a retry of an `add` already served is refused until a reload; a load in flight swallows the
  reload after a save (mapSlice.ts:112); a deleted id that is used again keeps its old formulas; a marker without a
  pose gets one with any edit.
- Settings: what is typed during a second save while the first's fetch is under way is lost (useSettingsConfig.ts:35);
  "Reset all" before the first load leaves the page blank; `error` is never cleared.
- Video: trimBuffer() runs only while the buffer is updating, and never trims (useMseStream.ts:66).

Tools
- A release candidate is never promoted: `compose --ref <rc> --field version` returns the candidate's own version
  (release.yml:64, versioning.py:108), whose tag exists. A stable tag put by hand on a candidate's commit makes the
  next candidate older than the release; a job that dies between its two pushes leaves a version without tag. A
  pre-release for which a tag to promote is named puts the next candidate's tag on that tag's old commit
  (release.yml:103), which has another version.
- Two saves of the settings that meet share one temporary file, and either may rename what the other wrote.
- base_image.py:17 takes a partial download for a cached one; build.py:92 names stages without the `.sh` that
  image-setup.sh:59 compares with, so that the parallel stages select nothing.

## 9. What is left

In the order of what it would tell:

1. NavigateServer and OffboardFsm in one specification, so that arrival and confirmation are seen from the goal.
2. The MAVROS backend's requests as a module; autostart of lifecycle nodes; the LED frame that `get_current_frame`
   answers.
