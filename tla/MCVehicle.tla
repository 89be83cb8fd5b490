----------------------------- MODULE MCVehicle -----------------------------
(***************************************************************************)
(* The vehicle's side: the map of markers, the nodes that look for them    *)
(* and for motion, and, towards the flight controller, the parameters of   *)
(* its bridge and the clients with the fake backend; and the panels on its *)
(* buses. They meet in topics and calls that hand a value over, so that    *)
(* each is explored by itself: the first state picks what runs.            *)
(***************************************************************************)
EXTENDS MapService, MarkerDetector, VisionPose, OpticalFlow, NodeParameters, FcuProviders,
        Panels

CONSTANTS web1, r1, yaml, txt, broken, nan

VARIABLE part

lookVars == <<detectorVars, visionVars, flowVars>>
fcuSideVars == <<parameterVars, providerVars>>
vars == <<part, mapVars, lookVars, fcuSideVars, panelVars>>

Percents == -1 .. 4

\* A part that does not run is left at one of the states it may start in.
Init ==
    /\ part \in {"map", "detector", "vision", "flow", "parameters", "providers", "display", "strip"}
    /\ MapInit
    /\ part # "map" => \A f \in File : disk[f] = BrokenFile
    /\ DetectorInit
    /\ part # "detector" => /\ \A m \in Mark : served.sides[m] = 1
                            /\ \A p \in Plugin : marker_dict[p] = "4X4"
    /\ VisionInit
    /\ part # "vision" => DOMAIN chart = {} /\ m_world_current = NaN
    /\ FlowInit
    /\ part # "flow" => m_roi_px = 0
    /\ ParametersInit
    /\ part # "parameters" => \A n \in Names : overrides[n] = NoOverride
    /\ ProviderInit /\ PanelInit

Looks ==
    \/ part = "detector" /\ DetectorNext /\ UNCHANGED <<visionVars, flowVars>>
    \/ part = "vision" /\ VisionNext /\ UNCHANGED <<detectorVars, flowVars>>
    \/ part = "flow" /\ FlowNext /\ UNCHANGED <<detectorVars, visionVars>>

Controls ==
    \/ part = "parameters" /\ ParametersNext /\ UNCHANGED providerVars
    \/ part = "providers" /\ ProviderNext /\ UNCHANGED parameterVars

Lights ==
    \/ part = "display" /\ DisplayNext
    \/ part = "strip" /\ StripNext

Next ==
    \/ part = "map" /\ MapNext /\ UNCHANGED <<part, lookVars, fcuSideVars, panelVars>>
    \/ Looks /\ UNCHANGED <<part, mapVars, fcuSideVars, panelVars>>
    \/ Controls /\ UNCHANGED <<part, mapVars, lookVars, panelVars>>
    \/ Lights /\ UNCHANGED <<part, mapVars, lookVars, fcuSideVars>>

\* A map that rests has no server, so that none of its fair actions is enabled.
Spec == Init /\ [][Next]_vars /\ MapFairness

\* Pictures that light cells across rows, pages and columns, and frames with bytes at every
\* edge.
PanelPictures ==
    {[y \in 0 .. 15 |-> [x \in 0 .. 2 |-> IF <<y, x>> \in on THEN 255 ELSE 0]] :
        on \in {{<<0, 0>>, <<7, 1>>, <<8, 2>>}, {<<0, 1>>, <<15, 0>>, <<15, 2>>},
               (0 .. 15) \X (0 .. 2)}}
Rgb(r, g, b) == [r |-> r, g |-> g, b |-> b]
Frames == {<<Rgb(0, 255, 1), Rgb(128, 0, 77)>>, <<Rgb(255, 254, 0), Rgb(0, 0, 0)>>}

\* Towards the flight controller: thresholds that warn in order are what the diagnostics
\* judge by, and injected telemetry reaches the providers that live (NodeParametersWatcher,
\* the registry of the fake backend). Towards the user: the panels show what was written.
FlightSideSound ==
    /\ ThresholdsSound /\ InjectionReaches
    /\ part \in {"display", "strip"} => PanelsSound
=============================================================================
