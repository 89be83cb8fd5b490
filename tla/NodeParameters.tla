--------------------------- MODULE NodeParameters ---------------------------
(***************************************************************************)
(* Parameters that are watched: NodeParametersWatcher runs the functor of  *)
(* each parameter of a request while rclcpp still asks whether the request *)
(* is allowed, and the functor both checks the value and keeps it. Shown   *)
(* with the battery thresholds of the fcu bridge, which are checked        *)
(* against each other, and the diagnostic task they are handed to.         *)
(*                                                                         *)
(* A threshold is a number, Full stands for 1.0. rclcpp is external: it    *)
(* changes all the parameters of a request or none.                        *)
(***************************************************************************)
EXTENDS Integers, Sequences, FiniteSetsExt

CONSTANTS
    Threshold,        \* values asked for
    Full,
    WarnDefault, ErrorDefault,
    NoOverride,   \* the launch file does not say
    LongestBatch  \* bound on the parameters of one request

ASSUME ThresholdAssumption ==
    /\ Threshold \subseteq Int /\ Full \in Nat /\ NoOverride \notin Threshold
    /\ {ErrorDefault, WarnDefault} \subseteq Nat /\ ErrorDefault < WarnDefault /\ WarnDefault <= Full
    /\ LongestBatch \in Nat \ {0}

VARIABLES
    nodeLife,    \* "starting", "unconfigured", "configured", or "ended": the constructor threw
    overrides,   \* what the launch file says; absent ones are NoOverride
    parameters,  \* the node's parameters
    members,     \* m_battery_warn_percentage, m_battery_error_percentage
    task,        \* the thresholds of the power task, while there is one
    halfSet         \* history: names whose member a request changed that was then refused

parameterVars == <<nodeLife, overrides, parameters, members, task, halfSet>>

Names == {"warn", "error"}
Initial == [n \in Names |-> IF n = "warn" THEN WarnDefault ELSE ErrorDefault]
NoTask == [n \in Names |-> -1]

ParameterTypeOK ==
    /\ nodeLife \in {"starting", "unconfigured", "configured", "ended"}
    /\ overrides \in [Names -> Threshold \cup {NoOverride}]
    /\ parameters \in [Names -> 0 .. Full] /\ members \in [Names -> 0 .. Full]
    /\ task \in [Names -> -1 .. Full]
    /\ halfSet \subseteq Names

ParametersInit ==
    /\ nodeLife = "starting"
    /\ overrides \in [Names -> Threshold \cup {NoOverride}]
    /\ parameters = Initial /\ members = Initial
    /\ task = NoTask /\ halfSet = {}

-----------------------------------------------------------------------------
\* The functors throw for a value that is not in order with the member of the other.
Allowed(kept, p) ==
    IF p.name = "warn" THEN 0 <= p.value /\ p.value <= Full /\ kept["error"] < p.value
                       ELSE 0 <= p.value /\ p.value < kept["warn"]

\* What the functors of the first k parameters of a request have kept, each the last value.
Named(batch, n, k) == {i \in 1 .. k : batch[i].name = n}
Keeping(kept, batch, k) ==
    [n \in Names |-> IF Named(batch, n, k) = {} THEN kept[n]
                     ELSE batch[Max(Named(batch, n, k))].value]

\* on_set_parameters_cb(): functors run in the order of the request, until one throws.
FunctorsRun(kept, batch) ==
    LET ran == Max({k \in 0 .. Len(batch) :
                       \A i \in 1 .. k : Allowed(Keeping(kept, batch, i - 1), batch[i])})
    IN  [ok |-> ran = Len(batch), kept |-> Keeping(kept, batch, ran)]

\* server(): "warn" is declared first, and so is checked against the default of "error";
\* a functor that throws ends the constructor.
StartNode ==
    /\ nodeLife = "starting"
    /\ LET says(n) == IF overrides[n] = NoOverride THEN Initial[n] ELSE overrides[n]
           outcome == FunctorsRun(Initial, <<[name |-> "warn", value |-> says("warn")],
                                             [name |-> "error", value |-> says("error")]>>)
       IN /\ nodeLife' = IF outcome.ok THEN "unconfigured" ELSE "ended"
          /\ members' = outcome.kept
          /\ parameters' = IF outcome.ok THEN outcome.kept ELSE parameters
    /\ UNCHANGED <<overrides, task, halfSet>>

Batches ==
    {b \in UNION {[1 .. k -> [name : Names, value : Threshold]] : k \in 1 .. LongestBatch} :
         \A i, j \in DOMAIN b : b[i].name = b[j].name => i = j}

\* While there is a backend, each functor hands both members on.
TaskGiven(kept) == IF nodeLife = "configured" /\ kept # members THEN kept ELSE task

\* A request to set parameters, answered as a whole.
SetParameters(batch) ==
    /\ nodeLife \in {"unconfigured", "configured"}
    /\ LET outcome == FunctorsRun(members, batch)
           named == {batch[i].name : i \in DOMAIN batch}
           changed == {n \in Names : outcome.kept[n] # members[n]}
       IN /\ members' = outcome.kept
          /\ task' = TaskGiven(outcome.kept)
          /\ parameters' =
                 [n \in Names |-> IF outcome.ok /\ n \in named THEN outcome.kept[n] ELSE parameters[n]]
          /\ halfSet' = IF outcome.ok THEN halfSet \ named ELSE halfSet \cup changed
    /\ UNCHANGED <<nodeLife, overrides>>

\* on_configure() of the bridge, with a backend or without one in the end; on_cleanup().
ConfigureNode ==
    /\ nodeLife = "unconfigured"
    /\ nodeLife' = "configured" /\ task' = members
    /\ UNCHANGED <<overrides, parameters, members, halfSet>>

CleanupNode ==
    /\ nodeLife = "configured"
    /\ nodeLife' = "unconfigured" /\ task' = NoTask
    /\ UNCHANGED <<overrides, parameters, members, halfSet>>

ParametersNext ==
    StartNode \/ ConfigureNode \/ CleanupNode \/ \E batch \in Batches : SetParameters(batch)

-----------------------------------------------------------------------------
\* Whatever is asked for, in whatever order and however it is answered: the thresholds in
\* force are in order, the power task judges the battery by them, and they are the node's
\* parameters except for those a refused request had already changed
\* (NodeParametersWatcher::on_set_parameters_cb, the functors of the bridge server).
ThresholdsSound ==
    /\ ParameterTypeOK
    /\ 0 <= members["error"] /\ members["error"] < members["warn"] /\ members["warn"] <= Full
    /\ nodeLife = "configured" => task = members
    /\ nodeLife # "ended" => \A n \in Names \ halfSet : parameters[n] = members[n]
=============================================================================
