------------------------------ MODULE ModeLease ------------------------------
(***************************************************************************)
(* Flight modes of clover2_fcu: the bridge that registers modes and leases *)
(* activation to one of them (bridge.cpp), the mode objects in other nodes *)
(* that follow the lease (mode_base.cpp), and the setpoint providers whose *)
(* gate lets setpoints through (setpoint_base.cpp).                        *)
(*                                                                         *)
(* The bridge and each node run single-threaded executors; between them    *)
(* are services (requests and replies that take time), the latched         *)
(* mode_state topic of depth one, and bonds, which either side may find    *)
(* broken before the other does.                                           *)
(***************************************************************************)
EXTENDS Integers

CONSTANTS
    Mode,         \* mode objects, each constructed at most once
    Name,         \* mode names
    Client,       \* fcu clients that host modes
    NameOf,       \* the name each mode registers under
    ClientOf,     \* the client each mode is built on
    Streamers,    \* the modes that use a setpoint provider
    NoName,       \* no record in m_modes
    MaxId,        \* bound on mode ids
    MaxReleases,  \* bound on unanswered completed() calls of a mode
    MaxRestarts   \* bound on restarts of the bridge

ASSUME ModesAssumption ==
    /\ NameOf \in [Mode -> Name]
    /\ ClientOf \in [Mode -> Client]
    /\ Streamers \subseteq Mode
    /\ NoName \notin Name
    /\ MaxId \in Nat
    /\ MaxReleases \in Nat
    /\ MaxRestarts \in Nat

VARIABLES
    record,    \* bridge: m_modes, the name registered under each id
    broken,    \* bridge: ids whose record is marked broken
    next,      \* bridge: m_next_mode_id
    active,    \* bridge: m_active_mode_id, 0 for none
    restarts,  \* how often the bridge was restarted
    queued,    \* register_mode requests the bridge has not handled
    stage,     \* how far each mode object has come
    id,        \* the id the bridge gave it, 0 before or if refused
    bonded,    \* mode side: the bond is not broken
    on,        \* mode side: m_active
    inbox,     \* mode side: mode_state not yet taken, or None
    token,     \* client: mode_token, 0 before the first
    bound,     \* provider: m_mode_id, 0 while there is no provider
    seen,      \* provider: m_active_mode_id
    pinbox,    \* provider: mode_state not yet taken, or None
    releases   \* requests of completed() the bridge has not handled

bridgeVars == <<record, broken, next, active>>
modeVars == <<stage, id, bonded, on, inbox>>
providerVars == <<token, bound, seen, pinbox>>
vars == <<record, broken, next, active, restarts, queued, stage, id, bonded, on, inbox,
          token, bound, seen, pinbox, releases>>

Id == 1 .. MaxId
None == -1
Stages == {"new", "calling", "up", "failed", "gone"}

TypeOK ==
    /\ record \in [Id -> Name \cup {NoName}]
    /\ broken \subseteq Id
    /\ next \in 1 .. MaxId + 1
    /\ active \in 0 .. MaxId
    /\ restarts \in 0 .. MaxRestarts
    /\ queued \subseteq Mode
    /\ stage \in [Mode -> Stages]
    /\ id \in [Mode -> 0 .. MaxId]
    /\ bonded \in [Mode -> BOOLEAN]
    /\ on \in [Mode -> BOOLEAN]
    /\ inbox \in [Mode -> None .. MaxId]
    /\ token \in [Client -> 0 .. MaxId]
    /\ bound \in [Mode -> 0 .. MaxId]
    /\ seen \in [Mode -> 0 .. MaxId]
    /\ pinbox \in [Mode -> None .. MaxId]
    /\ releases \in [Mode -> 0 .. MaxReleases]

Registered(i) == record[i] # NoName
Up(m) == stage[m] = "up"
HasProvider(m) == Up(m) /\ bound[m] # 0

\* Both gates are open: the update timer runs and the provider publishes
\* (stream_allowed).
Streams(m) == HasProvider(m) /\ on[m] /\ seen[m] = bound[m]

Init ==
    /\ record = [i \in Id |-> NoName]
    /\ broken = {}
    /\ next = 1
    /\ active = 0
    /\ restarts = 0
    /\ queued = {}
    /\ stage = [m \in Mode |-> "new"]
    /\ id = [m \in Mode |-> 0]
    /\ bonded = [m \in Mode |-> FALSE]
    /\ on = [m \in Mode |-> FALSE]
    /\ inbox = [m \in Mode |-> None]
    /\ token = [c \in Client |-> 0]
    /\ bound = [m \in Mode |-> 0]
    /\ seen = [m \in Mode |-> 0]
    /\ pinbox = [m \in Mode |-> None]
    /\ releases = [m \in Mode |-> 0]

-----------------------------------------------------------------------------
(* The bridge.                                                             *)

\* Fault: only the modes are told, not their providers.
PublishModesOnly(a) ==
    /\ active' = a
    /\ inbox' = [m \in Mode |-> IF Up(m) THEN a ELSE inbox[m]]
    /\ UNCHANGED pinbox

\* publish_mode_state(): depth one, so a value not yet taken is replaced.
Publish(a) ==
    /\ active' = a
    /\ inbox' = [m \in Mode |-> IF Up(m) THEN a ELSE inbox[m]]
    /\ pinbox' = [m \in Mode |-> IF HasProvider(m) THEN a ELSE pinbox[m]]

SetActive(a) ==
    IF a # active THEN Publish(a) ELSE UNCHANGED <<active, inbox, pinbox>>

\* Fault: only the active mode's name is compared.
NameTakenByActive(n, kept) == active # 0 /\ kept[active] = n

NameTaken(n, kept) == \E i \in Id : kept[i] = n

\* Fault: the id of an erased record is used again.
HandleRegisterReusing(m) ==
    /\ m \in queued
    /\ next <= MaxId
    /\ queued' = queued \ {m}
    /\ broken' = {}
    /\ LET kept == [i \in Id |-> IF i \in broken THEN NoName ELSE record[i]]
           free == CHOOSE i \in Id : /\ kept[i] = NoName
                                     /\ \A j \in 1 .. i - 1 : kept[j] # NoName
       IN  IF NameTaken(NameOf[m], kept)
           THEN record' = kept /\ UNCHANGED <<next, id>>
           ELSE /\ record' = [kept EXCEPT ![free] = NameOf[m]]
                /\ id' = [id EXCEPT ![m] = free]
                /\ next' = next + 1
    /\ UNCHANGED <<active, restarts, stage, bonded, on, inbox, providerVars, releases>>

\* handle_register_mode(): the records of broken modes are erased first.
HandleRegister(m) ==
    /\ m \in queued
    /\ next <= MaxId
    /\ queued' = queued \ {m}
    /\ broken' = {}
    /\ LET kept == [i \in Id |-> IF i \in broken THEN NoName ELSE record[i]]
       IN  IF NameTaken(NameOf[m], kept)
           THEN record' = kept /\ UNCHANGED <<next, id>>
           ELSE /\ record' = [kept EXCEPT ![next] = NameOf[m]]
                /\ id' = [id EXCEPT ![m] = next]
                /\ next' = next + 1
    /\ UNCHANGED <<active, restarts, stage, bonded, on, inbox, providerVars, releases>>

\* handle_activate_mode() with a name; an unknown or broken one is refused.
ActivateRecord(n) ==
    \E i \in Id \ broken : record[i] = n /\ SetActive(i)

HandleActivate(n) ==
    /\ ActivateRecord(n)
    /\ UNCHANGED <<record, broken, next, restarts, queued, stage, id, bonded, on, token,
                   bound, seen, releases>>

\* handle_activate_mode() with an empty name, sent by an operator.
HandleDeactivate ==
    /\ SetActive(0)
    /\ UNCHANGED <<record, broken, next, restarts, queued, stage, id, bonded, on, token,
                   bound, seen, releases>>

\* The same request sent by completed() of m.
HandleRelease(m) ==
    /\ releases[m] > 0
    /\ releases' = [releases EXCEPT ![m] = @ - 1]
    /\ SetActive(0)
    /\ UNCHANGED <<record, broken, next, restarts, queued, stage, id, bonded, on, token,
                   bound, seen>>

Revoke(i) == IF active = i THEN Publish(0) ELSE UNCHANGED <<active, inbox, pinbox>>

\* Fault: only the record of the active mode is marked.
BridgeBondBreaksActive(i) ==
    /\ Registered(i)
    /\ i \notin broken
    /\ active = i
    /\ broken' = broken \cup {i}
    /\ Revoke(i)
    /\ UNCHANGED <<record, next, restarts, queued, stage, id, bonded, on, token, bound,
                   seen, releases>>

\* handle_mode_bond_broken() of the bridge: the first call for a record.
BridgeBondBreaks(i) ==
    /\ Registered(i)
    /\ i \notin broken
    /\ broken' = broken \cup {i}
    /\ Revoke(i)
    /\ UNCHANGED <<record, next, restarts, queued, stage, id, bonded, on, token, bound,
                   seen, releases>>

\* The bridge dies and a new one is started: nothing is kept, ids start at one
\* again, and the constructor publishes that there is no lease.
BridgeRestarts ==
    /\ restarts < MaxRestarts
    /\ restarts' = restarts + 1
    /\ record' = [i \in Id |-> NoName]
    /\ broken' = {}
    /\ next' = 1
    /\ queued' = {}
    /\ releases' = [m \in Mode |-> 0]
    /\ Publish(0)
    /\ UNCHANGED <<stage, id, bonded, on, token, bound, seen>>

-----------------------------------------------------------------------------
(* Mode objects and their providers.                                       *)

\* mode_base::mode_base() calls register_mode and waits.
Construct(m) ==
    /\ stage[m] = "new"
    /\ stage' = [stage EXCEPT ![m] = "calling"]
    /\ queued' = queued \cup {m}
    /\ UNCHANGED <<bridgeVars, restarts, id, bonded, on, inbox, providerVars, releases>>

\* The answer came in time: token, bond and subscription follow, and the latched
\* mode_state is on its way.
Constructed(m) ==
    /\ stage[m] = "calling"
    /\ m \notin queued
    /\ id[m] # 0
    /\ stage' = [stage EXCEPT ![m] = "up"]
    /\ token' = [token EXCEPT ![ClientOf[m]] = id[m]]
    /\ bonded' = [bonded EXCEPT ![m] = TRUE]
    /\ inbox' = [inbox EXCEPT ![m] = active]
    /\ UNCHANGED <<bridgeVars, restarts, queued, id, on, bound, seen, pinbox, releases>>

\* Registration was refused, or not answered within wait_timeout: the
\* constructor throws.
ConstructionFails(m) ==
    /\ stage[m] = "calling"
    /\ stage' = [stage EXCEPT ![m] = "failed"]
    /\ UNCHANGED <<bridgeVars, restarts, queued, id, bonded, on, inbox, providerVars, releases>>

\* position(), velocity(), ...: the provider is created on first use and bound
\* by the token its client then has.
CreateProvider(m) ==
    /\ Up(m)
    /\ m \in Streamers
    /\ bound[m] = 0
    /\ bound' = [bound EXCEPT ![m] = token[ClientOf[m]]]
    /\ pinbox' = [pinbox EXCEPT ![m] = active]
    /\ UNCHANGED <<bridgeVars, restarts, queued, modeVars, token, seen, releases>>

\* Fault: losing the lease does not stop the mode.
TakeModeStateNoStop(m) ==
    /\ Up(m)
    /\ inbox[m] # None
    /\ inbox' = [inbox EXCEPT ![m] = None]
    /\ on' = [on EXCEPT ![m] = on[m] \/ inbox[m] = id[m]]
    /\ UNCHANGED <<bridgeVars, restarts, queued, stage, id, bonded, providerVars, releases>>

\* handle_mode_state(): the bond is not asked.
TakeModeState(m) ==
    /\ Up(m)
    /\ inbox[m] # None
    /\ inbox' = [inbox EXCEPT ![m] = None]
    /\ on' = [on EXCEPT ![m] = (inbox[m] = id[m])]
    /\ UNCHANGED <<bridgeVars, restarts, queued, stage, id, bonded, providerVars, releases>>

ProviderTakesModeState(m) ==
    /\ HasProvider(m)
    /\ pinbox[m] # None
    /\ pinbox' = [pinbox EXCEPT ![m] = None]
    /\ seen' = [seen EXCEPT ![m] = pinbox[m]]
    /\ UNCHANGED <<bridgeVars, restarts, queued, modeVars, token, bound, releases>>

\* completed(), called by a mode that is active, as often as it likes.
Completed(m) ==
    /\ Up(m)
    /\ on[m]
    /\ releases[m] < MaxReleases
    /\ releases' = [releases EXCEPT ![m] = @ + 1]
    /\ UNCHANGED <<bridgeVars, restarts, queued, modeVars, providerVars>>

\* handle_mode_bond_broken() of the mode.
ModeBondBreaks(m) ==
    /\ Up(m)
    /\ bonded[m]
    /\ bonded' = [bonded EXCEPT ![m] = FALSE]
    /\ on' = [on EXCEPT ![m] = FALSE]
    /\ UNCHANGED <<bridgeVars, restarts, queued, stage, id, inbox, providerVars, releases>>

\* The mode is destroyed, or its node dies, in the middle of its constructor
\* too: the bond goes with it, and so does the provider.
ModeGoes(m) ==
    /\ stage[m] \in {"calling", "up"}
    /\ stage' = [stage EXCEPT ![m] = "gone"]
    /\ bonded' = [bonded EXCEPT ![m] = FALSE]
    /\ on' = [on EXCEPT ![m] = FALSE]
    /\ inbox' = [inbox EXCEPT ![m] = None]
    /\ bound' = [bound EXCEPT ![m] = 0]
    /\ seen' = [seen EXCEPT ![m] = 0]
    /\ pinbox' = [pinbox EXCEPT ![m] = None]
    /\ UNCHANGED <<bridgeVars, restarts, queued, id, token, releases>>

-----------------------------------------------------------------------------
ModeStep(m) ==
    \/ Construct(m) \/ Constructed(m) \/ ConstructionFails(m) \/ CreateProvider(m)
    \/ TakeModeState(m) \/ ProviderTakesModeState(m)
    \/ Completed(m) \/ ModeBondBreaks(m) \/ ModeGoes(m)
    \/ HandleRegister(m) \/ HandleRelease(m)

Next ==
    \/ \E m \in Mode : ModeStep(m)
    \/ \E n \in Name : HandleActivate(n)
    \/ HandleDeactivate
    \/ \E i \in Id : BridgeBondBreaks(i)
    \/ BridgeRestarts

Spec == Init /\ [][Next]_vars

\* The bond of record i has nobody at its other end: its heartbeat or connect
\* timer finds out.
Deserted(i) == \A m \in Mode : id[m] = i => ~bonded[m] /\ stage[m] # "calling"

\* The executor of a mode serves its subscription. Nothing else of a mode or its client is
\* needed.
Fairness ==
    /\ \A m \in Mode : WF_vars(TakeModeState(m))
    /\ \A i \in Id : WF_vars(Deserted(i) /\ BridgeBondBreaks(i))

FairSpec == Spec /\ Fairness

-----------------------------------------------------------------------------
(* Properties.                                                             *)

\* The lease is with nobody or with a mode that is registered and whose bond the
\* bridge has not seen break: no order of activation, breakage and the clean-up
\* in a later registration leaves it with an erased record
\* (handle_mode_bond_broken, handle_register_mode).
LeaseHolderRegistered == active # 0 => Registered(active) /\ active \notin broken

\* A name finds one mode, so activation by name cannot pick a predecessor that
\* broke (handle_activate_mode searches names).
NamesUnique ==
    \A i, j \in Id : Registered(i) /\ record[i] = record[j] => i = j

\* A mode that has taken every mode_state sent to it is active only if it holds
\* the lease, and so for the gate of a provider (handle_mode_state,
\* stream_allowed): nothing stays open after the messages have arrived.
SettledLease ==
    \A m \in Mode :
        /\ Up(m) /\ inbox[m] = None /\ on[m] => active = id[m]
        /\ HasProvider(m) /\ pinbox[m] = None /\ seen[m] = bound[m] => active = bound[m]

\* As long as the bridge lives, at most one mode streams once mode_state has
\* arrived everywhere ("the bridge leases activation to a single mode at a time",
\* bridge.hpp). A restarted bridge gives the ids of living modes away, and then
\* two modes may stream.
SettledExclusion ==
    restarts = 0 => \A m, n \in Mode :
        /\ Streams(m) /\ inbox[m] = None /\ pinbox[m] = None
        /\ Streams(n) /\ inbox[n] = None /\ pinbox[n] = None
        => m = n

Lost(m) == active # id[m] /\ \A i \in Id \ broken : Registered(i) => i # id[m]

\* A mode that is gone, or whose construction failed after the bridge had
\* registered it, loses the lease for good and frees its name (the bond is the
\* only thing that tells the bridge). A restarted bridge gives its id away.
GoneLosesLease ==
    \A m \in Mode :
        stage[m] \in {"gone", "failed"} /\ id[m] # 0
            ~> [](Lost(m) \/ restarts # 0)

\* The lease is only ever with a mode the bridge takes to be alive, and does not return
\* to one that is gone while the bridge lives.
LeaseWithTheLiving == []LeaseHolderRegistered /\ GoneLosesLease

\* A mode without the lease stops, unless the lease comes back to it first.
RevokedModeStops ==
    \A m \in Mode : Up(m) /\ active # id[m] ~> ~on[m] \/ active = id[m]

\* "The lease is revoked when the mode releases it (completed()) or when the mode
\* bond breaks" (mode_base.hpp): a release does not take another mode's lease.
ReleaseOnlyOwnLease ==
    [][\A m \in Mode : HandleRelease(m) => active \in {0, id[m]}]_vars
=============================================================================
