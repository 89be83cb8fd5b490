---------------------------- MODULE FcuProviders ----------------------------
(***************************************************************************)
(* Clients of the flight controller and the providers they hand out: the   *)
(* connection of a client to the bridge, its backend, and the telemetry of *)
(* the fake backend, which one registry injects into every live provider   *)
(* of all clients. The registry's mutex is held while the callbacks of the *)
(* providers run, and is not recursive.                                    *)
(*                                                                         *)
(* What a callback does is chosen when it is added: it only notes the      *)
(* value, it throws, or it calls a command of the same backend.            *)
(***************************************************************************)
EXTENDS Naturals, Sequences, SequencesExt

CONSTANTS
    FcuClient,      \* clients of one process
    Provider,       \* handles on telemetry, never used twice
    Telemetry,      \* kinds of telemetry, all served by the fake backend
    Needed,         \* kinds a client may require that no backend serves
    MaxInjections,  \* bound on the values injected
    Reaction        \* what callbacks may do, a subset of "notes", "throws", "commands"

ASSUME ProviderAssumption ==
    /\ MaxInjections \in Nat /\ "none" \notin Telemetry
    /\ Reaction \subseteq {"notes", "throws", "commands"}

VARIABLES
    fcuLife,    \* "new", "connected" or "failed": the constructor threw
    backendOf,  \* m_backends of each client: "none", "created" or "loaded"
    handles,    \* the live providers: [owner, kind, reacts, born]
    listed,     \* the registry's weak pointers, by kind
    injected,   \* values injected so far, by kind
    injecting,  \* the injection under way: [kind, at]; at 0 is none
    lastValue,      \* the value each provider has; 0 is none
    missed,     \* history: providers the injection did not come to, as a callback threw
    stuck,      \* a callback waits for the mutex its own thread holds
    commandLog  \* m_command_log, as a number

providerVars == <<fcuLife, backendOf, handles, listed, injected, injecting, lastValue, missed, stuck,
                  commandLog>>

InjectionIdle == injecting.at = 0
NoInjection == [kind |-> "none", at |-> 0]
Live == DOMAIN handles
NoHandles == [h \in {} |-> [owner |-> "none", kind |-> "none", reacts |-> "notes", born |-> 0]]

ProviderTypeOK ==
    /\ fcuLife \in [FcuClient -> {"new", "connected", "failed"}]
    /\ backendOf \in [FcuClient -> {"none", "created", "loaded"}]
    /\ Live \subseteq Provider
    /\ \A h \in Live : /\ handles[h].owner \in FcuClient /\ handles[h].kind \in Telemetry
                       /\ handles[h].reacts \in Reaction
    /\ \A k \in Telemetry : Range(listed[k]) \subseteq Provider
    /\ injected \in [Telemetry -> 0 .. MaxInjections]
    /\ injecting.kind \in Telemetry \cup {"none"}
    /\ lastValue \in [Provider -> 0 .. MaxInjections]
    /\ missed \subseteq Provider /\ stuck \in BOOLEAN /\ commandLog \in Nat

ProviderInit ==
    /\ fcuLife = [c \in FcuClient |-> "new"]
    /\ backendOf = [c \in FcuClient |-> "none"]
    /\ handles = NoHandles
    /\ listed = [k \in Telemetry |-> <<>>]
    /\ injected = [k \in Telemetry |-> 0] /\ injecting = NoInjection
    /\ lastValue = [h \in Provider |-> 0]
    /\ missed = {} /\ stuck = FALSE
    /\ commandLog = 0

-----------------------------------------------------------------------------
(* Clients.                                                                *)

\* check_requirements(): asking whether a kind is served loads the backend.
Serves(required) == required \subseteq Telemetry

\* connect(): no service in time, no answer in time, a refusal, bad parameters, a plugin
\* that does not load and a kind that is not served all end the constructor. With nothing
\* required the backend is not looked at.
ConnectClient(c, required) ==
    /\ ~stuck /\ fcuLife[c] = "new"
    /\ \/ /\ Serves(required)
          /\ fcuLife' = [fcuLife EXCEPT ![c] = "connected"]
          /\ backendOf' = [backendOf EXCEPT ![c] = IF required = {} THEN "none" ELSE "loaded"]
       \/ /\ fcuLife' = [fcuLife EXCEPT ![c] = "failed"]
          /\ UNCHANGED backendOf
    /\ UNCHANGED <<handles, listed, injected, injecting, lastValue, missed, stuck, commandLog>>

\* register_system_state() and its like.
Listed(h, k) == Append(listed[k], h)

\* get(): the backend is created and initialized when it is first needed, a new provider
\* each time; adding it to the registry waits for an injection to end.
GetProvider(c, h, k, reacts) ==
    /\ ~stuck /\ InjectionIdle
    /\ fcuLife[c] = "connected" /\ h \notin Live /\ \A j \in Telemetry : h \notin Range(listed[j])
    /\ backendOf' = [backendOf EXCEPT ![c] = "loaded"]
    /\ handles' = [i \in Live \cup {h} |->
           IF i = h THEN [owner |-> c, kind |-> k, reacts |-> reacts, born |-> injected[k]]
                    ELSE handles[i]]
    /\ listed' = [listed EXCEPT ![k] = Listed(h, k)]
    /\ UNCHANGED <<fcuLife, injected, injecting, lastValue, missed, stuck, commandLog>>

\* The owner of a handle lets go of it, also from another thread while values are injected.
DropProvider(h) ==
    /\ ~stuck /\ h \in Live
    /\ handles' = [i \in Live \ {h} |-> handles[i]]
    /\ missed' = missed \ {h}
    /\ UNCHANGED <<fcuLife, backendOf, listed, injected, injecting, lastValue, stuck, commandLog>>

\* log_command(), from a thread of its own.
Command ==
    /\ ~stuck /\ InjectionIdle /\ commandLog = 0
    /\ commandLog' = commandLog + 1
    /\ UNCHANGED <<fcuLife, backendOf, handles, listed, injected, injecting, lastValue, missed, stuck>>

\* reset() of the registry empties its logs, and leaves the providers listed.
ResetRegistry ==
    /\ ~stuck /\ InjectionIdle /\ commandLog # 0
    /\ commandLog' = 0
    /\ UNCHANGED <<fcuLife, backendOf, handles, listed, injected, injecting, lastValue, missed, stuck>>

-----------------------------------------------------------------------------
(* Injection.                                                              *)

Inject(k) ==
    /\ ~stuck /\ InjectionIdle /\ injected[k] < MaxInjections
    /\ injected' = [injected EXCEPT ![k] = @ + 1]
    /\ injecting' = IF listed[k] = <<>> THEN NoInjection ELSE [kind |-> k, at |-> 1]
    /\ missed' = {h \in missed : handles[h].kind # k}
    /\ UNCHANGED <<fcuLife, backendOf, handles, listed, lastValue, stuck, commandLog>>

\* The pointer an injection has come to.
Current == listed[injecting.kind][injecting.at]

\* Where an injection goes on; after the last pointer the mutex is free again.
Onward ==
    IF injecting.at < Len(listed[injecting.kind]) THEN [injecting EXCEPT !.at = @ + 1] ELSE NoInjection

\* Fault: the first pointer that has expired ends the injection.
SkippedTo == NoInjection

\* The pointer has expired.
PastExpired == Onward

SkipExpired ==
    /\ ~stuck /\ ~InjectionIdle
    /\ Current \notin Live
    /\ injecting' = PastExpired
    /\ UNCHANGED <<fcuLife, backendOf, handles, listed, injected, lastValue, missed, stuck, commandLog>>

\* update_data(): the value is kept before the callback runs. One that throws ends the
\* injection; one that calls the registry never returns.
InjectOne ==
    /\ ~stuck /\ ~InjectionIdle
    /\ Current \in Live
    /\ lastValue' = [lastValue EXCEPT ![Current] = injected[injecting.kind]]
    /\ CASE handles[Current].reacts = "notes" ->
              injecting' = Onward /\ UNCHANGED <<missed, stuck>>
         [] handles[Current].reacts = "throws" ->
              /\ injecting' = NoInjection
              /\ missed' = missed \cup
                     {h \in Live : \E i \in DOMAIN listed[injecting.kind] :
                          i > injecting.at /\ listed[injecting.kind][i] = h}
              /\ UNCHANGED stuck
         [] handles[Current].reacts = "commands" ->
              stuck' = TRUE /\ UNCHANGED <<injecting, missed>>
    /\ UNCHANGED <<fcuLife, backendOf, handles, listed, injected, commandLog>>

ProviderNext ==
    \/ \E c \in FcuClient, required \in SUBSET (Telemetry \cup Needed) : ConnectClient(c, required)
    \/ \E c \in FcuClient, h \in Provider, k \in Telemetry, reacts \in Reaction :
           GetProvider(c, h, k, reacts)
    \/ \E h \in Provider : DropProvider(h)
    \/ Command \/ ResetRegistry
    \/ \E k \in Telemetry : Inject(k)
    \/ SkipExpired \/ InjectOne

-----------------------------------------------------------------------------
\* When an injection is over, every live provider of its kind that was there before has
\* the value, whoever came and went meanwhile, but for those listed after one whose
\* callback threw; and no provider lives whose client could not connect
\* (registry::publish_odometry, telemetry_interface::update_data, client::connect).
InjectionReaches ==
    /\ ProviderTypeOK
    /\ \A h \in Live :
         LET kind == handles[h].kind
         IN /\ fcuLife[handles[h].owner] = "connected" /\ backendOf[handles[h].owner] = "loaded"
            /\ ~stuck /\ injecting.kind # kind /\ handles[h].born < injected[kind] =>
                 lastValue[h] = injected[kind] \/ h \in missed
=============================================================================
