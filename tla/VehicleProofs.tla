---------------------------- MODULE VehicleProofs ----------------------------
(***************************************************************************)
(* Theorems about the vehicle's side, for any thresholds, clients of the   *)
(* flight controller, providers, panels, pictures and frames, and any      *)
(* clients, files, markers and requests of the map.                        *)
(***************************************************************************)
EXTENDS MCVehicle, TLAPS, WellFoundedInduction

-----------------------------------------------------------------------------
(* The thresholds of the battery (NodeParameters).                         *)

\* A set of numbers has a least one, and one that is bounded has a greatest.
LEMMA LeastNumber ==
    ASSUME NEW T, T \subseteq Nat, T # {}
    PROVE  \E n \in T : \A m \in T : n <= m
<1> DEFINE Less == OpToRel(<, Nat)
<1>1. IsWellFoundedOn(Less, Nat)
  BY NatLessThanWellFounded
<1>2. PICK n \in T : \A m \in T : <<m, n>> \notin Less
  BY <1>1, WFMin
<1>3. \A m \in T : ~(m < n)
  BY <1>2 DEF OpToRel
<1>4. QED BY <1>3

LEMMA GreatestNumber ==
    ASSUME NEW n \in Nat, NEW T, T \subseteq 0 .. n, T # {}
    PROVE  Max(T) \in T /\ \A m \in T : m <= Max(T)
<1> DEFINE Below == {n - m : m \in T}
<1>1. Below \subseteq Nat /\ Below # {}
  <2>1. \A m \in T : m \in Nat /\ n - m \in Nat
    OBVIOUS
  <2>2. QED BY <2>1
<1>2. PICK k \in Below : \A j \in Below : k <= j
  BY <1>1, LeastNumber
<1>3. PICK m \in T : k = n - m
  BY <1>2
<1>4. \A j \in T : m >= j
  BY <1>2, <1>3
<1>5. QED BY <1>3, <1>4 DEF Max

InOrder(kept) == kept \in [Names -> 0 .. Full] /\ kept["error"] < kept["warn"]
Batch(b) == /\ Len(b) \in Nat /\ DOMAIN b = 1 .. Len(b)
            /\ \A i \in 1 .. Len(b) : b[i].name \in Names /\ b[i].value \in Int

\* A functor that does not throw keeps the thresholds in order.
LEMMA AllowedKeepsOrder ==
    ASSUME NEW kept, InOrder(kept), NEW p, p.name \in Names, p.value \in Int,
           Allowed(kept, p), NEW after \in [Names -> Int],
           \A n \in Names : after[n] = IF n = p.name THEN p.value ELSE kept[n]
    PROVE  InOrder(after)
<1>1. /\ Full \in Nat /\ p.value \in Int /\ "warn" \in Names /\ "error" \in Names
      /\ Names = {"warn", "error"}
  BY ThresholdAssumption DEF Names
<1>2. kept["warn"] \in 0 .. Full /\ kept["error"] \in 0 .. Full /\ kept["error"] < kept["warn"]
  BY <1>1 DEF InOrder
<1>3. CASE p.name = "warn"
  <2>1. p.value \in 0 .. Full /\ kept["error"] < p.value
    BY <1>1, <1>3 DEF Allowed
  <2>2. QED BY <1>1, <1>2, <1>3, <2>1 DEF InOrder
<1>4. CASE p.name = "error"
  <2>1. p.value \in 0 .. Full /\ p.value < kept["warn"]
    BY <1>1, <1>2, <1>4 DEF Allowed
  <2>2. QED BY <1>1, <1>2, <1>4, <2>1 DEF InOrder
<1>5. QED BY <1>1, <1>3, <1>4

\* The last of the parameters of a name, if there are any among the first k.
LEMMA LastNamed ==
    ASSUME NEW b, Batch(b), NEW k \in 0 .. Len(b), NEW n \in Names,
           Named(b, n, k) # {}
    PROVE  /\ Max(Named(b, n, k)) \in 1 .. k
           /\ \A i \in 1 .. k : b[i].name = n => i <= Max(Named(b, n, k))
<1>1. k \in Nat /\ Named(b, n, k) \subseteq 0 .. k
  BY DEF Batch, Named
<1>2. Max(Named(b, n, k)) \in Named(b, n, k) /\ \A m \in Named(b, n, k) : m <= Max(Named(b, n, k))
  BY <1>1, GreatestNumber
<1>3. QED BY <1>2 DEF Named

LEMMA KeepingType ==
    ASSUME NEW kept \in [Names -> 0 .. Full], NEW b, Batch(b), NEW k \in 0 .. Len(b)
    PROVE  Keeping(kept, b, k) \in [Names -> Int]
<1> SUFFICES ASSUME NEW n \in Names PROVE Keeping(kept, b, k)[n] \in Int
  BY DEF Keeping
<1>1. CASE Named(b, n, k) = {}
  BY <1>1 DEF Keeping
<1>2. CASE Named(b, n, k) # {}
  <2>1. Max(Named(b, n, k)) \in 1 .. Len(b)
    BY <1>2, LastNamed DEF Batch
  <2>2. b[Max(Named(b, n, k))].value \in Int
    BY <2>1, ThresholdAssumption DEF Batch
  <2>3. QED BY <1>2, <2>2 DEF Keeping
<1>3. QED BY <1>1, <1>2

\* The functor after the first k keeps its value over what they kept.
LEMMA KeepingStep ==
    ASSUME NEW kept, NEW b, Batch(b)
    PROVE  \A k \in 1 .. Len(b), n \in Names :
               Keeping(kept, b, k)[n] =
                   IF n = b[k].name THEN b[k].value ELSE Keeping(kept, b, k - 1)[n]
<1> TAKE k \in 1 .. Len(b), n \in Names
<1>1. CASE n = b[k].name
  <2>1. k \in Named(b, n, k)
    BY <1>1 DEF Batch, Named
  <2>2. Max(Named(b, n, k)) \in 1 .. k /\ k <= Max(Named(b, n, k))
    BY <1>1, <2>1, LastNamed DEF Batch
  <2>3. Max(Named(b, n, k)) = k
    BY <2>2 DEF Batch
  <2>4. QED BY <1>1, <2>1, <2>3 DEF Keeping
<1>2. CASE n # b[k].name
  <2>1. Named(b, n, k) = Named(b, n, k - 1)
    BY <1>2 DEF Batch, Named
  <2>2. QED BY <1>2, <2>1 DEF Keeping
<1>3. QED BY <1>1, <1>2

LEMMA RunningKeepsOrder ==
    ASSUME NEW kept, InOrder(kept), NEW b, Batch(b), NEW ran \in 0 .. Len(b),
           \A i \in 1 .. ran : Allowed(Keeping(kept, b, i - 1), b[i])
    PROVE  InOrder(Keeping(kept, b, ran))
<1> DEFINE Wrong == {k \in 0 .. ran : ~InOrder(Keeping(kept, b, k))}
<1> SUFFICES ASSUME Wrong # {} PROVE FALSE
  BY DEF Batch
<1>1. PICK k \in Wrong : \A j \in Wrong : k <= j
  <2>1. Wrong \subseteq Nat
    OBVIOUS
  <2>2. QED BY <2>1, LeastNumber
<1>2. k # 0
  <2>1. \A n \in Names : Named(b, n, 0) = {}
    BY DEF Named
  <2>2. Keeping(kept, b, 0) = kept
    BY <2>1 DEF Keeping, InOrder
  <2>3. QED BY <1>1, <2>2
<1>3. k \in 1 .. Len(b) /\ k \in 1 .. ran /\ k - 1 \in 0 .. ran
  BY <1>1, <1>2 DEF Batch
<1>4. InOrder(Keeping(kept, b, k - 1)) /\ Allowed(Keeping(kept, b, k - 1), b[k])
  BY <1>1, <1>3
<1>5. b[k].name \in Names /\ b[k].value \in Int
  BY <1>3 DEF Batch
<1>6. Keeping(kept, b, k) \in [Names -> Int]
  <2>1. k \in 0 .. Len(b) /\ kept \in [Names -> 0 .. Full]
    BY <1>3 DEF InOrder, Batch
  <2>2. QED BY <2>1, KeepingType
<1>7. \A n \in Names : Keeping(kept, b, k)[n] =
          IF n = b[k].name THEN b[k].value ELSE Keeping(kept, b, k - 1)[n]
  <2>1. Batch(b)
    OBVIOUS
  <2>2. \A j \in 1 .. Len(b), n \in Names :
               Keeping(kept, b, j)[n] =
                   IF n = b[j].name THEN b[j].value ELSE Keeping(kept, b, j - 1)[n]
    BY <2>1, KeepingStep
  <2>3. k \in 1 .. Len(b)
    BY <1>3
  <2>4. QED BY <2>2, <2>3
<1>8. InOrder(Keeping(kept, b, k))
  BY <1>4, <1>5, <1>6, <1>7, AllowedKeepsOrder
<1>9. QED BY <1>1, <1>8

\* What a request leaves is in order, and what it does not name is as it was.
LEMMA RequestKeepsOrder ==
    ASSUME NEW kept, InOrder(kept), NEW b, Batch(b)
    PROVE  /\ InOrder(FunctorsRun(kept, b).kept)
           /\ FunctorsRun(kept, b).ok \in BOOLEAN
           /\ \A n \in Names : (\A i \in DOMAIN b : b[i].name # n) =>
                 FunctorsRun(kept, b).kept[n] = kept[n]
<1> DEFINE Fits == {k \in 0 .. Len(b) : \A i \in 1 .. k : Allowed(Keeping(kept, b, i - 1), b[i])}
           ran == Max(Fits)
<1>1. Len(b) \in Nat /\ Fits \subseteq 0 .. Len(b) /\ 0 \in Fits
  BY DEF Batch
<1>2. ran \in Fits
  BY <1>1, GreatestNumber
<1>3. FunctorsRun(kept, b) = [ok |-> ran = Len(b), kept |-> Keeping(kept, b, ran)]
  BY DEF FunctorsRun
<1>4. InOrder(Keeping(kept, b, ran))
  BY <1>1, <1>2, RunningKeepsOrder
<1>5. ASSUME NEW n \in Names, \A i \in DOMAIN b : b[i].name # n
      PROVE  Keeping(kept, b, ran)[n] = kept[n]
  <2>1. DOMAIN b = 1 .. Len(b)
    BY DEF Batch
  <2>2. Named(b, n, ran) = {}
    <3>1. 1 .. ran \subseteq 1 .. Len(b)
      <4> HIDE DEF ran
      <4>1. ran \in 0 .. Len(b)
        BY <1>2
      <4>2. QED BY <1>1, <4>1
    <3>2. QED BY <3>1, <1>5, <2>1 DEF Named
  <2>3. QED BY <2>2 DEF Keeping
<1>6. QED BY <1>3, <1>4, <1>5

LEMMA ParametersKeep ==
    ASSUME ThresholdsSound, [ParametersNext]_parameterVars
    PROVE  ThresholdsSound'
<1>1. InOrder(members) /\ InOrder(Initial)
  <2>1. Names = {"warn", "error"}
    BY DEF Names
  <2>2. Initial["warn"] = WarnDefault /\ Initial["error"] = ErrorDefault
    BY <2>1 DEF Initial
  <2>3. InOrder(Initial)
    <3>1. ErrorDefault \in 0 .. Full /\ WarnDefault \in 0 .. Full
      BY ThresholdAssumption
    <3>2. Initial \in [Names -> 0 .. Full]
      BY <2>1, <3>1 DEF Initial
    <3>3. QED BY <2>2, <3>2, ThresholdAssumption DEF InOrder
  <2>4. InOrder(members)
    BY DEF InOrder, ThresholdsSound, ParameterTypeOK
  <2>5. QED BY <2>3, <2>4
<1>2. ASSUME InOrder(members')
      PROVE  /\ members' \in [Names -> 0 .. Full]
             /\ 0 <= members'["error"] /\ members'["error"] < members'["warn"]
             /\ members'["warn"] <= Full
             /\ members' \in [Names -> -1 .. Full]
  <2>1. Full \in Nat
    BY ThresholdAssumption
  <2>2. Names = {"warn", "error"}
    BY DEF Names
  <2>3. QED BY <1>2, <2>1, <2>2 DEF InOrder
<1>3. NoTask \in [Names -> -1 .. Full]
  BY ThresholdAssumption DEF NoTask
<1>4. CASE StartNode
  <2> DEFINE says(n) == IF overrides[n] = NoOverride THEN Initial[n] ELSE overrides[n]
             batch == <<[name |-> "warn", value |-> says("warn")],
                        [name |-> "error", value |-> says("error")]>>
             outcome == FunctorsRun(Initial, batch)
  <2>1. Names = {"warn", "error"} /\ \A n \in Names : says(n) \in Int
    <3>1. Names = {"warn", "error"} /\ Full \in Nat /\ Threshold \subseteq Int
      BY ThresholdAssumption DEF Names
    <3>2. \A n \in Names : Initial[n] \in Int
      BY <1>1, <3>1 DEF InOrder
    <3>3. \A n \in Names : overrides[n] # NoOverride => overrides[n] \in Int
      BY <3>1 DEF ThresholdsSound, ParameterTypeOK
    <3>4. QED BY <3>1, <3>2, <3>3
  <2> HIDE DEF says
  <2>2. Batch(batch)
    <3>1. Len(batch) = 2 /\ DOMAIN batch = 1 .. 2
      OBVIOUS
    <3>2. batch[1].name \in Names /\ batch[1].value \in Int
      BY <2>1
    <3>3. batch[2].name \in Names /\ batch[2].value \in Int
      BY <2>1
    <3>4. QED BY <3>1, <3>2, <3>3 DEF Batch
  <2>3. /\ nodeLife' = IF outcome.ok THEN "unconfigured" ELSE "ended"
        /\ members' = outcome.kept
        /\ parameters' = IF outcome.ok THEN outcome.kept ELSE parameters
        /\ UNCHANGED <<overrides, task, halfSet>>
    BY <1>4 DEF StartNode, says
  <2> HIDE DEF batch
  <2>4. InOrder(outcome.kept) /\ outcome.ok \in BOOLEAN
    BY <1>1, <2>2, RequestKeepsOrder
  <2> HIDE DEF outcome
  <2>5. nodeLife' \in {"unconfigured", "ended"} /\ InOrder(members')
    BY <2>3, <2>4
  <2>6. parameters' \in [Names -> 0 .. Full]
    BY <2>3, <2>4 DEF InOrder, ThresholdsSound, ParameterTypeOK
  <2>7. nodeLife' # "ended" => parameters' = members'
    BY <2>3
  <2>8. ParameterTypeOK'
    BY <1>2, <2>3, <2>5, <2>6 DEF ThresholdsSound, ParameterTypeOK
  <2>9. QED BY <1>2, <2>5, <2>7, <2>8 DEF ThresholdsSound
<1>5. CASE ConfigureNode \/ CleanupNode
  BY <1>1, <1>2, <1>3, <1>5 DEF ConfigureNode, CleanupNode, ThresholdsSound, ParameterTypeOK
<1>6. ASSUME NEW b \in Batches, SetParameters(b)
      PROVE  ThresholdsSound'
  <2> DEFINE outcome == FunctorsRun(members, b)
             named == {b[i].name : i \in DOMAIN b}
             changed == {n \in Names : outcome.kept[n] # members[n]}
  <2>1. Batch(b)
    <3>1. PICK k \in 1 .. LongestBatch : b \in [1 .. k -> [name : Names, value : Threshold]]
      BY <1>6 DEF Batches
    <3>2. k \in Nat /\ DOMAIN b = 1 .. k /\ Threshold \subseteq Int
      BY <3>1, ThresholdAssumption
    <3>3. Len(b) = k
      BY <3>1, <3>2
    <3>4. QED BY <3>1, <3>2, <3>3 DEF Batch
  <2>2. /\ nodeLife \in {"unconfigured", "configured"}
        /\ members' = outcome.kept /\ task' = TaskGiven(outcome.kept)
        /\ parameters' = [n \in Names |-> IF outcome.ok /\ n \in named THEN outcome.kept[n]
                                           ELSE parameters[n]]
        /\ halfSet' = IF outcome.ok THEN halfSet \ named ELSE halfSet \cup changed
        /\ UNCHANGED <<nodeLife, overrides>>
    BY <1>6 DEF SetParameters
  <2>3. /\ InOrder(outcome.kept) /\ outcome.ok \in BOOLEAN
        /\ \A n \in Names \ named : outcome.kept[n] = members[n]
    BY <1>1, <2>1, RequestKeepsOrder
  <2> HIDE DEF outcome, named
  <2>4. InOrder(members')
    BY <2>2, <2>3
  <2>5. parameters' \in [Names -> 0 .. Full]
    BY <2>2, <2>3 DEF InOrder, ThresholdsSound, ParameterTypeOK
  <2>6. nodeLife' = "configured" => task' = members'
    BY <2>2 DEF TaskGiven, ThresholdsSound
  <2>7. task' \in [Names -> -1 .. Full]
    BY <1>2, <2>2, <2>4 DEF TaskGiven, ThresholdsSound, ParameterTypeOK
  <2>8. \A n \in Names \ halfSet' : parameters'[n] = members'[n]
    <3> TAKE n \in Names \ halfSet'
    <3>1. nodeLife # "ended"
      BY <2>2
    <3>2. CASE outcome.ok /\ n \in named
      BY <2>2, <3>2
    <3>3. CASE outcome.ok /\ n \notin named
      <4>1. n \notin halfSet /\ outcome.kept[n] = members[n]
        BY <2>2, <2>3, <3>3
      <4>2. QED BY <2>2, <3>1, <3>3, <4>1 DEF ThresholdsSound
    <3>4. CASE ~outcome.ok
      <4>1. n \notin halfSet /\ outcome.kept[n] = members[n]
        BY <2>2, <3>4
      <4>2. QED BY <2>2, <3>1, <3>4, <4>1 DEF ThresholdsSound
    <3>5. QED BY <2>3, <3>2, <3>3, <3>4
  <2>9. halfSet' \subseteq Names
    BY <2>2 DEF ThresholdsSound, ParameterTypeOK
  <2>10. ParameterTypeOK'
    BY <1>2, <2>2, <2>4, <2>5, <2>7, <2>9 DEF ThresholdsSound, ParameterTypeOK
  <2>11. QED BY <1>2, <2>4, <2>6, <2>8, <2>10 DEF ThresholdsSound
<1>7. CASE UNCHANGED parameterVars
  BY <1>7 DEF parameterVars, ThresholdsSound, ParameterTypeOK
<1>8. QED BY <1>4, <1>5, <1>6, <1>7 DEF ParametersNext

LEMMA ParametersStart == ParametersInit => ThresholdsSound
<1> SUFFICES ASSUME ParametersInit PROVE ThresholdsSound
  OBVIOUS
<1>1. QED
  BY ThresholdAssumption DEF ParametersInit, ThresholdsSound, ParameterTypeOK, Initial, NoTask, Names

-----------------------------------------------------------------------------
(* Telemetry (FcuProviders).                                               *)

ListTypes ==
    /\ listed \in [Telemetry -> Seq(Provider)]
    /\ injecting = NoInjection \/ /\ injecting \in [kind : Telemetry, at : Nat]
                                  /\ injecting.at \in 1 .. Len(listed[injecting.kind])

\* Every provider that lives is in the list of its kind, and in no other.
ListedInv ==
    /\ \A h \in Live : \E i \in 1 .. Len(listed[handles[h].kind]) : listed[handles[h].kind][i] = h
    /\ \A k \in Telemetry : \A i \in 1 .. Len(listed[k]) :
           listed[k][i] \in Live => handles[listed[k][i]].kind = k

OwnersInv ==
    \A h \in Live : fcuLife[handles[h].owner] = "connected" /\ backendOf[handles[h].owner] = "loaded"

\* The injection under way still comes to a provider.
Ahead(h) ==
    /\ injecting.kind = handles[h].kind
    /\ \E i \in 1 .. Len(listed[handles[h].kind]) :
           i >= injecting.at /\ listed[handles[h].kind][i] = h

\* Who was there before has the last value of its kind, was passed over as a callback threw,
\* or is still ahead.
ReachedInv ==
    ~stuck => \A h \in Live : handles[h].born < injected[handles[h].kind] =>
                  lastValue[h] = injected[handles[h].kind] \/ h \in missed \/ Ahead(h)

ProviderInv ==
    ProviderTypeOK /\ ListTypes /\ ListedInv /\ OwnersInv /\ ReachedInv /\ missed \subseteq Live

LEMMA ProvidersStart == ProviderInit => ProviderInv
<1> SUFFICES ASSUME ProviderInit PROVE ProviderInv
  OBVIOUS
<1> USE ProviderAssumption DEF ProviderInit
<1>1. Live = {}
  BY DEF Live, NoHandles
<1>2. listed \in [Telemetry -> Seq(Provider)] /\ \A k \in Telemetry : listed[k] = <<>>
  OBVIOUS
<1>3. \A k \in Telemetry : Range(listed[k]) \subseteq Provider
  BY <1>2 DEF Range
<1>4. ProviderTypeOK
  <2>1. /\ fcuLife \in [FcuClient -> {"new", "connected", "failed"}]
        /\ backendOf \in [FcuClient -> {"none", "created", "loaded"}]
        /\ injecting.kind \in Telemetry \cup {"none"}
        /\ missed \subseteq Provider /\ stuck \in BOOLEAN /\ commandLog \in Nat
    BY DEF NoInjection
  <2>2. injected \in [Telemetry -> 0 .. MaxInjections] /\ lastValue \in [Provider -> 0 .. MaxInjections]
    OBVIOUS
  <2> HIDE DEF ProviderInit
  <2>3. QED BY <1>1, <1>3, <2>1, <2>2 DEF ProviderTypeOK
<1>5. QED BY <1>1, <1>2, <1>4 DEF ProviderInv, ListTypes, ListedInv, OwnersInv, ReachedInv

\* Lists of providers are ranges of providers.
LEMMA ListsOfProviders ==
    ASSUME NEW l \in [Telemetry -> Seq(Provider)]
    PROVE  \A k \in Telemetry : Range(l[k]) \subseteq Provider
  BY DEF Range

LEMMA ConnectKeeps ==
    ASSUME ProviderInv, NEW c \in FcuClient, NEW required, ConnectClient(c, required)
    PROVE  ProviderInv'
<1> USE DEF ProviderInv, ConnectClient, Live
<1>1. ProviderTypeOK'
  BY DEF ProviderTypeOK
<1>2. ListTypes' /\ ListedInv' /\ ReachedInv'
  BY DEF ListTypes, ListedInv, ReachedInv, Ahead
<1>3. OwnersInv'
  <2>1. \A h \in Live : handles[h].owner \in FcuClient /\ handles[h].owner # c
    BY DEF OwnersInv, ProviderTypeOK
  <2>2. QED BY <2>1 DEF OwnersInv, ProviderTypeOK
<1>4. QED BY <1>1, <1>2, <1>3

LEMMA GetKeeps ==
    ASSUME ProviderInv, NEW c \in FcuClient, NEW h \in Provider, NEW k \in Telemetry,
           NEW reacts \in Reaction, GetProvider(c, h, k, reacts)
    PROVE  ProviderInv'
<1> DEFINE new == [owner |-> c, kind |-> k, reacts |-> reacts, born |-> injected[k]]
<1>1. /\ ~stuck /\ injecting = NoInjection /\ h \notin Live
      /\ \A j \in Telemetry : \A i \in 1 .. Len(listed[j]) : listed[j][i] # h
      /\ fcuLife[c] = "connected"
  BY DEF GetProvider, InjectionIdle, ProviderInv, ListTypes, Range
<1>2. /\ handles' = [i \in Live \cup {h} |-> IF i = h THEN new ELSE handles[i]]
      /\ backendOf' = [backendOf EXCEPT ![c] = "loaded"]
      /\ listed' = [listed EXCEPT ![k] = Append(listed[k], h)]
      /\ UNCHANGED <<fcuLife, injected, injecting, lastValue, missed, stuck, commandLog>>
  BY DEF GetProvider, Listed
<1>3. /\ Live' = Live \cup {h} /\ handles'[h] = new
      /\ \A g \in Live : handles'[g] = handles[g] /\ g # h
  BY <1>1, <1>2 DEF Live
<1>4. listed' \in [Telemetry -> Seq(Provider)]
  BY <1>2 DEF ProviderInv, ListTypes
<1>5. ProviderTypeOK'
  <2>1. \A j \in Telemetry : Range(listed'[j]) \subseteq Provider
    BY <1>4, ListsOfProviders
  <2>2. \A g \in Live' : handles'[g].owner \in FcuClient /\ handles'[g].kind \in Telemetry
                         /\ handles'[g].reacts \in Reaction
    BY <1>3 DEF ProviderInv, ProviderTypeOK
  <2>3. QED BY <1>2, <1>3, <2>1, <2>2 DEF ProviderInv, ProviderTypeOK
<1>6. ListTypes'
  BY <1>1, <1>2, <1>4 DEF ListTypes, NoInjection
<1>7. /\ listed[k] \in Seq(Provider) /\ listed'[k] = Append(listed[k], h)
      /\ Len(listed'[k]) = Len(listed[k]) + 1 /\ listed'[k][Len(listed[k]) + 1] = h
      /\ Len(listed[k]) \in Nat
      /\ \A i \in 1 .. Len(listed[k]) : listed'[k][i] = listed[k][i]
      /\ \A j \in Telemetry : j # k => listed'[j] = listed[j]
  BY <1>2 DEF ProviderInv, ListTypes
<1>8. ListedInv'
  <2>1. ASSUME NEW g \in Live
        PROVE  \E i \in 1 .. Len(listed'[handles[g].kind]) : listed'[handles[g].kind][i] = g
    <3>1. PICK i \in 1 .. Len(listed[handles[g].kind]) : listed[handles[g].kind][i] = g
      BY DEF ProviderInv, ListedInv
    <3>2. handles[g].kind \in Telemetry
      BY DEF ProviderInv, ProviderTypeOK
    <3>3. CASE handles[g].kind = k
      <4>1. i \in 1 .. Len(listed'[k]) /\ listed'[k][i] = g
        BY <1>7, <3>1, <3>3
      <4>2. QED BY <3>3, <4>1
    <3>4. CASE handles[g].kind # k
      BY <1>7, <3>1, <3>2, <3>4
    <3>5. QED BY <3>3, <3>4
  <2>2. \E i \in 1 .. Len(listed'[k]) : listed'[k][i] = h
    BY <1>7
  <2>3. ASSUME NEW j \in Telemetry, NEW i \in 1 .. Len(listed'[j]), listed'[j][i] \in Live'
        PROVE  handles'[listed'[j][i]].kind = j
    <3>1. CASE j = k /\ i = Len(listed[k]) + 1
      BY <1>3, <1>7, <3>1
    <3>2. CASE ~(j = k /\ i = Len(listed[k]) + 1)
      <4>1. i \in 1 .. Len(listed[j]) /\ listed'[j][i] = listed[j][i]
        BY <1>7, <2>3, <3>2
      <4>2. QED BY <1>1, <1>3, <2>3, <4>1 DEF ProviderInv, ListedInv
    <3>3. QED BY <3>1, <3>2
  <2>4. QED BY <1>3, <2>1, <2>2, <2>3 DEF ListedInv
<1>9. OwnersInv'
  BY <1>1, <1>2, <1>3 DEF OwnersInv, ProviderInv, ProviderTypeOK
<1>10. ReachedInv'
  <2>1. injecting.kind \notin Telemetry
    BY <1>1, ProviderAssumption DEF NoInjection
  <2>2. \A g \in Live : ~Ahead(g)
    BY <2>1 DEF Ahead, ProviderInv, ProviderTypeOK
  <2>3. ~(injected[k] < injected[k])
    BY DEF ProviderInv, ProviderTypeOK
  <2>4. QED BY <1>1, <1>2, <1>3, <2>2, <2>3 DEF ReachedInv, ProviderInv
<1>11. QED BY <1>2, <1>3, <1>5, <1>6, <1>8, <1>9, <1>10 DEF ProviderInv

LEMMA DropKeeps ==
    ASSUME ProviderInv, NEW h \in Provider, DropProvider(h)
    PROVE  ProviderInv'
<1>1. /\ ~stuck /\ Live' = Live \ {h} /\ missed' = missed \ {h}
      /\ \A g \in Live' : handles'[g] = handles[g]
      /\ UNCHANGED <<fcuLife, backendOf, listed, injected, injecting, lastValue, stuck, commandLog>>
  BY DEF DropProvider, Live
<1>2. ProviderTypeOK'
  BY <1>1 DEF ProviderTypeOK, ProviderInv
<1>3. ListTypes' /\ ListedInv' /\ OwnersInv'
  BY <1>1 DEF ListTypes, ListedInv, OwnersInv, ProviderInv
<1>4. \A g \in Live' : Ahead(g)' <=> Ahead(g)
  BY <1>1 DEF Ahead
<1>5. ReachedInv'
  BY <1>1, <1>4 DEF ReachedInv, ProviderInv
<1>6. QED BY <1>1, <1>2, <1>3, <1>5 DEF ProviderInv

LEMMA LogsKeep ==
    ASSUME ProviderInv, Command \/ ResetRegistry
    PROVE  ProviderInv'
<1>1. /\ commandLog' \in Nat
      /\ UNCHANGED <<fcuLife, backendOf, handles, listed, injected, injecting, lastValue, missed,
                     stuck>>
  BY DEF Command, ResetRegistry
<1>2. Live' = Live
  BY <1>1 DEF Live
<1>3. ProviderTypeOK'
  BY <1>1, <1>2 DEF ProviderInv, ProviderTypeOK
<1>4. ListTypes' /\ ListedInv' /\ OwnersInv'
  BY <1>1, <1>2 DEF ProviderInv, ListTypes, ListedInv, OwnersInv
<1>5. ReachedInv'
  BY <1>1, <1>2 DEF ProviderInv, ReachedInv, Ahead
<1>6. QED BY <1>1, <1>2, <1>3, <1>4, <1>5 DEF ProviderInv

LEMMA InjectKeeps ==
    ASSUME ProviderInv, NEW k \in Telemetry, Inject(k)
    PROVE  ProviderInv'
<1>1. /\ ~stuck /\ injecting = NoInjection /\ injected[k] < MaxInjections
      /\ injected' = [injected EXCEPT ![k] = @ + 1]
      /\ injecting' = IF listed[k] = <<>> THEN NoInjection ELSE [kind |-> k, at |-> 1]
      /\ missed' = {h \in missed : handles[h].kind # k}
      /\ UNCHANGED <<fcuLife, backendOf, handles, listed, lastValue, stuck, commandLog>>
  BY DEF Inject, InjectionIdle, ProviderInv, ListTypes
<1>2. Live' = Live
  BY <1>1 DEF Live
<1>3. injected' \in [Telemetry -> 0 .. MaxInjections]
  BY <1>1, ProviderAssumption DEF ProviderInv, ProviderTypeOK
<1>4. ProviderTypeOK'
  BY <1>1, <1>2, <1>3 DEF ProviderInv, ProviderTypeOK, NoInjection
<1>5. listed[k] \in Seq(Provider) /\ (listed[k] # <<>> => 1 <= Len(listed[k]))
  BY DEF ProviderInv, ListTypes
<1>6. ListTypes'
  BY <1>1, <1>5 DEF ProviderInv, ListTypes
<1>7. ListedInv' /\ OwnersInv'
  BY <1>1, <1>2 DEF ProviderInv, ListedInv, OwnersInv
<1>8. ReachedInv'
  <2> SUFFICES ASSUME NEW h \in Live, handles[h].born < injected'[handles[h].kind]
               PROVE  lastValue[h] = injected'[handles[h].kind] \/ h \in missed' \/ Ahead(h)'
    BY <1>1, <1>2 DEF ReachedInv
  <2>1. CASE handles[h].kind = k
    <3>1. PICK i \in 1 .. Len(listed[k]) : listed[k][i] = h
      BY <2>1 DEF ProviderInv, ListedInv
    <3>2. listed[k] # <<>> /\ i >= 1
      BY <1>5, <3>1
    <3>3. injecting' = [kind |-> k, at |-> 1]
      BY <1>1, <3>2
    <3>4. QED BY <1>1, <2>1, <3>1, <3>2, <3>3 DEF Ahead
  <2>2. CASE handles[h].kind # k
    <3>1. injected'[handles[h].kind] = injected[handles[h].kind]
      BY <1>1, <2>2 DEF ProviderInv, ProviderTypeOK
    <3>2. ~Ahead(h)
      BY <1>1, ProviderAssumption DEF Ahead, NoInjection, ProviderInv, ProviderTypeOK
    <3>3. QED BY <1>1, <2>2, <3>1, <3>2 DEF ReachedInv, ProviderInv
  <2>3. QED BY <2>1, <2>2
<1>9. QED BY <1>1, <1>2, <1>4, <1>6, <1>7, <1>8 DEF ProviderInv

\* The pointer an injection has come to is a provider of its kind, if it still lives.
LEMMA AtCurrent ==
    ASSUME ProviderInv, ~InjectionIdle
    PROVE  /\ injecting.kind \in Telemetry /\ injecting \in [kind : Telemetry, at : Nat]
           /\ injecting.at \in 1 .. Len(listed[injecting.kind])
           /\ Len(listed[injecting.kind]) \in Nat
           /\ Current \in Provider
           /\ Current \in Live => handles[Current].kind = injecting.kind
<1>1. /\ injecting \in [kind : Telemetry, at : Nat]
      /\ injecting.at \in 1 .. Len(listed[injecting.kind])
  BY DEF ProviderInv, ListTypes, InjectionIdle, NoInjection
<1>2. listed[injecting.kind] \in Seq(Provider)
  BY <1>1 DEF ProviderInv, ListTypes
<1>3. QED BY <1>1, <1>2 DEF Current, ProviderInv, ListedInv

\* Going on leaves only the pointer it has come to behind.
LEMMA OnwardKeeps ==
    ASSUME ProviderInv, ~InjectionIdle
    PROVE  /\ Onward = NoInjection \/ /\ Onward \in [kind : Telemetry, at : Nat]
                                      /\ Onward.at \in 1 .. Len(listed[Onward.kind])
           /\ Onward.kind \in Telemetry \cup {"none"}
           /\ \A h \in Live : Ahead(h) /\ h # Current =>
                 /\ Onward.kind = handles[h].kind
                 /\ \E i \in 1 .. Len(listed[handles[h].kind]) :
                        i >= Onward.at /\ listed[handles[h].kind][i] = h
<1> DEFINE next == [injecting EXCEPT !.at = @ + 1]
<1>1. /\ next \in [kind : Telemetry, at : Nat]
      /\ next.kind = injecting.kind /\ next.at = injecting.at + 1
  BY AtCurrent
<1>2. Onward = IF injecting.at < Len(listed[injecting.kind]) THEN next ELSE NoInjection
  BY DEF Onward
<1>3. injecting.at < Len(listed[injecting.kind]) => next.at \in 1 .. Len(listed[next.kind])
  BY <1>1, AtCurrent
<1>4. NoInjection.kind = "none"
  BY DEF NoInjection
<1> HIDE DEF next
<1>5. ASSUME NEW h \in Live, Ahead(h), h # Current
      PROVE  /\ Onward.kind = handles[h].kind
             /\ \E i \in 1 .. Len(listed[handles[h].kind]) :
                    i >= Onward.at /\ listed[handles[h].kind][i] = h
  <2>1. injecting.kind = handles[h].kind
    BY <1>5 DEF Ahead
  <2>2. PICK i \in 1 .. Len(listed[injecting.kind]) :
            i >= injecting.at /\ listed[injecting.kind][i] = h
    BY <1>5 DEF Ahead
  <2>3. i # injecting.at
    BY <1>5, <2>2 DEF Current
  <2>4. i >= injecting.at + 1 /\ injecting.at < Len(listed[injecting.kind])
    BY <2>2, <2>3, AtCurrent
  <2>5. Onward = next
    BY <1>2, <2>4
  <2>6. QED BY <1>1, <2>1, <2>2, <2>4, <2>5
<1>6. Onward = NoInjection \/ /\ Onward \in [kind : Telemetry, at : Nat]
                              /\ Onward.at \in 1 .. Len(listed[Onward.kind])
  <2>1. CASE injecting.at < Len(listed[injecting.kind])
    <3>1. Onward = next
      BY <1>2, <2>1
    <3>2. QED BY <1>1, <1>3, <2>1, <3>1
  <2>2. CASE ~(injecting.at < Len(listed[injecting.kind]))
    BY <1>2, <2>2
  <2>3. QED BY <2>1, <2>2
<1>7. Onward.kind \in Telemetry \cup {"none"}
  BY <1>4, <1>6
<1>8. QED BY <1>5, <1>6, <1>7

LEMMA SkipKeeps ==
    ASSUME ProviderInv, SkipExpired
    PROVE  ProviderInv'
<1>1. /\ ~stuck /\ ~InjectionIdle /\ Current \notin Live /\ injecting' = Onward
      /\ UNCHANGED <<fcuLife, backendOf, handles, listed, injected, lastValue, missed, stuck,
                     commandLog>>
  BY DEF SkipExpired, PastExpired
<1>2. Live' = Live
  BY <1>1 DEF Live
<1>3. ProviderTypeOK'
  BY <1>1, <1>2, OnwardKeeps DEF ProviderInv, ProviderTypeOK
<1>4. ListTypes'
  BY <1>1, OnwardKeeps DEF ProviderInv, ListTypes
<1>5. ListedInv' /\ OwnersInv'
  BY <1>1, <1>2 DEF ProviderInv, ListedInv, OwnersInv
<1>6. \A h \in Live : Ahead(h) => Ahead(h)'
  BY <1>1, OnwardKeeps DEF Ahead
<1>7. ReachedInv'
  BY <1>1, <1>2, <1>6 DEF ProviderInv, ReachedInv
<1>8. QED BY <1>1, <1>2, <1>3, <1>4, <1>5, <1>7 DEF ProviderInv

LEMMA InjectOneKeeps ==
    ASSUME ProviderInv, InjectOne
    PROVE  ProviderInv'
<1> DEFINE later == {h \in Live : \E i \in DOMAIN listed[injecting.kind] :
                         i > injecting.at /\ listed[injecting.kind][i] = h}
<1>1. /\ ~stuck /\ ~InjectionIdle /\ Current \in Live
      /\ lastValue' = [lastValue EXCEPT ![Current] = injected[injecting.kind]]
      /\ UNCHANGED <<fcuLife, backendOf, handles, listed, injected, commandLog>>
  BY DEF InjectOne
<1>2. Live' = Live
  BY <1>1 DEF Live
<1>3. \/ injecting' = Onward /\ UNCHANGED <<missed, stuck>>
      \/ injecting' = NoInjection /\ missed' = missed \cup later /\ UNCHANGED stuck
      \/ stuck' = TRUE /\ UNCHANGED <<injecting, missed>>
  <2>1. handles[Current].reacts \in {"notes", "throws", "commands"}
    BY <1>1, ProviderAssumption DEF ProviderInv, ProviderTypeOK
  <2>2. QED BY <2>1 DEF InjectOne
<1>4. lastValue' \in [Provider -> 0 .. MaxInjections]
  <2>1. injected[injecting.kind] \in 0 .. MaxInjections
    BY <1>1, AtCurrent DEF ProviderInv, ProviderTypeOK
  <2>2. QED BY <1>1, <2>1 DEF ProviderInv, ProviderTypeOK
<1>5. later \subseteq Live /\ later \subseteq Provider
  BY DEF ProviderInv, ProviderTypeOK
<1>6. /\ missed' \subseteq Live /\ missed' \subseteq Provider /\ stuck' \in BOOLEAN
      /\ injecting'.kind \in Telemetry \cup {"none"}
  <2>1. missed' \subseteq Live /\ missed' \subseteq Provider /\ stuck' \in BOOLEAN
    BY <1>1, <1>3, <1>5 DEF ProviderInv, ProviderTypeOK
  <2>2. Onward.kind \in Telemetry \cup {"none"} /\ NoInjection.kind = "none"
    BY <1>1, OnwardKeeps DEF NoInjection
  <2>3. injecting.kind \in Telemetry
    BY <1>1, AtCurrent
  <2>4. QED BY <1>3, <2>1, <2>2, <2>3
<1>7. ProviderTypeOK'
  BY <1>1, <1>2, <1>4, <1>6 DEF ProviderInv, ProviderTypeOK
<1>8. ListTypes'
  BY <1>1, <1>3, OnwardKeeps DEF ProviderInv, ListTypes
<1>9. ListedInv' /\ OwnersInv'
  BY <1>1, <1>2 DEF ProviderInv, ListedInv, OwnersInv
<1>10. ReachedInv'
  <2> SUFFICES ASSUME ~stuck', NEW h \in Live, handles[h].born < injected[handles[h].kind]
               PROVE  lastValue'[h] = injected[handles[h].kind] \/ h \in missed' \/ Ahead(h)'
    BY <1>1, <1>2 DEF ReachedInv
  <2>1. CASE h = Current
    BY <1>1, <2>1, AtCurrent DEF ProviderInv, ProviderTypeOK
  <2>2. CASE h # Current
    <3>1. lastValue'[h] = lastValue[h]
      BY <1>1, <2>2 DEF ProviderInv, ProviderTypeOK
    <3>2. lastValue[h] = injected[handles[h].kind] \/ h \in missed \/ Ahead(h)
      BY <1>1 DEF ProviderInv, ReachedInv
    <3>3. CASE injecting' = Onward /\ UNCHANGED <<missed, stuck>>
      BY <1>1, <2>2, <3>1, <3>2, <3>3, OnwardKeeps DEF Ahead
    <3>4. CASE injecting' = NoInjection /\ missed' = missed \cup later
      <4>1. ASSUME Ahead(h) PROVE h \in later
        <5>1. injecting.kind = handles[h].kind
          BY <4>1 DEF Ahead
        <5>2. PICK i \in 1 .. Len(listed[injecting.kind]) :
                  i >= injecting.at /\ listed[injecting.kind][i] = h
          BY <4>1 DEF Ahead
        <5>3. i # injecting.at
          BY <2>2, <5>2 DEF Current
        <5>4. i > injecting.at /\ DOMAIN listed[injecting.kind] = 1 .. Len(listed[injecting.kind])
          BY <1>1, <5>2, <5>3, AtCurrent DEF ProviderInv, ListTypes
        <5>5. QED BY <5>2, <5>4
      <4>2. QED BY <3>1, <3>2, <3>4, <4>1
    <3>5. QED BY <1>3, <3>3, <3>4
  <2>3. QED BY <2>1, <2>2
<1>11. QED BY <1>1, <1>2, <1>6, <1>7, <1>8, <1>9, <1>10 DEF ProviderInv

LEMMA ProvidersKeep ==
    ASSUME ProviderInv, [ProviderNext]_providerVars
    PROVE  ProviderInv'
<1>1. CASE UNCHANGED providerVars
  <2>1. Live' = Live
    BY <1>1 DEF providerVars, Live
  <2>2. ProviderTypeOK'
    BY <1>1, <2>1 DEF providerVars, ProviderInv, ProviderTypeOK
  <2>3. ListTypes' /\ ListedInv' /\ OwnersInv'
    BY <1>1, <2>1 DEF providerVars, ProviderInv, ListTypes, ListedInv, OwnersInv
  <2>4. ReachedInv'
    BY <1>1, <2>1 DEF providerVars, ProviderInv, ReachedInv, Ahead
  <2>5. QED BY <1>1, <2>1, <2>2, <2>3, <2>4 DEF providerVars, ProviderInv
<1>2. QED
  BY <1>1, ConnectKeeps, GetKeeps, DropKeeps, LogsKeep, InjectKeeps, SkipKeeps, InjectOneKeeps
     DEF ProviderNext

\* What the invariant says of the providers when no injection of their kind is under way.
LEMMA ProvidersReached == ProviderInv => InjectionReaches
  BY DEF ProviderInv, InjectionReaches, OwnersInv, ReachedInv, Ahead

-----------------------------------------------------------------------------
(* Numbers.                                                                *)

LEMMA SmallMod ==
    ASSUME NEW m \in Nat \ {0}, NEW x \in 0 .. m - 1
    PROVE  x % m = x /\ x \div m = 0
  OBVIOUS

LEMMA Products ==
    ASSUME NEW a \in Nat, NEW b \in Nat, a <= b, NEW c \in Nat
    PROVE  a * c <= b * c /\ a * c \in Nat /\ (a + 1) * c = a * c + c
<1>1. (b - a) * c >= 0
  OBVIOUS
<1>2. (b - a) * c = b * c - a * c
  OBVIOUS
<1>3. (a + 1) * c = a * c + c
  OBVIOUS
<1>4. QED BY <1>1, <1>2, <1>3

\* The place of a row and a column in a picture that is a sequence of rows.
LEMMA PlaceOf ==
    ASSUME NEW m \in Nat \ {0}, NEW n \in Nat \ {0}, NEW p \in 0 .. n - 1, NEW x \in 0 .. m - 1
    PROVE  /\ p * m + x \in 0 .. m * n - 1
           /\ (p * m + x) \div m = p /\ (p * m + x) % m = x
<1>1. p * m >= 0 /\ p * m <= (n - 1) * m /\ (n - 1) * m = m * n - m
  BY Products
<1>2. p * m + x \in 0 .. m * n - 1
  BY <1>1
<1>3. (p * m + x) \div m = p
  OBVIOUS
<1>4. (p * m + x) % m = x
  OBVIOUS
<1>5. QED BY <1>2, <1>3, <1>4

LEMMA Eighths ==
    ASSUME NEW y \in Nat
    PROVE  8 * (y \div 8) + (y % 8) = y
  OBVIOUS

LEMMA RowParts ==
    ASSUME NEW n \in Nat \ {0}, NEW y \in 0 .. n * 8 - 1
    PROVE  /\ y \div 8 \in 0 .. n - 1 /\ y % 8 \in 0 .. 7 /\ (y \div 8) * 8 + (y % 8) = y
           /\ (y + 0) % (n * 8) = y
<1>1. n * 8 \in Nat \ {0} /\ y + 0 = y /\ y \in 0 .. (n * 8) - 1
  OBVIOUS
<1>2. y % (n * 8) = y
  BY <1>1, SmallMod
<1>3. (y + 0) % (n * 8) = y
  BY <1>1, <1>2
<1>4. y \in Nat /\ y < n * 8
  BY <1>1
<1>5. y % 8 \in 0 .. 7
  BY <1>4
<1>6. (y \div 8) * 8 + (y % 8) = y
  BY <1>4, <1>5, Eighths
<1>7. y \div 8 \in Nat
  BY <1>4
<1>8. y \div 8 < n
  BY <1>4, <1>5, <1>6
<1>9. QED BY <1>3, <1>5, <1>6, <1>7, <1>8

-----------------------------------------------------------------------------
(* The display.                                                            *)

Byte == 0 .. PageBits - 1
ChipType ==
    [command : {NoCommand, ColumnAddress, PageAddress}, given : {0, 1}, argument : Nat,
     firstColumn : 0 .. Columns - 1, lastColumn : 0 .. Columns - 1,
     firstPage : 0 .. Pages - 1, lastPage : 0 .. Pages - 1, column : 0 .. Columns - 1,
     page : 0 .. Pages - 1, line : 0 .. Columns - 1, ram : [Cells -> SUBSET Byte]]

DisplayTypes ==
    /\ device \in {"none", "absent", "loaded", "open", "ready"}
    /\ chip \in ChipType /\ buffer \in [Cells -> SUBSET Byte]
    /\ flushing \in [at : 0 .. AllBytes, picture : Picture \cup {NothingAsked}]
    /\ flushing.at = 0 => flushing = NoFlush
    /\ flushing.at > 0 /\ flushing.picture # NothingAsked => buffer = Packed(flushing.picture)
    /\ flushing.at > 0 /\ flushing.picture = NothingAsked => sound = 0
    /\ sound \in 0 .. 2 /\ cut \in BOOLEAN
    /\ device = "none" => chip = ChipOff /\ flushing = NoFlush /\ sound = 0 /\ ~cut

\* The flush under way began where a command ends: a picture was written before it, or no
\* transfer ever broke off inside a command.
Aligned == sound >= 1 \/ ~cut

\* What the controller waits for when a byte comes. Wherever it was, at the end of the
\* window's commands it is back where a command ends.
Waiting(k, c) ==
    /\ k <= 1 /\ Aligned => c.command = NoCommand
    /\ k = 2 /\ Aligned => c.command = ColumnAddress /\ c.given = 0
    /\ k = 3 => c.command = NoCommand \/ c.given = 1
    /\ k = 3 /\ Aligned => c.command = ColumnAddress /\ c.given = 1 /\ c.argument = 0
    /\ k = 4 \/ k >= 7 => c.command = NoCommand
    /\ k = 5 => c.command = PageAddress /\ c.given = 0
    /\ k = 6 => c.command = PageAddress /\ c.given = 1 /\ c.argument = 0
    /\ c.command = NoCommand => c.given = 0 /\ c.argument = 0
    /\ c.given = 0 => c.argument = 0

\* Once they are sent, the window is the whole display, and the place is that of the byte.
Placed(k, c) ==
    /\ k >= 4 => c.firstColumn = 0 /\ c.lastColumn = Columns - 1
    /\ k \in 4 .. 7 => c.column = 0
    /\ k >= 7 => /\ c.firstPage = 0 /\ c.lastPage = Pages - 1
                 /\ c.page * Columns + c.column = k - 7
                 /\ \A cell \in Cells : cell < k - 7 => c.ram[cell] = buffer[cell]

DrawnInv ==
    flushing.at = 0 /\ (sound = 2 \/ (sound >= 1 /\ ~cut)) => asks \in Picture /\ chip.ram = Packed(asks)

ReadyInv ==
    device = "ready" =>
        /\ Waiting(flushing.at, chip)
        /\ Aligned => Placed(flushing.at, chip)
        /\ ~cut => chip.line = 0
        /\ DrawnInv

DisplayInv == DisplayTypes /\ ReadyInv

\* Two controllers with the same window, place and memory; two that wait for the same.
SamePlace(c, d) ==
    /\ d.firstColumn = c.firstColumn /\ d.lastColumn = c.lastColumn /\ d.column = c.column
    /\ d.ram = c.ram
PendingSame(c, d) == d.command = c.command /\ d.given = c.given /\ d.argument = c.argument

LEMMA Sizes ==
    /\ Columns \in Nat /\ Columns >= 2 /\ Pages \in Nat /\ Pages >= 1 /\ Columns * Pages \in Nat
    /\ Columns * Pages >= 2 /\ AllBytes = 6 + Columns * Pages /\ AllBytes \in Nat
    /\ Len(Window) = 6
    /\ Window[1] = 33 /\ Window[2] = 0 /\ Window[3] = Columns - 1
    /\ Window[4] = 34 /\ Window[5] = 0 /\ Window[6] = Pages - 1
<1>1. Columns \in Nat /\ Columns >= 2 /\ Pages \in Nat /\ Pages >= 1
  BY PanelAssumption
<1>2. Columns * Pages \in Nat /\ Columns * Pages >= 2
  <2>1. 1 * Columns <= Pages * Columns /\ Pages * Columns \in Nat
    BY <1>1, Products
  <2>2. Pages * Columns = Columns * Pages
    BY <1>1
  <2>3. QED BY <1>1, <2>1, <2>2
<1>3. /\ Len(Window) = 6
      /\ Window[1] = 33 /\ Window[2] = 0 /\ Window[3] = Columns - 1
      /\ Window[4] = 34 /\ Window[5] = 0 /\ Window[6] = Pages - 1
  BY DEF Window, ColumnAddress, PageAddress
<1>4. QED BY <1>1, <1>2, <1>3 DEF AllBytes

LEMMA PackedType ==
    ASSUME NEW p
    PROVE  Packed(p) \in [Cells -> SUBSET Byte] /\ Blank \in [Cells -> SUBSET Byte]
  BY DEF Packed, Blank, Byte

\* The three ways a byte of a command is taken: at once, as the first argument, as the last.
LEMMA TakesCommand ==
    ASSUME NEW c \in ChipType, NEW byte \in Nat, c.command = NoCommand
    PROVE  LET after == Commanded(c, byte) IN
           /\ after \in ChipType /\ SamePlace(c, after) /\ after.argument = c.argument
           /\ after.given = c.given
           /\ byte \in {33, 34} => after.command = byte /\ after.line = c.line
           /\ byte \notin {33, 34} => after.command = NoCommand
<1>1. Columns - 1 \in 0 .. Columns - 1
  BY Sizes
<1>2. CASE byte \in {33, 34}
  BY <1>2 DEF Commanded, ChipType, SamePlace, NoCommand, ColumnAddress, PageAddress
<1>3. CASE byte \notin {33, 34}
  BY <1>1, <1>3 DEF Commanded, ChipType, SamePlace, NoCommand, ColumnAddress, PageAddress
<1>4. QED BY <1>2, <1>3

LEMMA TakesFirst ==
    ASSUME NEW c \in ChipType, NEW byte \in Nat, c.command # NoCommand, c.given = 0
    PROVE  LET after == Commanded(c, byte) IN
           /\ after \in ChipType /\ SamePlace(c, after) /\ after.line = c.line
           /\ after.command = c.command /\ after.given = 1 /\ after.argument = byte
  BY DEF Commanded, ChipType, SamePlace

LEMMA TakesLast ==
    ASSUME NEW c \in ChipType, NEW byte \in Nat, c.command # NoCommand, c.given = 1
    PROVE  LET after == Commanded(c, byte) IN
           /\ after \in ChipType /\ after.line = c.line /\ after.ram = c.ram
           /\ after.command = NoCommand /\ after.given = 0 /\ after.argument = 0
           /\ c.command = ColumnAddress =>
                 /\ after.firstColumn = c.argument % Columns /\ after.lastColumn = byte % Columns
                 /\ after.column = c.argument % Columns
           /\ c.command = PageAddress =>
                 /\ SamePlace(c, after)
                 /\ after.firstPage = c.argument % Pages /\ after.lastPage = byte % Pages
                 /\ after.page = c.argument % Pages
<1>1. \A m \in Nat : m % Columns \in 0 .. Columns - 1 /\ m % Pages \in 0 .. Pages - 1
  BY Sizes
<1>2. c.argument \in Nat
  BY DEF ChipType
<1>3. /\ c.argument % Columns \in 0 .. Columns - 1 /\ byte % Columns \in 0 .. Columns - 1
      /\ c.argument % Pages \in 0 .. Pages - 1 /\ byte % Pages \in 0 .. Pages - 1
  BY <1>1, <1>2
<1>4. ColumnAddress # PageAddress /\ c.command \in {ColumnAddress, PageAddress} /\ c.given # 0
  BY DEF ChipType, ColumnAddress, PageAddress
<1>5. CASE c.command = ColumnAddress
  BY <1>3, <1>4, <1>5 DEF Commanded, CommandDone, ChipType
<1>6. CASE c.command = PageAddress
  BY <1>3, <1>4, <1>6 DEF Commanded, CommandDone, ChipType, SamePlace
<1>7. QED BY <1>4, <1>5, <1>6

\* A byte of data, where the place is: it is written, and the place goes on.
LEMMA FedType ==
    ASSUME NEW c \in ChipType, NEW bits \in SUBSET Byte
    PROVE  /\ Fed(c, bits) \in ChipType /\ PendingSame(c, Fed(c, bits))
           /\ Fed(c, bits).line = c.line
           /\ Fed(c, bits).ram = [c.ram EXCEPT ![c.page * Columns + c.column] = bits]
           /\ Fed(c, bits).firstColumn = c.firstColumn /\ Fed(c, bits).lastColumn = c.lastColumn
           /\ Fed(c, bits).firstPage = c.firstPage /\ Fed(c, bits).lastPage = c.lastPage
<1>1. (c.column + 1) % Columns \in 0 .. Columns - 1 /\ (c.page + 1) % Pages \in 0 .. Pages - 1
  <2>1. c.column + 1 \in Nat /\ c.page + 1 \in Nat
    <3>1. c.column \in 0 .. Columns - 1 /\ c.page \in 0 .. Pages - 1
      BY DEF ChipType
    <3>2. QED BY <3>1, Sizes
  <2>2. \A m \in Nat : m % Columns \in 0 .. Columns - 1 /\ m % Pages \in 0 .. Pages - 1
    BY Sizes
  <2>3. QED BY <2>1, <2>2
<1>2. [c.ram EXCEPT ![c.page * Columns + c.column] = bits] \in [Cells -> SUBSET Byte]
  BY DEF ChipType
<1>3. QED BY <1>1, <1>2 DEF Fed, ChipType, PendingSame

\* With the whole display as the window, the bytes go from cell to cell.
LEMMA FedPlaces ==
    ASSUME DisplayInv, NEW k \in 7 .. AllBytes, NEW c \in ChipType, Placed(k, c)
    PROVE  /\ k < AllBytes => Placed(k + 1, Fed(c, buffer[k - 7]))
           /\ k = AllBytes => Fed(c, buffer[k - 7]).ram = buffer
<1> DEFINE n == k - 7
           after == Fed(c, buffer[n])
<1>1. /\ n \in Nat /\ n \in Cells /\ buffer[n] \in SUBSET Byte /\ k = n + 7 /\ n < Columns * Pages
      /\ k < AllBytes <=> n + 1 < Columns * Pages
      /\ k = AllBytes <=> n + 1 = Columns * Pages
  BY Sizes DEF Cells, DisplayInv, DisplayTypes
<1>2. /\ c.firstColumn = 0 /\ c.lastColumn = Columns - 1 /\ c.firstPage = 0 /\ c.lastPage = Pages - 1
      /\ c.page * Columns + c.column = n
      /\ \A cell \in Cells : cell < n => c.ram[cell] = buffer[cell]
  BY DEF Placed
<1>3. /\ c.column \in 0 .. Columns - 1 /\ c.page \in 0 .. Pages - 1
      /\ c.ram \in [Cells -> SUBSET Byte]
  BY DEF ChipType
<1>4. /\ after.firstColumn = 0 /\ after.lastColumn = Columns - 1
      /\ after.firstPage = 0 /\ after.lastPage = Pages - 1
      /\ after.ram = [c.ram EXCEPT ![n] = buffer[n]]
  <2>1. after.ram = [c.ram EXCEPT ![c.page * Columns + c.column] = buffer[n]]
    BY <1>1, FedType
  <2>2. /\ after.firstColumn = c.firstColumn /\ after.lastColumn = c.lastColumn
        /\ after.firstPage = c.firstPage /\ after.lastPage = c.lastPage
    BY <1>1, FedType
  <2> HIDE DEF after
  <2>3. QED BY <1>2, <2>1, <2>2
<1>5. \A cell \in Cells : cell < n + 1 => after.ram[cell] = buffer[cell]
  <2> TAKE cell \in Cells
  <2> HAVE cell < n + 1
  <2>1. cell = n \/ cell < n
    BY <1>1, Sizes DEF Cells
  <2>2. QED BY <1>1, <1>2, <1>3, <1>4, <2>1
<1>6. ASSUME k < AllBytes
      PROVE  after.page * Columns + after.column = n + 1
  <2>1. CASE c.column # Columns - 1
    <3>1. c.column + 1 \in 0 .. Columns - 1
      BY <1>3, <2>1, Sizes
    <3>2. (c.column + 1) % Columns = c.column + 1
      BY <3>1, Sizes, SmallMod
    <3>3. after.column = c.column + 1 /\ after.page = c.page
      BY <1>2, <2>1, <3>2 DEF Fed, ChipType
    <3>4. c.page * Columns \in Nat
      BY <1>3, Sizes
    <3>5. QED BY <1>2, <1>3, <3>3, <3>4, Sizes
  <2>2. CASE c.column = Columns - 1
    <3>1. (c.page + 1) * Columns = c.page * Columns + Columns /\ c.page * Columns \in Nat
      <4>1. c.page \in Nat /\ c.page <= c.page /\ Columns \in Nat
        BY <1>3, Sizes
      <4>2. QED BY <4>1, Products
    <3>2. (c.page + 1) * Columns = n + 1
      BY <1>2, <2>2, <3>1, Sizes
    <3>3. c.page # Pages - 1
      BY <1>1, <1>6, <3>2, Sizes
    <3>4. (c.page + 1) % Pages = c.page + 1
      <4>1. c.page + 1 \in 0 .. Pages - 1 /\ Pages \in Nat \ {0}
        BY <1>3, <3>3, Sizes
      <4>2. QED BY <4>1, SmallMod
    <3>5. after.column = 0 /\ after.page = c.page + 1
      BY <1>2, <2>2, <3>3, <3>4 DEF Fed, ChipType
    <3>6. QED BY <1>1, <3>2, <3>5
  <2>3. QED BY <2>1, <2>2
<1>7. ASSUME k < AllBytes PROVE Placed(k + 1, after)
  <2>1. k + 1 >= 8 /\ (k + 1) - 7 = n + 1
    BY <1>1
  <2> HIDE DEF after
  <2>2. QED BY <1>4, <1>5, <1>6, <1>7, <2>1 DEF Placed
<1>8. ASSUME k = AllBytes PROVE after.ram = buffer
  <2>1. \A cell \in Cells : cell < n + 1
    BY <1>1, <1>8, Sizes DEF Cells
  <2>2. \A cell \in Cells : after.ram[cell] = buffer[cell]
    BY <1>5, <2>1
  <2>3. after.ram \in [Cells -> SUBSET Byte] /\ buffer \in [Cells -> SUBSET Byte]
    BY <1>1, <1>3, <1>4 DEF DisplayInv, DisplayTypes
  <2>4. QED BY <2>2, <2>3
<1>9. QED BY <1>7, <1>8

\* The commands of the window, one by one, as the controller waits for them or not.
LEMMA CommandedPlaces ==
    ASSUME NEW c \in ChipType, NEW k \in 1 .. 6, Waiting(k, c), Aligned => Placed(k, c),
           NEW after, after = Commanded(c, Window[k])
    PROVE  /\ after \in ChipType /\ Waiting(k + 1, after)
           /\ Aligned => Placed(k + 1, after) /\ after.line = c.line
<1> DEFINE byte == Window[k]
<1>1. c.command \in {NoCommand, ColumnAddress, PageAddress} /\ c.given \in {0, 1}
  BY DEF ChipType
<1>2. /\ 0 % Columns = 0 /\ (Columns - 1) % Columns = Columns - 1
      /\ 0 % Pages = 0 /\ (Pages - 1) % Pages = Pages - 1
  <2>1. /\ Columns \in Nat \ {0} /\ 0 \in 0 .. Columns - 1 /\ Columns - 1 \in 0 .. Columns - 1
        /\ Pages \in Nat \ {0} /\ 0 \in 0 .. Pages - 1 /\ Pages - 1 \in 0 .. Pages - 1
    BY Sizes
  <2>2. QED BY <2>1, SmallMod
<1>3. Columns - 1 \notin {33, 34} /\ Columns - 1 \in Nat /\ Pages - 1 \in Nat
  BY PanelAssumption, Sizes
<1>4. after = Commanded(c, byte) /\ byte \in Nat
  BY <1>3, Sizes
<1>5. after \in ChipType
  BY <1>1, <1>4, TakesCommand, TakesFirst, TakesLast
<1>6. after.line # c.line => c.command = NoCommand
  BY <1>1, <1>4, TakesFirst, TakesLast
<1> USE DEF NoCommand, ColumnAddress, PageAddress
<1>7. CASE k = 1
  <2>0. k + 1 = 2
    BY <1>7
  <2>1. byte = 33
    BY <1>7, Sizes
  <2>2. Waiting(2, after)
    BY <1>1, <1>4, <1>7, <2>1, TakesCommand, TakesFirst, TakesLast DEF Waiting
  <2>3. Aligned => after.line = c.line
    BY <1>4, <1>7, <2>1, TakesCommand DEF Waiting
  <2>4. QED BY <2>0, <1>5, <1>7, <2>2, <2>3 DEF Placed
<1>8. CASE k = 2
  <2>0. k + 1 = 3
    BY <1>8
  <2>1. byte = 0
    BY <1>8, Sizes
  <2>2. Waiting(3, after)
    BY <1>1, <1>4, <1>8, <2>1, TakesCommand, TakesFirst, TakesLast DEF Waiting
  <2>3. Aligned => after.line = c.line
    BY <1>6, <1>8 DEF Waiting
  <2>4. QED BY <2>0, <1>5, <1>8, <2>2, <2>3 DEF Placed
<1>9. CASE k = 3
  <2>0. k + 1 = 4
    BY <1>9
  <2>1. byte = Columns - 1
    BY <1>9, Sizes
  <2>2. Waiting(4, after)
    <3>1. after.command = 0 /\ after.given = 0 /\ after.argument = 0
      <4>1. CASE c.command = 0
        <5>1. byte \notin {33, 34} /\ c.given = 0 /\ c.argument = 0
          BY <1>3, <2>1, <4>1 DEF Waiting
        <5>2. QED BY <1>4, <4>1, <5>1, TakesCommand
      <4>2. CASE c.command # 0
        <5>1. c.given = 1
          BY <1>9, <4>2 DEF Waiting
        <5>2. QED BY <1>4, <4>2, <5>1, TakesLast
      <4>3. QED BY <4>1, <4>2
    <3>2. QED BY <3>1 DEF Waiting
  <2>3. Aligned => /\ after.line = c.line /\ after.firstColumn = 0
                   /\ after.lastColumn = Columns - 1 /\ after.column = 0
    BY <1>2, <1>4, <1>9, <2>1, TakesLast DEF Waiting
  <2>4. QED BY <2>0, <1>5, <1>9, <2>2, <2>3 DEF Placed
<1>10. CASE k = 4
  <2>0. k + 1 = 5
    BY <1>10
  <2>1. byte = 34 /\ c.command = 0
    BY <1>10, Sizes DEF Waiting
  <2>2. Waiting(5, after) /\ SamePlace(c, after) /\ after.line = c.line
    BY <1>4, <1>10, <2>1, TakesCommand DEF Waiting
  <2>3. QED BY <2>0, <1>5, <1>10, <2>2 DEF Placed, SamePlace
<1>11. CASE k = 5
  <2>0. k + 1 = 6
    BY <1>11
  <2>1. byte = 0 /\ c.command = 34 /\ c.given = 0
    BY <1>11, Sizes DEF Waiting
  <2>2. Waiting(6, after) /\ SamePlace(c, after) /\ after.line = c.line
    BY <1>4, <1>11, <2>1, TakesFirst DEF Waiting
  <2>3. QED BY <2>0, <1>5, <1>11, <2>2 DEF Placed, SamePlace
<1>12. CASE k = 6
  <2>0. k + 1 = 7
    BY <1>12
  <2>1. byte = Pages - 1 /\ c.command = 34 /\ c.given = 1 /\ c.argument = 0
    BY <1>12, Sizes DEF Waiting
  <2>2. /\ Waiting(7, after) /\ SamePlace(c, after) /\ after.line = c.line
        /\ after.firstPage = 0 /\ after.lastPage = Pages - 1 /\ after.page = 0
    BY <1>2, <1>4, <1>12, <2>1, TakesLast DEF Waiting
  <2>3. ASSUME Aligned PROVE Placed(7, after)
    <3>1. after.firstColumn = 0 /\ after.lastColumn = Columns - 1 /\ after.column = 0
      BY <1>12, <2>2, <2>3 DEF Placed, SamePlace
    <3>2. 0 * Columns + 0 = 7 - 7
      BY Sizes
    <3>3. \A cell \in Cells : ~(cell < 7 - 7)
      BY Sizes DEF Cells
    <3>4. QED BY <2>2, <3>1, <3>2, <3>3 DEF Placed
  <2>4. QED BY <2>0, <1>5, <1>12, <2>2, <2>3
<1>13. QED BY <1>7, <1>8, <1>9, <1>10, <1>11, <1>12

LEMMA NotFlushing ==
    /\ NoFlush.at = 0 /\ NoFlush \in [at : 0 .. AllBytes, picture : Picture \cup {NothingAsked}]
    /\ \A c : Placed(0, c) /\ Placed(1, c)
<1>1. 0 \in 0 .. AllBytes
  BY Sizes
<1>2. QED BY <1>1 DEF NoFlush, Placed

LEMMA DisplayStarts == PanelInit => DisplayInv
<1> SUFFICES ASSUME PanelInit PROVE DisplayInv
  OBVIOUS
<1> USE DEF PanelInit
<1>1. Blank \in [Cells -> SUBSET Byte]
  BY DEF Blank
<1>2. 0 \in 0 .. Columns - 1 /\ Columns - 1 \in 0 .. Columns - 1 /\ 0 \in 0 .. Pages - 1
      /\ Pages - 1 \in 0 .. Pages - 1 /\ 0 \in 0 .. AllBytes
  BY Sizes
<1>3. chip \in ChipType
  BY <1>1, <1>2 DEF ChipType, ChipOff
<1>4. DisplayTypes
  <2>1. /\ device = "none" /\ chip = ChipOff /\ flushing = NoFlush /\ sound = 0 /\ cut = FALSE
        /\ buffer \in [Cells -> SUBSET Byte]
    BY <1>1
  <2> HIDE DEF PanelInit
  <2>2. flushing.at = 0 /\ flushing \in [at : 0 .. AllBytes, picture : Picture \cup {NothingAsked}]
    BY <2>1, NotFlushing
  <2>3. ~(flushing.at > 0) /\ sound \in 0 .. 2
    BY <2>1, <2>2
  <2>4. cut \in BOOLEAN /\ ~cut
    BY <2>1
  <2>5. QED BY <1>3, <2>1, <2>2, <2>3, <2>4 DEF DisplayTypes
<1>5. QED BY <1>4 DEF DisplayInv, ReadyInv

\* A flush begins where the last one left the controller.
LEMMA BeginKeeps ==
    ASSUME DisplayInv, NEW bytes \in [Cells -> SUBSET Byte], NEW p \in Picture \cup {NothingAsked},
           p = NothingAsked => sound = 0, p # NothingAsked => bytes = Packed(p),
           flushing = NoFlush, StartFlush(bytes, p), device' \in {"open", "ready"},
           device' = device \/ (device = "none" /\ device' = "ready"),
           UNCHANGED <<chip, sound, cut, asks>>
    PROVE  DisplayInv'
<1>1. buffer' = bytes /\ flushing' = [at |-> 1, picture |-> p] /\ 1 \in 0 .. AllBytes
  BY Sizes DEF StartFlush
<1>2. DisplayTypes'
  BY <1>1 DEF DisplayInv, DisplayTypes
<1>3. ASSUME device' = "ready" PROVE Waiting(1, chip) /\ (~cut => chip.line = 0)
  <2>1. CASE device = "ready"
    BY <2>1, NotFlushing DEF DisplayInv, ReadyInv, Waiting
  <2>2. CASE device = "none"
    BY <2>2 DEF DisplayInv, DisplayTypes, ChipOff, Waiting
  <2>3. QED BY <1>3, <2>1, <2>2
<1>4. Waiting(1, chip)' <=> Waiting(1, chip)
  BY DEF Waiting, Aligned
<1>5. Placed(1, chip)'
  BY DEF Placed
<1>6. ReadyInv'
  BY <1>1, <1>3, <1>4, <1>5 DEF ReadyInv, DrawnInv
<1>7. QED BY <1>2, <1>6 DEF DisplayInv

LEMMA LoadKeeps ==
    ASSUME DisplayInv, LoadDisplay
    PROVE  DisplayInv'
<1>1. CASE device' = "ready" /\ StartFlush(Blank, NothingAsked)
  <2>1. device = "none" /\ flushing = NoFlush /\ sound = 0 /\ UNCHANGED <<chip, sound, cut, asks>>
    BY DEF LoadDisplay, DisplayInv, DisplayTypes
  <2>2. Blank \in [Cells -> SUBSET Byte]
    BY DEF Blank
  <2>3. QED BY <1>1, <2>1, <2>2, BeginKeeps
<1>2. CASE device' \in {"absent", "loaded", "open"} /\ UNCHANGED <<buffer, flushing>>
  <2>1. DisplayTypes'
    BY <1>2 DEF LoadDisplay, DisplayInv, DisplayTypes
  <2>2. QED BY <1>2, <2>1 DEF DisplayInv, ReadyInv
<1>3. QED BY <1>1, <1>2 DEF LoadDisplay

LEMMA ImageKeeps ==
    ASSUME DisplayInv, NEW p \in Picture, OnImage(p)
    PROVE  DisplayInv'
<1>1. /\ device \in {"open", "ready"} /\ flushing = NoFlush /\ StartFlush(Packed(p), p)
      /\ UNCHANGED <<device, chip, asks, sound, cut>>
  BY DEF OnImage
<1>2. Packed(p) \in [Cells -> SUBSET Byte]
  BY PackedType
<1>3. p # NothingAsked
  <2>1. p \in [Rows -> [0 .. Columns - 1 -> 0 .. 255]] /\ 0 \in Rows
    <3>1. 0 \in 0 .. (Pages * 8) - 1
      BY Sizes
    <3>2. QED BY <3>1, PanelAssumption DEF Rows, PageBits
  <2>2. DOMAIN p = Rows /\ DOMAIN NothingAsked = 1 .. 0
    BY <2>1 DEF NothingAsked
  <2>3. QED BY <2>1, <2>2
<1>4. QED BY <1>1, <1>2, <1>3, BeginKeeps

LEMMA BreakKeeps ==
    ASSUME DisplayInv, BreakOff
    PROVE  DisplayInv'
<1> DEFINE k == flushing.at
<1>1. /\ k > 0 /\ flushing' = NoFlush /\ sound' = 0 /\ cut' = (cut \/ k \in {2, 3, 5, 6})
      /\ UNCHANGED <<device, chip, buffer, asks>>
  BY DEF BreakOff
<1>2. device # "none"
  BY <1>1, NotFlushing DEF DisplayInv, DisplayTypes
<1>3. cut' \in BOOLEAN /\ (~cut' => ~cut /\ k \notin {2, 3, 5, 6})
  BY <1>1 DEF DisplayInv, DisplayTypes
<1>4. DisplayTypes'
  <2>1. chip' \in ChipType /\ buffer' \in [Cells -> SUBSET Byte] /\ device' \in {"none", "absent", "loaded", "open", "ready"}
    BY <1>1 DEF DisplayInv, DisplayTypes
  <2>2. QED BY <1>1, <1>2, <1>3, <2>1, NotFlushing DEF DisplayTypes
<1>5. ASSUME device = "ready" PROVE Waiting(0, chip)' /\ (~cut' => chip'.line = 0)
  <2>1. Waiting(k, chip) /\ (~cut => chip.line = 0)
    BY <1>5 DEF DisplayInv, ReadyInv
  <2>2. k \in Nat
    BY Sizes DEF DisplayInv, DisplayTypes
  <2>3. ASSUME ~cut' PROVE chip.command = NoCommand
    <3>1. Aligned /\ (k = 1 \/ k = 4 \/ k >= 7)
      BY <1>1, <1>3, <2>2, <2>3 DEF Aligned
    <3>2. QED BY <2>1, <3>1 DEF Waiting
  <2>4. Aligned' => ~cut'
    BY <1>1 DEF Aligned
  <2>5. chip.command = NoCommand => chip.given = 0 /\ chip.argument = 0
    BY <2>1 DEF Waiting
  <2>6. chip.given = 0 => chip.argument = 0
    BY <2>1 DEF Waiting
  <2>7. QED BY <1>1, <1>3, <2>1, <2>3, <2>4, <2>5, <2>6 DEF Waiting
<1>6. Placed(0, chip)'
  BY DEF Placed
<1>7. ReadyInv'
  BY <1>1, <1>5, <1>6, NotFlushing DEF ReadyInv, DrawnInv
<1>8. QED BY <1>4, <1>7 DEF DisplayInv

LEMMA SendKeeps ==
    ASSUME DisplayInv, SendByte
    PROVE  DisplayInv'
<1> DEFINE k == flushing.at
           next == [flushing EXCEPT !.at = @ + 1]
<1>1. k > 0 /\ k \in 1 .. AllBytes /\ AllBytes \in Nat /\ AllBytes >= 8
  BY Sizes DEF SendByte, DisplayInv, DisplayTypes
<1>2. /\ chip' = IF device = "ready" THEN Taken(chip, k) ELSE chip
      /\ UNCHANGED <<device, buffer, cut>> /\ cut \in BOOLEAN
      /\ flushing.picture # NothingAsked => buffer = Packed(flushing.picture)
      /\ device # "none" /\ flushing.picture \in Picture \cup {NothingAsked}
  BY <1>1, NotFlushing DEF SendByte, DisplayInv, DisplayTypes
<1>3. CASE k < AllBytes
  <2>1. flushing' = next /\ UNCHANGED <<asks, sound>>
    BY <1>3 DEF SendByte
  <2>2. /\ next \in [at : 0 .. AllBytes, picture : Picture \cup {NothingAsked}]
        /\ next.at = k + 1 /\ next.picture = flushing.picture /\ k + 1 > 0 /\ k + 1 # 0
    BY <1>1, <1>2, <1>3 DEF DisplayInv, DisplayTypes
  <2> HIDE DEF next
  <2>3. CASE device # "ready"
    <3>1. DisplayTypes'
      BY <1>1, <1>2, <2>1, <2>2, <2>3 DEF DisplayInv, DisplayTypes
    <3>2. QED BY <1>2, <2>3, <3>1 DEF DisplayInv, ReadyInv
  <2>4. CASE device = "ready"
    <3>1. /\ chip \in ChipType /\ Waiting(k, chip) /\ (Aligned => Placed(k, chip))
          /\ ~cut => chip.line = 0
      BY <2>4 DEF DisplayInv, DisplayTypes, ReadyInv
    <3>2. /\ chip' \in ChipType /\ Waiting(k + 1, chip')
          /\ Aligned => Placed(k + 1, chip') /\ chip'.line = chip.line
      <4>1. CASE k <= 6
        <5>1. k \in 1 .. 6 /\ chip' = Commanded(chip, Window[k])
          BY <1>1, <1>2, <2>4, <4>1, Sizes DEF Taken
        <5>2. QED BY <3>1, <5>1, CommandedPlaces
      <4>2. CASE k > 6
        <5>1. k \in 7 .. AllBytes /\ chip' = Fed(chip, buffer[k - 6 - 1]) /\ k - 6 - 1 = k - 7
          BY <1>1, <1>2, <2>4, <4>2, Sizes DEF Taken
        <5>2. chip' = Fed(chip, buffer[k - 7])
          BY <5>1
        <5>3. buffer[k - 7] \in SUBSET Byte
          BY <5>1, Sizes DEF DisplayInv, DisplayTypes, Cells
        <5>4. chip' \in ChipType /\ PendingSame(chip, chip') /\ chip'.line = chip.line
          BY <3>1, <5>2, <5>3, FedType
        <5>5. Waiting(k + 1, chip')
          <6>1. k >= 7 /\ k + 1 >= 7 /\ k + 1 \in Nat
            BY <5>1, <1>1
          <6>2. chip.command = NoCommand /\ chip.given = 0 /\ chip.argument = 0
            BY <3>1, <6>1 DEF Waiting
          <6>3. QED BY <5>4, <6>1, <6>2 DEF Waiting, PendingSame
        <5>6. Aligned => Placed(k + 1, chip')
          BY <1>3, <3>1, <5>1, <5>2, FedPlaces
        <5>7. QED BY <5>4, <5>5, <5>6
      <4>3. QED BY <1>1, <4>1, <4>2
    <3>3. DisplayTypes'
      BY <1>1, <1>2, <2>1, <2>2, <3>2 DEF DisplayInv, DisplayTypes
    <3>4. Aligned' <=> Aligned
      BY <1>2, <2>1 DEF Aligned
    <3>5. Waiting(flushing.at, chip)' <=> Waiting(k + 1, chip')
      BY <2>1, <2>2, <3>4 DEF Waiting
    <3>6. Placed(flushing.at, chip)' <=> Placed(k + 1, chip')
      BY <1>2, <2>1, <2>2 DEF Placed
    <3>7. ReadyInv'
      <4>1. flushing'.at # 0
        BY <2>1, <2>2
      <4>2. DrawnInv'
        BY <4>1 DEF DrawnInv
      <4>3. ~cut' => chip'.line = 0
        BY <1>2, <3>1, <3>2 DEF Aligned
      <4>4. Waiting(flushing.at, chip)'
        BY <3>2, <3>5
      <4>5. Aligned' => Placed(flushing.at, chip)'
        BY <3>2, <3>4, <3>6
      <4>6. QED BY <4>2, <4>3, <4>4, <4>5 DEF ReadyInv
    <3>8. QED BY <3>3, <3>7 DEF DisplayInv
  <2>5. QED BY <2>3, <2>4
<1>4. CASE k = AllBytes
  <2>1. /\ flushing' = NoFlush
        /\ flushing.picture = NothingAsked => UNCHANGED <<asks, sound>>
        /\ flushing.picture # NothingAsked =>
              asks' = flushing.picture /\ sound' = IF sound < 2 THEN sound + 1 ELSE sound
    BY <1>1, <1>4 DEF SendByte
  <2>2. /\ sound \in 0 .. 2 /\ sound' \in 0 .. 2 /\ (sound' >= 1 => flushing.picture # NothingAsked)
        /\ sound' = 2 => sound >= 1
    BY <1>1, <2>1 DEF DisplayInv, DisplayTypes
  <2>3. CASE device # "ready"
    <3>1. DisplayTypes'
      BY <1>2, <2>1, <2>2, <2>3, NotFlushing DEF DisplayInv, DisplayTypes
    <3>2. QED BY <1>2, <2>3, <3>1 DEF DisplayInv, ReadyInv
  <2>4. CASE device = "ready"
    <3>1. /\ chip \in ChipType /\ Waiting(k, chip) /\ (Aligned => Placed(k, chip))
          /\ ~cut => chip.line = 0
      BY <2>4 DEF DisplayInv, DisplayTypes, ReadyInv
    <3>2. k \in 7 .. AllBytes /\ chip' = Fed(chip, buffer[k - 7])
      <4>1. k - 6 - 1 = k - 7 /\ ~(k <= 6) /\ k \in 7 .. AllBytes
        BY <1>1, <1>4
      <4>2. QED BY <1>2, <2>4, <4>1, Sizes DEF Taken
    <3>3. buffer[k - 7] \in SUBSET Byte
      BY <3>2, Sizes DEF DisplayInv, DisplayTypes, Cells
    <3>4. chip' \in ChipType /\ PendingSame(chip, chip') /\ chip'.line = chip.line
      BY <3>1, <3>2, <3>3, FedType
    <3>5. chip.command = NoCommand /\ chip.given = 0 /\ chip.argument = 0
      BY <1>1, <1>4, <3>1 DEF Waiting
    <3>6. Waiting(0, chip)'
      BY <3>4, <3>5 DEF Waiting, PendingSame
    <3>7. Placed(0, chip)'
      BY DEF Placed
    <3>8. Aligned => chip'.ram = buffer
      BY <1>4, <3>1, <3>2, FedPlaces
    <3>9. DrawnInv'
      <4> SUFFICES ASSUME sound' = 2 \/ (sound' >= 1 /\ ~cut')
                   PROVE  asks' \in Picture /\ chip'.ram = Packed(asks')
        BY DEF DrawnInv, Packed, Cells
      <4>1. Aligned /\ flushing.picture # NothingAsked
        BY <1>2, <2>2 DEF Aligned
      <4>2. QED BY <1>2, <2>1, <3>8, <4>1
    <3>10. DisplayTypes'
      BY <1>2, <2>1, <2>2, <3>4, NotFlushing DEF DisplayInv, DisplayTypes
    <3>11. ReadyInv'
      BY <1>2, <2>1, <3>1, <3>4, <3>6, <3>7, <3>9, NotFlushing DEF ReadyInv
    <3>12. QED BY <3>10, <3>11 DEF DisplayInv
  <2>5. QED BY <2>3, <2>4
<1>5. QED BY <1>1, <1>3, <1>4

\* What the display shows and remembers when no flush is under way.
LEMMA DisplayShows ==
    ASSUME DisplayInv
    PROVE  PictureShown /\ MemoryHeals
<1>1. MemoryHeals
  BY NotFlushing DEF DisplayInv, DisplayTypes, ReadyInv, DrawnInv, MemoryHeals, Written
<1>2. ASSUME Written(1), ~cut PROVE Shows(chip, asks)
  <2>1. chip.ram = Packed(asks) /\ chip.line = 0 /\ device = "ready"
    BY <1>2, NotFlushing DEF DisplayInv, ReadyInv, DrawnInv, Written
  <2> SUFFICES ASSUME NEW y \in Rows, NEW x \in 0 .. Columns - 1
               PROVE  Glass(chip, y, x) <=> asks[y][x] > 0
    BY DEF Shows
  <2> DEFINE page == y \div 8
             bit == y % 8
  <2>2. Pages \in Nat \ {0} /\ Columns \in Nat \ {0} /\ y \in 0 .. Pages * 8 - 1
    BY Sizes DEF Rows, PageBits
  <2>3. page \in 0 .. Pages - 1 /\ bit \in 0 .. 7 /\ page * 8 + bit = y /\ (y + 0) % (Pages * 8) = y
    BY <2>2, RowParts
  <2> HIDE DEF page, bit
  <2>4. /\ page * Columns + x \in Cells
        /\ (page * Columns + x) \div Columns = page /\ (page * Columns + x) % Columns = x
    BY <2>2, <2>3, PlaceOf DEF Cells
  <2>5. bit \in Packed(asks)[page * Columns + x] <=> asks[page * 8 + bit][x] > 0
    BY <2>3, <2>4 DEF Packed, PageBits
  <2>6. Glass(chip, y, x) <=> bit \in chip.ram[page * Columns + x]
    BY <2>1, <2>3 DEF Glass, PageBits, page, bit
  <2>7. QED BY <2>1, <2>3, <2>5, <2>6
<1>3. QED BY <1>1, <1>2 DEF PictureShown

-----------------------------------------------------------------------------
(* The strip.                                                              *)

IsByte(n) == n \in 0 .. 255

LEMMA BitIsBit ==
    ASSUME NEW n \in Nat, NEW w \in {1, 2, 4, 8, 16, 32, 64, 128}
    PROVE  Bit(n, w) \in {0, 1}
<1>1. n \div w \in Nat
  OBVIOUS
<1>2. QED BY <1>1 DEF Bit

\* A byte is its bits.
LEMMA ByteOfBits ==
    ASSUME NEW n \in 0 .. 255
    PROVE  n = 128 * Bit(n, 128) + 64 * Bit(n, 64) + 32 * Bit(n, 32) + 16 * Bit(n, 16)
                 + 8 * Bit(n, 8) + 4 * Bit(n, 4) + 2 * Bit(n, 2) + Bit(n, 1)
  BY DEF Bit

\* The pulses of a byte, of which an LED takes the middles, are that byte.
LEMMA PulsesCarry ==
    ASSUME NEW n \in 0 .. 255
    PROVE  Value(Pulses(n)[1], Pulses(n)[2], Pulses(n)[3]) = n
<1> DEFINE h == Bit(n, 128)
           g == Bit(n, 64)
           f == Bit(n, 32)
           e == Bit(n, 16)
           d == Bit(n, 8)
           c == Bit(n, 4)
           b == Bit(n, 2)
           a == Bit(n, 1)
           x == 146 + 64 * h + 8 * g + f
           y == 73 + 32 * e + 4 * d
           z == 36 + 128 * c + 16 * b + 2 * a
<1>1. /\ h \in {0, 1} /\ g \in {0, 1} /\ f \in {0, 1} /\ e \in {0, 1}
      /\ d \in {0, 1} /\ c \in {0, 1} /\ b \in {0, 1} /\ a \in {0, 1}
  BY BitIsBit
<1>2. n = 128 * h + 64 * g + 32 * f + 16 * e + 8 * d + 4 * c + 2 * b + a
  BY ByteOfBits
<1>3. /\ Pulse(n, 128) = 4 + 2 * h /\ Pulse(n, 64) = 4 + 2 * g /\ Pulse(n, 32) = 4 + 2 * f
      /\ Pulse(n, 16) = 4 + 2 * e /\ Pulse(n, 8) = 4 + 2 * d /\ Pulse(n, 4) = 4 + 2 * c
      /\ Pulse(n, 2) = 4 + 2 * b /\ Pulse(n, 1) = 4 + 2 * a
  <2>1. \A w \in {1, 2, 4, 8, 16, 32, 64, 128} : Pulse(n, w) = 4 + 2 * Bit(n, w)
    <3> TAKE w \in {1, 2, 4, 8, 16, 32, 64, 128}
    <3>1. Bit(n, w) \in {0, 1}
      BY BitIsBit
    <3>2. QED BY <3>1 DEF Pulse
  <2>2. QED BY <2>1
<1> HIDE DEF h, g, f, e, d, c, b, a
<1>4. Packet(n) = x * 65536 + y * 256 + z
  BY <1>1, <1>3 DEF Packet
<1>5. x \in 0 .. 255 /\ y \in 0 .. 255 /\ z \in 0 .. 255
  BY <1>1
<1>6. Pulses(n)[1] = x /\ Pulses(n)[2] = y /\ Pulses(n)[3] = z
  <2> HIDE DEF x, y, z
  <2>1. /\ ((x * 65536 + y * 256 + z) \div 65536) % 256 = x
        /\ ((x * 65536 + y * 256 + z) \div 256) % 256 = y
        /\ (x * 65536 + y * 256 + z) % 256 = z
    BY <1>5
  <2>2. QED BY <1>4, <2>1 DEF Pulses
<1>7. Bit(x, 64) = h /\ Bit(x, 8) = g /\ Bit(x, 1) = f
  BY <1>1 DEF Bit
<1>8. Bit(y, 32) = e /\ Bit(y, 4) = d
  BY <1>1 DEF Bit
<1>9. Bit(z, 128) = c /\ Bit(z, 16) = b /\ Bit(z, 2) = a
  BY <1>1 DEF Bit
<1>10. Value(x, y, z) = n
  BY <1>1, <1>2, <1>7, <1>8, <1>9 DEF Value
<1>11. QED BY <1>6, <1>10

\* The nine bytes of an LED are the pulses of its green, its red and its blue.
LEMMA NineBytes ==
    ASSUME NEW c
    PROVE  /\ LedBytes(c)[1] = Pulses(c.g)[1] /\ LedBytes(c)[2] = Pulses(c.g)[2]
           /\ LedBytes(c)[3] = Pulses(c.g)[3]
           /\ LedBytes(c)[4] = Pulses(c.r)[1] /\ LedBytes(c)[5] = Pulses(c.r)[2]
           /\ LedBytes(c)[6] = Pulses(c.r)[3]
           /\ LedBytes(c)[7] = Pulses(c.b)[1] /\ LedBytes(c)[8] = Pulses(c.b)[2]
           /\ LedBytes(c)[9] = Pulses(c.b)[3]
  BY DEF LedBytes, Pulses

LEMMA BytesOfLed ==
    ASSUME NEW colours, NEW i \in 1 .. LedCount, NEW k \in 1 .. 9
    PROVE  SpiBytes(colours)[9 * (i - 1) + k] = LedBytes(colours[i])[k]
<1> DEFINE at == 9 * (i - 1) + k
<1>1. LedCount \in Nat /\ ResetBytes = 50
  BY PanelAssumption DEF ResetBytes
<1>2. at \in 1 .. 9 * LedCount + ResetBytes /\ at <= 9 * LedCount
  BY <1>1
<1>3. ((at - 1) \div 9) + 1 = i /\ ((at - 1) % 9) + 1 = k
  BY <1>1
<1> HIDE DEF at
<1>4. SpiBytes(colours)[at] = LedBytes(colours[((at - 1) \div 9) + 1])[((at - 1) % 9) + 1]
  BY <1>2 DEF SpiBytes
<1>5. SpiBytes(colours)[at] = LedBytes(colours[i])[k]
  BY <1>3, <1>4
<1>6. QED BY <1>5 DEF at

\* Each LED takes its own colour.
LEMMA TakesOwn ==
    ASSUME NEW colours, NEW i \in 1 .. LedCount,
           colours[i].r \in 0 .. 255, colours[i].g \in 0 .. 255, colours[i].b \in 0 .. 255
    PROVE  Taking(SpiBytes(colours), i) =
               [r |-> colours[i].r, g |-> colours[i].g, b |-> colours[i].b]
<1> DEFINE bytes == SpiBytes(colours)
           led == LedBytes(colours[i])
           base == 9 * (i - 1)
<1>1. \A k \in 1 .. 9 : bytes[base + k] = led[k]
  BY BytesOfLed
<1>2. base \in Int /\ base + 1 + 1 = base + 2 /\ base + 1 + 2 = base + 3 /\ base + 4 + 1 = base + 5
      /\ base + 4 + 2 = base + 6 /\ base + 7 + 1 = base + 8 /\ base + 7 + 2 = base + 9
  BY PanelAssumption
<1>3. /\ Value(led[1], led[2], led[3]) = colours[i].g
      /\ Value(led[4], led[5], led[6]) = colours[i].r
      /\ Value(led[7], led[8], led[9]) = colours[i].b
  <2>1. /\ led[1] = Pulses(colours[i].g)[1] /\ led[2] = Pulses(colours[i].g)[2]
        /\ led[3] = Pulses(colours[i].g)[3]
        /\ led[4] = Pulses(colours[i].r)[1] /\ led[5] = Pulses(colours[i].r)[2]
        /\ led[6] = Pulses(colours[i].r)[3]
        /\ led[7] = Pulses(colours[i].b)[1] /\ led[8] = Pulses(colours[i].b)[2]
        /\ led[9] = Pulses(colours[i].b)[3]
    BY NineBytes
  <2> HIDE DEF led
  <2>2. /\ Value(Pulses(colours[i].g)[1], Pulses(colours[i].g)[2], Pulses(colours[i].g)[3])
               = colours[i].g
        /\ Value(Pulses(colours[i].r)[1], Pulses(colours[i].r)[2], Pulses(colours[i].r)[3])
               = colours[i].r
        /\ Value(Pulses(colours[i].b)[1], Pulses(colours[i].b)[2], Pulses(colours[i].b)[3])
               = colours[i].b
    BY PulsesCarry
  <2>3. QED BY <2>1, <2>2
<1> HIDE DEF bytes, led
<1>4. /\ bytes[base + 1] = led[1] /\ bytes[base + 2] = led[2] /\ bytes[base + 3] = led[3]
      /\ bytes[base + 4] = led[4] /\ bytes[base + 5] = led[5] /\ bytes[base + 6] = led[6]
      /\ bytes[base + 7] = led[7] /\ bytes[base + 8] = led[8] /\ bytes[base + 9] = led[9]
  BY <1>1
<1> HIDE DEF base
<1>5. /\ Value(bytes[base + 1], bytes[base + 1 + 1], bytes[base + 1 + 2]) = colours[i].g
      /\ Value(bytes[base + 4], bytes[base + 4 + 1], bytes[base + 4 + 2]) = colours[i].r
      /\ Value(bytes[base + 7], bytes[base + 7 + 1], bytes[base + 7 + 2]) = colours[i].b
  BY <1>2, <1>3, <1>4
<1>6. Taking(bytes, i) =
          [r |-> Value(bytes[base + 4], bytes[base + 4 + 1], bytes[base + 4 + 2]),
           g |-> Value(bytes[base + 1], bytes[base + 1 + 1], bytes[base + 1 + 2]),
           b |-> Value(bytes[base + 7], bytes[base + 7 + 1], bytes[base + 7 + 2])]
  BY DEF Taking, base
<1>7. QED BY <1>5, <1>6 DEF bytes

LEMMA DimmedIsByte ==
    ASSUME NEW byte \in 0 .. 255, NEW quarters \in 0 .. 4
    PROVE  /\ Dimmed(byte, quarters) \in 0 .. 255
           /\ Dimmed(byte, quarters) * 4 <= byte * quarters
           /\ byte * quarters < Dimmed(byte, quarters) * 4 + 4
<1>1. byte * quarters >= 0 /\ byte * quarters <= 1020 /\ byte * quarters \in Int
  <2>1. quarters \in {0, 1, 2, 3, 4}
    OBVIOUS
  <2>2. QED BY <2>1
<1> DEFINE x == byte * quarters
<1>2. x \in 0 .. 1020
  BY <1>1
<1> HIDE DEF x
<1>3. x \div 4 \in 0 .. 255 /\ (x \div 4) * 4 <= x /\ x < (x \div 4) * 4 + 4
  BY <1>2
<1>4. Dimmed(byte, quarters) = x \div 4
  BY DEF Dimmed, x
<1>5. QED BY <1>3, <1>4 DEF x

LEMMA StripStarts == PanelInit => FrameShown
<1> SUFFICES ASSUME PanelInit, NEW i \in 1 .. LedCount, NEW c \in {"r", "g", "b"}
             PROVE  /\ leds[i][c] * 4 <= lit.frame[i][c] * lit.quarters
                    /\ lit.frame[i][c] * lit.quarters < leds[i][c] * 4 + 4
  BY DEF FrameShown
<1>1. leds[i][c] = 0 /\ lit.frame[i][c] = 0 /\ lit.quarters = 4
  BY DEF PanelInit, Dark
<1>2. QED BY <1>1

LEMMA FrameKeeps ==
    ASSUME FrameShown, NEW frame \in Frame, NEW quarters \in Brightness,
           WriteFrame(frame, quarters)
    PROVE  FrameShown'
<1> DEFINE colours == [i \in 1 .. LedCount |->
                          [r |-> Dimmed(frame[i].r, quarters), g |-> Dimmed(frame[i].g, quarters),
                           b |-> Dimmed(frame[i].b, quarters)]]
<1>1. frame \in [1 .. LedCount -> Colour] /\ quarters \in 0 .. 4
  BY PanelAssumption
<1>2. CASE UNCHANGED <<leds, lit>>
  BY <1>2 DEF FrameShown
<1>3. CASE /\ leds' = [i \in 1 .. LedCount |-> Taking(spi', i)]
           /\ lit' = [frame |-> frame, quarters |-> quarters]
  <2>1. spi' = SpiBytes(colours)
    BY DEF WriteFrame
  <2> SUFFICES ASSUME NEW i \in 1 .. LedCount, NEW c \in {"r", "g", "b"}
               PROVE  /\ leds'[i][c] * 4 <= lit'.frame[i][c] * lit'.quarters
                      /\ lit'.frame[i][c] * lit'.quarters < leds'[i][c] * 4 + 4
    BY DEF FrameShown
  <2>2. frame[i].r \in 0 .. 255 /\ frame[i].g \in 0 .. 255 /\ frame[i].b \in 0 .. 255
    BY <1>1 DEF Colour
  <2>3. /\ colours[i].r = Dimmed(frame[i].r, quarters) /\ colours[i].g = Dimmed(frame[i].g, quarters)
        /\ colours[i].b = Dimmed(frame[i].b, quarters)
    OBVIOUS
  <2> HIDE DEF colours
  <2>4. colours[i].r \in 0 .. 255 /\ colours[i].g \in 0 .. 255 /\ colours[i].b \in 0 .. 255
    <3>1. /\ Dimmed(frame[i].r, quarters) \in 0 .. 255 /\ Dimmed(frame[i].g, quarters) \in 0 .. 255
          /\ Dimmed(frame[i].b, quarters) \in 0 .. 255
      BY <1>1, <2>2, DimmedIsByte
    <3>2. QED BY <2>3, <3>1
  <2>5. leds'[i] = [r |-> colours[i].r, g |-> colours[i].g, b |-> colours[i].b]
    BY <1>3, <2>1, <2>4, TakesOwn
  <2>6. leds'[i][c] = Dimmed(frame[i][c], quarters) /\ frame[i][c] \in 0 .. 255
    BY <2>2, <2>3, <2>5
  <2>7. lit'.frame[i][c] = frame[i][c] /\ lit'.quarters = quarters
    BY <1>3
  <2>8. QED BY <1>1, <2>6, <2>7, DimmedIsByte
<1>4. QED BY <1>2, <1>3 DEF WriteFrame, Transferred

\* Every step of the display, and every step that leaves it alone.
LEMMA DisplayKeeps ==
    ASSUME DisplayInv, DisplayNext \/ UNCHANGED displayVars
    PROVE  DisplayInv'
<1>1. ASSUME UNCHANGED <<device, chip, buffer, flushing, asks, sound, cut>>
      PROVE  DisplayInv'
  <2>1. DisplayTypes'
    BY <1>1 DEF DisplayInv, DisplayTypes
  <2>2. Waiting(flushing.at, chip)' <=> Waiting(flushing.at, chip)
    BY <1>1 DEF Waiting, Aligned
  <2>3. Placed(flushing.at, chip)' <=> Placed(flushing.at, chip)
    BY <1>1 DEF Placed
  <2>4. (Aligned' <=> Aligned) /\ (DrawnInv' <=> DrawnInv)
    BY <1>1 DEF Aligned, DrawnInv
  <2>5. QED BY <1>1, <2>1, <2>2, <2>3, <2>4 DEF DisplayInv, ReadyInv
<1>2. CASE PeriodPasses \/ UNCHANGED displayVars
  BY <1>1, <1>2 DEF PeriodPasses, displayVars
<1>3. QED BY <1>2, LoadKeeps, ImageKeeps, SendKeeps, BreakKeeps DEF DisplayNext

PanelInv == DisplayInv /\ FrameShown

LEMMA PanelsStart == PanelInit => PanelInv
  BY DisplayStarts, StripStarts DEF PanelInv

LEMMA PanelsKeep ==
    ASSUME PanelInv, [PanelNext]_panelVars
    PROVE  PanelInv'
<1>1. CASE StripNext
  <2>1. UNCHANGED displayVars
    BY <1>1 DEF StripNext, WriteFrame
  <2>2. QED BY <1>1, <2>1, DisplayKeeps, FrameKeeps DEF PanelInv, StripNext
<1>2. CASE DisplayNext
  <2>1. UNCHANGED <<leds, lit>>
    BY <1>2 DEF DisplayNext, LoadDisplay, OnImage, SendByte, BreakOff, PeriodPasses
  <2>2. FrameShown'
    BY <2>1 DEF PanelInv, FrameShown
  <2>3. QED BY <1>2, <2>2, DisplayKeeps DEF PanelInv
<1>3. CASE UNCHANGED panelVars
  <2>1. FrameShown'
    BY <1>3 DEF PanelInv, FrameShown, panelVars
  <2>2. QED BY <1>3, <2>1, DisplayKeeps DEF PanelInv, panelVars
<1>4. QED BY <1>1, <1>2, <1>3 DEF PanelNext

LEMMA PanelsShow == PanelInv => PanelsSound
  BY DisplayShows DEF PanelInv, PanelsSound

-----------------------------------------------------------------------------
(* Towards the flight controller and the user (MCVehicle).                 *)

FlightSideInv == ThresholdsSound /\ ProviderInv /\ PanelInv

LEMMA FlightSideSteps ==
    ASSUME Next
    PROVE  /\ [ParametersNext]_parameterVars /\ [ProviderNext]_providerVars
           /\ [PanelNext]_panelVars
  BY DEF Next, Looks, Controls, Lights, PanelNext, fcuSideVars

\* The thresholds stay in order, what is injected reaches every provider that lives, and the
\* panels show what was written to them (NodeParametersWatcher, registry::inject,
\* ssd1306_i2c::flush, ws2812_spi::set_led).
THEOREM FlightSideAlwaysSound == Spec => []FlightSideSound
<1>1. Init => FlightSideInv
  BY ParametersStart, ProvidersStart, PanelsStart DEF Init, FlightSideInv
<1>2. FlightSideInv /\ [Next]_vars => FlightSideInv'
  <2> SUFFICES ASSUME FlightSideInv, [Next]_vars PROVE FlightSideInv'
    OBVIOUS
  <2>1. /\ [ParametersNext]_parameterVars /\ [ProviderNext]_providerVars
        /\ [PanelNext]_panelVars
    BY FlightSideSteps DEF vars, fcuSideVars
  <2>2. QED BY <2>1, ParametersKeep, ProvidersKeep, PanelsKeep DEF FlightSideInv
<1>3. FlightSideInv => FlightSideSound
  BY ProvidersReached, PanelsShow DEF FlightSideInv, FlightSideSound
<1>4. QED BY <1>1, <1>2, <1>3, PTL DEF Spec

-----------------------------------------------------------------------------
(* The map of markers (MapService).                                        *)

USE MapAssumption

Unique(map) == \A m, n \in map : m.id = n.id => m = n

\* What a text file gives back.
TextKinds == Kind \ {"framed", "other", "unknown"}

\* What is in memory and in the files has each id once, but for what a parameter that was
\* rejected left in memory, and what was cut short.
FilesInv ==
    /\ MemoryIsFile
    /\ \A f \in File \ torn : disk[f] # BrokenFile /\ Unique(disk[f])
    /\ \A f \in TextFile : disk[f] # BrokenFile => \A m \in disk[f] : m.kind \in TextKinds
    /\ Unique(memory)

\* A request is asked at most once, and nothing has become of it while it is before the
\* server; its result is what became of the file.
RequestsInv ==
    /\ \A i, j \in DOMAIN mapCalls : mapCalls[i].request = mapCalls[j].request => i = j
    /\ \A i \in DOMAIN mapCalls :
           /\ web[mapCalls[i].request] \in {"waiting", "timeout"}
           /\ result[mapCalls[i].request] = "none"
           /\ mapCalls[i].request \notin applied
    /\ \A r \in EditRequest :
           /\ web[r] = "new" => result[r] = "none" /\ r \notin applied
           /\ result[r] = "ok" => r \in applied
           /\ result[r] = "failed" => r \notin applied
    /\ AnswersTrue

\* A client has no more calls and answers under way than it may.
CallsInv ==
    /\ \A c \in Client : calls[c] + Len(answers[c]) <= MaxCalls
    /\ up => version > 0

MapInv == MapTypeOK /\ FilesInv /\ RequestsInv /\ CallsInv

-----------------------------------------------------------------------------
(* Maps.                                                                   *)

LEMMA EditKeepsUnique ==
    ASSUME NEW map, map \subseteq Markers, NEW e \in MapEdits, Unique(map), FitsMap(map, e)
    PROVE  Edited(map, e) \subseteq Markers /\ Unique(Edited(map, e))
<1> USE DEF Edited, Unique, MapEdits, Markers, Operations
<1>1. CASE e.op = "add"
  BY <1>1 DEF FitsMap, Ids
<1>2. CASE e.op = "edit"
  BY <1>2
<1>3. CASE e.op = "delete"
  BY <1>3
<1>4. QED BY <1>1, <1>2, <1>3

\* What is written reads back as markers, each id once.
LEMMA SaveKeepsUnique ==
    ASSUME NEW map, map \subseteq Markers, NEW f, Unique(map)
    PROVE  /\ Saved(f, map) \subseteq Markers /\ Saved(f, map) # BrokenFile
           /\ Unique(Saved(f, map))
           /\ f \in TextFile => \A m \in Saved(f, map) : m.kind \in TextKinds
<1>1. \A m \in Markers : /\ InText(m) \in Markers /\ InText(m).id = m.id
                         /\ m.kind \notin {"other", "unknown"} => InText(m).kind \in TextKinds
  BY DEF InText, Markers, TextKinds
<1>2. CASE f \in TextFile
  <2>1. \A m \in Saved(f, map) :
            \E n \in map : m = InText(n) /\ n.kind \notin {"other", "unknown"}
    BY <1>2 DEF Saved
  <2>2. \A m \in Saved(f, map) : m \in Markers /\ m.kind \in TextKinds
    <3> SUFFICES ASSUME NEW m \in Saved(f, map) PROVE m \in Markers /\ m.kind \in TextKinds
      OBVIOUS
    <3>1. PICK n \in map : m = InText(n) /\ n.kind \notin {"other", "unknown"}
      BY <2>1
    <3>2. n \in Markers
      OBVIOUS
    <3>3. QED BY <1>1, <3>1, <3>2
  <2>3. Unique(Saved(f, map))
    <3> SUFFICES ASSUME NEW m \in Saved(f, map), NEW n \in Saved(f, map), m.id = n.id
                 PROVE  m = n
      BY DEF Unique
    <3>1. PICK a \in map : m = InText(a)
      BY <2>1
    <3>2. PICK b \in map : n = InText(b)
      BY <2>1
    <3>3. a \in Markers /\ b \in Markers
      OBVIOUS
    <3>4. m.id = a.id /\ n.id = b.id
      BY <1>1, <3>1, <3>2, <3>3
    <3>5. a = b
      BY <3>4 DEF Unique
    <3>6. QED BY <3>1, <3>2, <3>5
  <2>4. QED BY <2>2, <2>3, MapAssumption
<1>3. CASE f \notin TextFile
  <2>1. Saved(f, map) = map
    BY <1>3 DEF Saved
  <2>2. QED BY <1>3, <2>1, MapAssumption
<1>4. QED BY <1>2, <1>3

\* What is left of a file that was cut short: nothing that loads, or some markers.
LEMMA CutShortType ==
    ASSUME NEW map, map \subseteq Markers, NEW f, Unique(map), NEW rest \in CutShort(f, map)
    PROVE  /\ rest \in {BrokenFile} \cup SUBSET Markers
           /\ f \in TextFile => \A m \in rest : m.kind \in TextKinds
<1>1. CASE f \in TextFile
  <2>1. rest \subseteq Saved(f, map)
    BY <1>1 DEF CutShort
  <2>2. /\ Saved(f, map) \subseteq Markers
        /\ \A m \in Saved(f, map) : m.kind \in TextKinds
    BY <1>1, SaveKeepsUnique
  <2>3. QED BY <2>1, <2>2
<1>2. CASE f \notin TextFile
  <2>1. \A i \in Id : [id |-> i, kind |-> "fixed"] \in Markers
    BY DEF Markers
  <2>2. rest = BrokenFile \/ \E kept \in SUBSET map :
            rest = kept \/ \E i \in Id : rest = kept \cup {[id |-> i, kind |-> "fixed"]}
    BY <1>2 DEF CutShort
  <2>3. QED BY <1>2, <2>1, <2>2
<1>3. QED BY <1>1, <1>2

\* A file that loads is what the server would write again.
LEMMA LoadedIsSaved ==
    ASSUME FilesInv, MapTypeOK, NEW f \in File, Loads(f, disk[f])
    PROVE  /\ disk[f] \subseteq Markers /\ Unique(disk[f]) /\ disk[f] # BrokenFile
           /\ Saved(f, disk[f]) = disk[f]
<1>1. disk[f] \subseteq Markers /\ Unique(disk[f]) /\ disk[f] # BrokenFile
  BY DEF MapTypeOK, Loads, Unique
<1>2. CASE f \in TextFile
  <2>1. \A m \in disk[f] : m.kind \in TextKinds
    BY <1>1, <1>2 DEF FilesInv
  <2>2. \A m \in disk[f] : InText(m) = m /\ m.kind \notin {"other", "unknown"}
    BY <2>1 DEF InText, TextKinds
  <2>3. QED BY <1>1, <1>2, <2>2 DEF Saved
<1>3. QED BY <1>1, <1>2 DEF Saved

LEMMA InitMap == MapInit => MapInv
<1> SUFFICES ASSUME MapInit PROVE MapInv
  OBVIOUS
<1>1. \A f \in File : disk[f] = BrokenFile
                      \/ \E m \in [id: Id, kind: {"fixed"}] : disk[f] = {m}
  BY DEF MapInit
<1>2. \A f \in File : disk[f] \in {BrokenFile} \cup SUBSET Markers
  BY <1>1 DEF Markers
<1>3. disk \in [File -> {BrokenFile} \cup SUBSET Markers]
  BY <1>2 DEF MapInit
<1>4. MapTypeOK
  <2>1. /\ calls \in [Client -> 0 .. MaxCalls] /\ answers \in [Client -> Seq(1 .. MaxVersion)]
        /\ cache \in [Client -> 0 .. MaxVersion] /\ mapCalls \in Seq(MapEdits)
        /\ version \in 0 .. MaxVersion /\ announced \in 0 .. version
    BY DEF MapInit
  <2>2. QED BY <1>3, <2>1 DEF MapInit, MapTypeOK
<1>5. \A f \in File : disk[f] # BrokenFile =>
          Unique(disk[f]) /\ \A m \in disk[f] : m.kind \in TextKinds
  BY <1>1 DEF Unique, TextKinds
<1>6. FilesInv
  BY <1>5 DEF MapInit, FilesInv, MemoryIsFile, Unique
<1>7. RequestsInv
  BY DEF MapInit, RequestsInv, AnswersTrue
<1>8. CallsInv
  BY DEF MapInit, CallsInv
<1>9. QED BY <1>4, <1>6, <1>7, <1>8 DEF MapInv

-----------------------------------------------------------------------------
(* The server.                                                             *)

\* Another map is served: that of a file, or what was read of it.
LEMMA ServesAnother ==
    ASSUME MapInv, NEW f \in File,
           \/ StartMap /\ f = Launch
           \/ SetMap(f)
           \/ SetMapRejected(f)
    PROVE  MapInv'
<1>1. /\ UNCHANGED <<disk, calls, answers, cache, mapCalls, result, web, applied, matched, ready>>
      /\ version < MaxVersion /\ version' = version + 1 /\ file' = f /\ up' = TRUE
      /\ announced' \in {announced, version'} /\ update' \in {update, update \cup matched}
  BY DEF StartMap, SetMap, SetMapRejected, fileVars, webVars, clientVars, Announce
<1>2. /\ memory' \subseteq Markers /\ Unique(memory') /\ adopted' \in BOOLEAN
      /\ ~adopted' => disk[f] = Saved(f, memory')
      /\ torn' \subseteq torn
      /\ \A g \in torn \ torn' : disk[g] # BrokenFile /\ Unique(disk[g])
  <2>1. CASE (StartMap /\ f = Launch) \/ SetMap(f)
    <3>1. Loads(f, disk[f]) /\ memory' = disk[f] /\ adopted' = FALSE /\ torn' = torn \ {f}
      BY <2>1 DEF StartMap, SetMap
    <3>2. QED
      BY <3>1, LoadedIsSaved DEF MapInv
  <2>2. CASE SetMapRejected(f)
    BY <2>2 DEF SetMapRejected, Unique, fileVars
  <2>3. QED BY <2>1, <2>2
<1>3. MapTypeOK'
  BY <1>1, <1>2 DEF MapInv, MapTypeOK
<1>4. FilesInv'
  BY <1>1, <1>2 DEF MapInv, FilesInv, MemoryIsFile, Unique
<1>5. RequestsInv'
  BY <1>1 DEF MapInv, RequestsInv, AnswersTrue
<1>6. CallsInv'
  BY <1>1 DEF MapInv, CallsInv, MapTypeOK
<1>7. QED BY <1>3, <1>4, <1>5, <1>6 DEF MapInv

\* What is lost with the server.
LEMMA GoneKeeps ==
    ASSUME MapInv, Gone, UNCHANGED <<disk, torn>> \/ DiesSaving,
           applied \subseteq applied', applied' \subseteq EditRequest,
           \A r \in applied' \ applied : web[r] \in {"waiting", "timeout"} /\ result[r] = "none"
    PROVE  RequestsInv' /\ CallsInv'
<1>1. /\ up' = FALSE /\ mapCalls' = <<>> /\ calls' = [c \in Client |-> 0]
      /\ UNCHANGED <<answers, result, web, version>>
  BY DEF Gone
<1>2. RequestsInv'
  BY <1>1 DEF MapInv, RequestsInv, AnswersTrue
<1>3. CallsInv'
  BY <1>1 DEF MapInv, CallsInv, MapTypeOK
<1>4. QED BY <1>2, <1>3

LEMMA DiesKeeps ==
    ASSUME MapInv, Dies
    PROVE  MapInv'
<1>1. Gone /\ UNCHANGED <<disk, torn, applied>>
  BY DEF Dies, fileVars
<1>2. RequestsInv' /\ CallsInv'
  BY <1>1, GoneKeeps DEF MapInv, MapTypeOK
<1>3. calls' \in [Client -> 0 .. MaxCalls] /\ mapCalls' \in Seq(MapEdits)
  BY <1>1 DEF Gone
<1>4. MapTypeOK'
  BY <1>1, <1>3 DEF Gone, MapInv, MapTypeOK
<1>5. FilesInv'
  BY <1>1 DEF Gone, MapInv, FilesInv, MemoryIsFile, Unique
<1>6. QED BY <1>2, <1>4, <1>5 DEF MapInv

\* The call before the server.
LEMMA HeadIsCall ==
    ASSUME MapInv, mapCalls # <<>>
    PROVE  /\ Head(mapCalls) \in MapEdits /\ Head(mapCalls).request \in EditRequest
           /\ 1 \in DOMAIN mapCalls /\ Head(mapCalls) = mapCalls[1]
           /\ web[Head(mapCalls).request] \in {"waiting", "timeout"}
           /\ result[Head(mapCalls).request] = "none"
           /\ Head(mapCalls).request \notin applied
<1>1. mapCalls \in Seq(MapEdits)
  BY DEF MapInv, MapTypeOK
<1>2. 1 \in DOMAIN mapCalls /\ Head(mapCalls) = mapCalls[1] /\ mapCalls[1] \in MapEdits
  BY <1>1
<1>3. mapCalls[1].request \in EditRequest
  BY <1>2 DEF MapEdits
<1>4. QED BY <1>2, <1>3 DEF MapInv, RequestsInv

\* The file is written, whole or in part.
LEMMA FileIsWritten ==
    ASSUME MapInv, NEW e \in MapEdits, FitsMap(memory, e),
           NEW rest, disk' = [disk EXCEPT ![file] = rest],
           \/ rest = Saved(file, Edited(memory, e)) /\ torn' = torn \ {file}
           \/ rest \in CutShort(file, Edited(memory, e)) /\ torn' = torn \cup {file}
    PROVE  /\ Edited(memory, e) \subseteq Markers /\ Unique(Edited(memory, e))
           /\ disk' \in [File -> {BrokenFile} \cup SUBSET Markers] /\ torn' \subseteq File
           /\ \A f \in File \ torn' : disk'[f] # BrokenFile /\ Unique(disk'[f])
           /\ \A f \in TextFile :
                  disk'[f] # BrokenFile => \A m \in disk'[f] : m.kind \in TextKinds
           /\ file \notin torn' => disk'[file] = Saved(file, Edited(memory, e))
<1> DEFINE map == Edited(memory, e)
<1>1. map \subseteq Markers /\ Unique(map)
  BY EditKeepsUnique DEF MapInv, MapTypeOK, FilesInv
<1>2. /\ disk \in [File -> {BrokenFile} \cup SUBSET Markers] /\ torn \subseteq File /\ file \in File
      /\ \A f \in File \ torn : disk[f] # BrokenFile /\ Unique(disk[f])
      /\ \A f \in TextFile : disk[f] # BrokenFile => \A m \in disk[f] : m.kind \in TextKinds
  BY DEF MapInv, MapTypeOK, FilesInv
<1> HIDE DEF map
<1>3. CASE rest = Saved(file, map) /\ torn' = torn \ {file}
  <2>1. /\ Saved(file, map) \subseteq Markers /\ Saved(file, map) # BrokenFile
        /\ Unique(Saved(file, map))
        /\ file \in TextFile => \A m \in Saved(file, map) : m.kind \in TextKinds
    BY <1>1, SaveKeepsUnique
  <2>2. QED BY <1>1, <1>2, <1>3, <2>1 DEF map
<1>4. CASE rest \in CutShort(file, map) /\ torn' = torn \cup {file}
  <2>1. /\ rest \in {BrokenFile} \cup SUBSET Markers
        /\ file \in TextFile => \A m \in rest : m.kind \in TextKinds
    BY <1>1, <1>4, CutShortType
  <2>2. QED BY <1>1, <1>2, <1>4, <2>1 DEF map
<1>5. QED BY <1>3, <1>4 DEF map

LEMMA DiesSavingKeeps ==
    ASSUME MapInv, DiesSaving
    PROVE  MapInv'
<1>1. Gone /\ mapCalls # <<>> /\ FitsMap(memory, Head(mapCalls))
  BY DEF DiesSaving
<1>2. applied' \in {applied, applied \cup {Head(mapCalls).request}}
  BY DEF DiesSaving
<1>3. RequestsInv' /\ CallsInv'
  BY <1>1, <1>2, HeadIsCall, GoneKeeps DEF MapInv, MapTypeOK
<1>4. /\ disk' \in [File -> {BrokenFile} \cup SUBSET Markers] /\ torn' \subseteq File
      /\ \A f \in File \ torn' : disk'[f] # BrokenFile /\ Unique(disk'[f])
      /\ \A f \in TextFile : disk'[f] # BrokenFile => \A m \in disk'[f] : m.kind \in TextKinds
  <2>1. PICK e \in MapEdits : e = Head(mapCalls)
    BY <1>1, HeadIsCall
  <2>2. PICK rest : /\ disk' = [disk EXCEPT ![file] = rest]
                    /\ \/ rest = Saved(file, Edited(memory, e)) /\ torn' = torn \ {file}
                       \/ rest \in CutShort(file, Edited(memory, e)) /\ torn' = torn \cup {file}
    BY <2>1 DEF DiesSaving, WriteFile, WriteSomeOfFile
  <2>3. FitsMap(memory, e)
    BY <1>1, <2>1
  <2>4. QED BY <2>2, <2>3, FileIsWritten
<1>5. FilesInv'
  BY <1>1, <1>4 DEF Gone, MapInv, FilesInv, MemoryIsFile, Unique
<1>6. applied' \subseteq EditRequest
  BY <1>1, <1>2, HeadIsCall DEF MapInv, MapTypeOK
<1>7. calls' \in [Client -> 0 .. MaxCalls] /\ mapCalls' \in Seq(MapEdits)
  BY <1>1 DEF Gone
<1>8. MapTypeOK'
  BY <1>1, <1>4, <1>6, <1>7 DEF Gone, MapInv, MapTypeOK
<1>9. QED BY <1>3, <1>5, <1>8 DEF MapInv

LEMMA MendedKeeps ==
    ASSUME MapInv, NEW f \in File, Mended(f)
    PROVE  MapInv'
<1>1. /\ ~up /\ disk' = [disk EXCEPT ![f] = {}] /\ torn' = torn \ {f}
      /\ UNCHANGED <<up, file, memory, adopted, version, announced, matched, ready, update, calls,
                     answers, cache, mapCalls, result, web, applied>>
  BY DEF Mended, serverVars, clientVars, webVars
<1>2. MapTypeOK'
  BY <1>1 DEF MapInv, MapTypeOK
<1>3. {} # BrokenFile
  OBVIOUS
<1>4. FilesInv'
  BY <1>1, <1>3 DEF MapInv, MapTypeOK, FilesInv, MemoryIsFile, Unique
<1>5. RequestsInv' /\ CallsInv'
  BY <1>1 DEF MapInv, RequestsInv, AnswersTrue, CallsInv
<1>6. QED BY <1>2, <1>4, <1>5 DEF MapInv

\* The call is taken from the queue and has a result.
LEMMA CallTaken ==
    ASSUME MapInv, mapCalls # <<>>, mapCalls' = Tail(mapCalls), UNCHANGED web,
           \/ /\ result' = [result EXCEPT ![Head(mapCalls).request] = "ok"]
              /\ applied' = applied \cup {Head(mapCalls).request}
           \/ /\ result' = [result EXCEPT ![Head(mapCalls).request] = "failed"]
              /\ applied' = applied
    PROVE  /\ RequestsInv'
           /\ mapCalls' \in Seq(MapEdits) /\ applied' \subseteq EditRequest
           /\ result' \in [EditRequest -> {"none", "ok", "failed"}]
<1> DEFINE q == Head(mapCalls).request
<1>1. /\ mapCalls \in Seq(MapEdits) /\ result \in [EditRequest -> {"none", "ok", "failed"}]
      /\ web \in [EditRequest -> {"new", "waiting", "ok", "failed", "timeout"}]
      /\ applied \subseteq EditRequest
  BY DEF MapInv, MapTypeOK
<1>2. q \in EditRequest /\ 1 \in DOMAIN mapCalls /\ q = mapCalls[1].request
      /\ web[q] \in {"waiting", "timeout"} /\ q \notin applied
  BY HeadIsCall
<1>3. mapCalls' \in Seq(MapEdits)
  BY <1>1
<1>4. \A i \in DOMAIN mapCalls' :
          i + 1 \in DOMAIN mapCalls /\ mapCalls'[i] = mapCalls[i + 1] /\ i \in Nat \ {0}
  BY <1>1
<1>5. \A i \in DOMAIN mapCalls' : /\ mapCalls'[i].request # q
                                  /\ mapCalls[i + 1].request \in EditRequest
  <2> SUFFICES ASSUME NEW i \in DOMAIN mapCalls'
               PROVE  mapCalls'[i].request # q /\ mapCalls[i + 1].request \in EditRequest
    OBVIOUS
  <2>1. i + 1 \in DOMAIN mapCalls /\ i + 1 # 1 /\ mapCalls'[i] = mapCalls[i + 1]
    BY <1>4
  <2>2. mapCalls[i + 1] \in MapEdits
    BY <1>1, <2>1
  <2>3. mapCalls[i + 1].request # mapCalls[1].request
    BY <1>2, <2>1 DEF MapInv, RequestsInv
  <2>4. QED BY <1>2, <2>1, <2>2, <2>3 DEF MapEdits
<1>6. \A r \in EditRequest : r # q => /\ result'[r] = result[r]
                                      /\ r \in applied' <=> r \in applied
  BY <1>1
<1>7. \/ result'[q] = "ok" /\ q \in applied'
      \/ result'[q] = "failed" /\ q \notin applied'
  <2>1. CASE result' = [result EXCEPT ![q] = "ok"] /\ applied' = applied \cup {q}
    BY <1>1, <1>2, <2>1
  <2>2. CASE result' = [result EXCEPT ![q] = "failed"] /\ applied' = applied
    BY <1>1, <1>2, <2>2
  <2>3. QED BY <2>1, <2>2
<1> HIDE DEF q
<1>8. \A i, j \in DOMAIN mapCalls' : mapCalls'[i].request = mapCalls'[j].request => i = j
  BY <1>4 DEF MapInv, RequestsInv
<1>9. \A i \in DOMAIN mapCalls' :
           /\ web[mapCalls'[i].request] \in {"waiting", "timeout"}
           /\ result'[mapCalls'[i].request] = "none"
           /\ mapCalls'[i].request \notin applied'
  BY <1>4, <1>5, <1>6 DEF MapInv, RequestsInv
<1>10. \A r \in EditRequest :
           /\ web[r] = "new" => result'[r] = "none" /\ r \notin applied'
           /\ result'[r] = "ok" => r \in applied'
           /\ result'[r] = "failed" => r \notin applied'
           /\ web[r] = "ok" => r \in applied'
           /\ web[r] = "failed" => r \notin applied'
  <2> SUFFICES ASSUME NEW r \in EditRequest
               PROVE  /\ web[r] = "new" => result'[r] = "none" /\ r \notin applied'
                      /\ result'[r] = "ok" => r \in applied'
                      /\ result'[r] = "failed" => r \notin applied'
                      /\ web[r] = "ok" => r \in applied'
                      /\ web[r] = "failed" => r \notin applied'
    OBVIOUS
  <2>1. CASE r = q
    BY <1>2, <1>7, <2>1
  <2>2. CASE r # q
    <3>1. /\ web[r] = "new" => result[r] = "none" /\ r \notin applied
          /\ result[r] = "ok" => r \in applied
          /\ result[r] = "failed" => r \notin applied
          /\ web[r] = "ok" => r \in applied
          /\ web[r] = "failed" => r \notin applied
      BY DEF MapInv, RequestsInv, AnswersTrue
    <3>2. result'[r] = result[r] /\ (r \in applied' <=> r \in applied)
      BY <1>6, <2>2
    <3>3. QED BY <3>1, <3>2
  <2>3. QED BY <2>1, <2>2
<1>11. RequestsInv'
  BY <1>8, <1>9, <1>10 DEF RequestsInv, AnswersTrue
<1>12. QED
  BY <1>1, <1>2, <1>3, <1>11 DEF q

LEMMA ModifyKeeps ==
    ASSUME MapInv, NEW e \in MapEdits, Modify(e)
    PROVE  /\ FilesInv' /\ CallsInv' /\ UNCHANGED web
           /\ mapCalls' \in Seq(MapEdits) /\ applied' \subseteq EditRequest
              /\ result' \in [EditRequest -> {"none", "ok", "failed"}] => MapTypeOK'
<1>1. /\ up /\ up' = up /\ file' = file /\ file \in File /\ adopted' = FALSE
      /\ version < MaxVersion /\ version' = version + 1
      /\ memory' = Edited(memory, e)
      /\ announced' = version' /\ update' = update \cup matched
      /\ UNCHANGED <<matched, ready, calls, answers, cache, web>>
  BY DEF Modify, Announce, MapInv, MapTypeOK
<1>2. /\ memory' \subseteq Markers /\ Unique(memory')
      /\ disk' \in [File -> {BrokenFile} \cup SUBSET Markers] /\ torn' \subseteq File
      /\ \A f \in File \ torn' : disk'[f] # BrokenFile /\ Unique(disk'[f])
      /\ \A f \in TextFile : disk'[f] # BrokenFile => \A m \in disk'[f] : m.kind \in TextKinds
      /\ file \notin torn' => disk'[file] = Saved(file, memory')
  <2>1. PICK rest : /\ disk' = [disk EXCEPT ![file] = rest]
                    /\ \/ rest = Saved(file, Edited(memory, e)) /\ torn' = torn \ {file}
                       \/ rest \in CutShort(file, Edited(memory, e)) /\ torn' = torn \cup {file}
    BY <1>1 DEF Modify, WriteFile, WriteSomeOfFile
  <2>2. FitsMap(memory, e)
    BY DEF Modify
  <2>3. QED BY <1>1, <2>1, <2>2, FileIsWritten
<1>3. version' \in 0 .. MaxVersion /\ announced' \in 0 .. version'
  BY <1>1 DEF MapInv, MapTypeOK
<1>4. FilesInv'
  BY <1>1, <1>2 DEF FilesInv, MemoryIsFile, Unique
<1>5. CallsInv'
  BY <1>1 DEF MapInv, CallsInv, MapTypeOK
<1>6. QED BY <1>1, <1>2, <1>3, <1>4, <1>5 DEF MapInv, MapTypeOK

LEMMA ModifyServedKeeps ==
    ASSUME MapInv, ModifyServed
    PROVE  MapInv'
<1>1. mapCalls # <<>> /\ Modify(Head(mapCalls))
  BY DEF ModifyServed
<1>2. PICK e \in MapEdits : e = Head(mapCalls)
  BY <1>1, HeadIsCall
<1>3. Modify(e)
  BY <1>1, <1>2 DEF Modify
<1>4. /\ RequestsInv'
      /\ mapCalls' \in Seq(MapEdits) /\ applied' \subseteq EditRequest
      /\ result' \in [EditRequest -> {"none", "ok", "failed"}]
  BY <1>1, <1>3, ModifyKeeps, CallTaken DEF ModifyServed
<1>5. QED BY <1>3, <1>4, ModifyKeeps DEF MapInv

LEMMA ModifyForOtherKeeps ==
    ASSUME MapInv, ModifyForOther
    PROVE  MapInv'
<1>1. PICK e \in MapEdits : Modify(e)
  BY DEF ModifyForOther
<1>2. UNCHANGED <<mapCalls, result, applied>>
  BY DEF ModifyForOther
<1>3. FilesInv' /\ CallsInv' /\ MapTypeOK' /\ UNCHANGED web
  BY <1>1, <1>2, ModifyKeeps DEF MapInv, MapTypeOK
<1>4. RequestsInv'
  BY <1>2, <1>3 DEF MapInv, RequestsInv, AnswersTrue
<1>5. QED BY <1>3, <1>4 DEF MapInv

LEMMA ModifyRefusedKeeps ==
    ASSUME MapInv, ModifyRefused
    PROVE  MapInv'
<1>1. /\ RequestsInv'
      /\ mapCalls' \in Seq(MapEdits) /\ applied' \subseteq EditRequest
      /\ result' \in [EditRequest -> {"none", "ok", "failed"}]
  BY CallTaken DEF ModifyRefused
<1>2. UNCHANGED <<disk, up, file, memory, adopted, version, announced, torn, matched, ready,
                  update, calls, answers, cache, web>>
  BY DEF ModifyRefused, fileVars, serverVars, clientVars
<1>3. QED
  BY <1>1, <1>2
     DEF MapInv, MapTypeOK, FilesInv, MemoryIsFile, Unique, CallsInv

-----------------------------------------------------------------------------
(* The clients and the HTTP plugin.                                        *)

LEMMA ClientKeeps ==
    ASSUME MapInv, NEW c \in Client,
           \/ ServeMap(c) \/ Match(c) \/ Discover(c) \/ TakeUpdate(c) \/ AskAgain(c) \/ TakeMap(c)
    PROVE  MapInv'
<1>1. /\ calls \in [Client -> 0 .. MaxCalls] /\ answers \in [Client -> Seq(1 .. MaxVersion)]
      /\ cache \in [Client -> 0 .. MaxVersion] /\ version \in 0 .. MaxVersion
  BY DEF MapInv, MapTypeOK
<1>2. \A d \in Client : Len(answers[d]) \in Nat /\ calls[d] + Len(answers[d]) <= MaxCalls
  BY <1>1 DEF MapInv, CallsInv
<1>3. UNCHANGED <<disk, torn, up, file, memory, adopted, version, announced, mapCalls, result, web,
                  applied>>
  BY DEF ServeMap, Match, Discover, TakeUpdate, AskAgain, TakeMap, fileVars, serverVars, webVars
<1>4. matched' \subseteq Client /\ ready' \subseteq Client /\ update' \subseteq Client
  BY DEF ServeMap, Match, Discover, TakeUpdate, AskAgain, TakeMap, MapInv, MapTypeOK
<1>5. /\ calls' \in [Client -> 0 .. MaxCalls] /\ answers' \in [Client -> Seq(1 .. MaxVersion)]
      /\ cache' \in [Client -> 0 .. MaxVersion]
      /\ \A d \in Client : calls'[d] + Len(answers'[d]) <= MaxCalls
  <2>1. CASE ServeMap(c)
    <3>1. /\ calls[c] > 0 /\ version \in 1 .. MaxVersion
          /\ calls' = [calls EXCEPT ![c] = calls[c] - 1]
          /\ answers' = [answers EXCEPT ![c] = Append(answers[c], version)] /\ cache' = cache
      BY <1>1, <2>1 DEF ServeMap, MapInv, CallsInv
    <3>2. Append(answers[c], version) \in Seq(1 .. MaxVersion)
          /\ Len(Append(answers[c], version)) = Len(answers[c]) + 1
      BY <1>1, <3>1
    <3>3. QED BY <1>1, <1>2, <3>1, <3>2
  <2>2. CASE Match(c) \/ Discover(c)
    BY <1>1, <1>2, <2>2 DEF Match, Discover
  <2>3. CASE TakeUpdate(c) \/ AskAgain(c)
    <3>1. /\ calls[c] + Len(answers[c]) < MaxCalls /\ UNCHANGED <<answers, cache>>
          /\ calls' = calls \/ calls' = [calls EXCEPT ![c] = calls[c] + 1]
      BY <2>3 DEF TakeUpdate, AskAgain, AskMap
    <3>2. CASE calls' = calls
      BY <1>1, <1>2, <3>1, <3>2
    <3>3. CASE calls' = [calls EXCEPT ![c] = calls[c] + 1]
      <4>1. calls[c] + 1 \in 0 .. MaxCalls
        BY <1>1, <1>2, <3>1
      <4>2. QED BY <1>1, <1>2, <3>1, <3>3, <4>1
    <3>4. QED BY <3>1, <3>2, <3>3
  <2>4. CASE TakeMap(c)
    <3>1. /\ answers[c] # <<>> /\ calls' = calls
          /\ cache' = [cache EXCEPT ![c] = Head(answers[c])]
          /\ answers' = [answers EXCEPT ![c] = Tail(answers[c])]
      BY <2>4 DEF TakeMap
    <3>2. /\ Head(answers[c]) \in 1 .. MaxVersion /\ Tail(answers[c]) \in Seq(1 .. MaxVersion)
          /\ Len(Tail(answers[c])) = Len(answers[c]) - 1
      BY <1>1, <3>1
    <3>3. QED BY <1>1, <1>2, <3>1, <3>2
  <2>5. QED BY <2>1, <2>2, <2>3, <2>4
<1>6. MapTypeOK' /\ CallsInv'
  BY <1>3, <1>4, <1>5 DEF MapInv, MapTypeOK, CallsInv
<1>7. FilesInv' /\ RequestsInv'
  BY <1>3 DEF MapInv, FilesInv, MemoryIsFile, Unique, RequestsInv,
              AnswersTrue
<1>8. QED BY <1>6, <1>7 DEF MapInv

LEMMA WebKeeps ==
    ASSUME MapInv, NEW r \in EditRequest, Ask(r) \/ Answer(r) \/ TimesOut(r)
    PROVE  MapInv'
<1>1. /\ mapCalls \in Seq(MapEdits) /\ result \in [EditRequest -> {"none", "ok", "failed"}]
      /\ web \in [EditRequest -> {"new", "waiting", "ok", "failed", "timeout"}]
      /\ \A i \in DOMAIN mapCalls : mapCalls[i].request \in EditRequest
  <2>1. \A e \in MapEdits : e.request \in EditRequest
    BY DEF MapEdits
  <2>2. mapCalls \in Seq(MapEdits)
    BY DEF MapInv, MapTypeOK
  <2>3. \A i \in DOMAIN mapCalls : mapCalls[i] \in MapEdits
    BY <2>2
  <2>4. QED BY <2>1, <2>2, <2>3 DEF MapInv, MapTypeOK
<1>2. UNCHANGED <<disk, torn, up, file, memory, adopted, version, announced, matched, ready, update,
                  calls, answers, cache, applied>>
  BY DEF Ask, Answer, TimesOut, fileVars, serverVars, clientVars
<1>3. /\ mapCalls' \in Seq(MapEdits) /\ result' \in [EditRequest -> {"none", "ok", "failed"}]
      /\ web' \in [EditRequest -> {"new", "waiting", "ok", "failed", "timeout"}]
      /\ RequestsInv'
  <2>1. CASE Ask(r) /\ mapCalls' = mapCalls
    BY <1>1, <1>2, <2>1 DEF Ask, MapInv, RequestsInv, AnswersTrue
  <2>2. ASSUME NEW e \in Askable, e.request = r, mapCalls' = Append(mapCalls, e), web[r] = "new",
               web' = [web EXCEPT ![r] = "waiting"], result' = result
        PROVE  /\ mapCalls' \in Seq(MapEdits)
               /\ web' \in [EditRequest -> {"new", "waiting", "ok", "failed", "timeout"}]
               /\ RequestsInv'
    <3>1. e \in MapEdits /\ mapCalls' \in Seq(MapEdits)
      BY <1>1, <2>2 DEF Askable
    <3>2. /\ DOMAIN mapCalls' = 1 .. Len(mapCalls) + 1 /\ DOMAIN mapCalls = 1 .. Len(mapCalls)
          /\ Len(mapCalls) \in Nat /\ mapCalls'[Len(mapCalls) + 1] = e
          /\ \A i \in DOMAIN mapCalls : mapCalls'[i] = mapCalls[i]
      BY <1>1, <2>2, <3>1
    <3>3. \A i \in DOMAIN mapCalls : mapCalls[i].request # r
      BY <2>2 DEF MapInv, RequestsInv
    <3>4. result[r] = "none" /\ r \notin applied
      BY <2>2 DEF MapInv, RequestsInv
    <3>5. \A i, j \in DOMAIN mapCalls' : mapCalls'[i].request = mapCalls'[j].request => i = j
      BY <2>2, <3>2, <3>3 DEF MapInv, RequestsInv
    <3>6. \A i \in DOMAIN mapCalls' :
           /\ web'[mapCalls'[i].request] \in {"waiting", "timeout"}
           /\ result[mapCalls'[i].request] = "none"
           /\ mapCalls'[i].request \notin applied
      BY <1>1, <2>2, <3>2, <3>3, <3>4 DEF MapInv, RequestsInv
    <3>7. QED
      BY <1>1, <1>2, <2>2, <3>1, <3>5, <3>6 DEF MapInv, RequestsInv, AnswersTrue
  <2>3. CASE Answer(r)
    <3>1. /\ result[r] # "none" /\ UNCHANGED mapCalls
          /\ web' = [web EXCEPT ![r] = IF web[r] = "waiting" THEN result[r] ELSE web[r]]
          /\ result' = [result EXCEPT ![r] = "none"]
      BY <2>3 DEF Answer
    <3>2. \A i \in DOMAIN mapCalls : mapCalls[i].request # r
      BY <3>1 DEF MapInv, RequestsInv
    <3>3. QED
      BY <1>1, <1>2, <3>1, <3>2 DEF MapInv, RequestsInv, AnswersTrue
  <2>4. CASE TimesOut(r)
    BY <1>1, <1>2, <2>4 DEF TimesOut, MapInv, RequestsInv, AnswersTrue
  <2>5. QED BY <1>1, <2>1, <2>2, <2>3, <2>4 DEF Ask
<1>4. MapTypeOK' /\ CallsInv'
  BY <1>2, <1>3 DEF MapInv, MapTypeOK, CallsInv
<1>5. FilesInv'
  BY <1>2 DEF MapInv, FilesInv, MemoryIsFile, Unique
<1>6. QED BY <1>3, <1>4, <1>5 DEF MapInv

LEMMA StepMap == MapInv /\ [MapNext]_mapVars => MapInv'
<1> SUFFICES ASSUME MapInv, [MapNext]_mapVars PROVE MapInv'
  OBVIOUS
<1>1. CASE MapNext
  BY <1>1, ServesAnother, DiesKeeps, DiesSavingKeeps, MendedKeeps, ModifyServedKeeps,
     ModifyForOtherKeeps, ModifyRefusedKeeps, ClientKeeps, WebKeeps DEF MapNext
<1>2. CASE UNCHANGED mapVars
  BY <1>2 DEF mapVars, MapInv, MapTypeOK, FilesInv, MemoryIsFile, Unique,
              RequestsInv, AnswersTrue, CallsInv
<1>3. QED BY <1>1, <1>2

\* Server, file and HTTP clients agree in every reachable state, and a request is answered
\* once (modify_map_callback, the "map" callback, reply_base::send_raw).
THEOREM MapAlwaysSound == MapSpec => MapSound
<1>1. MapSpec => []MapInv
  BY InitMap, StepMap, PTL DEF MapSpec
<1>2. MapInv => MapTypeOK /\ MemoryIsFile /\ EditsKeepFilesLoadable /\ AnswersTrue
  BY DEF MapInv, FilesInv, RequestsInv, EditsKeepFilesLoadable, Loads, Unique
<1>3. MapInv /\ [MapNext]_mapVars
      => [\A r \in EditRequest : web[r] \notin {"new", "waiting"} => web'[r] = web[r]]_mapVars
  <2> SUFFICES ASSUME MapInv, MapNext, NEW r \in EditRequest, web[r] \notin {"new", "waiting"}
               PROVE  web'[r] = web[r]
    OBVIOUS
  <2>1. web \in [EditRequest -> {"new", "waiting", "ok", "failed", "timeout"}]
    BY DEF MapInv, MapTypeOK
  <2>2. ASSUME NEW q \in EditRequest, Ask(q) \/ Answer(q) \/ TimesOut(q)
        PROVE  web'[r] = web[r]
    BY <2>1, <2>2 DEF Ask, Answer, TimesOut
  <2>3. QED
    BY <2>2
       DEF MapNext, StartMap, Dies, DiesSaving, Gone, ModifyServed, ModifyForOther, Modify, ModifyRefused,
           Mended, SetMap,
           SetMapRejected, ServeMap, Match, Discover, TakeUpdate, AskAgain, TakeMap, webVars
<1>4. QED
  BY <1>1, <1>2, <1>3, PTL DEF MapSpec, MapSound, AnsweredOnce
=============================================================================
