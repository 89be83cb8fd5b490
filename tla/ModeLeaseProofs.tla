--------------------------- MODULE ModeLeaseProofs ---------------------------
(***************************************************************************)
(* Theorems about ModeLease for any modes, names and clients, in any       *)
(* sharing, and any number of ids and unanswered completed() calls.        *)
(***************************************************************************)
EXTENDS ModeLease, TLAPS

USE ModesAssumption DEF Id, None, Stages

LEMMA InitTypeOK == Init => TypeOK
  BY DEF Init, TypeOK

\* What a change of the lease does to types.
LEMMA PublishTypes ==
    ASSUME TypeOK, NEW a \in 0 .. MaxId,
           Publish(a) \/ UNCHANGED <<active, inbox, pinbox>>
    PROVE  /\ active' \in 0 .. MaxId
           /\ inbox' \in [Mode -> None .. MaxId]
           /\ pinbox' \in [Mode -> None .. MaxId]
<1>1. a \in None .. MaxId
  OBVIOUS
<1>2. CASE UNCHANGED <<active, inbox, pinbox>>
  BY <1>2 DEF TypeOK
<1>3. CASE Publish(a)
  <2>1. inbox \in [Mode -> None .. MaxId] /\ pinbox \in [Mode -> None .. MaxId]
    BY DEF TypeOK
  <2>2. active' \in 0 .. MaxId
    BY <1>3 DEF Publish
  <2>3. inbox' \in [Mode -> None .. MaxId]
    BY <1>1, <1>3, <2>1 DEF Publish
  <2>4. pinbox' \in [Mode -> None .. MaxId]
    BY <1>1, <1>3, <2>1 DEF Publish
  <2>5. QED
    BY <2>2, <2>3, <2>4
<1>4. QED
  BY <1>2, <1>3

LEMMA StepTypeOK == TypeOK /\ [Next]_vars => TypeOK'
<1> SUFFICES ASSUME TypeOK, [Next]_vars
             PROVE  TypeOK'
  OBVIOUS
<1>1. ASSUME NEW m \in Mode, HandleRegister(m)
      PROVE  TypeOK'
  <2> DEFINE kept == [i \in Id |-> IF i \in broken THEN NoName ELSE record[i]]
  <2>1. kept \in [Id -> Name \cup {NoName}]
    BY DEF TypeOK
  <2>2. NameOf[m] \in Name
    OBVIOUS
  <2>3. record' \in [Id -> Name \cup {NoName}]
    BY <1>1, <2>1, <2>2 DEF HandleRegister
  <2>4. next' \in 1 .. MaxId + 1 /\ id' \in [Mode -> 0 .. MaxId]
    <3>1. next \in 1 .. MaxId + 1 /\ next <= MaxId /\ id \in [Mode -> 0 .. MaxId]
      BY <1>1 DEF HandleRegister, TypeOK
    <3>2. \/ UNCHANGED <<next, id>>
          \/ id' = [id EXCEPT ![m] = next] /\ next' = next + 1
      BY <1>1 DEF HandleRegister
    <3>3. QED BY <3>1, <3>2
  <2>5. QED
    BY <1>1, <2>3, <2>4 DEF HandleRegister, TypeOK, providerVars
<1>2. ASSUME NEW n \in Name, HandleActivate(n)
      PROVE  TypeOK'
  <2>1. PICK i \in Id : SetActive(i)
    BY <1>2 DEF HandleActivate, ActivateRecord
  <2>2. /\ active' \in 0 .. MaxId /\ inbox' \in [Mode -> None .. MaxId]
        /\ pinbox' \in [Mode -> None .. MaxId]
    BY <2>1, PublishTypes DEF SetActive
  <2>3. QED
    BY <1>2, <2>2 DEF HandleActivate, TypeOK
<1>3. ASSUME SetActive(0)
      PROVE  /\ active' \in 0 .. MaxId /\ inbox' \in [Mode -> None .. MaxId]
             /\ pinbox' \in [Mode -> None .. MaxId]
  BY <1>3, PublishTypes DEF SetActive
<1>4. ASSUME HandleDeactivate
      PROVE  TypeOK'
  BY <1>3, <1>4 DEF HandleDeactivate, TypeOK
<1>5. ASSUME NEW m \in Mode, HandleRelease(m)
      PROVE  TypeOK'
  <2>1. releases' \in [Mode -> 0 .. MaxReleases]
    BY <1>5 DEF HandleRelease, TypeOK
  <2>2. QED
    BY <1>3, <1>5, <2>1 DEF HandleRelease, TypeOK
<1>6. ASSUME NEW i \in Id, BridgeBondBreaks(i)
      PROVE  TypeOK'
  <2>1. /\ active' \in 0 .. MaxId /\ inbox' \in [Mode -> None .. MaxId]
        /\ pinbox' \in [Mode -> None .. MaxId]
    BY <1>6, PublishTypes DEF BridgeBondBreaks, Revoke
  <2>2. QED
    BY <1>6, <2>1 DEF BridgeBondBreaks, TypeOK
<1>7. ASSUME BridgeRestarts
      PROVE  TypeOK'
  <2>1. /\ active' \in 0 .. MaxId /\ inbox' \in [Mode -> None .. MaxId]
        /\ pinbox' \in [Mode -> None .. MaxId]
    BY <1>7, PublishTypes DEF BridgeRestarts
  <2>2. /\ record' \in [Id -> Name \cup {NoName}] /\ next' \in 1 .. MaxId + 1
        /\ restarts' \in 0 .. MaxRestarts /\ releases' \in [Mode -> 0 .. MaxReleases]
    BY <1>7 DEF BridgeRestarts, TypeOK
  <2>3. QED
    BY <1>7, <2>1, <2>2 DEF BridgeRestarts, TypeOK
<1>8. ASSUME NEW m \in Mode,
             Construct(m) \/ Constructed(m) \/ ConstructionFails(m) \/ CreateProvider(m)
      PROVE  TypeOK'
  <2>1. active \in None .. MaxId /\ ClientOf[m] \in Client
    BY DEF TypeOK
  <2>2. CASE Construct(m) \/ ConstructionFails(m)
    BY <2>2 DEF Construct, ConstructionFails, TypeOK, bridgeVars, providerVars
  <2>3. CASE Constructed(m)
    BY <2>1, <2>3 DEF Constructed, TypeOK, bridgeVars
  <2>4. CASE CreateProvider(m)
    BY <2>1, <2>4 DEF CreateProvider, TypeOK, bridgeVars, modeVars
  <2>5. QED BY <1>8, <2>2, <2>3, <2>4
<1>9. ASSUME NEW m \in Mode,
             TakeModeState(m) \/ ModeBondBreaks(m) \/ ModeGoes(m)
      PROVE  TypeOK'
  <2>1. None \in None .. MaxId /\ 0 \in 0 .. MaxId
    OBVIOUS
  <2>2. CASE TakeModeState(m)
    BY <2>1, <2>2 DEF TakeModeState, TypeOK, bridgeVars, providerVars
  <2>3. CASE ModeBondBreaks(m)
    BY <2>3 DEF ModeBondBreaks, TypeOK, bridgeVars, providerVars
  <2>4. CASE ModeGoes(m)
    BY <2>1, <2>4 DEF ModeGoes, TypeOK, bridgeVars
  <2>5. QED BY <1>9, <2>2, <2>3, <2>4
<1>10. ASSUME NEW m \in Mode, ProviderTakesModeState(m)
       PROVE  TypeOK'
  BY <1>10 DEF ProviderTakesModeState, TypeOK, bridgeVars, modeVars
<1>11. ASSUME NEW m \in Mode, Completed(m)
       PROVE  TypeOK'
  <2>1. releases' \in [Mode -> 0 .. MaxReleases]
    BY <1>11 DEF Completed, TypeOK
  <2>2. QED
    BY <1>11, <2>1 DEF Completed, TypeOK, bridgeVars, modeVars, providerVars
<1>12. CASE UNCHANGED vars
  BY <1>12 DEF vars, TypeOK
<1>13. QED
  BY <1>1, <1>2, <1>4, <1>5, <1>6, <1>7, <1>8, <1>9, <1>10, <1>11, <1>12 DEF Next, ModeStep

\* Types, for every value of the constants (mode_base, bridge, setpoint_base).
THEOREM LeaseTypes == Spec => []TypeOK
  BY InitTypeOK, StepTypeOK, PTL DEF Spec

-----------------------------------------------------------------------------
\* Ids from next on are free, and only registered modes are broken.
RegistryInv ==
    /\ \A i \in Id : i >= next => ~Registered(i)
    /\ \A i \in broken : Registered(i)
    /\ LeaseHolderRegistered
    /\ NamesUnique

LEMMA StepRegistry ==
    ASSUME TypeOK, RegistryInv, [Next]_vars
    PROVE  RegistryInv'
<1> USE DEF RegistryInv, LeaseHolderRegistered, NamesUnique, Registered
<1>1. ASSUME NEW m \in Mode, HandleRegister(m)
      PROVE  RegistryInv'
  <2> DEFINE kept == [i \in Id |-> IF i \in broken THEN NoName ELSE record[i]]
  <2>1. NameOf[m] # NoName /\ next \in Id
    BY <1>1 DEF HandleRegister, TypeOK
  <2>2. broken' = {} /\ active' = active
    BY <1>1 DEF HandleRegister
  <2>3. CASE NameTaken(NameOf[m], kept)
    <3>1. record' = kept /\ next' = next
      BY <1>1, <2>3 DEF HandleRegister
    <3>2. QED
      BY <2>2, <3>1 DEF TypeOK
  <2>4. CASE ~NameTaken(NameOf[m], kept)
    <3>1. record' = [kept EXCEPT ![next] = NameOf[m]] /\ next' = next + 1
      BY <1>1, <2>4 DEF HandleRegister
    <3>2. \A i \in Id : kept[i] # NameOf[m]
      BY <2>4 DEF NameTaken
    <3>3. \A i \in Id : i >= next' => record'[i] = NoName
      BY <2>1, <3>1 DEF TypeOK
    <3>4. LeaseHolderRegistered'
      BY <2>1, <2>2, <3>1 DEF TypeOK
    <3>5. NamesUnique'
      BY <2>1, <3>1, <3>2 DEF TypeOK
    <3>6. QED
      BY <2>2, <3>3, <3>4, <3>5
  <2>5. QED BY <2>3, <2>4
<1>2. ASSUME NEW n \in Name, HandleActivate(n)
      PROVE  RegistryInv'
  <2>1. PICK i \in Id \ broken : record[i] = n /\ SetActive(i)
    BY <1>2 DEF HandleActivate, ActivateRecord
  <2>2. active' = i
    BY <2>1 DEF SetActive, Publish
  <2>3. QED
    BY <1>2, <2>1, <2>2 DEF HandleActivate, TypeOK
<1>3. ASSUME HandleDeactivate \/ \E m \in Mode : HandleRelease(m)
      PROVE  RegistryInv'
  <2>1. active' = 0 /\ UNCHANGED <<record, broken, next>>
    BY <1>3 DEF HandleDeactivate, HandleRelease, SetActive, Publish
  <2>2. QED
    BY <2>1 DEF TypeOK
<1>4. ASSUME NEW i \in Id, BridgeBondBreaks(i)
      PROVE  RegistryInv'
  <2>1. /\ record[i] # NoName /\ broken' = broken \cup {i}
        /\ active' = IF active = i THEN 0 ELSE active
        /\ UNCHANGED <<record, next>>
    BY <1>4 DEF BridgeBondBreaks, Revoke, Publish
  <2>2. QED
    BY <2>1 DEF TypeOK
<1>5. CASE BridgeRestarts
  BY <1>5 DEF BridgeRestarts, Publish
<1>6. ASSUME NEW m \in Mode,
             \/ Construct(m) \/ Constructed(m) \/ ConstructionFails(m) \/ CreateProvider(m)
             \/ TakeModeState(m) \/ ProviderTakesModeState(m) \/ Completed(m)
             \/ ModeBondBreaks(m) \/ ModeGoes(m)
      PROVE  RegistryInv'
  BY <1>6 DEF Construct, Constructed, ConstructionFails, CreateProvider, TakeModeState,
              ProviderTakesModeState, Completed, ModeBondBreaks, ModeGoes, bridgeVars
<1>7. CASE UNCHANGED vars
  BY <1>7 DEF vars
<1>8. QED
  BY <1>1, <1>2, <1>3, <1>4, <1>5, <1>6, <1>7 DEF Next, ModeStep

\* The lease holder is always registered and unbroken, and a name finds one mode
\* (handle_register_mode, handle_activate_mode, handle_mode_bond_broken).
THEOREM RegistrySound == Spec => [](LeaseHolderRegistered /\ NamesUnique)
<1>1. Init => RegistryInv
  BY DEF Init, RegistryInv, Registered, LeaseHolderRegistered, NamesUnique
<1>2. TypeOK /\ RegistryInv /\ [Next]_vars => RegistryInv'
  BY StepRegistry
<1>3. RegistryInv => LeaseHolderRegistered /\ NamesUnique
  BY DEF RegistryInv
<1>4. QED
  BY <1>1, <1>2, <1>3, LeaseTypes, PTL DEF Spec

-----------------------------------------------------------------------------
\* A mode_state on its way is the latest one, and a mode is not up before the
\* bridge has handled its registration.
GateInv ==
    /\ SettledLease
    /\ \A m \in queued : ~Up(m)
    /\ \A m \in Mode : ~Up(m) => bound[m] = 0
    /\ \A m \in Mode : Up(m) => inbox[m] \in {None, active}
    /\ \A m \in Mode : HasProvider(m) => pinbox[m] \in {None, active}

\* A published lease is on its way to everybody, so nothing counts as settled.
LEMMA PublishGate ==
    ASSUME TypeOK, GateInv, NEW a \in 0 .. MaxId,
           Publish(a) \/ UNCHANGED <<active, inbox, pinbox>>,
           UNCHANGED <<stage, id, on, bound, seen>>, queued' \subseteq queued
    PROVE  GateInv'
<1>1. CASE Publish(a)
  <2>1. /\ active' = a
        /\ \A m \in Mode : Up(m) => inbox'[m] = a
        /\ \A m \in Mode : HasProvider(m) => pinbox'[m] = a
    BY <1>1 DEF Publish, TypeOK, Up, HasProvider
  <2>2. \A m \in Mode : (Up(m)' <=> Up(m)) /\ (HasProvider(m)' <=> HasProvider(m))
    BY DEF Up, HasProvider
  <2>3. \A m \in Mode : /\ Up(m)' => inbox'[m] = active' /\ inbox'[m] # None
                        /\ HasProvider(m)' => pinbox'[m] = active' /\ pinbox'[m] # None
    BY <2>1, <2>2
  <2>4. SettledLease'
    BY <2>3 DEF SettledLease
  <2>5. \A m \in queued' : ~Up(m)'
    BY <2>2 DEF GateInv, TypeOK
  <2>6. \A m \in Mode : ~Up(m)' => bound'[m] = 0
    BY <2>2 DEF GateInv
  <2>7. QED
    BY <2>3, <2>4, <2>5, <2>6 DEF GateInv
<1>2. CASE UNCHANGED <<active, inbox, pinbox>>
  BY <1>2 DEF GateInv, SettledLease, Up, HasProvider
<1>3. QED BY <1>1, <1>2

LEMMA StepGate ==
    ASSUME TypeOK, GateInv, [Next]_vars
    PROVE  GateInv'
<1>1. ASSUME NEW m \in Mode, HandleRegister(m)
      PROVE  GateInv'
  <2>1. \A n \in Mode : Up(n) => id'[n] = id[n]
    BY <1>1 DEF HandleRegister, GateInv, TypeOK
  <2>2. QED
    BY <1>1, <2>1 DEF HandleRegister, GateInv, SettledLease, Up, HasProvider, providerVars
<1>2. ASSUME NEW n \in Name, HandleActivate(n)
      PROVE  GateInv'
  BY <1>2, PublishGate DEF HandleActivate, ActivateRecord, SetActive
<1>3. ASSUME HandleDeactivate \/ (\E m \in Mode : HandleRelease(m))
      PROVE  GateInv'
  BY <1>3, PublishGate DEF HandleDeactivate, HandleRelease, SetActive
<1>4. ASSUME NEW i \in Id, BridgeBondBreaks(i)
      PROVE  GateInv'
  BY <1>4, PublishGate DEF BridgeBondBreaks, Revoke
<1>5. CASE BridgeRestarts
  BY <1>5, PublishGate DEF BridgeRestarts
<1>6. ASSUME NEW m \in Mode, Construct(m) \/ ConstructionFails(m) \/ Completed(m)
      PROVE  GateInv'
  <2>1. /\ UNCHANGED <<active, id, on, bound, seen, inbox, pinbox>>
        /\ \A n \in Mode : Up(n)' <=> Up(n)
    BY <1>6 DEF Construct, ConstructionFails, Completed, Up, bridgeVars, modeVars, providerVars,
                TypeOK
  <2>2. \A n \in queued' : ~Up(n)'
    <3>1. CASE Construct(m)
      <4>1. queued' = queued \cup {m} /\ ~Up(m)'
        BY <3>1, <2>1 DEF Construct, Up, TypeOK
      <4>2. queued \subseteq Mode
        BY DEF TypeOK
      <4>3. QED
        BY <4>1, <4>2, <2>1 DEF GateInv
    <3>2. CASE ConstructionFails(m) \/ Completed(m)
      <4>1. queued' = queued
        BY <3>2 DEF ConstructionFails, Completed
      <4>2. queued \subseteq Mode
        BY DEF TypeOK
      <4>3. QED
        BY <4>1, <4>2, <2>1 DEF GateInv
    <3>3. QED
      BY <1>6, <3>1, <3>2
  <2>3. \A n \in Mode : HasProvider(n)' <=> HasProvider(n)
    BY <2>1 DEF HasProvider
  <2>4. SettledLease'
    BY <2>1, <2>3 DEF GateInv, SettledLease
  <2>5. QED
    BY <2>1, <2>2, <2>3, <2>4 DEF GateInv
<1>7. ASSUME NEW m \in Mode, Constructed(m)
      PROVE  GateInv'
  <2>1. /\ inbox' = [inbox EXCEPT ![m] = active] /\ active # None
        /\ UNCHANGED <<active, id, on, bound, seen, pinbox, queued>>
        /\ \A n \in Mode : n # m => Up(n)' = Up(n)
        /\ m \notin queued
    BY <1>7 DEF Constructed, Up, TypeOK, bridgeVars
  <2>2. bound[m] = 0
    BY <1>7 DEF Constructed, GateInv, Up
  <2>3. QED
    BY <2>1, <2>2 DEF GateInv, SettledLease, HasProvider, TypeOK
<1>8. ASSUME NEW m \in Mode, CreateProvider(m)
      PROVE  GateInv'
  <2>1. pinbox' = [pinbox EXCEPT ![m] = active] /\ active # None
    BY <1>8 DEF CreateProvider, TypeOK
  <2>2. /\ \A n \in Mode \ {m} : bound'[n] = bound[n] /\ pinbox'[n] = pinbox[n]
        /\ pinbox'[m] = active /\ Up(m)
        /\ UNCHANGED <<active, queued, stage, id, on, inbox, seen>>
    BY <1>8, <2>1 DEF CreateProvider, bridgeVars, modeVars, TypeOK
  <2>3. \A n \in Mode : Up(n)' <=> Up(n)
    BY <2>2 DEF Up
  <2>4. \A n \in Mode \ {m} : HasProvider(n)' <=> HasProvider(n)
    BY <2>2, <2>3 DEF HasProvider
  <2>5. SettledLease'
    BY <2>1, <2>2, <2>3, <2>4 DEF GateInv, SettledLease
  <2>6. /\ \A n \in queued' : ~Up(n)'
        /\ \A n \in Mode : Up(n)' => inbox'[n] \in {None, active'}
    BY <2>2, <2>3 DEF GateInv, TypeOK
  <2>7. \A n \in Mode : ~Up(n)' => bound'[n] = 0
    BY <2>2, <2>3 DEF GateInv
  <2>8. \A n \in Mode : HasProvider(n)' => pinbox'[n] \in {None, active'}
    BY <2>2, <2>4 DEF GateInv
  <2>9. QED
    BY <2>5, <2>6, <2>7, <2>8 DEF GateInv
<1>9. ASSUME NEW m \in Mode, ProviderTakesModeState(m)
      PROVE  GateInv'
  <2>1. /\ pinbox[m] = active
        /\ pinbox' = [pinbox EXCEPT ![m] = None] /\ seen' = [seen EXCEPT ![m] = active]
        /\ UNCHANGED <<active, queued, stage, id, on, inbox, bound>>
    BY <1>9 DEF ProviderTakesModeState, GateInv, bridgeVars, modeVars
  <2>2. QED
    BY <2>1 DEF GateInv, SettledLease, Up, HasProvider, TypeOK
<1>10. ASSUME NEW m \in Mode, TakeModeState(m)
       PROVE  GateInv'
  <2>1. /\ inbox[m] = active
        /\ inbox' = [inbox EXCEPT ![m] = None]
        /\ on' = [on EXCEPT ![m] = (active = id[m])]
        /\ UNCHANGED <<active, queued, stage, id, pinbox, bound, seen>>
    BY <1>10 DEF TakeModeState, GateInv, bridgeVars, providerVars
  <2>2. QED
    BY <2>1 DEF GateInv, SettledLease, Up, HasProvider, TypeOK
<1>11. ASSUME NEW m \in Mode, ModeBondBreaks(m)
       PROVE  GateInv'
  BY <1>11 DEF ModeBondBreaks, GateInv, SettledLease, Up, HasProvider, bridgeVars, providerVars,
               TypeOK
<1>12. ASSUME NEW m \in Mode, ModeGoes(m)
       PROVE  GateInv'
  <2>1. /\ \A n \in Mode : Up(n)' => Up(n) /\ n # m
        /\ UNCHANGED <<active, queued, id>>
        /\ \A n \in Mode \ {m} : /\ on'[n] = on[n] /\ inbox'[n] = inbox[n]
                                 /\ bound'[n] = bound[n] /\ seen'[n] = seen[n]
                                 /\ pinbox'[n] = pinbox[n]
    BY <1>12 DEF ModeGoes, Up, bridgeVars, TypeOK
  <2>2. bound'[m] = 0 /\ \A n \in Mode : ~Up(n)' => n = m \/ ~Up(n)
    BY <1>12 DEF ModeGoes, Up, TypeOK
  <2>3. SettledLease'
    BY <2>1 DEF GateInv, SettledLease, HasProvider
  <2>4. /\ \A n \in queued' : ~Up(n)'
        /\ \A n \in Mode : Up(n)' => inbox'[n] \in {None, active'}
    BY <2>1 DEF GateInv, TypeOK
  <2>5. \A n \in Mode : ~Up(n)' => bound'[n] = 0
    BY <2>1, <2>2 DEF GateInv
  <2>6. \A n \in Mode : HasProvider(n)' => pinbox'[n] \in {None, active'}
    BY <2>1 DEF GateInv, HasProvider
  <2>7. QED
    BY <2>3, <2>4, <2>5, <2>6 DEF GateInv
<1>13. CASE UNCHANGED vars
  BY <1>13 DEF vars, GateInv, SettledLease, Up, HasProvider
<1>14. QED
  BY <1>1, <1>2, <1>3, <1>4, <1>5, <1>6, <1>7, <1>8, <1>9, <1>10, <1>11, <1>12, <1>13
     DEF Next, ModeStep

\* When mode_state has arrived, only the holder of the lease is active and only
\* its setpoints pass a gate (handle_mode_state, stream_allowed).
THEOREM GatesFollowLease == Spec => []SettledLease
<1>1. Init => GateInv
  BY DEF Init, GateInv, SettledLease, Up, HasProvider
<1>2. TypeOK /\ GateInv /\ [Next]_vars => GateInv'
  BY StepGate
<1>3. GateInv => SettledLease
  BY DEF GateInv
<1>4. QED
  BY <1>1, <1>2, <1>3, LeaseTypes, PTL DEF Spec

-----------------------------------------------------------------------------
\* Ids are handed out once, and a mode that is up has one.
IdsUnique ==
    /\ \A m \in Mode : id[m] < next
    /\ \A m, n \in Mode : id[m] = id[n] /\ id[m] # 0 => m = n
    /\ \A m \in Mode : Up(m) => id[m] # 0
    /\ \A m \in Mode : m \in queued \/ stage[m] = "new" => ~Up(m)

\* They stay so until the bridge is restarted.
IdInv == restarts = 0 => IdsUnique

LEMMA StepRestarts ==
    ASSUME [Next]_vars, ~BridgeRestarts
    PROVE  restarts' = restarts
  BY DEF Next, ModeStep, vars, Construct, Constructed, ConstructionFails, CreateProvider,
         TakeModeState, ProviderTakesModeState, Completed, ModeBondBreaks, ModeGoes,
         HandleRegister, HandleRelease, HandleActivate, HandleDeactivate, BridgeBondBreaks

LEMMA StepIds ==
    ASSUME TypeOK, IdsUnique, [Next]_vars, ~BridgeRestarts
    PROVE  IdsUnique'
<1>1. ASSUME NEW m \in Mode, HandleRegister(m)
      PROVE  IdsUnique'
  <2>1. next \in 1 .. MaxId /\ queued' \subseteq queued
        /\ stage' = stage
    BY <1>1 DEF HandleRegister, TypeOK
  <2>2. CASE UNCHANGED <<next, id>>
    BY <2>1, <2>2 DEF IdsUnique, Up, TypeOK
  <2>3. CASE id' = [id EXCEPT ![m] = next] /\ next' = next + 1
    <3>1. \A n \in Mode : id'[n] = IF n = m THEN next ELSE id[n]
      BY <2>3 DEF TypeOK
    <3>2. \A n \in Mode : id[n] \in Nat /\ id[n] < next
      BY DEF IdsUnique, TypeOK
    <3>3. \A n \in Mode : id'[n] < next'
      BY <2>1, <2>3, <3>1, <3>2
    <3>4. \A k, n \in Mode : id'[k] = id'[n] /\ id'[k] # 0 => k = n
      BY <2>1, <3>1, <3>2 DEF IdsUnique
    <3>5. \A n \in Mode : Up(n)' => id'[n] # 0
      BY <2>1, <3>1 DEF IdsUnique, Up
    <3>6. QED
      BY <2>1, <3>3, <3>4, <3>5 DEF IdsUnique, Up
  <2>4. QED
    BY <1>1, <2>2, <2>3 DEF HandleRegister
<1>2. ASSUME NEW m \in Mode, Constructed(m)
      PROVE  IdsUnique'
  BY <1>2 DEF Constructed, IdsUnique, Up, TypeOK, bridgeVars
<1>3. ASSUME NEW m \in Mode, Construct(m)
      PROVE  IdsUnique'
  BY <1>3 DEF Construct, IdsUnique, Up, TypeOK, bridgeVars
<1>4. ASSUME NEW m \in Mode, ConstructionFails(m) \/ ModeGoes(m)
      PROVE  IdsUnique'
  <2>1. /\ UNCHANGED <<next, queued, id>>
        /\ \A n \in Mode : stage'[n] = stage[n] \/ stage'[n] \in {"failed", "gone"}
    BY <1>4 DEF ConstructionFails, ModeGoes, TypeOK, bridgeVars
  <2>2. \A n \in Mode : /\ Up(n)' => Up(n)
                        /\ stage'[n] = "new" => stage[n] = "new"
    BY <2>1 DEF Up
  <2>3. QED
    BY <2>1, <2>2 DEF IdsUnique
<1>5. CASE UNCHANGED <<next, queued, stage, id>>
  BY <1>5 DEF IdsUnique, Up
<1>6. ASSUME NEW m \in Mode,
             CreateProvider(m) \/ TakeModeState(m) \/ ProviderTakesModeState(m)
             \/ Completed(m) \/ ModeBondBreaks(m) \/ HandleRelease(m)
      PROVE  IdsUnique'
  BY <1>5, <1>6 DEF CreateProvider, TakeModeState, ProviderTakesModeState, Completed,
                    ModeBondBreaks, HandleRelease, bridgeVars, modeVars, providerVars
<1>7. CASE (\E n \in Name : HandleActivate(n)) \/ HandleDeactivate
           \/ (\E i \in Id : BridgeBondBreaks(i)) \/ UNCHANGED vars
  BY <1>5, <1>7 DEF HandleActivate, HandleDeactivate, BridgeBondBreaks, vars
<1>8. QED
  BY <1>1, <1>2, <1>3, <1>4, <1>6, <1>7 DEF Next, ModeStep

\* As long as the bridge lives, at most one mode streams once mode_state has
\* arrived, however clients are shared and however late completed() is answered
\* ("the bridge leases activation to a single mode at a time", bridge.hpp).
THEOREM OneModeStreams == Spec => []SettledExclusion
<1>1. Init => IdInv
  BY DEF Init, IdInv, IdsUnique, Up
<1>2. TypeOK /\ IdInv /\ [Next]_vars => IdInv'
  <2> SUFFICES ASSUME TypeOK, IdInv, [Next]_vars, restarts' = 0
               PROVE  IdsUnique'
    BY DEF IdInv
  <2>1. ~BridgeRestarts
    BY DEF BridgeRestarts, TypeOK
  <2>2. restarts' = restarts
    BY <2>1, StepRestarts
  <2>3. QED
    BY <2>1, <2>2, StepIds DEF IdInv
<1>3. SettledLease /\ IdInv => SettledExclusion
  BY DEF SettledLease, IdInv, IdsUnique, SettledExclusion, Streams, HasProvider
<1>4. QED
  BY <1>1, <1>2, <1>3, LeaseTypes, GatesFollowLease, PTL DEF Spec

=============================================================================
