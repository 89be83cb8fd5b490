------------------------ MODULE NavigateServerProofs ------------------------
(***************************************************************************)
(* Theorems about NavigateServer, first while the node stays up            *)
(* (FlightSpec) and then through all its lifecycle transitions (Spec), for *)
(* any set of goals, any timeouts that satisfy GraceAssumption, and any    *)
(* set of services in use: the slot and its handles agree, and the bond of *)
(* a goal guarantees what it is for.                                       *)
(***************************************************************************)
EXTENDS MCNavigateFlight, TLAPS

\* The types, the agreement of slot, bond, callback and goal handles, and the
\* fact that the node is up.  Each needs the others: which handler runs depends
\* on all of them.
SlotInv ==
    /\ TypeOK
    /\ life = "active"
    /\ SlotConsistent

USE DEF Offboard!Quiescent, Offboard!Phases, LiveStates, FinalStates

GoalTypeOK == goal \in [Goal -> {"unsent"} \cup LiveStates \cup FinalStates]

\* A handler that ends the goal in the slot, closes its bond and leaves no
\* process callback keeps everything in agreement.
LEMMA EndActiveSlot ==
    ASSUME SlotConsistent, GoalTypeOK, active \in Goal, late \subseteq Goal,
           NEW result \in FinalStates, FinishActive(result), CleanupBond, cb' = NoGoal
    PROVE  /\ SlotConsistent'
           /\ GoalTypeOK'
           /\ late' \subseteq Goal
           /\ active' = NoGoal /\ bond' = NoGoal /\ formed' = FALSE /\ grace' = NotStarted
<1>1. goal' = [goal EXCEPT ![active] = result]
  BY DEF FinishActive
<1>2. GoalTypeOK'
  BY <1>1 DEF GoalTypeOK
<1>3. /\ active' = NoGoal /\ bond' = NoGoal /\ formed' = FALSE /\ grace' = NotStarted
  BY DEF FinishActive, CleanupBond
<1>4. ASSUME NEW g \in Goal
      PROVE  ~Live(g)'
  <2>1. CASE g = active
    <3>1. goal'[g] = result
      BY <1>1, <2>1 DEF GoalTypeOK
    <3>2. QED
      BY <3>1 DEF Live
  <2>2. CASE g # active
    <3>1. goal'[g] = goal[g]
      BY <1>1, <2>2 DEF GoalTypeOK
    <3>2. QED
      BY <3>1, <2>2 DEF Live, SlotConsistent
  <2>3. QED BY <2>1, <2>2
<1>5. late' \subseteq Goal
  BY DEF CleanupBond, SlotConsistent
<1>6. SlotConsistent'
  BY <1>3, <1>4, GoalsAssumption DEF SlotConsistent
<1>7. QED BY <1>2, <1>3, <1>5, <1>6

LEMMA GraceRange ==
    /\ NotStarted \in NotStarted .. GracePeriod
    /\ 0 \in NotStarted .. GracePeriod
  BY GraceAssumption DEF NotStarted

LEMMA InitSlot == Init => SlotInv
<1> SUFFICES ASSUME Init PROVE SlotInv
  OBVIOUS
<1>1. Offboard!ContractTypeOK
  BY DEF Init, Offboard!ContractInit, Offboard!ContractTypeOK
<1>2. /\ goal \in [Goal -> {"unsent"} \cup LiveStates \cup FinalStates]
      /\ client \in [Goal -> {"alive", "silent", "broke"}]
      /\ \A g \in Goal : ~Live(g)
  BY DEF Init, Live
<1>3. /\ moves \in 0 .. MaxTransitions
      /\ silence \in 0 .. HeartbeatTimeout
      /\ grace \in NotStarted .. GracePeriod
  BY GoalsAssumption, GraceAssumption, GraceRange DEF Init
<1>4. TypeOK
  BY <1>1, <1>2, <1>3 DEF Init, TypeOK
<1>5. SlotConsistent
  BY <1>2, GoalsAssumption DEF Init, SlotConsistent
<1>6. QED BY <1>4, <1>5 DEF Init, SlotInv

\* An accepted goal fills an empty slot; any other is rejected.
LEMMA GoalRequestSlot ==
    ASSUME SlotInv, NEW g \in Goal, GoalRequest(g)
    PROVE  SlotInv'
<1> USE GoalsAssumption, GraceRange
<1>1. CASE active # NoGoal
  BY <1>1 DEF SlotInv, TypeOK, SlotConsistent, Live, GoalRequest, lifeVars, historyVars,
              Offboard!ContractTypeOK
<1>2. CASE active = NoGoal
  <2>1. /\ goal' = [goal EXCEPT ![g] = "executing"]
        /\ active' = g /\ bond' = g /\ formed' = FALSE /\ cb' = cb /\ cb = NoGoal
        /\ late' = late \cup ({bond} \ {NoGoal})
        /\ silence' = 0 /\ grace' = NotStarted
    BY <1>2 DEF GoalRequest, SlotInv, SlotConsistent
  <2>2. GoalTypeOK'
    BY <2>1 DEF SlotInv, TypeOK, GoalTypeOK
  <2>3. \A h \in Goal : Live(h)' <=> h = g
    BY <1>2, <2>1 DEF SlotInv, TypeOK, SlotConsistent, Live
  <2>4. SlotConsistent'
    BY <2>1, <2>3 DEF SlotConsistent
  <2>5. silence' \in 0 .. HeartbeatTimeout
    BY <2>1, GraceAssumption
  <2>6. QED
    BY <2>1, <2>2, <2>4, <2>5
       DEF SlotInv, TypeOK, GoalTypeOK, GoalRequest, lifeVars, historyVars,
           Offboard!ContractTypeOK
<1>3. QED BY <1>1, <1>2

LEMMA CancelRequestSlot ==
    ASSUME SlotInv, NEW g \in Goal, CancelRequest(g)
    PROVE  SlotInv'
  BY GoalsAssumption, GraceAssumption
     DEF SlotInv, TypeOK, SlotConsistent, Live, CancelRequest, HasOffboard,
         historyVars, Offboard!ContractTypeOK, Offboard!Reset

LEMMA LateFormedSlot ==
    ASSUME SlotInv, NEW g \in Goal, LateFormed(g)
    PROVE  SlotInv'
  BY DEF SlotInv, TypeOK, SlotConsistent, Live, LateFormed, lifeVars, historyVars,
         Offboard!ContractTypeOK

\* The formed callback starts the goal, or ends it and closes its bond.
LEMMA BondFormedSlot ==
    ASSUME SlotInv, NEW g \in Goal, BondFormed(g)
    PROVE  SlotInv'
<1> USE GoalsAssumption, GraceRange
<1>1. active \in Goal /\ bond = active /\ ~formed /\ cb = NoGoal /\ late \subseteq Goal
  BY DEF BondFormed, SlotInv, TypeOK, SlotConsistent
<1>2. ASSUME FinishActive("canceled") \/ FinishActive("aborted"), CleanupBond, cb' = NoGoal,
             life' = life, Offboard!ContractTypeOK'
      PROVE  SlotInv'
  <2>1. SlotConsistent' /\ GoalTypeOK'
    BY <1>1, <1>2, EndActiveSlot DEF SlotInv, TypeOK, GoalTypeOK
  <2>2. late' \subseteq Goal /\ active' = NoGoal /\ bond' = NoGoal /\ formed' = FALSE
        /\ grace' = NotStarted
    BY <1>1, <1>2 DEF FinishActive, CleanupBond
  <2>3. QED
    BY <1>2, <2>1, <2>2 DEF SlotInv, TypeOK, GoalTypeOK, BondFormed, historyVars
<1>3. CASE FormedWhileCanceling
  BY <1>1, <1>2, <1>3 DEF FormedWhileCanceling, SlotInv, TypeOK, Offboard!ContractTypeOK
<1>4. CASE FormedAndStarted
  <2>1. goal' = goal
    BY <1>1, <1>4 DEF FormedAndStarted
  <2>2. QED
    BY <1>1, <1>4, <2>1
       DEF FormedAndStarted, Offboard!Take, SlotInv, TypeOK, SlotConsistent, Live, BondFormed,
           historyVars, Offboard!ContractTypeOK
<1>5. CASE FormedButRefused
  BY <1>1, <1>2, <1>5 DEF FormedButRefused, Offboard!Reset, Offboard!ContractTypeOK
<1>6. CASE FormedWithoutOffboard
  BY <1>6 DEF FormedWithoutOffboard, SlotInv, HasOffboard
<1>7. QED BY <1>3, <1>4, <1>5, <1>6 DEF BondFormed

LEMMA BondBrokenSlot ==
    ASSUME SlotInv, NEW g \in Goal, BondBroken(g)
    PROVE  SlotInv'
<1> USE GoalsAssumption, GraceRange
<1>1. late' \subseteq Goal
  BY DEF SlotInv, TypeOK, BondBroken
<1>2. CASE g = bond
  <2>1. /\ StopAndLand
        /\ active = g /\ cb \in {active, NoGoal} /\ HasOffboard
    BY <1>2 DEF BondBroken, CurrentBond, SlotInv, SlotConsistent, HasOffboard
  <2>2. goal' = [h \in Goal |-> IF h = active /\ Live(h) THEN "aborted"
                                ELSE IF h = cb THEN Dropped(h) ELSE goal[h]]
    BY <2>1 DEF StopAndLand
  <2>3. ASSUME NEW h \in Goal
        PROVE  /\ ~Live(h)'
               /\ goal'[h] \in {"unsent"} \cup LiveStates \cup FinalStates
    BY <2>1, <2>2 DEF Live, Dropped, SlotInv, SlotConsistent, TypeOK
  <2>4. GoalTypeOK'
    BY <2>2, <2>3 DEF GoalTypeOK
  <2>5. /\ active' = NoGoal /\ bond' = NoGoal /\ formed' = FALSE /\ grace' = NotStarted
        /\ cb' = NoGoal /\ phase' = "idle" /\ cmd' = NoCommand
    BY <2>1 DEF StopAndLand, Offboard!Reset
  <2>6. SlotConsistent'
    BY <2>3, <2>5 DEF SlotConsistent
  <2>7. QED
    BY <1>1, <2>4, <2>5, <2>6
       DEF SlotInv, TypeOK, GoalTypeOK, BondBroken, lifeVars, historyVars,
           Offboard!ContractTypeOK
<1>3. CASE g # bond
  BY <1>1, <1>3
     DEF SlotInv, TypeOK, SlotConsistent, Live, BondBroken, CurrentBond, lifeVars, historyVars,
         Offboard!ContractTypeOK
<1>4. QED BY <1>2, <1>3

\* The process callback ends the goal it is bound to, or leaves the slot alone.
LEMMA ProcessGoalSlot ==
    ASSUME SlotInv, cb # NoGoal, cb = active, ProcessGoal(cb, phase')
    PROVE  /\ SlotConsistent'
           /\ GoalTypeOK'
           /\ {active', cb', bond'} \subseteq Goal \cup {NoGoal}
           /\ formed' \in BOOLEAN
           /\ late' \subseteq Goal
           /\ grace' \in NotStarted .. GracePeriod
           /\ doomed' \subseteq Goal
<1> USE GoalsAssumption, GraceRange
<1>1. active \in Goal /\ GoalTypeOK /\ SlotConsistent /\ late \subseteq Goal
      /\ doomed \subseteq Goal
  BY DEF SlotInv, TypeOK, GoalTypeOK
<1>2. CASE /\ \/ FinishActive("canceled") \/ FinishActive("aborted") \/ FinishActive("succeeded")
           /\ cb' = NoGoal
           /\ CleanupBond
           /\ UNCHANGED doomed
  <2>1. SlotConsistent' /\ GoalTypeOK'
    BY <1>1, <1>2, EndActiveSlot
  <2>2. late' \subseteq Goal /\ active' = NoGoal /\ bond' = NoGoal /\ formed' = FALSE
        /\ grace' = NotStarted
    BY <1>1, <1>2 DEF FinishActive, CleanupBond, SlotConsistent
  <2>3. QED
    BY <1>1, <1>2, <2>1, <2>2
<1>3. CASE /\ grace' \in {NotStarted, 0, grace}
           /\ UNCHANGED <<goal, active, cb, bond, formed, late>>
           /\ doomed' \in {doomed, doomed \cup {active}}
  BY <1>1, <1>3 DEF SlotInv, TypeOK, SlotConsistent, GoalTypeOK, Live
<1>4. QED
  BY <1>2, <1>3 DEF ProcessGoal, serverVars

\* The contract lets the controller become anything but what it is not.
LEMMA UpdatePhase ==
    ASSUME Offboard!ContractTypeOK, Offboard!Update
    PROVE  Offboard!ContractTypeOK'
<1>1. Offboard!MayBecome(phase) \subseteq Offboard!Phases
  <2>1. CASE phase = "busy"
    BY <2>1 DEF Offboard!MayBecome
  <2>2. CASE phase = "hold"
    BY <2>2 DEF Offboard!MayBecome
  <2>3. CASE phase \in {"idle", "error"}
    BY <2>3 DEF Offboard!MayBecome
  <2>4. QED BY <2>1, <2>2, <2>3 DEF Offboard!ContractTypeOK
<1>2. QED BY <1>1 DEF Offboard!ContractTypeOK, Offboard!Update

LEMMA PublishSlot ==
    ASSUME SlotInv, Publish
    PROVE  SlotInv'
<1>1. Offboard!ContractTypeOK'
  BY UpdatePhase DEF SlotInv, TypeOK, Publish
<1>2. arrived' \subseteq Goal
  BY DEF SlotInv, TypeOK, Publish
<1>3. CASE cb # NoGoal /\ cb = active
  <2>1. ProcessGoal(cb, phase')
    BY <1>3 DEF Publish
  <2>2. QED
    BY <1>1, <1>2, <1>3, <2>1, ProcessGoalSlot DEF SlotInv, TypeOK, GoalTypeOK, Publish, lifeVars
<1>4. CASE ~(cb # NoGoal /\ cb = active)
  BY <1>1, <1>2, <1>4
     DEF SlotInv, TypeOK, SlotConsistent, Live, Publish, lifeVars, serverVars
<1>5. QED BY <1>3, <1>4

LEMMA ElapseSlot ==
    ASSUME SlotInv, Elapse
    PROVE  SlotInv'
<1>1. silence' \in 0 .. HeartbeatTimeout
  BY GraceAssumption DEF SlotInv, TypeOK, Elapse
<1>2. grace' \in NotStarted .. GracePeriod
  BY GraceAssumption DEF SlotInv, TypeOK, Elapse, NotStarted
<1>3. QED
  BY <1>1, <1>2 DEF SlotInv, TypeOK, SlotConsistent, Live, Elapse, lifeVars, historyVars,
                    Offboard!ContractTypeOK

\* The services and the environment do not touch the slot.
LEMMA OtherSlot ==
    ASSUME SlotInv,
           \/ Land \/ ServiceCommand \/ LinkChanges
           \/ \E g \in Goal : ClientLost(g)
           \/ UNCHANGED vars
    PROVE  SlotInv'
<1> USE DEF SlotInv, TypeOK, SlotConsistent, Live, lifeVars, serverVars, historyVars,
        Offboard!ContractTypeOK
<1>1. CASE Land
  BY <1>1 DEF Land, Offboard!Reset
<1>2. CASE ServiceCommand
  BY <1>2 DEF ServiceCommand, Offboard!Take
<1>3. CASE LinkChanges
  BY <1>3 DEF LinkChanges
<1>4. CASE \E g \in Goal : ClientLost(g)
  BY <1>4 DEF ClientLost
<1>5. CASE UNCHANGED vars
  BY <1>5 DEF vars
<1>6. QED BY <1>1, <1>2, <1>3, <1>4, <1>5

LEMMA StepSlot == SlotInv /\ [FlightNext]_vars => SlotInv'
  BY GoalRequestSlot, CancelRequestSlot, LateFormedSlot, BondFormedSlot, BondBrokenSlot,
     PublishSlot, ElapseSlot, OtherSlot DEF FlightNext, AloneNext

\* The slot, the bond, the process callback and the goal handles agree in every
\* reachable state (server.cpp, every handler of the navigate_async action).
THEOREM SlotAlwaysConsistent == FlightSpec => [](TypeOK /\ SlotConsistent)
<1>1. SlotInv => TypeOK /\ SlotConsistent
  BY DEF SlotInv
<1>2. QED
  BY InitSlot, StepSlot, <1>1, PTL DEF FlightSpec

-----------------------------------------------------------------------------
(* The node is deactivated, cleaned up, configured again, crashes and is   *)
(* respawned between any two steps of a goal.                              *)

\* There is at most one stranded goal.
StrandedHeldByCallback == \A g \in Goal : Live(g) /\ g # active => g = cb

\* What is left of SlotConsistent: a goal may have left the slot and be stranded,
\* and a node without a controller has no callback.
LifeAgrees ==
    /\ StrandedHeldByCallback
    /\ bond = active
    /\ formed => active # NoGoal /\ cb = active
    /\ active # NoGoal => Live(active)
    /\ cb # NoGoal => goal[cb] # "unsent"
    /\ life = "unconfigured" => cb = NoGoal

LifeInv == TypeOK /\ LifeAgrees

LEMMA InitLife == Init => LifeInv
<1> SUFFICES ASSUME Init PROVE LifeInv
  OBVIOUS
<1>1. TypeOK
  BY InitSlot DEF SlotInv
<1>2. LifeAgrees
  BY GoalsAssumption DEF Init, LifeAgrees, StrandedHeldByCallback, Live
<1>3. QED BY <1>1, <1>2 DEF LifeInv

\* The goal in the slot ends and its bond is closed; the process callback goes
\* with it or was another goal's.
LEMMA EndActiveLife ==
    ASSUME LifeInv, active \in Goal, NEW result \in FinalStates, FinishActive(result), CleanupBond,
           life' = life, cb' = cb \/ (cb = active /\ cb' = NoGoal)
    PROVE  /\ LifeAgrees'
           /\ GoalTypeOK'
           /\ late' \subseteq Goal
           /\ {active', bond', cb'} \subseteq Goal \cup {NoGoal}
           /\ formed' = FALSE /\ grace' = NotStarted
<1> USE GoalsAssumption DEF LifeInv, TypeOK, LifeAgrees
<1>1. goal' = [goal EXCEPT ![active] = result]
  BY DEF FinishActive
<1>2. /\ active' = NoGoal /\ bond' = NoGoal /\ formed' = FALSE /\ grace' = NotStarted
      /\ late' \subseteq Goal
  BY DEF FinishActive, CleanupBond
<1>3. GoalTypeOK'
  BY <1>1 DEF GoalTypeOK
<1>4. ASSUME NEW g \in Goal, Live(g)'
      PROVE  Live(g) /\ g # active /\ cb' = g
  BY <1>1, <1>4 DEF Live, StrandedHeldByCallback
<1>5. StrandedHeldByCallback'
  BY <1>4 DEF StrandedHeldByCallback
<1>6. cb' # NoGoal => goal'[cb'] # "unsent"
  BY <1>1
<1>7. LifeAgrees'
  BY <1>2, <1>5, <1>6
<1>8. QED BY <1>2, <1>3, <1>7

LEMMA GoalRequestLife ==
    ASSUME LifeInv, NEW g \in Goal, GoalRequest(g)
    PROVE  LifeInv'
<1> USE GoalsAssumption, GraceRange DEF LifeInv, TypeOK, LifeAgrees
<1>1. CASE active # NoGoal
  BY <1>1 DEF GoalRequest, lifeVars, historyVars, Offboard!ContractTypeOK,
              StrandedHeldByCallback, Live
<1>2. CASE active = NoGoal
  <2>1. /\ goal' = [goal EXCEPT ![g] = "executing"] /\ goal[g] = "unsent"
        /\ active' = g /\ bond' = g /\ formed' = FALSE /\ cb' = cb
        /\ late' = late \cup ({bond} \ {NoGoal})
        /\ silence' = 0 /\ grace' = NotStarted
    BY <1>2 DEF GoalRequest
  <2>2. GoalTypeOK'
    BY <2>1 DEF GoalTypeOK
  <2>3. LifeAgrees'
    BY <1>2, <2>1 DEF StrandedHeldByCallback, Live, GoalRequest, lifeVars
  <2>4. silence' \in 0 .. HeartbeatTimeout
    BY <2>1, GraceAssumption
  <2>5. QED
    BY <2>1, <2>2, <2>3, <2>4
       DEF GoalTypeOK, GoalRequest, lifeVars, historyVars, Offboard!ContractTypeOK
<1>3. QED BY <1>1, <1>2

LEMMA CancelRequestLife ==
    ASSUME LifeInv, NEW g \in Goal, CancelRequest(g)
    PROVE  LifeInv'
<1> USE GoalsAssumption DEF LifeInv, TypeOK, LifeAgrees, Offboard!ContractTypeOK
<1>1. CASE HasOffboard
  <2>1. goal' = [goal EXCEPT ![g] = "canceling"] /\ UNCHANGED <<active, bond, formed, cb, life>>
    BY <1>1 DEF CancelRequest
  <2>2. LifeAgrees'
    BY <2>1 DEF CancelRequest, StrandedHeldByCallback, Live
  <2>3. TypeOK'
    BY <1>1, <2>1 DEF CancelRequest, Offboard!Reset, historyVars
  <2>4. QED BY <2>2, <2>3
<1>2. CASE ~HasOffboard
  BY <1>2 DEF CancelRequest, historyVars, StrandedHeldByCallback, Live
<1>3. QED BY <1>1, <1>2

LEMMA BondFormedLife ==
    ASSUME LifeInv, NEW g \in Goal, BondFormed(g)
    PROVE  LifeInv'
<1> USE GoalsAssumption, GraceRange
<1>1. active \in Goal /\ bond = active /\ active = g /\ ~formed
  BY DEF BondFormed, LifeInv, TypeOK, LifeAgrees
<1>2. ASSUME FinishActive("canceled") \/ FinishActive("aborted"), CleanupBond, cb' = cb,
             life' = life, Offboard!ContractTypeOK'
      PROVE  LifeInv'
  <2>1. /\ LifeAgrees' /\ GoalTypeOK' /\ late' \subseteq Goal
        /\ {active', bond', cb'} \subseteq Goal \cup {NoGoal}
        /\ formed' = FALSE /\ grace' = NotStarted
    BY <1>1, <1>2, EndActiveLife
  <2>2. QED
    BY <1>2, <2>1 DEF LifeInv, TypeOK, GoalTypeOK, BondFormed, historyVars
<1>3. CASE FormedWhileCanceling
  BY <1>2, <1>3 DEF FormedWhileCanceling, LifeInv, TypeOK, Offboard!ContractTypeOK
<1>4. CASE FormedAndStarted
  <2>1. /\ cb' = active /\ formed' = TRUE /\ UNCHANGED <<life, active, bond, late, grace>>
        /\ goal' = IF cb \in Goal \ {active} THEN [goal EXCEPT ![cb] = Dropped(cb)] ELSE goal
        /\ goal[active] = "executing"
        /\ life # "unconfigured"
    BY <1>4 DEF FormedAndStarted, HasOffboard
  <2>2. GoalTypeOK'
    BY <2>1 DEF LifeInv, TypeOK, GoalTypeOK, Dropped
  <2>3. goal'[active] = "executing"
    BY <1>1, <2>1 DEF LifeInv, TypeOK
  <2>4. ASSUME NEW h \in Goal, Live(h)'
        PROVE  h = active
    BY <1>1, <2>1, <2>4
       DEF LifeInv, LifeAgrees, TypeOK, StrandedHeldByCallback, Live, Dropped
  <2>5. LifeAgrees'
    BY <1>1, <2>1, <2>3, <2>4 DEF LifeAgrees, StrandedHeldByCallback, Live
  <2>6. Offboard!ContractTypeOK'
    BY <1>1, <1>4 DEF FormedAndStarted, Offboard!Take, Offboard!ContractTypeOK
  <2>7. QED
    BY <1>1, <2>1, <2>2, <2>5, <2>6
       DEF LifeInv, TypeOK, GoalTypeOK, BondFormed, historyVars
<1>5. CASE FormedButRefused
  BY <1>2, <1>5 DEF FormedButRefused, Offboard!Reset, Offboard!ContractTypeOK
<1>6. CASE FormedWithoutOffboard
  BY <1>6 DEF FormedWithoutOffboard, LifeInv, TypeOK, LifeAgrees, StrandedHeldByCallback, Live,
              BondFormed, historyVars, Offboard!ContractTypeOK
<1>7. QED BY <1>3, <1>4, <1>5, <1>6 DEF BondFormed

LEMMA BondBrokenLife ==
    ASSUME LifeInv, NEW g \in Goal, BondBroken(g)
    PROVE  LifeInv'
<1> USE GoalsAssumption, GraceRange
<1>1. late' \subseteq Goal
  BY DEF LifeInv, TypeOK, BondBroken
<1>2. CASE g = bond
  <2>1. StopAndLand /\ active = g /\ UNCHANGED life
    BY <1>2 DEF BondBroken, CurrentBond, LifeInv, LifeAgrees, lifeVars
  <2>2. /\ goal' = [h \in Goal |-> IF h = active /\ Live(h) THEN "aborted"
                                   ELSE IF h = cb /\ HasOffboard THEN Dropped(h) ELSE goal[h]]
        /\ active' = NoGoal /\ bond' = NoGoal /\ formed' = FALSE /\ grace' = NotStarted
    BY <2>1 DEF StopAndLand
  <2>3. ASSUME NEW h \in Goal
        PROVE  /\ goal'[h] \in {"unsent"} \cup LiveStates \cup FinalStates
               /\ Live(h)' => h = cb /\ ~HasOffboard
               /\ goal[h] # "unsent" => goal'[h] # "unsent"
    BY <2>1, <2>2 DEF Live, Dropped, LifeInv, LifeAgrees, TypeOK, StrandedHeldByCallback
  <2>4. GoalTypeOK'
    BY <2>2, <2>3 DEF GoalTypeOK
  <2>5. /\ Offboard!ContractTypeOK'
        /\ cb' = IF HasOffboard THEN NoGoal ELSE cb
    BY <2>1 DEF StopAndLand, Offboard!Reset, Offboard!ContractTypeOK, LifeInv, TypeOK
  <2>6. LifeAgrees'
    BY <2>1, <2>2, <2>3, <2>5
       DEF LifeInv, LifeAgrees, TypeOK, StrandedHeldByCallback, HasOffboard
  <2>7. QED
    BY <1>1, <2>1, <2>2, <2>4, <2>5, <2>6
       DEF LifeInv, TypeOK, GoalTypeOK, BondBroken, lifeVars, historyVars
<1>3. CASE g # bond
  BY <1>1, <1>3
     DEF LifeInv, LifeAgrees, TypeOK, StrandedHeldByCallback, Live, BondBroken, CurrentBond,
         lifeVars, historyVars, Offboard!ContractTypeOK
<1>4. QED BY <1>2, <1>3

LEMMA PublishLife ==
    ASSUME LifeInv, Publish
    PROVE  LifeInv'
<1> USE GoalsAssumption, GraceRange
<1>1. /\ Offboard!ContractTypeOK'
      /\ arrived' \subseteq Goal
      /\ UNCHANGED <<life, moves, final, orphans, ready, client, silence>>
  BY UpdatePhase DEF LifeInv, TypeOK, Publish, lifeVars
<1>2. CASE UNCHANGED serverVars /\ UNCHANGED doomed
  BY <1>1, <1>2
     DEF LifeInv, LifeAgrees, TypeOK, StrandedHeldByCallback, Live, serverVars
<1>3. CASE cb # NoGoal /\ cb = active
  <2>1. ProcessGoal(cb, phase') /\ active \in Goal
    BY <1>3 DEF Publish, LifeInv, TypeOK
  <2>2. CASE /\ \/ FinishActive("canceled") \/ FinishActive("aborted")
                \/ FinishActive("succeeded")
             /\ cb' = NoGoal /\ CleanupBond /\ UNCHANGED doomed
    <3>1. /\ LifeAgrees' /\ GoalTypeOK' /\ late' \subseteq Goal
          /\ {active', bond', cb'} \subseteq Goal \cup {NoGoal}
          /\ formed' = FALSE /\ grace' = NotStarted
      BY <1>1, <1>3, <2>1, <2>2, EndActiveLife
    <3>2. QED
      BY <1>1, <2>2, <3>1 DEF LifeInv, TypeOK, GoalTypeOK
  <2>3. CASE /\ grace' \in {NotStarted, 0, grace}
             /\ UNCHANGED <<goal, active, cb, bond, formed, late>>
             /\ doomed' \in {doomed, doomed \cup {active}}
    BY <1>1, <2>1, <2>3 DEF LifeInv, LifeAgrees, TypeOK, StrandedHeldByCallback, Live
  <2>4. QED
    BY <1>2, <1>3, <2>1, <2>2, <2>3 DEF ProcessGoal, serverVars
<1>4. QED BY <1>2, <1>3 DEF Publish

LEMMA ElapseLife ==
    ASSUME LifeInv, Elapse
    PROVE  LifeInv'
<1>1. silence' \in 0 .. HeartbeatTimeout
  BY GraceAssumption DEF LifeInv, TypeOK, Elapse
<1>2. grace' \in NotStarted .. GracePeriod
  BY GraceAssumption DEF LifeInv, TypeOK, Elapse, NotStarted
<1>3. QED
  BY <1>1, <1>2
     DEF LifeInv, LifeAgrees, TypeOK, StrandedHeldByCallback, Live, Elapse, lifeVars,
         historyVars, Offboard!ContractTypeOK

LEMMA OtherLife ==
    ASSUME LifeInv,
           \/ Land \/ ServiceCommand \/ LinkChanges
           \/ \E g \in Goal : ClientLost(g) \/ LateFormed(g)
           \/ UNCHANGED vars
    PROVE  LifeInv'
<1> USE DEF LifeInv, LifeAgrees, TypeOK, StrandedHeldByCallback, Live, lifeVars, serverVars,
        historyVars, Offboard!ContractTypeOK
<1>1. CASE Land
  BY <1>1 DEF Land, Offboard!Reset
<1>2. CASE ServiceCommand
  BY <1>2 DEF ServiceCommand, Offboard!Take
<1>3. CASE LinkChanges
  BY <1>3 DEF LinkChanges
<1>4. CASE \E g \in Goal : ClientLost(g)
  BY <1>4 DEF ClientLost
<1>5. CASE \E g \in Goal : LateFormed(g)
  BY <1>5 DEF LateFormed
<1>6. CASE UNCHANGED vars
  BY <1>6 DEF vars
<1>7. QED BY <1>1, <1>2, <1>3, <1>4, <1>5, <1>6

LEMMA MovesBounded ==
    ASSUME LifeInv, Moves
    PROVE  moves' \in 0 .. MaxTransitions
  BY GoalsAssumption DEF LifeInv, TypeOK, Moves

\* A goal leaves the slot with the callback still bound to it, or ends.
LEMMA VacateLife ==
    ASSUME LifeInv, Deactivate \/ Shutdown
    PROVE  LifeInv'
<1> USE GoalsAssumption, GraceRange
<1>1. /\ active' = NoGoal /\ bond' = NoGoal /\ formed' = FALSE
      /\ grace' = NotStarted /\ late' \subseteq Goal /\ cb' = cb
      /\ life' \in {"inactive", life} /\ (life = "unconfigured" <=> life' = "unconfigured")
  BY DEF Deactivate, Shutdown, VacateSlot, CleanupBond, LifeInv, TypeOK
<1>2. goal' = IF active # NoGoal /\ cb # active
              THEN [goal EXCEPT ![active] = Dropped(active)] ELSE goal
  BY DEF Deactivate, Shutdown, VacateSlot
<1>3. GoalTypeOK'
  BY <1>2 DEF LifeInv, TypeOK, GoalTypeOK, Dropped
<1>4. \A g \in Goal : /\ Live(g)' => g = cb
                      /\ goal[g] # "unsent" => goal'[g] # "unsent"
  BY <1>2 DEF LifeInv, LifeAgrees, TypeOK, StrandedHeldByCallback, Live, Dropped
<1>5. LifeAgrees'
  BY <1>1, <1>4 DEF LifeInv, LifeAgrees, TypeOK, StrandedHeldByCallback
<1>6. moves' \in 0 .. MaxTransitions
  BY MovesBounded DEF Deactivate, Shutdown, Transition
<1>7. final' \in BOOLEAN /\ orphans' \subseteq Goal
  BY DEF LifeInv, TypeOK, Deactivate, Shutdown
<1>8. QED
  BY <1>1, <1>3, <1>5, <1>6, <1>7
     DEF LifeInv, TypeOK, GoalTypeOK, Deactivate, Shutdown, historyVars, Offboard!ContractTypeOK

LEMMA CleanupLife ==
    ASSUME LifeInv, Cleanup
    PROVE  LifeInv'
<1> USE GoalsAssumption, GraceRange
<1>1. /\ life' = "unconfigured" /\ active' = NoGoal /\ bond' = NoGoal /\ formed' = FALSE
      /\ grace' = NotStarted /\ late' \subseteq Goal /\ cb' = NoGoal
      /\ Offboard!ContractTypeOK'
  BY DEF Cleanup, CleanupBond, LifeInv, TypeOK, Offboard!Reset, Offboard!ContractTypeOK
<1>2. goal' = [g \in Goal |-> IF g \in {active, cb} THEN Dropped(g) ELSE goal[g]]
  BY DEF Cleanup
<1>3. ASSUME NEW g \in Goal
      PROVE  /\ goal'[g] \in {"unsent"} \cup LiveStates \cup FinalStates
             /\ ~Live(g)'
  BY <1>2 DEF LifeInv, LifeAgrees, TypeOK, StrandedHeldByCallback, Live, Dropped
<1>4. GoalTypeOK' /\ LifeAgrees'
  BY <1>1, <1>2, <1>3 DEF GoalTypeOK, LifeAgrees, StrandedHeldByCallback
<1>5. QED
  BY <1>1, <1>4, MovesBounded DEF LifeInv, TypeOK, GoalTypeOK, Cleanup, Transition, historyVars

LEMMA RespawnLife ==
    ASSUME LifeInv, Respawn
    PROVE  LifeInv'
<1> USE GoalsAssumption, GraceRange
<1>1. /\ life' = "active" /\ active' = NoGoal /\ bond' = NoGoal /\ formed' = FALSE
      /\ grace' = NotStarted /\ late' = {} /\ cb' = NoGoal /\ ready' = FALSE
      /\ Offboard!ContractTypeOK'
  BY DEF Respawn, Offboard!Reset, Offboard!ContractTypeOK
<1>2. goal' = [g \in Goal |-> IF Live(g) THEN "lost" ELSE goal[g]]
  BY DEF Respawn
<1>3. ASSUME NEW g \in Goal
      PROVE  /\ goal'[g] \in {"unsent"} \cup LiveStates \cup FinalStates
             /\ ~Live(g)'
  BY <1>2 DEF LifeInv, TypeOK, Live
<1>4. GoalTypeOK' /\ LifeAgrees'
  BY <1>1, <1>2, <1>3 DEF GoalTypeOK, LifeAgrees, StrandedHeldByCallback
<1>5. QED
  BY <1>1, <1>4, MovesBounded DEF LifeInv, TypeOK, GoalTypeOK, Respawn, historyVars

LEMMA StepLife == LifeInv /\ [Next]_vars => LifeInv'
<1> SUFFICES ASSUME LifeInv, [Next]_vars PROVE LifeInv'
  OBVIOUS
<1>1. CASE Activate \/ Configure
  BY <1>1, MovesBounded
     DEF Activate, Configure, Transition, LifeInv, LifeAgrees, TypeOK, StrandedHeldByCallback, Live,
         serverVars, historyVars, Offboard!ContractTypeOK
<1>2. CASE LifecycleNext
  BY <1>1, <1>2, VacateLife, CleanupLife, RespawnLife DEF LifecycleNext
<1>3. CASE FlightNext \/ UNCHANGED vars
  BY <1>3, GoalRequestLife, CancelRequestLife, BondFormedLife, BondBrokenLife, PublishLife,
     ElapseLife, OtherLife DEF FlightNext, AloneNext
<1>4. QED BY <1>2, <1>3 DEF Next

-----------------------------------------------------------------------------
(* The bond of a goal. Each result has one invariant of its own, while the *)
(* node stays up on top of SlotInv, through its transitions of LifeInv.    *)

\* The command that flies is the slot's goal, its bond has formed, and nobody
\* asked to cancel it: a cancel resets the controller before anything else.
WatchInv ==
    phase = "busy" /\ cmd \in Goal =>
        bond = cmd /\ formed /\ cb = cmd /\ goal[cmd] = "executing"

LEMMA BusyStaysBusy ==
    ASSUME Offboard!ContractTypeOK, Offboard!Update, phase' = "busy"
    PROVE  phase = "busy" /\ cmd' = cmd
<1>1. cmd' = cmd
  BY DEF Offboard!Update
<1>2. CASE phase = "hold"
  <2>1. Offboard!MayBecome(phase) = {"hold", "error"}
    BY <1>2 DEF Offboard!MayBecome
  <2>2. QED BY <2>1 DEF Offboard!Update
<1>3. CASE phase \in {"idle", "error"}
  <2>1. Offboard!MayBecome(phase) = {phase}
    BY <1>3 DEF Offboard!MayBecome
  <2>2. QED BY <1>3, <2>1 DEF Offboard!Update
<1>4. QED
  BY <1>1, <1>2, <1>3 DEF Offboard!ContractTypeOK, Offboard!Phases

LEMMA StepWatch ==
    ASSUME SlotInv, WatchInv, [FlightNext]_vars
    PROVE  WatchInv'
<1> USE GoalsAssumption
<1>1. ASSUME NEW g \in Goal, GoalRequest(g)
      PROVE  WatchInv'
  BY <1>1 DEF WatchInv, SlotInv, TypeOK, SlotConsistent, Live, GoalRequest
<1>2. ASSUME NEW g \in Goal, CancelRequest(g)
      PROVE  WatchInv'
  BY <1>2 DEF WatchInv, SlotInv, CancelRequest, HasOffboard, Offboard!Reset
<1>3. ASSUME NEW g \in Goal, BondFormed(g)
      PROVE  WatchInv'
  <2>1. ~formed /\ bond = active /\ active \in Goal /\ HasOffboard
    BY <1>3 DEF BondFormed, SlotInv, SlotConsistent, HasOffboard
  <2>2. ~(phase = "busy" /\ cmd \in Goal)
    BY <2>1 DEF WatchInv
  <2>3. CASE FormedWhileCanceling
    BY <2>2, <2>3 DEF WatchInv, FormedWhileCanceling
  <2>4. CASE FormedAndStarted
    <3>1. cmd' = active /\ cb' = active /\ formed' = TRUE /\ bond' = active
      BY <2>1, <2>4 DEF FormedAndStarted, Offboard!Take
    <3>2. goal' = goal /\ goal[active] = "executing"
      BY <2>1, <2>4 DEF FormedAndStarted, SlotInv, SlotConsistent
    <3>3. QED
      BY <3>1, <3>2 DEF WatchInv
  <2>5. CASE FormedButRefused
    BY <2>5 DEF WatchInv, FormedButRefused, Offboard!Reset
  <2>6. CASE FormedWithoutOffboard
    BY <2>1, <2>6 DEF FormedWithoutOffboard
  <2>7. QED
    BY <1>3, <2>3, <2>4, <2>5, <2>6 DEF BondFormed
<1>4. ASSUME NEW g \in Goal, BondBroken(g)
      PROVE  WatchInv'
  <2>1. CASE CurrentBond(g)
    BY <1>4, <2>1 DEF WatchInv, BondBroken, StopAndLand, Offboard!Reset, SlotInv, HasOffboard
  <2>2. CASE ~CurrentBond(g)
    BY <1>4, <2>2 DEF WatchInv, BondBroken
  <2>3. QED BY <2>1, <2>2
<1>5. ASSUME NEW g \in Goal, LateFormed(g) \/ ClientLost(g)
      PROVE  WatchInv'
  BY <1>5 DEF WatchInv, LateFormed, ClientLost, serverVars
<1>6. CASE Publish
  <2> SUFFICES ASSUME phase' = "busy", cmd' \in Goal
               PROVE  bond' = cmd' /\ formed' /\ cb' = cmd' /\ goal'[cmd'] = "executing"
    BY DEF WatchInv
  <2>1. phase = "busy" /\ cmd' = cmd
    BY <1>6, BusyStaysBusy DEF Publish, SlotInv, TypeOK
  <2>2. bond = cmd /\ formed /\ cb = cmd /\ goal[cmd] = "executing" /\ cb = active
    BY <2>1 DEF WatchInv, SlotInv, SlotConsistent
  <2>3. ProcessGoal(cb, phase')
    BY <1>6, <2>1, <2>2 DEF Publish
  <2>4. UNCHANGED <<goal, cb, bond, formed>>
    BY <2>2, <2>3 DEF ProcessGoal, Offboard!Quiescent
  <2>5. QED BY <2>1, <2>2, <2>4
<1>7. CASE Land \/ ServiceCommand
  BY <1>7 DEF WatchInv, Land, ServiceCommand, Offboard!Reset, Offboard!Take
<1>8. CASE LinkChanges \/ Elapse \/ UNCHANGED vars
  BY <1>8 DEF WatchInv, LinkChanges, Elapse, vars, serverVars
<1>9. QED
  BY <1>1, <1>2, <1>3, <1>4, <1>5, <1>6, <1>7, <1>8 DEF FlightNext, AloneNext

\* A goal's command never flies without that goal's formed bond and the callback
\* that ends it (handle_navigate_bond_formed, handle_navigate_bond_broken).
THEOREM FlightIsWatched == FlightSpec => []WatchedFlight
<1>1. Init => SlotInv /\ WatchInv
  BY InitSlot DEF Init, WatchInv, Offboard!ContractInit
<1>2. SlotInv /\ WatchInv /\ [FlightNext]_vars => SlotInv' /\ WatchInv'
  BY StepSlot, StepWatch
<1>3. WatchInv => WatchedFlight
  BY DEF WatchInv, WatchedFlight
<1>4. QED
  BY <1>1, <1>2, <1>3, PTL DEF FlightSpec

-----------------------------------------------------------------------------
\* What flies, through the transitions of the node: the goal the process callback
\* is bound to, in its slot with its bond or stranded; and nothing without a
\* controller.
FlyInv ==
    /\ FlyingGoalAccountedFor
    /\ ~HasOffboard => phase = "idle" /\ cb = NoGoal

LEMMA StepFly ==
    ASSUME LifeInv, FlyInv, [Next]_vars
    PROVE  FlyInv'
<1> USE GoalsAssumption DEF FlyInv, FlyingGoalAccountedFor
<1>1. /\ goal \in [Goal -> {"unsent"} \cup LiveStates \cup FinalStates]
      /\ active \in Goal \cup {NoGoal} /\ bond = active
      /\ active \in Goal => Live(active)
      /\ formed => active # NoGoal /\ cb = active
      /\ Offboard!ContractTypeOK
  BY DEF LifeInv, TypeOK, LifeAgrees
<1>2. ASSUME NEW g \in Goal, GoalRequest(g)
      PROVE  FlyInv'
  BY <1>1, <1>2 DEF GoalRequest, lifeVars, HasOffboard
<1>3. ASSUME NEW g \in Goal, CancelRequest(g)
      PROVE  FlyInv'
  BY <1>1, <1>3 DEF CancelRequest, HasOffboard, Offboard!Reset
<1>4. ASSUME NEW g \in Goal, BondFormed(g)
      PROVE  FlyInv'
  <2>1. active \in Goal /\ bond = active /\ ~formed /\ (phase = "busy" => cmd # active)
    BY <1>1, <1>4 DEF BondFormed
  <2>2. CASE FormedWhileCanceling
    BY <1>1, <2>1, <2>2 DEF FormedWhileCanceling, FinishActive, CleanupBond, HasOffboard
  <2>3. CASE FormedAndStarted
    <3>1. cmd' = active /\ cb' = active /\ formed' = TRUE /\ UNCHANGED <<active, bond, life>>
      BY <2>3 DEF FormedAndStarted, Offboard!Take
    <3>2. goal'[active] = "executing"
      BY <1>1, <2>1, <2>3 DEF FormedAndStarted, Dropped
    <3>3. QED
      BY <2>1, <2>3, <3>1, <3>2 DEF FormedAndStarted, HasOffboard
  <2>4. CASE FormedButRefused
    BY <2>4 DEF FormedButRefused, Offboard!Reset, HasOffboard
  <2>5. CASE FormedWithoutOffboard
    BY <2>5 DEF FormedWithoutOffboard, HasOffboard
  <2>6. QED
    BY <1>4, <2>2, <2>3, <2>4, <2>5 DEF BondFormed
<1>5. ASSUME NEW g \in Goal, BondBroken(g)
      PROVE  FlyInv'
  <2>1. UNCHANGED life
    BY <1>5 DEF BondBroken, lifeVars
  <2>2. CASE CurrentBond(g)
    BY <1>5, <2>1, <2>2 DEF BondBroken, StopAndLand, Offboard!Reset, HasOffboard
  <2>3. CASE ~CurrentBond(g)
    BY <1>5, <2>1, <2>3 DEF BondBroken, HasOffboard
  <2>4. QED BY <2>2, <2>3
<1>6. CASE Publish
  <2>1. HasOffboard /\ HasOffboard'
    BY <1>6 DEF Publish, lifeVars, HasOffboard
  <2> SUFFICES ASSUME phase' = "busy", cmd' \in Goal
               PROVE  /\ goal'[cmd'] = "executing"
                      /\ cb' = cmd'
                      /\ cmd' = active' => bond' = cmd' /\ formed'
    BY <2>1
  <2>2. phase = "busy" /\ cmd' = cmd
    BY <1>1, <1>6, BusyStaysBusy DEF Publish
  <2>3. goal[cmd] = "executing" /\ cb = cmd
    BY <2>2
  <2>4. UNCHANGED <<goal, active, cb, bond, formed>>
    BY <1>6, <2>3 DEF Publish, ProcessGoal, Offboard!Quiescent, serverVars
  <2>5. QED BY <2>2, <2>3, <2>4
<1>7. CASE Land \/ ServiceCommand
  BY <1>7 DEF Land, ServiceCommand, Offboard!Reset, Offboard!Take, HasOffboard, serverVars, lifeVars
<1>8. CASE \/ \E g \in Goal : LateFormed(g) \/ ClientLost(g)
           \/ LinkChanges \/ Elapse \/ UNCHANGED vars
  BY <1>8 DEF LateFormed, ClientLost, LinkChanges, Elapse, vars, serverVars, lifeVars, HasOffboard
<1>9. CASE Deactivate \/ Shutdown
  <2>1. /\ UNCHANGED <<phase, cmd, cb>> /\ active' = NoGoal /\ (HasOffboard <=> HasOffboard')
        /\ goal' = IF active # NoGoal /\ cb # active
                   THEN [goal EXCEPT ![active] = Dropped(active)] ELSE goal
    BY <1>9 DEF Deactivate, Shutdown, VacateSlot, HasOffboard
  <2>2. phase = "busy" /\ cmd \in Goal => goal'[cmd] = "executing"
    BY <1>1, <2>1
  <2>3. QED BY <2>1, <2>2
<1>10. CASE Activate \/ Configure
  BY <1>10 DEF Activate, Configure, serverVars, HasOffboard
<1>11. CASE Cleanup \/ Respawn
  BY <1>11 DEF Cleanup, Respawn, Offboard!Reset, HasOffboard
<1>12. QED
  BY <1>2, <1>3, <1>4, <1>5, <1>6, <1>7, <1>8, <1>9, <1>10, <1>11
     DEF Next, FlightNext, AloneNext, LifecycleNext

\* Whatever the node is made to do between two steps of its goals, an unfinished
\* goal is in the slot with its bond or is the one stranded goal, a goal's command
\* flies only while that goal executes with the process callback its own, and no
\* command flies without a controller, a crash included (on_deactivate, on_cleanup,
\* on_shutdown, set_process_callback).
THEOREM TransitionsAccountForGoals == Spec => []LifecycleSound
<1>1. Init => LifeInv /\ FlyInv
  BY InitLife DEF Init, FlyInv, FlyingGoalAccountedFor, HasOffboard, Offboard!ContractInit
<1>2. LifeInv /\ FlyInv /\ [Next]_vars => LifeInv' /\ FlyInv'
  BY StepLife, StepFly
<1>3. LifeInv /\ FlyInv => LifecycleSound
  BY DEF LifeInv, LifeAgrees, StrandedHeldByCallback, FlyInv, GoalsAccountedFor, LifecycleSound
<1>4. QED
  BY <1>1, <1>2, <1>3, PTL DEF Spec

-----------------------------------------------------------------------------
\* While the completion of a goal whose client is gone waits out its grace
\* period, the silence of that client is at least as old as the wait.
DoomInv ==
    \A g \in doomed :
        /\ goal[g] \notin {"unsent", "succeeded"}
        /\ client[g] # "alive"
        /\ g = active /\ grace # NotStarted => grace <= silence

\* A transition of the node ends no goal with success, and starts none.
LEMMA LifecycleKeepsEnds ==
    ASSUME LifeInv, LifecycleNext
    PROVE  \A g \in Goal : goal'[g] # goal[g] => goal[g] \in LiveStates /\ goal'[g] \in {"canceled", "lost"}
<1> SUFFICES ASSUME NEW g \in Goal, goal'[g] # goal[g]
             PROVE  goal[g] \in LiveStates /\ goal'[g] \in {"canceled", "lost"}
  OBVIOUS
<1>1. goal \in [Goal -> {"unsent"} \cup LiveStates \cup FinalStates]
  BY DEF LifeInv, TypeOK
<1>2. CASE Deactivate \/ Shutdown
  BY <1>1, <1>2 DEF Deactivate, Shutdown, VacateSlot, Dropped
<1>3. CASE Activate \/ Configure
  BY <1>3 DEF Activate, Configure, serverVars
<1>4. CASE Cleanup
  BY <1>1, <1>4 DEF Cleanup, Dropped
<1>5. CASE Respawn
  BY <1>1, <1>5 DEF Respawn, Live
<1>6. QED BY <1>2, <1>3, <1>4, <1>5 DEF LifecycleNext

\* The completion of g, in the slot, begins, is waited for, or is given up.
LEMMA DoomByProcess ==
    ASSUME LifeInv, DoomInv, cb = active, cb # NoGoal, ProcessGoal(cb, phase'),
           UNCHANGED <<client, silence>>
    PROVE  DoomInv'
<1> USE GoalsAssumption, GraceAssumption
<1>1. active \in Goal /\ goal \in [Goal -> {"unsent"} \cup LiveStates \cup FinalStates]
      /\ silence \in 0 .. HeartbeatTimeout /\ grace \in NotStarted .. GracePeriod
      /\ goal[active] \in {"executing", "canceling"} /\ doomed \subseteq Goal
  BY DEF LifeInv, TypeOK, LifeAgrees, Live, LiveStates
<1>2. ASSUME FinishActive("canceled") \/ FinishActive("aborted"), UNCHANGED doomed
      PROVE  DoomInv'
  BY <1>1, <1>2 DEF DoomInv, FinishActive
<1>3. CASE GraceOver /\ grace # NotStarted /\ FinishActive("succeeded") /\ UNCHANGED doomed
  <2>1. active \notin doomed
    BY <1>1, <1>3 DEF DoomInv, GraceOver
  <2>2. QED
    BY <1>1, <1>3, <2>1 DEF DoomInv, FinishActive
<1>4. CASE grace' = 0 /\ UNCHANGED <<goal, active>>
           /\ doomed' = IF client[active] = "alive" THEN doomed ELSE doomed \cup {active}
  BY <1>1, <1>4 DEF DoomInv
<1>5. CASE grace' \in {NotStarted, grace} /\ UNCHANGED <<goal, active, doomed>>
  BY <1>5 DEF DoomInv
<1>6. QED
  BY <1>2, <1>3, <1>4, <1>5 DEF ProcessGoal, serverVars

LEMMA StepDoom ==
    ASSUME LifeInv, DoomInv, [Next]_vars
    PROVE  DoomInv'
<1> USE GoalsAssumption, GraceAssumption
<1>1. goal \in [Goal -> {"unsent"} \cup LiveStates \cup FinalStates] /\ doomed \subseteq Goal
      /\ silence \in 0 .. HeartbeatTimeout /\ grace \in NotStarted .. GracePeriod
      /\ client \in [Goal -> {"alive", "silent", "broke"}]
  BY DEF LifeInv, TypeOK
<1>2. ASSUME NEW g \in Goal, GoalRequest(g)
      PROVE  DoomInv'
  BY <1>1, <1>2 DEF DoomInv, GoalRequest, historyVars
<1>3. ASSUME NEW g \in Goal, CancelRequest(g)
      PROVE  DoomInv'
  BY <1>1, <1>3 DEF DoomInv, CancelRequest, historyVars
<1>4. ASSUME NEW g \in Goal, BondFormed(g)
      PROVE  DoomInv'
  <2>1. active \in Goal /\ bond = active /\ UNCHANGED <<doomed, client, silence>>
    BY <1>4 DEF BondFormed, LifeInv, TypeOK, LifeAgrees, historyVars
  <2>2. CASE FormedWhileCanceling \/ FormedButRefused
    BY <1>1, <2>1, <2>2 DEF DoomInv, FormedWhileCanceling, FormedButRefused, FinishActive
  <2>3. CASE FormedAndStarted
    BY <1>1, <2>1, <2>3 DEF DoomInv, FormedAndStarted, Dropped
  <2>5. CASE FormedWithoutOffboard
    BY <2>1, <2>5 DEF DoomInv, FormedWithoutOffboard
  <2>4. QED
    BY <1>4, <2>2, <2>3, <2>5 DEF BondFormed
<1>5. ASSUME NEW g \in Goal, BondBroken(g)
      PROVE  DoomInv'
  <2>1. CASE CurrentBond(g)
    <3>1. /\ goal' = [h \in Goal |-> IF h = active /\ Live(h) THEN "aborted"
                                     ELSE IF h = cb /\ HasOffboard THEN Dropped(h)
                                     ELSE goal[h]]
          /\ UNCHANGED <<doomed, client, silence>>
          /\ grace' = NotStarted
      BY <1>5, <2>1 DEF BondBroken, StopAndLand, historyVars
    <3>2. QED
      BY <1>1, <3>1 DEF DoomInv, Dropped
  <2>2. CASE ~CurrentBond(g)
    BY <1>5, <2>2 DEF DoomInv, BondBroken, historyVars
  <2>3. QED BY <2>1, <2>2
<1>6. ASSUME NEW g \in Goal, ClientLost(g)
      PROVE  DoomInv'
  <2>1. \A h \in Goal : client[h] # "alive" => client'[h] # "alive"
    BY <1>1, <1>6 DEF ClientLost
  <2>2. QED
    BY <1>1, <1>6, <2>1 DEF DoomInv, ClientLost, serverVars, historyVars
<1>7. CASE Publish
  BY <1>7, DoomByProcess DEF Publish, DoomInv, serverVars
<1>8. CASE Elapse
  <2>1. LifeAgrees
    BY DEF LifeInv
  <2> SUFFICES ASSUME NEW g \in doomed, g = active, grace' # NotStarted
               PROVE  grace' <= silence'
    BY <1>8 DEF DoomInv, Elapse, historyVars
  <2>2. g \in Goal /\ bond = g /\ client[g] # "alive"
    BY <1>1, <2>1, <1>8 DEF DoomInv, LifeAgrees, Elapse
  <2>3. silence' = silence + 1
    BY <2>2, <1>8 DEF Elapse, ClientSilent
  <2>4. CASE grace = NotStarted
    BY <1>1, <1>8, <2>4 DEF Elapse, NotStarted
  <2>5. CASE grace # NotStarted
    <3>1. grace <= silence
      BY <2>2, <2>5, <1>8 DEF DoomInv, Elapse
    <3>2. grace' \in {grace, grace + 1}
      BY <1>8 DEF Elapse
    <3>3. QED
      BY <1>1, <2>3, <3>1, <3>2 DEF NotStarted
  <2>6. QED BY <2>4, <2>5
<1>9. CASE (\E g \in Goal : LateFormed(g)) \/ Land \/ ServiceCommand \/ LinkChanges \/ UNCHANGED vars
  BY <1>9 DEF DoomInv, LateFormed, Land, ServiceCommand, LinkChanges, vars, serverVars, historyVars
<1>10. CASE LifecycleNext
  <2>1. \A g \in Goal : goal[g] \notin {"unsent", "succeeded"} => goal'[g] \notin {"unsent", "succeeded"}
    BY <1>10, LifecycleKeepsEnds
  <2>2. CASE Deactivate \/ Cleanup \/ Shutdown \/ Respawn
    <3>1. active' = NoGoal /\ UNCHANGED <<doomed, client>>
      BY <2>2 DEF Deactivate, Cleanup, Shutdown, Respawn, VacateSlot, historyVars
    <3>2. QED BY <1>1, <2>1, <3>1 DEF DoomInv
  <2>3. CASE Activate \/ Configure
    BY <2>3 DEF DoomInv, Activate, Configure, serverVars, historyVars
  <2>4. QED BY <1>10, <2>2, <2>3 DEF LifecycleNext
<1>11. QED
  BY <1>2, <1>3, <1>4, <1>5, <1>6, <1>7, <1>8, <1>9, <1>10 DEF Next, FlightNext, AloneNext

\* The grace period outlasts the heartbeat timeout, so a goal whose client was
\* already lost when its completion began is never reported as a success, whatever
\* transitions the node makes (process_navigate_async, kNavigateCompletionGracePeriod).
THEOREM LostClientNeverSucceeds == Spec => []NoSuccessForLostClient
<1>1. Init => LifeInv /\ DoomInv
  BY InitLife DEF Init, DoomInv
<1>2. LifeInv /\ DoomInv /\ [Next]_vars => LifeInv' /\ DoomInv'
  BY StepLife, StepDoom
<1>3. LifeInv /\ DoomInv => NoSuccessForLostClient
  BY DEF DoomInv, NoSuccessForLostClient
<1>4. QED
  BY <1>1, <1>2, <1>3, PTL DEF Spec

-----------------------------------------------------------------------------
\* Bonds are not reused, and a client that is there is heard.
BondInv ==
    /\ \A g \in late : g # bond /\ goal[g] # "unsent"
    /\ bond # NoGoal /\ client[bond] = "alive" => silence = 0

LEMMA StepBond ==
    ASSUME LifeInv, BondInv, [Next]_vars
    PROVE  BondInv'
<1> USE GoalsAssumption
<1>1. /\ goal \in [Goal -> {"unsent"} \cup LiveStates \cup FinalStates] /\ late \subseteq Goal
      /\ client \in [Goal -> {"alive", "silent", "broke"}]
      /\ active \in Goal \cup {NoGoal} /\ bond = active
      /\ active \in Goal => Live(active)
  BY DEF LifeInv, TypeOK, LifeAgrees
<1>2. active \in Goal => goal[active] # "unsent"
  BY <1>1 DEF Live, LiveStates
<1>3. ASSUME NEW result \in FinalStates, FinishActive(result), CleanupBond, active \in Goal
      PROVE  BondInv'
  <2>1. bond' = NoGoal /\ late' = late \cup {active} /\ goal' = [goal EXCEPT ![active] = result]
    BY <1>1, <1>3 DEF FinishActive, CleanupBond
  <2>2. \A g \in late' : g \in Goal /\ goal[g] # "unsent"
    BY <1>1, <1>2, <1>3, <2>1 DEF BondInv
  <2>3. \A g \in late' : goal'[g] # "unsent"
    <3>1. result # "unsent"
      BY <1>3 DEF FinalStates
    <3>2. QED BY <1>1, <2>1, <2>2, <3>1
  <2>4. QED
    BY <2>1, <2>2, <2>3 DEF BondInv
<1>4. ASSUME NEW g \in Goal, GoalRequest(g)
      PROVE  BondInv'
  BY <1>1, <1>4 DEF BondInv, GoalRequest
<1>5. ASSUME NEW g \in Goal, CancelRequest(g)
      PROVE  BondInv'
  BY <1>1, <1>5 DEF BondInv, CancelRequest
<1>6. ASSUME NEW g \in Goal, BondFormed(g)
      PROVE  BondInv'
  <2>1. active \in Goal /\ UNCHANGED <<client, silence>>
    BY <1>6 DEF BondFormed
  <2>2. CASE FormedWhileCanceling \/ FormedButRefused
    BY <1>3, <2>1, <2>2 DEF FormedWhileCanceling, FormedButRefused, FinalStates
  <2>3. CASE FormedAndStarted
    BY <1>1, <2>1, <2>3 DEF BondInv, FormedAndStarted, Dropped
  <2>4. CASE FormedWithoutOffboard
    BY <2>1, <2>4 DEF BondInv, FormedWithoutOffboard
  <2>5. QED
    BY <1>6, <2>2, <2>3, <2>4 DEF BondFormed
<1>7. ASSUME NEW g \in Goal, BondBroken(g)
      PROVE  BondInv'
  <2>1. CASE CurrentBond(g)
    <3>1. /\ goal' = [h \in Goal |-> IF h = active /\ Live(h) THEN "aborted"
                                     ELSE IF h = cb /\ HasOffboard THEN Dropped(h)
                                     ELSE goal[h]]
          /\ bond' = NoGoal /\ late' \subseteq late \cup {active}
      BY <1>1, <1>7, <2>1 DEF BondBroken, CurrentBond, StopAndLand
    <3>2. \A h \in Goal : goal[h] # "unsent" => goal'[h] # "unsent"
      BY <3>1 DEF Dropped
    <3>3. active \in Goal
      BY <1>1, <2>1 DEF CurrentBond
    <3>4. QED
      BY <1>1, <1>2, <3>1, <3>2, <3>3 DEF BondInv
  <2>2. CASE ~CurrentBond(g)
    <3>1. UNCHANGED <<goal, bond, client, silence>> /\ late' \subseteq late
      BY <1>7, <2>2 DEF BondBroken, BreakDue, CurrentBond
    <3>2. QED BY <3>1 DEF BondInv
  <2>3. QED BY <2>1, <2>2
<1>8. CASE Publish
  <2>1. CASE cb # NoGoal /\ cb = active
    <3>1. ProcessGoal(cb, phase') /\ UNCHANGED <<client, silence>> /\ active \in Goal
      BY <1>1, <1>8, <2>1 DEF Publish
    <3>2. CASE UNCHANGED <<goal, bond, late>>
      BY <3>1, <3>2 DEF BondInv
    <3>3. CASE /\ \/ FinishActive("canceled") \/ FinishActive("aborted")
                  \/ FinishActive("succeeded")
               /\ CleanupBond
      BY <1>3, <3>1, <3>3 DEF FinalStates
    <3>4. QED
      BY <3>1, <3>2, <3>3 DEF ProcessGoal, serverVars
  <2>2. CASE ~(cb # NoGoal /\ cb = active)
    BY <1>8, <2>2 DEF BondInv, Publish, serverVars
  <2>3. QED BY <2>1, <2>2
<1>9. ASSUME NEW g \in Goal, ClientLost(g)
      PROVE  BondInv'
  BY <1>1, <1>9 DEF BondInv, ClientLost, serverVars
<1>10. CASE Elapse
  BY <1>10 DEF BondInv, Elapse, ClientSilent
<1>11. CASE (\E g \in Goal : LateFormed(g)) \/ Land \/ ServiceCommand \/ LinkChanges
            \/ UNCHANGED vars
  BY <1>11 DEF BondInv, LateFormed, Land, ServiceCommand, LinkChanges, vars, serverVars
<1>12. CASE Deactivate \/ Cleanup \/ Shutdown
  <2>1. /\ bond' = NoGoal /\ late' = late \cup ({active} \ {NoGoal})
        /\ \A h \in Goal : goal[h] # "unsent" => goal'[h] # "unsent"
    BY <1>1, <1>12, LifecycleKeepsEnds DEF Deactivate, Cleanup, Shutdown, VacateSlot, CleanupBond, LifecycleNext
  <2>2. QED
    BY <1>1, <1>2, <2>1 DEF BondInv
<1>13. CASE Activate \/ Configure \/ Respawn
  BY <1>13 DEF BondInv, Activate, Configure, Respawn, serverVars
<1>14. QED
  BY <1>4, <1>5, <1>6, <1>7, <1>8, <1>9, <1>10, <1>11, <1>12, <1>13
     DEF Next, FlightNext, AloneNext, LifecycleNext

\* What can abort a goal whose bond has formed and whose client is there.
LEMMA AbortNeedsError ==
    ASSUME LifeInv, BondInv, [Next]_vars,
           NEW g \in Goal,
           goal[g] = "executing", bond = g, formed, client[g] = "alive", goal'[g] = "aborted"
    PROVE  phase' = "error"
<1> USE GoalsAssumption, GraceAssumption
<1>1. goal \in [Goal -> {"unsent"} \cup LiveStates \cup FinalStates] /\ g = active /\ cb = g
  BY DEF LifeInv, TypeOK, LifeAgrees
<1>2. ASSUME NEW h \in Goal, GoalRequest(h) \/ CancelRequest(h)
      PROVE  FALSE
  BY <1>1, <1>2 DEF GoalRequest, CancelRequest
<1>3. ASSUME NEW h \in Goal, BondFormed(h)
      PROVE  FALSE
  BY <1>3 DEF BondFormed
<1>4. ASSUME NEW h \in Goal, BondBroken(h)
      PROVE  FALSE
  <2>1. CASE CurrentBond(h)
    <3>1. h = g /\ h \notin late /\ silence = 0
      BY <1>1, <2>1 DEF CurrentBond, BondInv
    <3>2. ~BreakDue(h)
      BY <3>1 DEF BreakDue
    <3>3. QED
      BY <1>4, <3>1, <3>2 DEF BondBroken
  <2>2. CASE ~CurrentBond(h)
    BY <1>4, <2>2 DEF BondBroken
  <2>3. QED BY <2>1, <2>2
<1>5. CASE Publish
  <2>1. ProcessGoal(g, phase')
    BY <1>1, <1>5 DEF Publish
  <2>2. CASE FinishActive("canceled") \/ FinishActive("succeeded") \/ UNCHANGED goal
    BY <1>1, <2>2 DEF FinishActive
  <2>3. QED
    BY <2>1, <2>2 DEF ProcessGoal, serverVars
<1>6. ~LifecycleNext
  BY LifecycleKeepsEnds
<1>7. QED
  BY <1>2, <1>3, <1>4, <1>5, <1>6
     DEF Next, FlightNext, AloneNext, LateFormed, ClientLost, Land, ServiceCommand, LinkChanges,
         Elapse, vars, serverVars

\* While its client is there, only an error of the controller aborts a goal under
\* way; no bond but its own can, and no transition of the node (the guard of
\* handle_navigate_bond_broken, on_deactivate, on_cleanup).
THEOREM OnlyErrorAborts == Spec => HealthyGoalNotAborted
<1>1. Init => LifeInv /\ BondInv
  BY InitLife DEF Init, BondInv
<1>2. LifeInv /\ BondInv /\ [Next]_vars => LifeInv' /\ BondInv'
  BY StepLife, StepBond
<1>3. LifeInv /\ BondInv /\ [Next]_vars
      => [\A g \in Goal :
             /\ goal[g] = "executing" /\ bond = g /\ formed /\ client[g] = "alive"
             /\ goal'[g] = "aborted"
             => phase' = "error"]_vars
  BY AbortNeedsError
<1>4. QED
  BY <1>1, <1>2, <1>3, PTL DEF Spec, HealthyGoalNotAborted

-----------------------------------------------------------------------------
\* Without service calls the command of the goal in the slot stays the controller's
\* from the moment the bond formed, and the controller rests on it only at its target.
TargetInv ==
    /\ SuccessMeansArrived
    /\ formed /\ goal[active] = "executing" =>
          /\ cmd = active
          /\ phase \in {"busy", "hold", "error"}
          /\ phase = "hold" => active \in arrived

\* A period of the controller adds the target it reaches.
LEMMA TargetByPublish ==
    ASSUME SlotInv, TargetInv, Publish
    PROVE  TargetInv'
<1> USE GoalsAssumption DEF SuccessMeansArrived
<1>1. /\ goal \in [Goal -> {"unsent"} \cup LiveStates \cup FinalStates]
      /\ phase \in Offboard!Phases /\ active \in Goal \cup {NoGoal}
      /\ formed => active \in Goal
  BY DEF SlotInv, TypeOK, SlotConsistent, Offboard!ContractTypeOK
<1>2. /\ cmd' = cmd /\ arrived \subseteq arrived'
      /\ phase = "busy" /\ phase' = "hold" /\ cmd \in Goal => cmd \in arrived'
  BY DEF Publish
<1>3. /\ phase = "busy" => phase' \in {"busy", "hold", "error"}
      /\ phase = "hold" => phase' \in {"hold", "error"}
      /\ phase = "error" => phase' = "error"
  <2>1. phase' \in Offboard!MayBecome(phase)
    BY DEF Publish, Offboard!Update
  <2>2. QED BY <2>1 DEF Offboard!MayBecome
<1>4. formed /\ goal[active] = "executing" =>
          /\ cmd = active
          /\ phase' \in {"busy", "hold", "error"}
          /\ phase' = "hold" => active \in arrived'
  BY <1>1, <1>2, <1>3 DEF TargetInv
<1>5. CASE UNCHANGED <<goal, active, formed>>
  BY <1>2, <1>4, <1>5 DEF TargetInv
<1>6. CASE ~UNCHANGED <<goal, active, formed>>
  <2>1. /\ cb # NoGoal /\ cb = active /\ ProcessGoal(cb, phase')
        /\ formed /\ active \in Goal /\ goal[active] \in LiveStates
    BY <1>1, <1>6 DEF Publish, serverVars, SlotInv, SlotConsistent, Live
  <2>2. formed' = FALSE
    BY <1>6, <2>1 DEF ProcessGoal, CleanupBond, serverVars
  <2>3. CASE FinishActive("canceled") \/ FinishActive("aborted")
    BY <1>1, <1>2, <2>2, <2>3 DEF TargetInv, FinishActive
  <2>4. CASE goal[active] = "executing" /\ phase' \in Offboard!Quiescent /\ FinishActive("succeeded")
    <3>1. active \in arrived'
      BY <1>4, <2>1, <2>4 DEF Offboard!Quiescent
    <3>2. QED
      BY <1>1, <1>2, <2>2, <2>4, <3>1 DEF TargetInv, FinishActive
  <2>5. QED
    BY <1>6, <2>1, <2>3, <2>4 DEF ProcessGoal, serverVars, LiveStates
<1>7. QED BY <1>5, <1>6

LEMMA StepTarget ==
    ASSUME SlotInv, TargetInv, [AloneNext]_vars
    PROVE  TargetInv'
<1> USE GoalsAssumption DEF SuccessMeansArrived
<1>1. /\ goal \in [Goal -> {"unsent"} \cup LiveStates \cup FinalStates]
      /\ active \in Goal \cup {NoGoal} /\ bond = active /\ HasOffboard
      /\ \A g \in Goal : Live(g) <=> g = active
  BY DEF SlotInv, TypeOK, SlotConsistent, HasOffboard
<1>2. ASSUME NEW g \in Goal, GoalRequest(g)
      PROVE  TargetInv'
  BY <1>1, <1>2 DEF TargetInv, GoalRequest, historyVars
<1>3. ASSUME NEW g \in Goal, CancelRequest(g)
      PROVE  TargetInv'
  BY <1>1, <1>3 DEF TargetInv, CancelRequest, historyVars
<1>4. ASSUME NEW g \in Goal, BondFormed(g)
      PROVE  TargetInv'
  <2>1. active \in Goal /\ arrived' = arrived /\ cb = NoGoal
    BY <1>4 DEF BondFormed, SlotInv, SlotConsistent, historyVars
  <2>2. CASE FormedWhileCanceling \/ FormedButRefused
    BY <1>1, <2>1, <2>2
       DEF TargetInv, FormedWhileCanceling, FormedButRefused, FinishActive, CleanupBond
  <2>3. CASE FormedAndStarted
    BY <1>1, <2>1, <2>3 DEF TargetInv, FormedAndStarted, Offboard!Take
  <2>4. QED
    BY <1>1, <1>4, <2>2, <2>3 DEF BondFormed, FormedWithoutOffboard
<1>5. ASSUME NEW g \in Goal, BondBroken(g)
      PROVE  TargetInv'
  <2>1. CASE CurrentBond(g)
    <3>1. /\ goal' = [h \in Goal |-> IF h = active /\ Live(h) THEN "aborted"
                                     ELSE IF h = cb /\ HasOffboard THEN Dropped(h)
                                     ELSE goal[h]]
          /\ formed' = FALSE /\ arrived' = arrived
      BY <1>5, <2>1 DEF BondBroken, StopAndLand, historyVars
    <3>2. QED
      BY <1>1, <3>1 DEF TargetInv, Dropped
  <2>2. CASE ~CurrentBond(g)
    BY <1>5, <2>2 DEF TargetInv, BondBroken, historyVars
  <2>3. QED BY <2>1, <2>2
<1>6. CASE Publish
  BY <1>6, TargetByPublish
<1>7. CASE (\E g \in Goal : LateFormed(g) \/ ClientLost(g)) \/ LinkChanges \/ Elapse \/ UNCHANGED vars
  BY <1>7 DEF TargetInv, LateFormed, ClientLost, LinkChanges, Elapse, vars, serverVars, historyVars
<1>8. QED
  BY <1>2, <1>3, <1>4, <1>5, <1>6, <1>7 DEF AloneNext

AloneInv == SlotInv /\ (alone => TargetInv)

\* A goal reported as a success has reached its target, as long as no other node calls
\* the services of the bridge meanwhile (process_navigate_async, "Navigate async target
\* reached"; navigate_false_success shows what the services do to it).
THEOREM SuccessIsArrival == AloneOrNot => []AloneSuccessMeansArrived
<1>1. AloneOrNotInit => AloneInv
  BY InitSlot DEF AloneOrNotInit, Init, AloneInv, TargetInv, SuccessMeansArrived
<1>2. AloneInv /\ [AloneOrNotNext]_flightVars => AloneInv'
  <2> SUFFICES ASSUME AloneInv, [AloneOrNotNext]_flightVars PROVE AloneInv'
    OBVIOUS
  <2>1. [FlightNext]_vars /\ alone' = alone
    BY DEF AloneOrNotNext, FlightNext, flightVars
  <2>2. SlotInv'
    BY <2>1, StepSlot DEF AloneInv
  <2>3. ASSUME alone PROVE TargetInv'
    <3>1. [AloneNext]_vars
      BY <2>3 DEF AloneOrNotNext, flightVars
    <3>2. QED BY <2>3, <3>1, StepTarget DEF AloneInv
  <2>4. QED BY <2>1, <2>2, <2>3 DEF AloneInv
<1>3. AloneInv => AloneSuccessMeansArrived
  BY DEF AloneInv, TargetInv, AloneSuccessMeansArrived
<1>4. QED
  BY <1>1, <1>2, <1>3, PTL DEF AloneOrNot
=============================================================================
