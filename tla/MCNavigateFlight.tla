-------------------------- MODULE MCNavigateFlight --------------------------
(* NavigateServer while the node stays up, with other nodes that call the  *)
(* services of the bridge, or without.                                     *)
EXTENDS NavigateServer

VARIABLE alone

flightVars == <<alone, vars>>

AloneOrNotInit == Init /\ alone \in BOOLEAN

AloneOrNotNext ==
    /\ UNCHANGED alone
    /\ \/ alone /\ AloneNext
       \/ ~alone /\ FlightNext

AloneOrNot == AloneOrNotInit /\ [][AloneOrNotNext]_flightVars /\ Fairness

\* Success means that the vehicle reached the target, when no other node calls a service
\* ("Navigate async target reached", process_navigate_async).
AloneSuccessMeansArrived == alone => SuccessMeansArrived
=============================================================================
