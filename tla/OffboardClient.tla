--------------------------- MODULE OffboardClient ---------------------------
(***************************************************************************)
(* A Python program that flies the vehicle: its own thread waits in        *)
(* navigate_wait(), or for the answer of a service, for futures that the   *)
(* thread of the executor completes. The server with its goal is external  *)
(* here: NavigateServer models it. It is seen at any point of its life,    *)
(* answers late or dies.                                                   *)
(***************************************************************************)
EXTENDS Naturals

CONSTANT MaxCalls \* bound on the calls of the program

Ends == {"SUCCEEDED", "ABORTED", "CANCELED"}
Unset == "unset"

VARIABLES
    at,       \* where the program's thread stands
    callback, \* where the executor's thread stands in a callback
    goal,     \* the goal on the server, and what its result will say
    event, status, result, \* ActionHelper
    bond,     \* the bond of this goal
    request,  \* the request of a service, on the server and in the future
    returned, \* what the call has returned, or raised
    calls     \* history: how many calls there were

helperVars == <<event, status, result>>
clientVars == <<at, callback, goal, helperVars, bond, request, returned, calls>>

ClientInit ==
    /\ at = "program" /\ callback = "none"
    /\ goal = [phase |-> "none", success |-> FALSE]
    /\ event = FALSE /\ status = "REJECTED" /\ result = Unset
    /\ bond = "none"
    /\ request = [phase |-> "none", success |-> FALSE]
    /\ returned = "none" /\ calls = 0

Call == at = "program" /\ calls < MaxCalls /\ calls' = calls + 1 /\ returned' = "none"

-----------------------------------------------------------------------------
(* navigate_wait()                                                         *)

\* The server is waited for, without a time-out: it may never be there.
NavigateWait ==
    /\ Call
    /\ at' = "finding"
    /\ UNCHANGED <<callback, goal, helperVars, bond, request>>

\* The bond is started and a new helper sends the goal.
SendGoal ==
    /\ at = "finding"
    /\ at' = "waiting" /\ bond' = "started"
    /\ goal' = [phase |-> "sent", success |-> FALSE]
    /\ event' = FALSE /\ status' = "REJECTED" /\ result' = Unset
    /\ callback' = "none"
    /\ UNCHANGED <<request, returned, calls>>

\* The end of wait(): the event is set. The bond is broken whatever comes of it.
Outcome ==
    CASE status = "SUCCEEDED" /\ result = Unset     -> "raised: no result"
      [] status = "SUCCEEDED" /\ result = "success" -> "true"
      [] status = "SUCCEEDED" /\ result = "failure" -> "raised: message"
      [] status = "REJECTED"                        -> "raised: rejected"
      [] OTHER                                      -> "raised: status"

WaitEnds ==
    /\ at = "waiting" /\ event
    /\ returned' = Outcome
    /\ at' = "program" /\ bond' = "broken"
    /\ UNCHANGED <<callback, goal, helperVars, request, calls>>

-----------------------------------------------------------------------------
(* ActionHelper, in the executor's thread: a callback runs statement by    *)
(* statement while the program's thread may read what it has set.          *)

OnGoalResponse ==
    /\ callback = "none" /\ goal.phase \in {"rejected", "accepted"}
    /\ IF goal.phase = "rejected" THEN event' = TRUE /\ goal' = [goal EXCEPT !.phase = "told"]
       ELSE goal' = [goal EXCEPT !.phase = "result asked"] /\ UNCHANGED event
    /\ UNCHANGED <<at, callback, status, result, bond, request, returned, calls>>

\* Fault: the event is set before what it tells of.
OnResultAnnounced ==
    /\ callback = "none" /\ goal.phase \in Ends
    /\ status' = goal.phase /\ callback' = "status set" /\ event' = TRUE
    /\ UNCHANGED <<at, goal, result, bond, request, returned, calls>>

OnResult ==
    /\ callback = "none" /\ goal.phase \in Ends
    /\ status' = goal.phase /\ callback' = "status set"
    /\ UNCHANGED <<at, goal, event, result, bond, request, returned, calls>>

OnResultStored ==
    /\ callback = "status set"
    /\ result' = IF goal.success THEN "success" ELSE "failure"
    /\ callback' = "result set"
    /\ UNCHANGED <<at, goal, event, status, bond, request, returned, calls>>

OnResultTold ==
    /\ callback = "result set"
    /\ event' = TRUE /\ callback' = "told"
    /\ UNCHANGED <<at, goal, status, result, bond, request, returned, calls>>

-----------------------------------------------------------------------------
(* The services: __wait_service_call(), wait_future().                     *)

CallService ==
    /\ Call
    /\ at' = "calling" /\ request' = [phase |-> "sent", success |-> FALSE]
    /\ UNCHANGED <<callback, goal, helperVars, bond>>

FutureDone ==
    /\ at = "calling" /\ request.phase = "answered"
    /\ returned' = IF request.success THEN "true" ELSE "false"
    /\ at' = "program"
    /\ UNCHANGED <<callback, goal, helperVars, bond, request, calls>>

\* After a second there is still no result: the request is not taken back.
FutureTimesOut ==
    /\ at = "calling" /\ request.phase # "answered"
    /\ returned' = "false" /\ at' = "program"
    /\ UNCHANGED <<callback, goal, helperVars, bond, request, calls>>

-----------------------------------------------------------------------------
(* The server, as the program sees it.                                     *)

ServerGoal ==
    /\ \/ /\ goal.phase = "sent"
          /\ goal' \in {[goal EXCEPT !.phase = p] : p \in {"accepted", "rejected"}}
       \/ /\ goal.phase = "result asked"
          /\ goal' \in {[phase |-> e, success |-> s] : e \in Ends, s \in BOOLEAN}
          /\ goal'.phase = "ABORTED" => ~goal'.success
    /\ UNCHANGED <<at, callback, helperVars, bond, request, returned, calls>>

ServerDies ==
    /\ goal.phase \in {"sent", "accepted", "result asked"}
    /\ goal' = [goal EXCEPT !.phase = "dead"]
    /\ UNCHANGED <<at, callback, helperVars, bond, request, returned, calls>>

ServerRequest ==
    /\ request.phase = "sent"
    /\ request' \in {[phase |-> "answered", success |-> s] : s \in BOOLEAN}
                        \cup {[request EXCEPT !.phase = "dead"]}
    /\ UNCHANGED <<at, callback, goal, helperVars, bond, returned, calls>>

-----------------------------------------------------------------------------

Threads ==
    \/ WaitEnds \/ OnGoalResponse \/ OnResult \/ OnResultStored \/ OnResultTold
    \/ FutureDone \/ FutureTimesOut

ClientNext ==
    NavigateWait \/ SendGoal \/ CallService \/ Threads \/ ServerGoal \/ ServerDies \/ ServerRequest

\* Both threads run; a goal on a server that lives ends (NavigateServer.GoalsEnd).
ClientFairness == WF_clientVars(Threads) /\ WF_clientVars(ServerGoal)

ClientSpec == ClientInit /\ [][ClientNext]_clientVars /\ ClientFairness

-----------------------------------------------------------------------------
(* Properties.                                                             *)

\* What navigate_wait() returns or raises is what became of the goal on the server: true
\* only after a success, "rejected" only of a goal that was, and never a result that is not
\* there yet, though another thread writes it (ActionHelper, OffboardClient.navigate_wait).
NavigateTold ==
    [][at = "waiting" /\ at' = "program" =>
           /\ returned' = "true" <=> goal.phase = "SUCCEEDED" /\ goal.success
           /\ returned' = "raised: rejected" <=> goal.phase = "told"
           /\ returned' # "raised: no result"]_clientVars

\* No call is under way: the program waits for ever only for a server that is not there or
\* died, since navigate_wait() has no time-out and its bond is not asked.
CallOver ==
    \/ at \in {"program", "finding"}
    \/ at = "waiting" /\ goal.phase = "dead"
=============================================================================
