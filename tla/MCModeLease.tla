----------------------------- MODULE MCModeLease -----------------------------
(* ModeLease with modes on clients of their own. Two questions are asked of it: what   *)
(* releases, providers and a restart of the bridge do to two modes, and what           *)
(* registration, breakage and clean-up do to three that share names. The first state   *)
(* picks the question.                                                                 *)
EXTENDS ModeLease

CONSTANTS m1, m2, m3

VARIABLE part

\* m3 is built under the name m1 had, as after a restart of its node.
Reborn == [m \in Mode |-> IF m = m2 THEN "b" ELSE "a"]

OwnClient == [m \in Mode |-> m]

MCInit == Init /\ part \in {"lease", "registry"}

\* Two modes, with all they can do.
LeasePart == part = "lease" /\ Next /\ stage'[m3] = "new"

\* Three modes without providers that never call completed(), under one bridge. A mode that
\* lives does not find its bond broken: the registry is the bridge's, which may.
RegistryPart ==
    /\ part = "registry" /\ Next /\ UNCHANGED <<bound, releases, restarts>>
    /\ \A m \in Mode : bonded[m] /\ stage'[m] = "up" => bonded'[m]

\* What is fair in ModeLease neither part forbids: m3 is not built in the first, and there is
\* no provider in the second.
MCSpec ==
    /\ MCInit
    /\ [][(LeasePart \/ RegistryPart) /\ UNCHANGED part]_<<vars, part>>
    /\ Fairness
=============================================================================
