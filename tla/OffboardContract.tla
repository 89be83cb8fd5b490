-------------------------- MODULE OffboardContract --------------------------
(***************************************************************************)
(* What clover2_fcu_bridge::offboard promises to its only caller, the      *)
(* bridge server: an offboard controller is in one of four phases, it      *)
(* takes a new command only in the two quiescent ones, and it leaves the   *)
(* error phase only by an explicit reset.  The server never looks at more  *)
(* than this: in_idle(), in_error(), and whether a command was refused.    *)
(***************************************************************************)
CONSTANTS
    Command,    \* the commands a caller can give
    NoCommand   \* no command since the last reset

VARIABLES
    phase,      \* "idle" | "busy" | "hold" | "error"
    cmd         \* the last command taken since the last reset

contractVars == <<phase, cmd>>

Phases == {"idle", "busy", "hold", "error"}

\* The phases in which a command is taken, and in which an asynchronous
\* navigation counts as finished.
Quiescent == {"idle", "hold"}

ContractTypeOK ==
    /\ phase \in Phases
    /\ cmd \in Command \cup {NoCommand}

ContractInit ==
    /\ phase = "idle"
    /\ cmd = NoCommand

\* A command is taken: the controller starts working on it.
Take(c) ==
    /\ phase \in Quiescent
    /\ phase' = "busy"
    /\ cmd' = c

\* Fault: a failed command counts as no command.
MayBecomeIdle(p) ==
    CASE p = "busy" -> {"busy", "hold", "idle"}
      [] p = "hold" -> {"hold", "error"}
      [] OTHER      -> {p}

\* What one period of the update timer may do on its own: finish the command
\* in hand, or fail.
MayBecome(p) ==
    CASE p = "busy" -> {"busy", "hold", "error"}
      [] p = "hold" -> {"hold", "error"}
      [] OTHER      -> {p}

Update ==
    /\ phase' \in MayBecome(phase)
    /\ UNCHANGED cmd

\* reset_state(): from anywhere back to idle, the command forgotten.
Reset ==
    /\ phase' = "idle"
    /\ cmd' = NoCommand

ContractNext ==
    \/ \E c \in Command : Take(c)
    \/ Update
    \/ Reset

ContractSpec == ContractInit /\ [][ContractNext]_contractVars
=============================================================================
