---------------------------- MODULE MCOffboardFsm ----------------------------
(* OffboardFsm on a line of a few places, with deadlines of one to two units. *)
EXTENDS OffboardFsm
=============================================================================
