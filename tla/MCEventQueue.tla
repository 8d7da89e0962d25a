----------------------------- MODULE MCEventQueue -----------------------------
(* The agent's queue with the bounds of the .cfg files. *)
EXTENDS EventQueue
=============================================================================
