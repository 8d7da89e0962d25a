---------------------------- MODULE MCIdeConnector ----------------------------
(* Two scan commands, and two pastes into two documents, in each IDE. *)
EXTENDS IdeConnector
================================================================================
