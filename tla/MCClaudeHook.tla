----------------------------- MODULE MCClaudeHook -----------------------------
(* Three processes of one session, two texts, a window of one tick. *)
EXTENDS ClaudeHook
================================================================================
