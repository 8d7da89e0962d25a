---------------------------- MODULE MCCliConnector ----------------------------
(* Every invocation of every adapter ("-" as prompt only where an adapter  *)
(* gives it a meaning); sessions of up to four keystrokes, of one of the   *)
(* two tools that have them, since what follows is the same for both.      *)
EXTENDS CliConnector
AllCommands ==
  {v \in Invocations : /\ v.inline = "dash" => v.tool = "mlx-lm"
                       /\ v.inline = "none" /\ v.stdin = "tty" => v.verb # "maintenance"
                       /\ v.tool = "gemini-cli" /\ v.stdin = "tty" => v.verb = "run" /\ v.inline = "text"}
================================================================================
