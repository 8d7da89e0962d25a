---------------------------- MODULE MCAdminConsole ----------------------------
(* Two rows, two filters, two fetches of each kind and one write at a time. *)
EXTENDS AdminConsole
EditsPerPage == [p \in Pages |-> IF p \in {"exceptions", "users", "audit"} THEN 1 ELSE 2]
================================================================================
