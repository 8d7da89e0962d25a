------------------------------ MODULE AuditLog ------------------------------
(***************************************************************************)
(* What the audit cloud promises one device: an append-only log in which   *)
(* an event appears at most once, an event is durable (archived) before it *)
(* is logged, and an uploader is only ever told that a whole batch was     *)
(* accepted when every event of it is in the log.                          *)
(* AuditIngest shows that the concurrent batch handlers implement this.    *)
(***************************************************************************)
EXTENDS Naturals, Sequences

CONSTANT Event          \* the events of the device

VARIABLES log,          \* the sequence of logged events
          durable,      \* the events of some archived batch
          acked         \* the events confirmed to an uploader

vars == <<log, durable, acked>>

Elems(s) == {s[i] : i \in 1..Len(s)}

Init == log = <<>> /\ durable = {} /\ acked = {}

(* A batch is archived before any event of it is logged. *)
Archive(S) ==
  /\ durable' = durable \cup S
  /\ UNCHANGED <<log, acked>>

(* A durable event is logged, once. *)
Log(e) ==
  /\ e \in durable \ Elems(log)
  /\ log' = Append(log, e)
  /\ UNCHANGED <<durable, acked>>

(* A batch all of whose events are in the log is confirmed. *)
Ack(S) ==
  /\ S \subseteq Elems(log)
  /\ acked' = acked \cup S
  /\ UNCHANGED <<log, durable>>

Next == (\E S \in SUBSET Event : Archive(S) \/ Ack(S)) \/ (\E e \in Event : Log(e))

Spec == Init /\ [][Next]_vars
=============================================================================
