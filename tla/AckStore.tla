------------------------------- MODULE AckStore -------------------------------
(***************************************************************************)
(* The acknowledgement store of the command line connectors: a JSON file   *)
(* that maps the hash of (scope, text) to the time at which that text was  *)
(* blocked.  A medium-risk text is blocked once; submitting it again       *)
(* within the window counts as the user's acknowledgement and consumes the *)
(* entry.  The Claude Code hook and the PTY guard share the file, and      *)
(* nothing locks it.                                                       *)
(***************************************************************************)
EXTENDS Integers, FiniteSets

CONSTANTS Keys,     \* ackKey(scope, text): one per text of one session
          Window    \* ACK_WINDOW_MS, in ticks of the clock

ASSUME AckStoreAssumption == IsFiniteSet(Keys) /\ Keys # {} /\ Window \in Nat

IsStore(s) == DOMAIN s \subseteq Keys /\ s \in [DOMAIN s -> Nat]
EmptyStore == [k \in {} |-> 0]

(* Faulty variant: entries never expire. *)
NeverPruned(s, now) == s

Pruned(s, now) == [k \in {j \in DOMAIN s : now - s[j] <= Window} |-> s[k]]

(* Faulty variant: the entry survives its use. *)
KeptAfterUse(s, now, k) ==
  LET live == Pruned(s, now)
  IN [j \in DOMAIN live \cup {k} |-> IF j \in DOMAIN live THEN live[j] ELSE now]

(* What consumeOrRecordAck saves: the entry consumed, or recorded. *)
Saved(s, now, k) ==
  LET live == Pruned(s, now)
  IN IF k \in DOMAIN live
     THEN [j \in DOMAIN live \ {k} |-> live[j]]
     ELSE [j \in DOMAIN live \cup {k} |-> IF j = k THEN now ELSE live[j]]

(* What it returns: whether the text was blocked within the window. *)
Pending(s, now, k) == k \in DOMAIN Pruned(s, now)
================================================================================
