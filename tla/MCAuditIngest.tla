---------------------------- MODULE MCAuditIngest ----------------------------
(* Four events, the last one of another device; two concurrent handlers;    *)
(* overlapping batches, an empty one and one above the limit.                *)
EXTENDS AuditIngest

CONSTANTS p1, p2

MCEvent == 1..4
MCOwn == 1..3
MCInvocation == {p1, p2}
MCBatches == {{}, {1, 2}, {2, 3, 4}, 1..4}
=============================================================================
