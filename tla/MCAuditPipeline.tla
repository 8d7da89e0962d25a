--------------------------- MODULE MCAuditPipeline ---------------------------
(* One device with two events and two handlers that may overlap. *)
EXTENDS AuditPipeline, TLC

CONSTANTS p1, p2

MCEvent == 1..2
MCBatches == SUBSET MCEvent
MCInvocation == {p1, p2}
MCSymmetry == Permutations(MCInvocation)
=============================================================================
