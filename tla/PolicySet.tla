------------------------------- MODULE PolicySet -------------------------------
(***************************************************************************)
(* The three policy slots of the engine (policy_set.rs).  A bundle is its  *)
(* version, the version it says it supersedes, whether its signature       *)
(* verifies against the pinned key, and whether its rules name detectors   *)
(* of the optional domain lexicons, which the registry may lack.           *)
(***************************************************************************)
EXTENDS Naturals

CONSTANTS Bundle,  \* the bundles that exist
          None     \* Option::None

BundleKind == [version : Nat, previous_version : Nat \cup {None},
               signed : BOOLEAN, domain_rules : BOOLEAN]

ASSUME BundleAssumption == Bundle \subseteq BundleKind /\ None \notin Bundle

VARIABLES current, previous, last_known_good,
          domains   \* known_detectors holds the domain lexicons' detectors

slots == <<current, previous, last_known_good>>

(* 0 when no policy is loaded. *)
active_version == IF current = None THEN 0 ELSE current.version

(* PolicySet::new: fresh slots. *)
NewSlots == current = None /\ previous = None /\ last_known_good = None

(* The Ed25519 signature is the pinned key's over the canonical JSON. *)
verify_bundle(b) == b.signed

(* The schema is supported, and the rules are well formed and name only     *)
(* detectors of the registry.                                               *)
validate_bundle(b, known) == b.domain_rules => known

Verified(b, known) == verify_bundle(b) /\ validate_bundle(b, known)

(* Faulty variant: the chain is not checked. *)
SucceedsVersionOnly(b) == current # None => b.version > current.version

(* Faulty variant: the version is not checked. *)
SucceedsChainOnly(b) == current # None => b.previous_version = current.version

(* Anti-rollback and chain integrity against the active version. *)
Succeeds(b) ==
  current # None => b.version > current.version /\ b.previous_version = current.version

Loads(b) == Verified(b, domains) /\ Succeeds(b)

(* Faulty variant: the bundle is installed before it is validated. *)
loadUnchecked(b) ==
  /\ previous' = current
  /\ last_known_good' = b
  /\ current' = b

(* A bundle passes the pipeline and the slots rotate; any error of the      *)
(* pipeline leaves them untouched.                                          *)
load(b) ==
  IF Loads(b)
  THEN /\ previous' = current
       /\ last_known_good' = b
       /\ current' = b
  ELSE UNCHANGED slots

(* Faulty variant: the slot is taken from previous. *)
rollback_to_previous ==
  /\ last_known_good # None
  /\ previous' = current
  /\ current' = previous
  /\ UNCHANGED last_known_good

rollback_to_last_known_good ==
  /\ last_known_good # None
  /\ previous' = current
  /\ current' = last_known_good
  /\ UNCHANGED last_known_good

SetInit == NewSlots /\ domains \in BOOLEAN

SetNext ==
  /\ (\E b \in Bundle : load(b)) \/ rollback_to_last_known_good
  /\ UNCHANGED domains

SetSpec == SetInit /\ [][SetNext]_<<slots, domains>>
-----------------------------------------------------------------------------
(* Loads and rollbacks never take the engine back to an older version, nor  *)
(* leave it without a policy, nor make it enforce a bundle that does not    *)
(* verify or that another one was meant to precede.                         *)
NeverRegresses ==
  [][current # None => /\ current' # None
                       /\ \/ current' = current
                          \/ /\ current'.version > current.version
                             /\ current'.previous_version = current.version]_slots

(* Whatever is enforced, or kept to fall back to, passed the whole pipeline. *)
SlotsVerified ==
  \A b \in {current, previous, last_known_good} \ {None} : b \in Bundle /\ Verified(b, domains)

(* The policy kept to fall back to is never older than the one enforced     *)
(* before it.                                                               *)
SlotsOrdered ==
  previous # None => /\ current # None /\ last_known_good # None
                     /\ previous.version <= last_known_good.version

(* What the doc comment of rollback_to_last_known_good promises of a policy *)
(* found faulty at runtime: rolling back replaces it by an earlier one that *)
(* was loaded before it.                                                    *)
RollbackReplacesFaulty ==
  [][rollback_to_last_known_good /\ previous # None => current' # current]_slots
=============================================================================
