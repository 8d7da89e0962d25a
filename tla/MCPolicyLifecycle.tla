--------------------------- MODULE MCPolicyLifecycle ---------------------------
EXTENDS PolicyLifecycle

CONSTANT MaxVersion   \* versions of the main line

(* A chain of releases, a release that skips one, a second genesis that     *)
(* replays the first version, a rule on a domain lexicon, and a bundle      *)
(* whose signature does not verify.                                         *)
Release(v, p, s, d) == [version |-> v, previous_version |-> p, signed |-> s, domain_rules |-> d]
BundleSet ==
  {Release(1, None, TRUE, FALSE)}
  \cup {Release(v, v - 1, TRUE, FALSE) : v \in 2..MaxVersion}
  \cup {Release(MaxVersion, MaxVersion - 2, TRUE, TRUE)}
  \cup {Release(MaxVersion, MaxVersion - 1, FALSE, FALSE)}
=============================================================================
