---------------------------- MODULE PolicyLifecycle ----------------------------
(***************************************************************************)
(* How a policy reaches the engine and stays there: the agent's policy     *)
(* worker reads the bundle on disk and calls LoadPolicy, the engine loads  *)
(* it under its write lock and caches it in SQLite ignoring errors, and an *)
(* engine that restarts loads the cached bundle again.  Both processes     *)
(* crash; the detectors the engine knows are configured at each start.     *)
(***************************************************************************)
EXTENDS PolicySet, FiniteSets

CONSTANTS Keep,         \* prune_policies(3)
          MaxCrashes,   \* bound: crashes of either process
          MaxDbErrors   \* bound: calls of the engine's store that fail

ASSUME LifecycleAssumption ==
  Keep \in Nat \ {0} /\ MaxCrashes \in Nat /\ MaxDbErrors \in Nat

VARIABLES up,         \* the engine serves
          cache,      \* policy_cache rows, one per version
          active,     \* the row with is_active = 1
          file,       \* the bundle at policyBundlePath
          sync,       \* what the policy worker does next
          held,       \* the bundle it sent
          accepted,   \* the answer to its call
          orphan,     \* a call whose agent died, not yet handled
          connected,  \* engineConnected
          announced,  \* versions a PolicyUpdated event was made for
          crashes, dbErrors,
          loaded,     \* history: the versions the engine loaded
          ignored     \* history: an engine started without the policy it had cached

stored == <<cache, active>>
worker == <<sync, held, accepted, announced, connected>>
faults == <<crashes, dbErrors>>
vars == <<slots, domains, up, stored, file, worker, orphan, faults, loaded, ignored>>

Option(S) == S \cup {None}

Init ==
  /\ NewSlots /\ domains \in BOOLEAN /\ up = TRUE
  /\ cache = {} /\ active = None
  /\ file = None
  /\ sync = "idle" /\ held = None /\ accepted = FALSE
  /\ orphan = None /\ connected = FALSE
  /\ announced = {}
  /\ crashes = 0 /\ dbErrors = 0
  /\ loaded = {} /\ ignored = FALSE

(* An administrator or the device management places a bundle on disk: the   *)
(* next one, an old one, or one that does not verify.                       *)
PlaceBundle(b) ==
  /\ file' = b
  /\ UNCHANGED <<slots, domains, up, stored, worker, orphan, faults, loaded, ignored>>
-----------------------------------------------------------------------------
(* The highest Keep versions of a set of rows. *)
Newest(S) == {b \in S : Cardinality({c \in S : c.version > b.version}) < Keep}

(* Faulty variant: the row is inserted and the old one stays active. *)
install_inactive(b, pruned) ==
  /\ cache' = {c \in cache : c.version # b.version} \cup {b}
  /\ active' = IF active = None THEN b ELSE active

(* Faulty variant: the prune looks at versions only. *)
install_pruned_away(b, pruned) ==
  /\ cache' = Newest({c \in cache : c.version # b.version} \cup {b})
  /\ active' = b

(* INSERT OR REPLACE as the one active row, then prune_policies.  The       *)
(* active row is never pruned.                                              *)
install_policy(b, pruned) ==
  LET all == {c \in cache : c.version # b.version} \cup {b} IN
  /\ cache' = IF pruned THEN Newest(all) \cup {b} ELSE all
  /\ active' = b

(* The install fails; the prune is tried all the same. *)
install_fails(pruned) ==
  /\ cache' = IF pruned THEN Newest(cache) \cup ({active} \ {None}) ELSE cache
  /\ UNCHANGED active

Failed(ok) == IF ok THEN 0 ELSE 1

(* EngineService::load_policy_bytes: the outcome is the pipeline's, whatever *)
(* became of the cache.                                                     *)
load_policy_bytes(b) ==
  /\ load(b)
  /\ loaded' = IF Loads(b) THEN loaded \cup {b.version} ELSE loaded
  /\ IF Loads(b)
     THEN \E installed, pruned \in BOOLEAN :
            /\ dbErrors' = dbErrors + Failed(installed) + Failed(pruned)
            /\ dbErrors' <= MaxDbErrors
            /\ IF installed THEN install_policy(b, pruned) ELSE install_fails(pruned)
     ELSE UNCHANGED <<stored, dbErrors>>

EngineCrash ==
  /\ up /\ crashes < MaxCrashes
  /\ up' = FALSE
  /\ crashes' = crashes + 1
  /\ current' = None /\ previous' = None /\ last_known_good' = None
  /\ sync' = IF sync \in {"call", "answer"} THEN "broken" ELSE sync
  /\ orphan' = None
  /\ UNCHANGED <<domains, stored, file, held, accepted, announced, connected, dbErrors, loaded, ignored>>

(* Faulty variant: a restart enforces the cached bundle unverified. *)
build_runtime_trusting ==
  /\ ~up /\ up' = TRUE
  /\ domains' \in BOOLEAN
  /\ current' = active
  /\ last_known_good' = current'
  /\ UNCHANGED <<previous, stored, file, worker, orphan, faults, loaded, ignored>>

(* build_runtime: fresh slots, and the cached bundle goes through the same  *)
(* pipeline; one that cannot be read or does not load is ignored.           *)
build_runtime ==
  /\ ~up /\ up' = TRUE
  /\ domains' \in BOOLEAN
  /\ \E readable \in BOOLEAN :
       /\ dbErrors' = dbErrors + Failed(readable)
       /\ dbErrors' <= MaxDbErrors
       /\ current' = IF readable /\ active # None /\ Verified(active, domains') THEN active ELSE None
  /\ last_known_good' = current'
  /\ ignored' = (ignored \/ active # current')
  /\ UNCHANGED <<previous, stored, file, worker, orphan, crashes, loaded>>
-----------------------------------------------------------------------------
(* syncPolicyOnce, up to the call. *)
ReadBundle ==
  /\ sync = "idle" /\ file # None
  /\ held' = file
  /\ sync' = "call"
  /\ UNCHANGED <<slots, domains, up, stored, file, accepted, announced, connected, orphan,
                 faults, loaded, ignored>>

(* The engine handles the agent's call, under its write lock. *)
LoadPolicy ==
  /\ up /\ sync = "call"
  /\ accepted' = Loads(held)
  /\ load_policy_bytes(held)
  /\ sync' = "answer"
  /\ UNCHANGED <<domains, up, file, held, announced, connected, orphan, crashes, ignored>>

(* It handles the call of an agent that is gone; nobody hears the answer.   *)
LoadPolicyOrphan ==
  /\ up /\ orphan # None
  /\ load_policy_bytes(orphan)
  /\ orphan' = None
  /\ UNCHANGED <<domains, up, file, worker, crashes, ignored>>

(* Faulty variant: every answer is announced. *)
AnswerAnnounced ==
  /\ sync = "answer"
  /\ sync' = "idle" /\ held' = None /\ accepted' = FALSE
  /\ connected' = TRUE
  /\ announced' = announced \cup {held.version}
  /\ UNCHANGED <<slots, domains, up, stored, file, orphan, faults, loaded, ignored>>

(* The answer arrives; an accepted bundle makes a PolicyUpdated event. *)
Answer ==
  /\ sync = "answer"
  /\ sync' = "idle" /\ held' = None /\ accepted' = FALSE
  /\ connected' = TRUE
  /\ announced' = IF accepted THEN announced \cup {held.version} ELSE announced
  /\ UNCHANGED <<slots, domains, up, stored, file, orphan, faults, loaded, ignored>>

(* Faulty variant: a call that breaks off is not caught. *)
UnavailableUncaught ==
  /\ sync = "call" /\ ~up
  /\ sync' = "idle" /\ held' = None
  /\ connected' = FALSE
  /\ UNCHANGED <<slots, domains, up, stored, file, accepted, announced, orphan, faults, loaded, ignored>>

(* The engine is unreachable, or died with the call. *)
Unavailable ==
  /\ sync = "broken" \/ (sync = "call" /\ ~up)
  /\ sync' = "idle" /\ held' = None
  /\ connected' = FALSE
  /\ UNCHANGED <<slots, domains, up, stored, file, accepted, announced, orphan, faults, loaded, ignored>>

(* Faulty variant: the call outlives the agent's memory of it. *)
AgentCrashHalfway ==
  /\ crashes < MaxCrashes
  /\ crashes' = crashes + 1
  /\ held' = None /\ connected' = FALSE
  /\ UNCHANGED <<slots, domains, up, stored, file, sync, accepted, orphan, announced, dbErrors, loaded, ignored>>

(* The agent dies and launchd starts it again; a call it made may or may    *)
(* not be handled yet.                                                      *)
AgentCrash ==
  /\ crashes < MaxCrashes
  /\ crashes' = crashes + 1
  /\ sync' = "idle" /\ held' = None /\ accepted' = FALSE /\ connected' = FALSE
  /\ orphan' \in IF sync = "call" /\ up THEN {held, orphan} ELSE {orphan}
  /\ UNCHANGED <<slots, domains, up, stored, file, announced, dbErrors, loaded, ignored>>

Worker == ReadBundle \/ LoadPolicy \/ Answer \/ Unavailable

Next ==
  \/ \E b \in Bundle : PlaceBundle(b)
  \/ EngineCrash \/ build_runtime \/ LoadPolicyOrphan \/ AgentCrash
  \/ Worker

Spec == Init /\ [][Next]_vars

(* The worker loops forever and both processes are restarted by launchd. *)
FairSpec == Spec /\ WF_vars(Worker) /\ WF_vars(build_runtime)
-----------------------------------------------------------------------------
(* Every variable holds a value of its kind. *)
TypeOK ==
  /\ current \in Option(Bundle) /\ previous \in Option(Bundle)
  /\ last_known_good \in Option(Bundle)
  /\ domains \in BOOLEAN /\ up \in BOOLEAN
  /\ cache \subseteq Bundle /\ active \in Option(cache)
  /\ file \in Option(Bundle)
  /\ sync \in {"idle", "call", "answer", "broken"}
  /\ held \in Option(Bundle) /\ orphan \in Option(Bundle)
  /\ sync # "idle" => held # None
  /\ accepted \in BOOLEAN /\ connected \in BOOLEAN
  /\ announced \subseteq {b.version : b \in Bundle}
  /\ crashes \in 0..MaxCrashes /\ dbErrors \in 0..MaxDbErrors
  /\ loaded \subseteq Nat /\ ignored \in BOOLEAN

(* As long as the engine runs, the enforced policy is only ever replaced by *)
(* its direct successor, however calls are delayed, repeated or orphaned.   *)
NeverRegressesWhileUp ==
  [][up /\ up' /\ current # None =>
       /\ current' # None
       /\ \/ current' = current
          \/ /\ current'.version > current.version
             /\ current'.previous_version = current.version]_vars

(* While no store call failed, what a restart would find is what the engine *)
(* enforces: the active row of the cache is the running policy.             *)
CacheIsCurrent == dbErrors = 0 /\ up /\ current # None => active = current

(* The cache keeps the active row, and besides it no more than Keep.        *)
CacheBounded ==
  /\ active # None => active \in cache
  /\ \A b, c \in cache : b.version = c.version => b = c
  /\ dbErrors = 0 => Cardinality(cache \ {active}) <= Keep

(* A PolicyUpdated event is only made for a version the engine did load.    *)
AnnouncedWasLoaded == announced \subseteq loaded

(* Crashes, orphaned calls and old bundles on disk cannot bring an older    *)
(* policy back or leave the engine without one: only a failed store call,   *)
(* or a cached bundle ignored at a start, can.                              *)
OnlyFaultsRollBack ==
  dbErrors = 0 /\ ~ignored =>
    /\ current # None => \A v \in loaded : current.version >= v
    /\ up /\ loaded # {} => current # None

(* The inductive invariant: what the answer on its way says, and what a     *)
(* restart would find.                                                      *)
AnswerTruthful == accepted /\ sync = "answer" => held # None /\ held.version \in loaded

RestartFinds ==
  dbErrors = 0 /\ ~ignored =>
    /\ active = None => loaded = {}
    /\ active # None => \A v \in loaded : active.version >= v
    /\ up => current = active

DownIsEmpty == ~up => NewSlots

IndInv ==
  /\ TypeOK /\ SlotsVerified /\ CacheIsCurrent /\ AnnouncedWasLoaded
  /\ AnswerTruthful /\ RestartFinds /\ DownIsEmpty

(* What FilePolicySource.swift and runtime.rs say: the engine performs all  *)
(* anti-rollback verification regardless of the source, and a restart keeps *)
(* enforcing; so no version older than one it enforced comes back.          *)
AntiRollback == current # None => \A v \in loaded : current.version >= v

(* A bundle that stays on disk and that the engine would load is loaded, or *)
(* the engine stops being able to load it.                                  *)
PlacedIsLoaded ==
  \A b \in Bundle : (file = b /\ up /\ Loads(b)) ~> (current = b \/ file # b \/ ~(up /\ Loads(b)))
=============================================================================
