------------------------- MODULE PolicyLifecycleProofs -------------------------
(***************************************************************************)
(* Proofs about the policy slots and the way of a policy to the engine,    *)
(* for any set of bundles, any cache size, any number of crashes and       *)
(* failed store calls.                                                     *)
(***************************************************************************)
EXTENDS PolicyLifecycle, TLAPS

(* A bundle has a version, and is not the absence of one. *)
LEMMA BundleFacts ==
  ASSUME NEW b \in Bundle
  PROVE  /\ b # None /\ b.version \in Nat
         /\ b.signed \in BOOLEAN /\ b.domain_rules \in BOOLEAN
  BY BundleAssumption DEF BundleKind

(* What loading a bundle does to the slots. *)
LEMMA LoadSlots ==
  ASSUME NEW b \in Bundle, load(b), SlotsVerified, UNCHANGED domains
  PROVE  /\ SlotsVerified'
         /\ current' = IF Loads(b) THEN b ELSE current
         /\ current # None => /\ current' # None
                              /\ \/ current' = current
                                 \/ /\ current'.version > current.version
                                    /\ current'.previous_version = current.version
  <1>1. CASE Loads(b)
    <2>1. current' = b /\ previous' = current /\ last_known_good' = b /\ b # None
      BY <1>1, BundleFacts DEF load
    <2>2. Verified(b, domains)
      BY <1>1 DEF Loads
    <2>3. SlotsVerified'
      BY <2>1, <2>2 DEF SlotsVerified, Verified
    <2> QED
      BY <1>1, <2>1, <2>3 DEF Loads, Succeeds
  <1>2. CASE ~Loads(b)
    <2>1. UNCHANGED <<current, previous, last_known_good>>
      BY <1>2 DEF load, slots
    <2> QED
      BY <1>2, <2>1 DEF SlotsVerified, Verified
  <1> QED
    BY <1>1, <1>2

(* Loads and rollbacks keep the slots verified. *)
THEOREM SlotsStayVerified == SetSpec => []SlotsVerified
  <1>1. SetInit => SlotsVerified
    BY DEF SetInit, NewSlots, SlotsVerified
  <1>2. SlotsVerified /\ [SetNext]_<<slots, domains>> => SlotsVerified'
    <2> SUFFICES ASSUME SlotsVerified, [SetNext]_<<slots, domains>> PROVE SlotsVerified'
      OBVIOUS
    <2>1. ASSUME NEW b \in Bundle, load(b), UNCHANGED domains PROVE SlotsVerified'
      BY <2>1, LoadSlots
    <2>2. CASE rollback_to_last_known_good /\ UNCHANGED domains
      BY <2>2 DEF rollback_to_last_known_good, SlotsVerified, Verified
    <2>3. CASE UNCHANGED <<slots, domains>>
      BY <2>3 DEF slots, SlotsVerified, Verified
    <2> QED
      BY <2>1, <2>2, <2>3 DEF SetNext
  <1> QED
    BY <1>1, <1>2, PTL DEF SetSpec

(* The slot kept to fall back to is the one enforced, which is why rolling  *)
(* back to it never replaces a faulty policy.                               *)
FallbackIsCurrent == current = last_known_good

(* No load and no rollback takes the engine back, or leaves it without a    *)
(* policy.                                                                  *)
THEOREM SlotsNeverRegress == SetSpec => NeverRegresses
  <1> DEFINE Step == current # None => /\ current' # None
                                       /\ \/ current' = current
                                          \/ /\ current'.version > current.version
                                             /\ current'.previous_version = current.version
  <1>1. SetInit => FallbackIsCurrent
    BY DEF SetInit, NewSlots, FallbackIsCurrent
  <1>2. FallbackIsCurrent /\ [SetNext]_<<slots, domains>> => FallbackIsCurrent'
    BY DEF SetNext, load, rollback_to_last_known_good, slots, FallbackIsCurrent
  <1>3. FallbackIsCurrent /\ SlotsVerified /\ [SetNext]_<<slots, domains>> => [Step]_slots
    <2> SUFFICES ASSUME FallbackIsCurrent, SlotsVerified, SetNext PROVE Step
      BY DEF slots
    <2>1. ASSUME NEW b \in Bundle, load(b), UNCHANGED domains PROVE Step
      BY <2>1, LoadSlots
    <2>2. CASE rollback_to_last_known_good
      BY <2>2 DEF rollback_to_last_known_good, FallbackIsCurrent
    <2> QED
      BY <2>1, <2>2 DEF SetNext
  <1> QED
    BY <1>1, <1>2, <1>3, SlotsStayVerified, PTL DEF SetSpec, NeverRegresses
-----------------------------------------------------------------------------
(* The rows and the answer are bundles; the counters are numbers. *)
LEMMA LifecycleInit == Init => IndInv
  <1> SUFFICES ASSUME Init PROVE IndInv
    OBVIOUS
  <1>1. TypeOK
    <2>1. /\ current \in Option(Bundle) /\ previous \in Option(Bundle)
          /\ last_known_good \in Option(Bundle)
          /\ cache \subseteq Bundle /\ active \in Option(cache) /\ file \in Option(Bundle)
          /\ held \in Option(Bundle) /\ orphan \in Option(Bundle)
          /\ announced \subseteq {b.version : b \in Bundle}
      BY DEF Init, NewSlots, Option
    <2>2. /\ sync \in {"idle", "call", "answer", "broken"} /\ (sync # "idle" => held # None)
          /\ crashes \in 0..MaxCrashes /\ dbErrors \in 0..MaxDbErrors /\ loaded \subseteq Nat
      BY LifecycleAssumption DEF Init
    <2>3. /\ domains \in BOOLEAN /\ up \in BOOLEAN /\ accepted \in BOOLEAN
          /\ connected \in BOOLEAN /\ ignored \in BOOLEAN
      BY Zenon DEF Init
    <2> QED
      BY <2>1, <2>2, <2>3, Zenon DEF TypeOK
  <1>2. SlotsVerified /\ CacheIsCurrent /\ AnnouncedWasLoaded
    BY DEF Init, NewSlots, SlotsVerified, CacheIsCurrent, AnnouncedWasLoaded
  <1>3. AnswerTruthful /\ RestartFinds /\ DownIsEmpty
    BY DEF Init, NewSlots, AnswerTruthful, RestartFinds, DownIsEmpty
  <1> QED
    BY <1>1, <1>2, <1>3 DEF IndInv

(* What the engine's handling of a call does, whoever made it. *)
LEMMA LoadBytes ==
  ASSUME IndInv, up, NEW b \in Bundle, load_policy_bytes(b),
         UNCHANGED <<domains, up, ignored>>
  PROVE  /\ SlotsVerified' /\ CacheIsCurrent' /\ RestartFinds' /\ DownIsEmpty'
         /\ current' \in Option(Bundle) /\ previous' \in Option(Bundle)
         /\ last_known_good' \in Option(Bundle)
         /\ cache' \subseteq Bundle /\ active' \in Option(cache')
         /\ dbErrors' \in 0..MaxDbErrors
         /\ loaded' \subseteq Nat /\ loaded \subseteq loaded'
         /\ Loads(b) => b.version \in loaded'
  <1>1. /\ TypeOK /\ SlotsVerified /\ CacheIsCurrent /\ AnnouncedWasLoaded
        /\ AnswerTruthful /\ RestartFinds /\ DownIsEmpty
    BY DEF IndInv
  <1>2. b # None /\ b.version \in Nat
    BY BundleFacts
  <1>3. load(b) /\ SlotsVerified'
    BY <1>1, LoadSlots DEF load_policy_bytes
  <1>4. /\ loaded \subseteq Nat /\ loaded' \subseteq Nat /\ loaded \subseteq loaded'
        /\ Loads(b) => b.version \in loaded'
    BY <1>1, <1>2 DEF load_policy_bytes, TypeOK
  <1>5. DownIsEmpty'
    BY DEF DownIsEmpty
  <1>6. CASE Loads(b)
    <2>1. PICK installed \in BOOLEAN, pruned \in BOOLEAN :
            /\ dbErrors' = dbErrors + Failed(installed) + Failed(pruned)
            /\ dbErrors' <= MaxDbErrors
            /\ IF installed THEN install_policy(b, pruned) ELSE install_fails(pruned)
      BY <1>6 DEF load_policy_bytes
    <2>2. /\ dbErrors' \in 0..MaxDbErrors
          /\ dbErrors' = 0 => dbErrors = 0 /\ installed
      BY <1>1, <2>1, LifecycleAssumption DEF TypeOK, Failed
    <2>3. current' = b /\ previous' = current /\ last_known_good' = b
      BY <1>3, <1>6 DEF load
    <2>4. installed => active' = b
      BY <2>1 DEF install_policy
    <2>5. cache' \subseteq Bundle /\ active' \in Option(cache')
      <3>1. CASE installed
        BY <1>1, <2>1, <3>1 DEF install_policy, Newest, TypeOK, Option
      <3>2. CASE ~installed
        BY <1>1, <2>1, <3>2 DEF install_fails, Newest, TypeOK, Option
      <3> QED
        BY <3>1, <3>2
    <2>6. CacheIsCurrent'
      BY <2>2, <2>3, <2>4 DEF CacheIsCurrent
    <2>7. RestartFinds'
      <3> SUFFICES ASSUME dbErrors' = 0, ~ignored'
                   PROVE  active' = b /\ current' = b /\ \A v \in loaded' : b.version >= v
        BY <1>2 DEF RestartFinds
      <3>1. dbErrors = 0 /\ installed /\ active' = b
        BY <2>2, <2>4
      <3>2. /\ current = active
            /\ active = None => loaded = {}
            /\ active # None => \A v \in loaded : active.version >= v
        BY <1>1, <3>1 DEF RestartFinds
      <3>3. \A v \in loaded : b.version >= v
        <4>1. CASE active = None
          BY <1>2, <3>2, <4>1
        <4>2. CASE active # None
          <5>1. b.version > current.version
            BY <1>6, <3>2, <4>2 DEF Loads, Succeeds
          <5>2. current.version \in Nat
            BY <1>1, <3>2, <4>2, BundleFacts DEF TypeOK, Option
          <5> QED
            BY <1>2, <1>4, <3>2, <4>2, <5>1, <5>2
        <4> QED
          BY <4>1, <4>2
      <3>4. loaded' = loaded \cup {b.version}
        BY <1>6 DEF load_policy_bytes
      <3> QED
        BY <1>2, <1>4, <2>3, <3>1, <3>3, <3>4
    <2> QED
      BY <1>1, <1>3, <1>4, <1>5, <2>2, <2>3, <2>5, <2>6, <2>7 DEF TypeOK, Option
  <1>7. CASE ~Loads(b)
    <2>1. UNCHANGED <<current, previous, last_known_good, cache, active, dbErrors, loaded>>
      BY <1>3, <1>7 DEF load, slots, load_policy_bytes, stored
    <2>2. CacheIsCurrent' /\ RestartFinds'
      BY <1>1, <2>1 DEF CacheIsCurrent, RestartFinds
    <2> QED
      BY <1>1, <1>3, <1>4, <1>5, <2>1, <2>2 DEF TypeOK
  <1> QED
    BY <1>6, <1>7

(* The engine handles the agent's call. *)
LEMMA LoadPolicyStep == IndInv /\ LoadPolicy => IndInv'
  <1> SUFFICES ASSUME IndInv, LoadPolicy PROVE IndInv'
    OBVIOUS
  <1>1. /\ TypeOK /\ SlotsVerified /\ CacheIsCurrent /\ AnnouncedWasLoaded
        /\ AnswerTruthful /\ RestartFinds /\ DownIsEmpty
    BY DEF IndInv
  <1>2. /\ up /\ sync = "call" /\ sync' = "answer" /\ accepted' = Loads(held)
        /\ load_policy_bytes(held)
        /\ UNCHANGED <<domains, up, file, held, announced, connected, orphan, crashes, ignored>>
    BY DEF LoadPolicy
  <1>3. held \in Bundle /\ held # None /\ held.version \in Nat
    BY <1>1, <1>2, BundleFacts DEF TypeOK, Option
  <1>4. /\ SlotsVerified' /\ CacheIsCurrent' /\ RestartFinds' /\ DownIsEmpty'
        /\ current' \in Option(Bundle) /\ previous' \in Option(Bundle)
        /\ last_known_good' \in Option(Bundle)
        /\ cache' \subseteq Bundle /\ active' \in Option(cache')
        /\ dbErrors' \in 0..MaxDbErrors
        /\ loaded' \subseteq Nat /\ loaded \subseteq loaded'
        /\ Loads(held) => held.version \in loaded'
    BY <1>2, <1>3, LoadBytes
  <1>5. accepted' \in BOOLEAN
    <2>1. held.signed \in BOOLEAN /\ held.domain_rules \in BOOLEAN
      BY <1>3, BundleFacts
    <2> QED
      BY <1>2, <2>1 DEF Loads, Verified, Succeeds
  <1>6. TypeOK'
    BY <1>1, <1>2, <1>3, <1>4, <1>5 DEF TypeOK
  <1>7. AnswerTruthful'
    BY <1>2, <1>3, <1>4 DEF AnswerTruthful
  <1>8. AnnouncedWasLoaded'
    BY <1>1, <1>2, <1>4 DEF AnnouncedWasLoaded
  <1> QED
    BY <1>4, <1>6, <1>7, <1>8 DEF IndInv

(* It handles the call of an agent that is gone. *)
LEMMA OrphanStep == IndInv /\ LoadPolicyOrphan => IndInv'
  <1> SUFFICES ASSUME IndInv, LoadPolicyOrphan PROVE IndInv'
    OBVIOUS
  <1>1. /\ TypeOK /\ SlotsVerified /\ CacheIsCurrent /\ AnnouncedWasLoaded
        /\ AnswerTruthful /\ RestartFinds /\ DownIsEmpty
    BY DEF IndInv
  <1>2. /\ up /\ orphan # None /\ orphan' = None
        /\ load_policy_bytes(orphan)
        /\ UNCHANGED <<domains, up, file, sync, held, accepted, announced, connected, crashes,
                       ignored>>
    BY DEF LoadPolicyOrphan, worker
  <1>3. orphan \in Bundle
    BY <1>1, <1>2 DEF TypeOK, Option
  <1>4. /\ SlotsVerified' /\ CacheIsCurrent' /\ RestartFinds' /\ DownIsEmpty'
        /\ current' \in Option(Bundle) /\ previous' \in Option(Bundle)
        /\ last_known_good' \in Option(Bundle)
        /\ cache' \subseteq Bundle /\ active' \in Option(cache')
        /\ dbErrors' \in 0..MaxDbErrors
        /\ loaded' \subseteq Nat /\ loaded \subseteq loaded'
    BY <1>2, <1>3, LoadBytes
  <1>5. TypeOK'
    BY <1>1, <1>2, <1>4 DEF TypeOK, Option
  <1>6. AnswerTruthful'
    BY <1>1, <1>2, <1>4 DEF AnswerTruthful
  <1>7. AnnouncedWasLoaded'
    BY <1>1, <1>2, <1>4 DEF AnnouncedWasLoaded
  <1> QED
    BY <1>4, <1>5, <1>6, <1>7 DEF IndInv

(* The steps of the agent, its worker and the administrator leave the       *)
(* engine and its store alone.                                              *)
LEMMA AgentStep ==
  ASSUME IndInv,
         (\E b \in Bundle : PlaceBundle(b)) \/ ReadBundle \/ Answer \/ Unavailable \/ AgentCrash
  PROVE  IndInv'
  <1>1. /\ TypeOK /\ SlotsVerified /\ CacheIsCurrent /\ AnnouncedWasLoaded
        /\ AnswerTruthful /\ RestartFinds /\ DownIsEmpty
    BY DEF IndInv
  <1>2. UNCHANGED <<current, previous, last_known_good, domains, up, cache, active, dbErrors,
                    loaded, ignored>>
    BY DEF PlaceBundle, ReadBundle, Answer, Unavailable, AgentCrash, slots, stored, faults
  <1>3. SlotsVerified' /\ CacheIsCurrent' /\ RestartFinds' /\ DownIsEmpty'
    BY <1>1, <1>2 DEF SlotsVerified, Verified, CacheIsCurrent, RestartFinds, DownIsEmpty, NewSlots
  <1>4. CASE \E b \in Bundle : PlaceBundle(b)
    <2>1. file' \in Bundle /\ UNCHANGED <<sync, held, accepted, announced, connected, orphan, crashes>>
      BY <1>4 DEF PlaceBundle, worker, faults
    <2>2. TypeOK'
      BY <1>1, <1>2, <2>1 DEF TypeOK, Option
    <2>3. AnswerTruthful' /\ AnnouncedWasLoaded'
      BY <1>1, <1>2, <2>1 DEF AnswerTruthful, AnnouncedWasLoaded
    <2> QED
      BY <1>3, <2>2, <2>3 DEF IndInv
  <1>5. CASE ReadBundle
    <2>1. /\ file # None /\ held' = file /\ sync' = "call"
          /\ UNCHANGED <<file, accepted, announced, connected, orphan, crashes>>
      BY <1>5 DEF ReadBundle, faults
    <2>2. TypeOK'
      BY <1>1, <1>2, <2>1 DEF TypeOK, Option
    <2>3. AnswerTruthful' /\ AnnouncedWasLoaded'
      BY <1>1, <1>2, <2>1 DEF AnswerTruthful, AnnouncedWasLoaded
    <2> QED
      BY <1>3, <2>2, <2>3 DEF IndInv
  <1>6. CASE Answer
    <2>1. /\ sync = "answer" /\ sync' = "idle" /\ held' = None /\ accepted' = FALSE
          /\ connected' = TRUE
          /\ announced' = IF accepted THEN announced \cup {held.version} ELSE announced
          /\ UNCHANGED <<file, orphan, crashes>>
      BY <1>6 DEF Answer, faults
    <2>2. held \in Bundle
      BY <1>1, <2>1 DEF TypeOK, Option
    <2>3. announced' \subseteq {b.version : b \in Bundle}
      BY <1>1, <2>1, <2>2 DEF TypeOK
    <2>4. TypeOK'
      BY <1>1, <1>2, <2>1, <2>3 DEF TypeOK, Option
    <2>5. AnswerTruthful' /\ AnnouncedWasLoaded'
      BY <1>1, <1>2, <2>1 DEF AnswerTruthful, AnnouncedWasLoaded
    <2> QED
      BY <1>3, <2>4, <2>5 DEF IndInv
  <1>7. CASE Unavailable
    <2>1. /\ sync' = "idle" /\ held' = None /\ connected' = FALSE
          /\ UNCHANGED <<file, accepted, announced, orphan, crashes>>
      BY <1>7 DEF Unavailable, faults
    <2>2. TypeOK'
      BY <1>1, <1>2, <2>1 DEF TypeOK, Option
    <2>3. AnswerTruthful' /\ AnnouncedWasLoaded'
      BY <1>1, <1>2, <2>1 DEF AnswerTruthful, AnnouncedWasLoaded
    <2> QED
      BY <1>3, <2>2, <2>3 DEF IndInv
  <1>8. CASE AgentCrash
    <2>1. /\ sync' = "idle" /\ held' = None /\ accepted' = FALSE /\ connected' = FALSE
          /\ crashes < MaxCrashes /\ crashes' = crashes + 1
          /\ orphan' \in {held, orphan}
          /\ UNCHANGED <<file, announced>>
      BY <1>8 DEF AgentCrash
    <2>2. crashes' \in 0..MaxCrashes
      BY <1>1, <2>1, LifecycleAssumption DEF TypeOK
    <2>3. TypeOK'
      BY <1>1, <1>2, <2>1, <2>2 DEF TypeOK, Option
    <2>4. AnswerTruthful' /\ AnnouncedWasLoaded'
      BY <1>1, <1>2, <2>1 DEF AnswerTruthful, AnnouncedWasLoaded
    <2> QED
      BY <1>3, <2>3, <2>4 DEF IndInv
  <1> QED
    BY <1>4, <1>5, <1>6, <1>7, <1>8

(* The engine dies with its slots. *)
LEMMA EngineCrashStep == IndInv /\ EngineCrash => IndInv'
  <1> SUFFICES ASSUME IndInv, EngineCrash PROVE IndInv'
    OBVIOUS
  <1>1. /\ TypeOK /\ SlotsVerified /\ CacheIsCurrent /\ AnnouncedWasLoaded
        /\ AnswerTruthful /\ RestartFinds /\ DownIsEmpty
    BY DEF IndInv
  <1>2. /\ up' = FALSE /\ crashes < MaxCrashes /\ crashes' = crashes + 1
        /\ current' = None /\ previous' = None /\ last_known_good' = None
        /\ sync' = IF sync \in {"call", "answer"} THEN "broken" ELSE sync
        /\ orphan' = None
        /\ UNCHANGED <<domains, cache, active, file, held, accepted, announced, connected,
                       dbErrors, loaded, ignored>>
    BY DEF EngineCrash, stored
  <1>3. crashes' \in 0..MaxCrashes
    BY <1>1, <1>2, LifecycleAssumption DEF TypeOK
  <1>4. TypeOK'
    BY <1>1, <1>2, <1>3 DEF TypeOK, Option
  <1>5. SlotsVerified' /\ CacheIsCurrent' /\ DownIsEmpty' /\ AnnouncedWasLoaded'
    BY <1>1, <1>2 DEF SlotsVerified, CacheIsCurrent, DownIsEmpty, NewSlots, AnnouncedWasLoaded
  <1>6. AnswerTruthful' /\ RestartFinds'
    BY <1>1, <1>2 DEF AnswerTruthful, RestartFinds
  <1> QED
    BY <1>4, <1>5, <1>6 DEF IndInv

(* It starts again, with the cached policy or without one. *)
LEMMA BuildRuntimeStep == IndInv /\ build_runtime => IndInv'
  <1> SUFFICES ASSUME IndInv, build_runtime PROVE IndInv'
    OBVIOUS
  <1>1. /\ TypeOK /\ SlotsVerified /\ CacheIsCurrent /\ AnnouncedWasLoaded
        /\ AnswerTruthful /\ RestartFinds /\ DownIsEmpty
    BY DEF IndInv
  <1>2. /\ ~up /\ up' = TRUE /\ domains' \in BOOLEAN
        /\ last_known_good' = current' /\ previous' = previous
        /\ ignored' = (ignored \/ active # current')
        /\ UNCHANGED <<cache, active, file, sync, held, accepted, announced, connected, orphan,
                       crashes, loaded>>
    BY DEF build_runtime, stored, worker
  <1>3. PICK readable \in BOOLEAN :
          /\ dbErrors' = dbErrors + Failed(readable)
          /\ dbErrors' <= MaxDbErrors
          /\ current' = IF readable /\ active # None /\ Verified(active, domains')
                        THEN active ELSE None
    BY DEF build_runtime
  <1>4. dbErrors' \in 0..MaxDbErrors /\ (dbErrors' = 0 => dbErrors = 0)
    BY <1>1, <1>3, LifecycleAssumption DEF TypeOK, Failed
  <1>5. active \in Option(Bundle) /\ current' \in Option(Bundle) /\ previous = None
    BY <1>1, <1>2, <1>3 DEF TypeOK, Option, DownIsEmpty, NewSlots
  <1>6. ignored' \in BOOLEAN
    BY <1>1, <1>2 DEF TypeOK
  <1>7. TypeOK'
    BY <1>1, <1>2, <1>4, <1>5, <1>6 DEF TypeOK
  <1>8. SlotsVerified'
    <2>1. current' # None => current' \in Bundle /\ Verified(current', domains')
      BY <1>3, <1>5 DEF Option
    <2> QED
      BY <1>2, <1>5, <2>1 DEF SlotsVerified, Verified
  <1>9. CacheIsCurrent' /\ DownIsEmpty' /\ AnnouncedWasLoaded' /\ AnswerTruthful'
    BY <1>1, <1>2, <1>3 DEF CacheIsCurrent, DownIsEmpty, AnnouncedWasLoaded, AnswerTruthful
  <1>10. RestartFinds'
    BY <1>1, <1>2, <1>4 DEF RestartFinds
  <1> QED
    BY <1>7, <1>8, <1>9, <1>10 DEF IndInv

(* Every step keeps the invariant. *)
LEMMA LifecycleNext == IndInv /\ [Next]_vars => IndInv'
  <1> SUFFICES ASSUME IndInv, [Next]_vars PROVE IndInv'
    OBVIOUS
  <1>1. CASE LoadPolicy
    BY <1>1, LoadPolicyStep
  <1>2. CASE LoadPolicyOrphan
    BY <1>2, OrphanStep
  <1>3. CASE (\E b \in Bundle : PlaceBundle(b)) \/ ReadBundle \/ Answer \/ Unavailable \/ AgentCrash
    BY <1>3, AgentStep
  <1>4. CASE EngineCrash
    BY <1>4, EngineCrashStep
  <1>5. CASE build_runtime
    BY <1>5, BuildRuntimeStep
  <1>6. CASE UNCHANGED vars
    <2>1. UNCHANGED <<current, previous, last_known_good, domains, up, cache, active, file,
                      sync, held, accepted, announced, connected, orphan, crashes, dbErrors,
                      loaded, ignored>>
      BY <1>6 DEF vars, slots, stored, worker, faults
    <2>2. TypeOK'
      BY <2>1 DEF IndInv, TypeOK
    <2>3. (SlotsVerified /\ CacheIsCurrent /\ AnnouncedWasLoaded)'
      BY <2>1 DEF IndInv, SlotsVerified, Verified, CacheIsCurrent, AnnouncedWasLoaded
    <2>4. (AnswerTruthful /\ RestartFinds /\ DownIsEmpty)'
      BY <2>1 DEF IndInv, AnswerTruthful, RestartFinds, DownIsEmpty, NewSlots
    <2> QED
      BY <2>2, <2>3, <2>4 DEF IndInv
  <1> QED
    BY <1>1, <1>2, <1>3, <1>4, <1>5, <1>6 DEF Next, Worker

(* The inductive invariant holds in every reachable state. *)
THEOREM LifecycleInductive == Spec => []IndInv
  BY LifecycleInit, LifecycleNext, PTL DEF Spec

(* Whatever the engine enforces verified against its key and detectors,     *)
(* also what it found in its cache at a start.                              *)
THEOREM EnforcedIsVerified == Spec => []SlotsVerified
  <1>1. IndInv => SlotsVerified
    BY DEF IndInv
  <1> QED
    BY <1>1, LifecycleInductive, PTL

(* Until a store call fails, the active row of the cache is the running     *)
(* policy.                                                                  *)
THEOREM CacheFollowsEngine == Spec => []CacheIsCurrent
  <1>1. IndInv => CacheIsCurrent
    BY DEF IndInv
  <1> QED
    BY <1>1, LifecycleInductive, PTL

(* A PolicyUpdated event is only made for a version the engine loaded. *)
THEOREM AnnouncementsAreTrue == Spec => []AnnouncedWasLoaded
  <1>1. IndInv => AnnouncedWasLoaded
    BY DEF IndInv
  <1> QED
    BY <1>1, LifecycleInductive, PTL

(* No crash, orphaned call or old bundle rolls the policy back: a failed    *)
(* store call or a cached bundle ignored at a start are the only ways.      *)
THEOREM RollbackNeedsFault == Spec => []OnlyFaultsRollBack
  <1>1. IndInv => OnlyFaultsRollBack
    <2> SUFFICES ASSUME IndInv, dbErrors = 0, ~ignored
                 PROVE  /\ current # None => \A v \in loaded : current.version >= v
                        /\ up /\ loaded # {} => current # None
      BY DEF OnlyFaultsRollBack
    <2>1. CASE up
      BY <2>1 DEF IndInv, RestartFinds
    <2>2. CASE ~up
      BY <2>2 DEF IndInv, DownIsEmpty, NewSlots
    <2> QED
      BY <2>1, <2>2
  <1> QED
    BY <1>1, LifecycleInductive, PTL

(* While the engine runs, only the direct successor replaces its policy. *)
THEOREM SuccessorsOnly == Spec => NeverRegressesWhileUp
  <1> DEFINE Step == up /\ up' /\ current # None =>
                       /\ current' # None
                       /\ \/ current' = current
                          \/ /\ current'.version > current.version
                             /\ current'.previous_version = current.version
  <1>1. IndInv /\ [Next]_vars => [Step]_vars
    <2> SUFFICES ASSUME IndInv, Next, up, up', current # None PROVE Step
      OBVIOUS
    <2>1. SlotsVerified /\ TypeOK
      BY DEF IndInv
    <2>2. CASE LoadPolicy
      <3>1. held \in Bundle /\ load(held) /\ UNCHANGED domains
        BY <2>1, <2>2 DEF LoadPolicy, load_policy_bytes, TypeOK, Option
      <3> QED
        BY <2>1, <3>1, LoadSlots
    <2>3. CASE LoadPolicyOrphan
      <3>1. orphan \in Bundle /\ load(orphan) /\ UNCHANGED domains
        BY <2>1, <2>3 DEF LoadPolicyOrphan, load_policy_bytes, TypeOK, Option
      <3> QED
        BY <2>1, <3>1, LoadSlots
    <2>4. CASE (\E b \in Bundle : PlaceBundle(b)) \/ ReadBundle \/ Answer \/ Unavailable
               \/ AgentCrash
      BY <2>4 DEF PlaceBundle, ReadBundle, Answer, Unavailable, AgentCrash, slots
    <2>5. CASE EngineCrash \/ build_runtime
      BY <2>5 DEF EngineCrash, build_runtime
    <2> QED
      BY <2>2, <2>3, <2>4, <2>5 DEF Next, Worker
  <1> QED
    BY <1>1, LifecycleInductive, PTL DEF Spec, NeverRegressesWhileUp
=============================================================================
