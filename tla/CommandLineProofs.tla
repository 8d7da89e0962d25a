-------------------------- MODULE CommandLineProofs --------------------------
(***************************************************************************)
(* Proofs about the command line connectors: the Claude Code hook, for any *)
(* number of overlapping processes, texts and window lengths; the wrapper's *)
(* run, for any set of invocations; the interactive guard, for sessions of  *)
(* any length.                                                              *)
(***************************************************************************)
EXTENDS CliConnector, ClaudeHook, FiniteSetTheorems, TLAPS

(* PART 1: THE CLAUDE CODE HOOK *)

(* Every entry of a store records a block that was made. *)
Records(s) == \A k \in DOMAIN s : \E b \in blocks : b.key = k /\ b.at = s[k]

StoresRecord == Records(store) /\ \A p \in Hooks : Records(copy[p])

(* Only a process that was started with an event scans, and only a medium  *)
(* warning of a prompt reaches the acknowledgement file.                   *)
ProcessInStep ==
  \A p \in Hooks :
    /\ pc[p] = "idle" => kind[p] = "none"
    /\ pc[p] = "scanning" => kind[p] \in Events
    /\ pc[p] \in {"load", "save"} => decision[p] = "medium" /\ kind[p] = "UserPromptSubmit"

HookInv == HookTypeOK /\ StoresRecord /\ ProcessInStep /\ AckFollowsBlock /\ AllowedIsSanctioned

(* Pruning keeps entries as they are, those within the window. *)
LEMMA PrunedFacts ==
  ASSUME NEW s, NEW now
  PROVE  /\ DOMAIN Pruned(s, now) = {j \in DOMAIN s : now - s[j] <= Window}
         /\ \A k \in DOMAIN Pruned(s, now) : Pruned(s, now)[k] = s[k]
  BY DEF Pruned

(* What consumeOrRecordAck writes back: entries of before, and the new one *)
(* only when there was none.                                               *)
LEMMA SavedFacts ==
  ASSUME NEW s, NEW now, NEW k
  PROVE  \A j \in DOMAIN Saved(s, now, k) :
           \/ j \in DOMAIN s /\ Saved(s, now, k)[j] = s[j]
           \/ j = k /\ Saved(s, now, k)[j] = now /\ ~Pending(s, now, k)
  <1> DEFINE live == Pruned(s, now)
  <1>1. DOMAIN live \subseteq DOMAIN s /\ \A j \in DOMAIN live : live[j] = s[j]
    BY PrunedFacts
  <1> HIDE DEF live
  <1>2. CASE k \in DOMAIN live
    BY <1>1, <1>2 DEF Saved, live
  <1>3. CASE k \notin DOMAIN live
    BY <1>1, <1>3 DEF Saved, Pending, live
  <1> QED
    BY <1>2, <1>3

(* A store is written back as a store. *)
LEMMA SavedIsStore ==
  ASSUME NEW s, IsStore(s), NEW now \in Nat, NEW k \in Keys PROVE IsStore(Saved(s, now, k))
  <1> DEFINE live == Pruned(s, now)
             t == Saved(s, now, k)
  <1>1. DOMAIN live \subseteq DOMAIN s /\ \A j \in DOMAIN live : live[j] = s[j]
    BY PrunedFacts
  <1> HIDE DEF live
  <1>2. DOMAIN s \subseteq Keys /\ \A j \in DOMAIN s : s[j] \in Nat
    BY DEF IsStore
  <1>3. DOMAIN t \subseteq Keys /\ t = [j \in DOMAIN t |-> t[j]]
    <2>1. CASE k \in DOMAIN live
      BY <1>1, <1>2, <2>1 DEF Saved, live
    <2>2. CASE k \notin DOMAIN live
      BY <1>1, <1>2, <2>2 DEF Saved, live
    <2> QED
      BY <2>1, <2>2
  <1>4. \A j \in DOMAIN t : t[j] \in Nat
    BY <1>2, SavedFacts
  <1> HIDE DEF t
  <1>5. t \in [DOMAIN t -> Nat]
    BY <1>3, <1>4
  <1> QED
    BY <1>3, <1>5 DEF IsStore, t

(* The empty store. *)
LEMMA EmptyFacts == DOMAIN EmptyStore = {} /\ IsStore(EmptyStore) /\ Records(EmptyStore)
  BY DEF EmptyStore, IsStore, Records

(* The initial state satisfies the inductive invariant. *)
LEMMA HookInitInv == ASSUME HookInit PROVE HookInv
  <1>1. \A p \in Hooks : text[p] \in Keys
    BY AckStoreAssumption DEF HookInit
  <1>2. HookTypeOK
    <2>1. overlapped \in BOOLEAN
      BY Zenon DEF HookInit
    <2> QED
      BY <1>1, <2>1, EmptyFacts DEF HookInit, HookTypeOK
  <1>3. StoresRecord
    BY EmptyFacts DEF HookInit, StoresRecord
  <1>4. ProcessInStep /\ AckFollowsBlock /\ AllowedIsSanctioned
    BY DEF HookInit, ProcessInStep, AckFollowsBlock, AllowedIsSanctioned
  <1> QED
    BY <1>2, <1>3, <1>4 DEF HookInv

(* The steps up to the scan. *)
LEMMA RunKeeps ==
  ASSUME HookInv, NEW p \in Hooks,
         RunUnscanned(p) \/ \E e \in Events, k \in Keys : RunHook(p, e, k)
  PROVE  HookInv'
  <1>1. HookTypeOK /\ StoresRecord /\ ProcessInStep /\ AckFollowsBlock /\ AllowedIsSanctioned
    BY DEF HookInv
  <1>2. UNCHANGED <<decision, at, copy, store, clock, blocks, grants, overlapped>> /\ pc[p] = "idle"
    BY DEF RunUnscanned, RunHook
  <1>3. StoresRecord' /\ AckFollowsBlock'
    BY <1>1, <1>2 DEF StoresRecord, Records, AckFollowsBlock
  <1>4. CASE RunUnscanned(p)
    <2>1. PICK a \in {"allow", "block"} : Answer(p, a)
      BY <1>4 DEF RunUnscanned
    <2>2. UNCHANGED <<kind, text>>
      BY <1>4 DEF RunUnscanned
    <2>3. HookTypeOK'
      BY <1>1, <1>2, <2>1, <2>2 DEF Answer, HookTypeOK
    <2>4. ProcessInStep' /\ AllowedIsSanctioned'
      BY <1>1, <1>2, <2>1, <2>2 DEF Answer, HookTypeOK, ProcessInStep, AllowedIsSanctioned
    <2> QED
      BY <1>3, <2>3, <2>4 DEF HookInv
  <1>5. ASSUME NEW e \in Events, NEW k \in Keys, RunHook(p, e, k) PROVE HookInv'
    <2>1. HookTypeOK'
      BY <1>1, <1>2, <1>5 DEF RunHook, HookTypeOK
    <2>2. ProcessInStep' /\ AllowedIsSanctioned'
      BY <1>1, <1>2, <1>5 DEF RunHook, HookTypeOK, ProcessInStep, AllowedIsSanctioned
    <2> QED
      BY <1>3, <2>1, <2>2 DEF HookInv
  <1> QED
    BY <1>4, <1>5

(* What each event does with a decision. *)
LEMMA AnswerFacts ==
  ASSUME NEW e \in Events, NEW v \in Decisions
  PROVE  LET a == IF e = "PreToolUse" THEN ToolAnswer(v) ELSE PromptAnswer(v)
         IN /\ a \in {"allow", "notice", "block", "prompt"}
            /\ a = "prompt" => v = "medium" /\ e = "UserPromptSubmit"
            /\ a \in {"allow", "notice"} =>
                 v \notin {"block", "high", "fail"} /\ (v = "medium" => e # "UserPromptSubmit")
  <1>1. PromptAnswer(v) \in {"allow", "notice", "block", "prompt"}
        /\ (PromptAnswer(v) = "prompt" => v = "medium")
        /\ (PromptAnswer(v) \in {"allow", "notice"} => v \in {"allow", "low"})
    BY DEF PromptAnswer, warnTier, Decisions
  <1>2. ToolAnswer(v) \in {"allow", "block"} /\ (ToolAnswer(v) = "allow" => v \notin {"block", "high", "fail"})
    BY DEF ToolAnswer, warnTier, Decisions
  <1> QED
    BY <1>1, <1>2 DEF Events

(* The scan is answered. *)
LEMMA ScannedKeeps ==
  ASSUME HookInv, NEW p \in Hooks, NEW v \in Decisions, Scanned(p, v) PROVE HookInv'
  <1> DEFINE a == IF kind[p] = "PreToolUse" THEN ToolAnswer(v) ELSE PromptAnswer(v)
  <1>1. HookTypeOK /\ StoresRecord /\ ProcessInStep /\ AckFollowsBlock /\ AllowedIsSanctioned
    BY DEF HookInv
  <1>2. /\ UNCHANGED <<kind, text, copy, store, clock, blocks, grants, overlapped>>
        /\ pc[p] = "scanning" /\ decision' = [decision EXCEPT ![p] = v]
    BY DEF Scanned
  <1>3. kind[p] \in Events
    BY <1>1, <1>2 DEF ProcessInStep
  <1>4. /\ a \in {"allow", "notice", "block", "prompt"}
        /\ a = "prompt" => v = "medium" /\ kind[p] = "UserPromptSubmit"
        /\ a \in {"allow", "notice"} =>
             v \notin {"block", "high", "fail"} /\ (v = "medium" => kind[p] # "UserPromptSubmit")
    BY <1>3, AnswerFacts
  <1>5. IF a = "prompt"
        THEN pc' = [pc EXCEPT ![p] = "load"] /\ at' = [at EXCEPT ![p] = clock] /\ UNCHANGED answer
        ELSE Answer(p, IF a = "notice" THEN "allow" ELSE a) /\ UNCHANGED at
    BY DEF Scanned
  <1> HIDE DEF a
  <1>6. StoresRecord' /\ AckFollowsBlock'
    BY <1>1, <1>2 DEF StoresRecord, Records, AckFollowsBlock
  <1>7. HookTypeOK'
    BY <1>1, <1>2, <1>4, <1>5 DEF HookTypeOK, Answer
  <1>8. ProcessInStep' /\ AllowedIsSanctioned'
    BY <1>1, <1>2, <1>4, <1>5 DEF HookTypeOK, Answer, ProcessInStep, AllowedIsSanctioned
  <1> QED
    BY <1>6, <1>7, <1>8 DEF HookInv

(* The store is read, or taken for empty. *)
LEMMA LoadKeeps ==
  ASSUME HookInv, NEW p \in Hooks, Load(p) PROVE HookInv'
  <1>1. HookTypeOK /\ StoresRecord /\ ProcessInStep /\ AckFollowsBlock /\ AllowedIsSanctioned
    BY DEF HookInv
  <1>2. PICK s \in {store, EmptyStore} : copy' = [copy EXCEPT ![p] = s]
    BY DEF Load
  <1>3. /\ UNCHANGED <<kind, text, decision, answer, at, store, clock, blocks, grants>>
        /\ pc[p] = "load" /\ pc' = [pc EXCEPT ![p] = "save"]
    BY DEF Load
  <1>4. IsStore(s) /\ Records(s)
    BY <1>1, EmptyFacts DEF HookTypeOK, StoresRecord
  <1>5. overlapped' \in BOOLEAN
    BY Zenon DEF Load
  <1>6. DOMAIN copy' = Hooks /\ \A q \in Hooks : IsStore(copy'[q]) /\ Records(copy'[q])
    BY <1>1, <1>2, <1>4 DEF HookTypeOK, StoresRecord
  <1>7. HookTypeOK'
    BY <1>1, <1>3, <1>5, <1>6 DEF HookTypeOK
  <1>8. StoresRecord' /\ AckFollowsBlock'
    BY <1>1, <1>3, <1>6 DEF StoresRecord, Records, AckFollowsBlock
  <1>9. ProcessInStep' /\ AllowedIsSanctioned'
    BY <1>1, <1>3 DEF HookTypeOK, ProcessInStep, AllowedIsSanctioned
  <1> QED
    BY <1>7, <1>8, <1>9 DEF HookInv

(* The store is written back and the text blocked, or let through. *)
LEMMA SaveKeeps ==
  ASSUME HookInv, NEW p \in Hooks, Save(p) PROVE HookInv'
  <1> DEFINE granted == Pending(copy[p], at[p], text[p])
             ack == [key |-> text[p], at |-> at[p], by |-> p]
  <1>1. HookTypeOK /\ StoresRecord /\ ProcessInStep /\ AckFollowsBlock /\ AllowedIsSanctioned
    BY DEF HookInv
  <1>2. /\ pc[p] = "save" /\ store' = Saved(copy[p], at[p], text[p])
        /\ Answer(p, IF granted THEN "allow" ELSE "block")
        /\ grants' = IF granted THEN grants \cup {ack} ELSE grants
        /\ blocks' = IF granted THEN blocks ELSE blocks \cup {ack}
        /\ UNCHANGED <<kind, text, decision, at, copy, clock, overlapped>>
    BY DEF Save
  <1>3. text[p] \in Keys /\ at[p] \in Nat /\ IsStore(copy[p]) /\ Records(copy[p])
    BY <1>1 DEF HookTypeOK, StoresRecord
  <1>4. ack \in Acks /\ ack.key = text[p] /\ ack.at = at[p] /\ ack.by = p
    BY <1>3 DEF Acks
  <1>5. IsStore(store')
    BY <1>2, <1>3, SavedIsStore
  <1>6. granted => \E b \in blocks : b.key = text[p] /\ at[p] - b.at <= Window
    <2> SUFFICES ASSUME granted PROVE \E b \in blocks : b.key = text[p] /\ at[p] - b.at <= Window
      OBVIOUS
    <2>1. text[p] \in DOMAIN copy[p] /\ at[p] - copy[p][text[p]] <= Window
      <3>1. text[p] \in DOMAIN Pruned(copy[p], at[p])
        BY DEF Pending
      <3>2. DOMAIN Pruned(copy[p], at[p]) = {j \in DOMAIN copy[p] : at[p] - copy[p][j] <= Window}
        BY PrunedFacts
      <3> QED
        BY <3>1, <3>2
    <2> QED
      BY <1>3, <2>1 DEF Records
  <1>7. ASSUME NEW k \in DOMAIN store' PROVE \E b \in blocks' : b.key = k /\ b.at = store'[k]
    <2>1. \/ k \in DOMAIN copy[p] /\ store'[k] = copy[p][k]
          \/ k = text[p] /\ store'[k] = at[p] /\ ~granted
      BY <1>2, SavedFacts
    <2> HIDE DEF granted, ack
    <2>2. blocks \subseteq blocks'
      BY <1>2
    <2>3. CASE k \in DOMAIN copy[p] /\ store'[k] = copy[p][k]
      BY <1>3, <2>2, <2>3 DEF Records
    <2>4. CASE k = text[p] /\ store'[k] = at[p] /\ ~granted
      BY <1>2, <1>4, <2>4
    <2> QED
      BY <2>1, <2>3, <2>4
  <1> HIDE DEF granted, ack
  <1>8. StoresRecord'
    <2>1. blocks \subseteq blocks' /\ copy' = copy
      BY <1>2
    <2> QED
      BY <1>1, <1>7, <2>1 DEF StoresRecord, Records
  <1>9. HookTypeOK'
    BY <1>1, <1>2, <1>4, <1>5 DEF HookTypeOK, Answer
  <1>10. AckFollowsBlock'
    BY <1>1, <1>2, <1>4, <1>6 DEF AckFollowsBlock
  <1>11. ProcessInStep'
    BY <1>1, <1>2 DEF HookTypeOK, Answer, ProcessInStep
  <1>12. AllowedIsSanctioned'
    <2>1. decision[p] = "medium"
      BY <1>1, <1>2 DEF ProcessInStep
    <2> QED
      BY <1>1, <1>2, <1>4, <2>1 DEF HookTypeOK, Answer, AllowedIsSanctioned
  <1> QED
    BY <1>8, <1>9, <1>10, <1>11, <1>12 DEF HookInv

(* A write that fails, a tick of the clock, and a step without a change. *)
LEMMA OtherKeeps ==
  ASSUME HookInv, Tick \/ UNCHANGED hookVars \/ \E p \in Hooks : SaveFails(p) PROVE HookInv'
  <1>1. HookTypeOK /\ StoresRecord /\ ProcessInStep /\ AckFollowsBlock /\ AllowedIsSanctioned
    BY DEF HookInv
  <1>2. CASE Tick \/ UNCHANGED hookVars
    <2>1. HookTypeOK'
      BY <1>1, <1>2 DEF Tick, hookVars, procs, HookTypeOK
    <2> QED
      BY <1>1, <1>2, <2>1 DEF Tick, hookVars, procs, HookInv, StoresRecord, Records, ProcessInStep,
                              AckFollowsBlock, AllowedIsSanctioned
  <1>3. ASSUME NEW p \in Hooks, SaveFails(p) PROVE HookInv'
    <2>1. HookTypeOK'
      BY <1>1, <1>3 DEF SaveFails, Answer, HookTypeOK
    <2>2. StoresRecord' /\ AckFollowsBlock'
      BY <1>1, <1>3 DEF SaveFails, StoresRecord, Records, AckFollowsBlock
    <2>3. ProcessInStep' /\ AllowedIsSanctioned'
      BY <1>1, <1>3 DEF SaveFails, Answer, HookTypeOK, ProcessInStep, AllowedIsSanctioned
    <2> QED
      BY <2>1, <2>2, <2>3 DEF HookInv
  <1> QED
    BY <1>2, <1>3

(* The inductive invariant holds of every behaviour. *)
LEMMA HookInvariant == HookSpec => []HookInv
  <1>1. HookInv /\ [HookNext]_hookVars => HookInv'
    BY RunKeeps, ScannedKeeps, LoadKeeps, SaveKeeps, OtherKeeps DEF HookNext, Step
  <1>2. HookInit => HookInv
    BY HookInitInv
  <1> QED
    BY <1>1, <1>2, PTL DEF HookSpec

(* Type correctness of the hook processes and their file. *)
THEOREM HookTypeCorrect == HookSpec => []HookTypeOK
  <1>1. HookInv => HookTypeOK
    BY DEF HookInv
  <1> QED
    BY <1>1, HookInvariant, PTL

(* consumeOrRecordAck never grants an acknowledgement nobody was asked     *)
(* for: the text was blocked before, within the window, although processes *)
(* overwrite each other's file.                                            *)
THEOREM GrantsFollowBlocks == HookSpec => []AckFollowsBlock
  <1>1. HookInv => AckFollowsBlock
    BY DEF HookInv
  <1> QED
    BY <1>1, HookInvariant, PTL

(* No path through runHook, handleUserPrompt and handlePreTool lets a      *)
(* block, a high warning or a failed scan through, nor a medium warning of *)
(* a prompt without its acknowledgement.                                   *)
THEOREM HookFailsClosed == HookSpec => []AllowedIsSanctioned
  <1>1. HookInv => AllowedIsSanctioned
    BY DEF HookInv
  <1> QED
    BY <1>1, HookInvariant, PTL

(* The number of acknowledgements of one text. *)
OfKey(S, k) == {a \in S : a.key = k}
Tally(S, k) == Cardinality(OfKey(S, k))

(* A process leaves at most one mark, when it is done. *)
MarksOfDone ==
  /\ IsFiniteSet(blocks) /\ IsFiniteSet(grants)
  /\ \A a \in blocks \cup grants : pc[a.by] = "done"

(* Without overlap, one process at a time holds a copy, which is the file   *)
(* (or nothing), and an entry of the file is a block not yet used.          *)
EntryIsCredit ==
  ~overlapped =>
    /\ \A p, q \in Hooks : pc[p] = "save" /\ pc[q] = "save" => p = q
    /\ \A p \in Hooks : pc[p] = "save" => copy[p] \in {store, EmptyStore}
    /\ \A k \in Keys :
         Tally(grants, k) + (IF k \in DOMAIN store THEN 1 ELSE 0) <= Tally(blocks, k)

(* One more acknowledgement of a text counts once, for its text only. *)
LEMMA TallyAdd ==
  ASSUME NEW S, IsFiniteSet(S), NEW x, x \notin S, NEW k
  PROVE  /\ IsFiniteSet(S \cup {x})
         /\ Tally(S, k) \in Nat
         /\ Tally(S \cup {x}, k) = IF x.key = k THEN Tally(S, k) + 1 ELSE Tally(S, k)
  <1>1. IsFiniteSet(OfKey(S, k))
    <2>1. OfKey(S, k) \in SUBSET S
      BY DEF OfKey
    <2> QED  BY <2>1, FS_Subset
  <1>2. x.key = k => OfKey(S \cup {x}, k) = OfKey(S, k) \cup {x}
    BY DEF OfKey
  <1>3. x.key # k => OfKey(S \cup {x}, k) = OfKey(S, k)
    BY DEF OfKey
  <1>4. x \notin OfKey(S, k)
    BY DEF OfKey
  <1>5. Cardinality(OfKey(S, k) \cup {x}) = Cardinality(OfKey(S, k)) + 1
    BY <1>1, <1>4, FS_AddElement
  <1>6. IsFiniteSet(S \cup {x})
    BY FS_AddElement
  <1>7. Tally(S, k) \in Nat
    BY <1>1, FS_CardinalityType DEF Tally
  <1> QED  BY <1>2, <1>3, <1>5, <1>6, <1>7 DEF Tally

(* Steps that neither enter nor leave the stretch between load and save. *)
LEMMA CreditKept ==
  ASSUME HookTypeOK, MarksOfDone, EntryIsCredit,
         UNCHANGED <<copy, store, blocks, grants, overlapped>>,
         \A p \in Hooks : pc[p] = "done" => pc'[p] = "done",
         \A p \in Hooks : pc'[p] = "save" => pc[p] = "save"
  PROVE  MarksOfDone' /\ EntryIsCredit'
  <1>1. \A a \in blocks \cup grants : a.by \in Hooks
    BY DEF HookTypeOK, Acks
  <1>2. MarksOfDone'
    BY <1>1 DEF MarksOfDone
  <1>3. EntryIsCredit'
    BY DEF EntryIsCredit
  <1> QED  BY <1>2, <1>3

LEMMA LoadCredit ==
  ASSUME HookTypeOK, MarksOfDone, EntryIsCredit, NEW p \in Hooks, Load(p)
  PROVE  MarksOfDone' /\ EntryIsCredit'
  <1>1. /\ pc[p] = "load" /\ pc' = [pc EXCEPT ![p] = "save"]
        /\ UNCHANGED <<store, blocks, grants>>
        /\ overlapped' = (overlapped \/ \E q \in Hooks \ {p} : pc[q] = "save")
    BY DEF Load
  <1>2. PICK s \in {store, EmptyStore} : copy' = [copy EXCEPT ![p] = s]
    BY DEF Load
  <1>3. pc \in [Hooks -> {"idle", "scanning", "load", "save", "done"}] /\ DOMAIN copy = Hooks
        /\ \A a \in blocks \cup grants : a.by \in Hooks
    BY DEF HookTypeOK, Acks
  <1>4. MarksOfDone'
    BY <1>1, <1>3 DEF MarksOfDone
  <1>5. ASSUME ~overlapped'
        PROVE  /\ \A q, r \in Hooks : pc'[q] = "save" /\ pc'[r] = "save" => q = r
               /\ \A q \in Hooks : pc'[q] = "save" => copy'[q] \in {store', EmptyStore}
    <2>1. \A q \in Hooks : pc'[q] = "save" => q = p
      BY <1>1, <1>3, <1>5
    <2>2. copy'[p] = s
      BY <1>2, <1>3
    <2> QED  BY <1>1, <2>1, <2>2
  <1>6. ~overlapped' => ~overlapped
    BY <1>1
  <1>7. EntryIsCredit'
    BY <1>1, <1>5, <1>6 DEF EntryIsCredit
  <1> QED  BY <1>4, <1>7

(* Saved removes the entry it grants on, and adds at most the one it records. *)
LEMMA SavedDomain ==
  ASSUME NEW s, NEW now, NEW k
  PROVE  /\ DOMAIN Saved(s, now, k) \subseteq DOMAIN s \cup {k}
         /\ Pending(s, now, k) => k \in DOMAIN s /\ k \notin DOMAIN Saved(s, now, k)
  <1> DEFINE live == Pruned(s, now)
  <1>1. DOMAIN live \subseteq DOMAIN s
    BY PrunedFacts
  <1> HIDE DEF live
  <1>2. CASE k \in DOMAIN live
    BY <1>1, <1>2 DEF Saved, live
  <1>3. CASE k \notin DOMAIN live
    BY <1>1, <1>3 DEF Saved, Pending, live
  <1> QED
    BY <1>2, <1>3

LEMMA SaveCredit ==
  ASSUME HookTypeOK, MarksOfDone, EntryIsCredit, NEW p \in Hooks, Save(p)
  PROVE  MarksOfDone' /\ EntryIsCredit'
  <1> DEFINE granted == Pending(copy[p], at[p], text[p])
             ack == [key |-> text[p], at |-> at[p], by |-> p]
  <1>1. /\ pc[p] = "save" /\ store' = Saved(copy[p], at[p], text[p])
        /\ pc' = [pc EXCEPT ![p] = "done"]
        /\ grants' = IF granted THEN grants \cup {ack} ELSE grants
        /\ blocks' = IF granted THEN blocks ELSE blocks \cup {ack}
        /\ UNCHANGED <<copy, overlapped>>
    BY DEF Save, Answer
  <1>2. /\ pc \in [Hooks -> {"idle", "scanning", "load", "save", "done"}]
        /\ \A a \in blocks \cup grants : a.by \in Hooks
        /\ text[p] \in Keys
    BY DEF HookTypeOK, Acks
  <1>3. ack.key = text[p] /\ ack.by = p
    OBVIOUS
  <1>4. /\ DOMAIN store' \subseteq DOMAIN copy[p] \cup {text[p]}
        /\ granted => text[p] \in DOMAIN copy[p] /\ text[p] \notin DOMAIN store'
    BY <1>1, SavedDomain
  <1> HIDE DEF granted, ack
  <1>5. ack \notin blocks /\ ack \notin grants
    BY <1>1, <1>3 DEF MarksOfDone
  <1>6. \A k : /\ IsFiniteSet(blocks \cup {ack}) /\ IsFiniteSet(grants \cup {ack})
               /\ Tally(blocks, k) \in Nat /\ Tally(grants, k) \in Nat
               /\ Tally(blocks \cup {ack}, k) =
                    IF k = text[p] THEN Tally(blocks, k) + 1 ELSE Tally(blocks, k)
               /\ Tally(grants \cup {ack}, k) =
                    IF k = text[p] THEN Tally(grants, k) + 1 ELSE Tally(grants, k)
    <2> TAKE k
    <2>1. IsFiniteSet(blocks) /\ IsFiniteSet(grants)
      BY DEF MarksOfDone
    <2>2. /\ IsFiniteSet(blocks \cup {ack}) /\ Tally(blocks, k) \in Nat
          /\ Tally(blocks \cup {ack}, k) =
               IF ack.key = k THEN Tally(blocks, k) + 1 ELSE Tally(blocks, k)
      BY <1>5, <2>1, TallyAdd, Zenon
    <2>3. /\ IsFiniteSet(grants \cup {ack}) /\ Tally(grants, k) \in Nat
          /\ Tally(grants \cup {ack}, k) =
               IF ack.key = k THEN Tally(grants, k) + 1 ELSE Tally(grants, k)
      BY <1>5, <2>1, TallyAdd, Zenon
    <2> QED  BY <1>3, <2>2, <2>3
  <1>7. MarksOfDone'
    <2>1. IsFiniteSet(blocks') /\ IsFiniteSet(grants')
      BY <1>1, <1>6 DEF MarksOfDone
    <2>2. \A a \in blocks' \cup grants' : pc'[a.by] = "done"
      BY <1>1, <1>2, <1>3 DEF MarksOfDone
    <2> QED  BY <2>1, <2>2 DEF MarksOfDone
  <1>8. ASSUME ~overlapped' PROVE \A q \in Hooks : pc'[q] # "save"
    BY <1>1, <1>2, <1>8 DEF EntryIsCredit
  <1>9. ASSUME ~overlapped', NEW k \in Keys
        PROVE  Tally(grants', k) + (IF k \in DOMAIN store' THEN 1 ELSE 0) <= Tally(blocks', k)
    <2>1. /\ DOMAIN copy[p] \subseteq DOMAIN store
          /\ Tally(grants, k) + (IF k \in DOMAIN store THEN 1 ELSE 0) <= Tally(blocks, k)
      BY <1>1, <1>9, EmptyFacts DEF EntryIsCredit
    <2>2. CASE k # text[p]
      <3>1. k \in DOMAIN store' => k \in DOMAIN store
        BY <1>4, <2>1, <2>2
      <3>2. Tally(grants', k) = Tally(grants, k) /\ Tally(blocks', k) = Tally(blocks, k)
        BY <1>1, <1>6, <2>2
      <3> QED  BY <1>6, <2>1, <3>1, <3>2
    <2>3. CASE k = text[p] /\ granted
      <3>1. Tally(grants', k) = Tally(grants, k) + 1 /\ Tally(blocks', k) = Tally(blocks, k)
        BY <1>1, <1>6, <2>3
      <3>2. k \in DOMAIN store /\ k \notin DOMAIN store'
        BY <1>4, <2>1, <2>3
      <3> QED  BY <1>6, <2>1, <3>1, <3>2
    <2>4. CASE k = text[p] /\ ~granted
      <3>1. Tally(grants', k) = Tally(grants, k) /\ Tally(blocks', k) = Tally(blocks, k) + 1
        BY <1>1, <1>6, <2>4
      <3> QED  BY <1>6, <2>1, <3>1
    <2> QED  BY <2>2, <2>3, <2>4
  <1>10. EntryIsCredit'
    BY <1>8, <1>9 DEF EntryIsCredit
  <1> QED  BY <1>7, <1>10

LEMMA CreditHolds == HookSpec => [](HookTypeOK /\ MarksOfDone /\ EntryIsCredit)
  <1>1. HookInit => MarksOfDone /\ EntryIsCredit
    <2> SUFFICES ASSUME HookInit PROVE MarksOfDone /\ EntryIsCredit
      OBVIOUS
    <2>1. blocks = {} /\ grants = {} /\ DOMAIN store = {} /\ \A p \in Hooks : pc[p] # "save"
      BY EmptyFacts DEF HookInit
    <2>2. \A k : Tally({}, k) = 0
      <3>1. \A k : OfKey({}, k) = {}
        BY DEF OfKey
      <3> QED  BY <3>1, FS_EmptySet DEF Tally
    <2> QED  BY <2>1, <2>2, FS_EmptySet DEF MarksOfDone, EntryIsCredit
  <1>2. HookTypeOK /\ MarksOfDone /\ EntryIsCredit /\ [HookNext]_hookVars
          => MarksOfDone' /\ EntryIsCredit'
    <2> SUFFICES ASSUME HookTypeOK, MarksOfDone, EntryIsCredit, [HookNext]_hookVars
                 PROVE  MarksOfDone' /\ EntryIsCredit'
      OBVIOUS
    <2>1. CASE Tick \/ UNCHANGED hookVars
      BY <2>1, CreditKept DEF Tick, hookVars, procs
    <2>2. ASSUME NEW p \in Hooks,
                 \/ RunUnscanned(p) \/ SaveFails(p) \/ \E v \in Decisions : Scanned(p, v)
                 \/ \E e \in Events, k \in Keys : RunHook(p, e, k)
          PROVE  MarksOfDone' /\ EntryIsCredit'
      <3>1. /\ UNCHANGED <<copy, store, blocks, grants, overlapped>> /\ pc[p] # "done"
            /\ \E w \in {"done", "scanning", "load"} : pc' = [pc EXCEPT ![p] = w]
        BY <2>2 DEF RunUnscanned, SaveFails, Scanned, RunHook, Answer
      <3>2. /\ \A q \in Hooks : pc[q] = "done" => pc'[q] = "done"
            /\ \A q \in Hooks : pc'[q] = "save" => pc[q] = "save"
        BY <3>1 DEF HookTypeOK
      <3> QED  BY <3>1, <3>2, CreditKept
    <2> QED  BY <2>1, <2>2, LoadCredit, SaveCredit DEF HookNext, Step
  <1> QED  BY <1>1, <1>2, HookTypeCorrect, PTL DEF HookSpec

(* consumeOrRecordAck consumes what it grants on: as long as no two hooks    *)
(* are between load and save at once, no text is let through as              *)
(* acknowledged more often than it was blocked.                              *)
THEOREM GrantsAreConsumed == HookSpec => []ConsumedOnce
  <1>1. HookTypeOK /\ MarksOfDone /\ EntryIsCredit => ConsumedOnce
    <2> SUFFICES ASSUME MarksOfDone, EntryIsCredit, ~overlapped, NEW k \in Keys
                 PROVE  Tally(grants, k) <= Tally(blocks, k)
      BY DEF ConsumedOnce, Tally, OfKey
    <2>1. Tally(grants, k) + (IF k \in DOMAIN store THEN 1 ELSE 0) <= Tally(blocks, k)
      BY DEF EntryIsCredit
    <2>2. OfKey(grants, k) \in SUBSET grants /\ OfKey(blocks, k) \in SUBSET blocks
      BY DEF OfKey
    <2>3. Tally(grants, k) \in Nat /\ Tally(blocks, k) \in Nat
      BY <2>2, FS_Subset, FS_CardinalityType DEF MarksOfDone, Tally
    <2> QED  BY <2>1, <2>3
  <1> QED  BY <1>1, CreditHolds, PTL
-----------------------------------------------------------------------------
(* PART 2: THE INTERACTIVE GUARD *)

PtyBooleans == {dirty, pasting, escaped, boxPasting, astray} \subseteq BOOLEAN

(* The inductive invariant of a session: no line is at the gate while the   *)
(* shadow believes itself inside a paste.                                    *)
PtyInv ==
  /\ PtyBooleans
  /\ ShadowInStep
  /\ ~astray /\ gate = "scan" => ~pasting
  /\ pasting => ~escaped
  /\ LineGated

(* Keystrokes reach the shadow and the box alike, until an edit is missed.  *)
LEMMA ForwardKeeps ==
  ASSUME PtyInv, Forward PROVE PtyInv'
  <1> DEFINE k == Head(slice)
  <1>0. /\ dirty \in BOOLEAN /\ pasting \in BOOLEAN /\ escaped \in BOOLEAN
        /\ boxPasting \in BOOLEAN /\ astray \in BOOLEAN /\ (pasting => ~escaped)
    BY DEF PtyInv, PtyBooleans
  <1>1. /\ Push(k) /\ Type(k) /\ gate = "open" /\ gate' = gate /\ line' = line
        /\ astray' = (astray \/ GoesAstray(k))
    BY DEF Forward
  <1> HIDE DEF k
  <1>2. submitted' = submitted
    BY <1>1 DEF Type
  <1>3. PtyBooleans' /\ (pasting' => ~escaped')
    <2>1. dirty' \in BOOLEAN /\ pasting' \in BOOLEAN /\ escaped' \in BOOLEAN /\ (pasting' => ~escaped')
      <3>1. CASE pasting
        BY <1>0, <1>1, <3>1, Zenon DEF Push
      <3>2. CASE ~pasting /\ escaped
        BY <1>0, <1>1, <3>2, Zenon DEF Push
      <3>3. CASE ~pasting /\ ~escaped
        <4>1. /\ dirty' = (k # "KILL" /\ (dirty \/ k \in {"KEY", "END", "SPLIT"}))
              /\ pasting' = (k = "PASTE") /\ escaped' = (k = "ESC")
          BY <1>1, <3>3 DEF Push
        <4> QED  BY <4>1
      <3> QED  BY <1>0, <3>1, <3>2, <3>3
    <2>2. boxPasting' \in BOOLEAN
      BY <1>0, <1>1, Zenon DEF Type
    <2>3. astray' \in BOOLEAN
      BY <1>0, <1>1, Zenon DEF GoesAstray
    <2> QED  BY <2>1, <2>2, <2>3 DEF PtyBooleans
  <1>4. ASSUME ~astray' PROVE ~astray /\ ~GoesAstray(k)
    BY <1>1, <1>4
  <1>5. ASSUME ~astray'
        PROVE  (pasting' <=> boxPasting') /\ (~dirty' /\ ~escaped' => buffer' = box')
    <2>1. (pasting <=> boxPasting) /\ (~dirty /\ ~escaped => buffer = box)
      BY <1>1, <1>4, <1>5 DEF PtyInv, ShadowInStep
    <2>2. CASE pasting
      <3>1. /\ pasting' <=> k # "END"
            /\ buffer' = IF k = "END" THEN buffer ELSE buffer \o Bytes(k)
            /\ dirty' = dirty /\ escaped' = escaped
        BY <1>1, <2>2 DEF Push
      <3>2. /\ boxPasting' <=> k \notin {"END", "SPLIT"}
            /\ box' = IF k \in {"END", "SPLIT"} THEN box ELSE box \o Bytes(k)
        BY <1>1, <2>1, <2>2 DEF Type
      <3>3. k # "SPLIT"
        BY <1>4, <1>5, <2>2 DEF GoesAstray
      <3> QED  BY <2>1, <3>1, <3>2, <3>3
    <2>3. CASE ~pasting /\ escaped
      <3>1. pasting' = pasting /\ dirty' = TRUE
        BY <1>1, <2>3 DEF Push
      <3>2. boxPasting' <=> k = "PASTE"
        BY <1>1, <2>1, <2>3 DEF Type
      <3>3. k # "PASTE"
        BY <1>4, <1>5, <2>3 DEF GoesAstray
      <3> QED  BY <2>3, <3>1, <3>2, <3>3
    <2>4. CASE ~pasting /\ ~escaped
      <3>1. /\ pasting' <=> k = "PASTE"
            /\ dirty' <=> k # "KILL" /\ (dirty \/ k \in {"KEY", "END", "SPLIT"})
            /\ escaped' <=> k = "ESC"
            /\ buffer' = (CASE k \in Chars \cup {"WIDE"} -> buffer \o Bytes(k)
                            [] k = "BS"   -> ButLast(buffer)
                            [] k = "WORD" -> DropWord(buffer)
                            [] k = "KILL" -> <<>>
                            [] OTHER      -> buffer)
        BY <1>1, <2>4 DEF Push
      <3>2. /\ boxPasting' <=> k = "PASTE"
            /\ box' \in (CASE k \in Chars \cup {"WIDE"} -> {box \o Bytes(k)}
                      [] k = "BS"   -> {ButLast(box)} \cup
                                       (IF Wide(box) THEN {ButLast(ButLast(box))} ELSE {})
                      [] k = "WORD" -> {IF Blank(box) THEN <<>> ELSE DropWord(box)}
                      [] k = "KILL" -> {<<>>}
                      [] k \in {"KEY", "ESC"} -> {box, <<"x", "x">>}
                      [] OTHER      -> {box})
        BY <1>1, <2>1, <2>4 DEF Type
      <3>3. ~(k = "BS" /\ Wide(box)) /\ ~(k = "WORD" /\ Blank(box))
        BY <1>4, <1>5, <2>4 DEF GoesAstray
      <3>4. ASSUME ~dirty', ~escaped' PROVE buffer' = box'
        <4>1. CASE k = "KILL"
          BY <3>1, <3>2, <4>1 DEF Chars
        <4>2. CASE k # "KILL"
          <5>1. k \notin {"KEY", "ESC", "END", "SPLIT"} /\ buffer = box
            BY <2>1, <2>4, <3>1, <3>4, <4>2
          <5>2. CASE k \in Chars \cup {"WIDE"}
            BY <3>1, <3>2, <5>1, <5>2 DEF Chars
          <5>3. CASE k = "BS"
            BY <3>1, <3>2, <3>3, <5>1, <5>3 DEF Chars
          <5>4. CASE k = "WORD"
            BY <3>1, <3>2, <3>3, <5>1, <5>4 DEF Chars
          <5>5. CASE k \notin Chars \cup {"WIDE"} /\ k # "BS" /\ k # "WORD"
            BY <3>1, <3>2, <4>2, <5>1, <5>5
          <5> QED  BY <5>2, <5>3, <5>4, <5>5
        <4> QED  BY <4>1, <4>2
      <3> QED  BY <3>1, <3>2, <3>4
    <2> QED  BY <2>2, <2>3, <2>4
  <1>6. ShadowInStep'
    <2>1. ~astray' => pasting' = boxPasting'
      BY <1>3, <1>5 DEF PtyBooleans
    <2> QED  BY <1>1, <1>5, <2>1 DEF ShadowInStep
  <1>7. LineGated'
    BY <1>2, <1>4 DEF PtyInv, LineGated
  <1> QED  BY <1>1, <1>3, <1>6, <1>7 DEF PtyInv

(* A carriage return that the shadow knows of sends a line that is blank, a *)
(* slash command, flagged, or goes to the gate first.                        *)
LEMMA EnterKeeps ==
  ASSUME PtyInv, Enter PROVE PtyInv'
  <1>0. /\ dirty \in BOOLEAN /\ pasting \in BOOLEAN /\ escaped \in BOOLEAN
        /\ boxPasting \in BOOLEAN /\ astray \in BOOLEAN /\ (pasting => ~escaped)
        /\ astray' = astray /\ gate = "open" /\ pasting' = pasting
    BY DEF PtyInv, PtyBooleans, Enter
  <1>1. ~astray => (pasting <=> boxPasting) /\ (~dirty /\ ~escaped => buffer = box)
    BY <1>0 DEF PtyInv, ShadowInStep
  <1>2. PtyBooleans' /\ (pasting' => ~escaped')
    <2>1. dirty' \in BOOLEAN /\ escaped' \in BOOLEAN /\ (pasting' => ~escaped')
      <3>1. CASE pasting /\ UNCHANGED <<dirty, escaped>>
        BY <1>0, <3>1
      <3>2. CASE ~pasting /\ escaped' = FALSE /\ dirty' = TRUE
        BY <1>0, <3>2
      <3>3. CASE ~pasting /\ escaped' = escaped /\ dirty' = FALSE
        BY <1>0, <3>3
      <3> QED  BY <3>1, <3>2, <3>3 DEF Enter
    <2>2. boxPasting' = boxPasting
      BY DEF Enter, Return, tool
    <2> QED  BY <1>0, <2>1, <2>2 DEF PtyBooleans
  <1>3. CASE pasting
    <2>1. /\ buffer' = Append(buffer, "\n") /\ Return(TRUE, <<>>, dirty)
          /\ UNCHANGED <<gate, line, dirty, escaped>>
      BY <1>3 DEF Enter
    <2>2. ~astray => box' = Append(box, "\n") /\ UNCHANGED <<boxPasting, submitted>>
      BY <1>1, <1>3, <2>1 DEF Return
    <2>3. ShadowInStep' /\ LineGated'
      BY <1>0, <1>1, <2>1, <2>2 DEF PtyInv, ShadowInStep, LineGated
    <2> QED  BY <1>0, <1>2, <2>1, <2>3 DEF PtyInv
  <1>4. CASE ~pasting /\ escaped
    <2>1. /\ dirty' = TRUE /\ escaped' = FALSE /\ UNCHANGED <<gate, line, buffer>>
          /\ \/ Return(TRUE, <<>>, TRUE)
             \/ box' = Append(box, "\n") /\ UNCHANGED <<boxPasting, submitted>>
      BY <1>4 DEF Enter
    <2> DEFINE l == [text |-> box, free |-> TRUE, scanned |-> <<>>, dirty |-> TRUE]
    <2>2. /\ boxPasting' = boxPasting
          /\ submitted' \subseteq submitted \cup {l}
      BY <2>1 DEF Return
    <2>3. l.dirty
      OBVIOUS
    <2> HIDE DEF l
    <2>4. LineGated'
      BY <1>0, <2>2, <2>3 DEF PtyInv, LineGated
    <2>5. ShadowInStep'
      BY <1>0, <1>1, <2>1, <2>2 DEF PtyInv, ShadowInStep
    <2> QED  BY <1>0, <1>2, <2>1, <2>4, <2>5 DEF PtyInv
  <1>5. CASE ~pasting /\ ~escaped /\ (Blank(buffer) \/ Slash(buffer))
    <2>1. /\ buffer' = <<>> /\ dirty' = FALSE /\ escaped' = escaped
          /\ Return(TRUE, <<>>, dirty) /\ UNCHANGED <<gate, line>>
      BY <1>5 DEF Enter
    <2> DEFINE l == [text |-> box, free |-> TRUE, scanned |-> <<>>, dirty |-> dirty]
    <2>2. ~astray => /\ submitted' = submitted \cup {l}
                     /\ box' = <<>> /\ boxPasting' = boxPasting
      BY <1>1, <1>5, <2>1 DEF Return
    <2>3. l.text = box /\ l.free = TRUE /\ l.dirty = dirty
      OBVIOUS
    <2> HIDE DEF l
    <2>4. ~astray => l.dirty \/ Blank(l.text) \/ Slash(l.text)
      <3>1. CASE dirty
        BY <2>3, <3>1
      <3>2. CASE ~dirty
        BY <1>1, <1>5, <2>3, <3>2
      <3> QED  BY <3>1, <3>2
    <2>5. LineGated'
      BY <1>0, <2>2, <2>3, <2>4 DEF PtyInv, LineGated
    <2>6. ShadowInStep'
      BY <1>0, <1>1, <2>1, <2>2 DEF PtyInv, ShadowInStep
    <2> QED  BY <1>0, <1>2, <2>1, <2>5, <2>6 DEF PtyInv
  <1>6. CASE ~pasting /\ ~escaped /\ ~(Blank(buffer) \/ Slash(buffer))
    <2>1. /\ buffer' = <<>> /\ dirty' = FALSE /\ gate' = "scan" /\ escaped' = escaped
          /\ line' = [text |-> buffer, dirty |-> dirty]
          /\ UNCHANGED <<box, boxPasting, submitted>>
      BY <1>6 DEF Enter, tool
    <2>2. line'.text = buffer /\ line'.dirty = dirty
      BY <2>1
    <2>3. ~astray => line'.dirty \/ line'.text = box
      <3>1. CASE dirty
        BY <2>2, <3>1
      <3>2. CASE ~dirty
        BY <1>1, <1>6, <2>2, <3>2
      <3> QED  BY <3>1, <3>2
    <2>4. ShadowInStep'
      BY <1>0, <1>1, <1>6, <2>1, <2>3 DEF PtyInv, ShadowInStep
    <2>5. LineGated'
      BY <1>0, <2>1 DEF PtyInv, LineGated
    <2> QED  BY <1>0, <1>2, <1>6, <2>4, <2>5 DEF PtyInv
  <1> QED  BY <1>3, <1>4, <1>5, <1>6

(* What the gate lets through is what the box still holds. *)
LEMMA GateKeeps ==
  ASSUME PtyInv, NEW v \in Verdicts, GateLine(v) PROVE PtyInv'
  <1>0. /\ boxPasting \in BOOLEAN /\ astray \in BOOLEAN /\ pasting \in BOOLEAN
        /\ UNCHANGED <<astray, dirty, pasting, escaped, buffer>> /\ gate = "scan" /\ gate' = "open"
    BY DEF PtyInv, PtyBooleans, GateLine, shadow
  <1>1. Proceed \/ Clear
    BY DEF GateLine
  <1>2. boxPasting' = boxPasting
    BY <1>1 DEF Proceed, Clear, Return
  <1>3. ~astray => ~boxPasting /\ buffer = <<>> /\ (line.dirty \/ line.text = box)
    BY <1>0 DEF PtyInv, ShadowInStep
  <1>4. ~astray => box' = <<>>
    BY <1>1, <1>3 DEF Proceed, Clear, Return
  <1>5. ShadowInStep'
    BY <1>0, <1>2, <1>3, <1>4 DEF PtyInv, ShadowInStep
  <1>6. LineGated'
    <2> SUFFICES ASSUME ~astray, NEW l \in submitted'
                 PROVE  l.dirty \/ (IF l.free THEN Blank(l.text) \/ Slash(l.text)
                                               ELSE l.scanned = l.text)
      BY <1>0 DEF LineGated
    <2>1. CASE l \in submitted
      BY <2>1 DEF PtyInv, LineGated
    <2>2. CASE l \notin submitted
      <3>1. l = [text |-> box, free |-> FALSE, scanned |-> line.text, dirty |-> line.dirty]
        BY <1>1, <1>3, <2>2 DEF Proceed, Clear, Return
      <3>2. l.text = box /\ l.free = FALSE /\ l.scanned = line.text /\ l.dirty = line.dirty
        BY <3>1
      <3>3. CASE line.dirty
        BY <3>2, <3>3
      <3>4. CASE line.text = box
        BY <3>2, <3>4
      <3> QED  BY <1>3, <3>3, <3>4
    <2> QED  BY <2>1, <2>2
  <1>7. PtyBooleans'
    BY <1>0, <1>2 DEF PtyInv, PtyBooleans
  <1> QED  BY <1>0, <1>5, <1>6, <1>7 DEF PtyInv

(* Steps that touch neither the shadow nor the tool. *)
LEMMA PtyIdle ==
  ASSUME PtyInv, UNCHANGED <<gate, line, shadow, tool, astray>> PROVE PtyInv'
  BY DEF PtyInv, PtyBooleans, ShadowInStep, LineGated, shadow, tool

LEMMA PtyInvStep == ASSUME PtyInv, PtyNext PROVE PtyInv'
  <1>1. CASE Drain \/ AckStoreFails \/ ChildExit \/ \E k \in Keystrokes : OnStdin(k)
    BY <1>1, PtyIdle DEF Drain, AckStoreFails, ChildExit, OnStdin
  <1> QED  BY <1>1, ForwardKeeps, EnterKeeps, GateKeeps DEF PtyNext, SessionStep

LEMMA PtyInvInit == ASSUME PtyInit PROVE PtyInv
  <1>1. PtyBooleans
    <2> /\ dirty \in BOOLEAN /\ pasting \in BOOLEAN /\ escaped \in BOOLEAN
        /\ boxPasting \in BOOLEAN /\ astray \in BOOLEAN
      BY Zenon DEF PtyInit
    <2> QED  BY DEF PtyBooleans
  <1>2. ShadowInStep /\ LineGated
    BY DEF PtyInit, ShadowInStep, LineGated
  <1> QED  BY <1>1, <1>2 DEF PtyInv, PtyInit
-----------------------------------------------------------------------------
(* PART 3: THE WRAPPER'S RUN *)

(* What lets the real tool start. *)
Sanctioned ==
  ~ctx.error /\ (ctx.found => verdict \in {"allow", "low"} \/ (verdict = "medium" /\ accepted))

CliInv ==
  /\ inv \in Commands /\ ctx \in {NotFound, Unreadable, Extract(inv)} /\ took \in {{}, Takes}
  /\ child # "none" \/ phase \in {"spawn", "running", "pty"} => bypass \/ Sanctioned
  /\ phase \in {"scan", "prompt"} => ctx.found /\ ~ctx.error
  /\ phase = "prompt" => verdict = "medium"
  /\ phase \in {"start", "extract", "scan", "prompt", "spawn"} => child = "none"

Parts(c) == {c.parts[i] : i \in 1..Len(c.parts)}

(* The parts of a context made of two optional ones are those there are. *)
LEMMA TwoParts ==
  ASSUME NEW c1 \in BOOLEAN, NEW c2 \in BOOLEAN, NEW a, NEW b, NEW captured
  PROVE  LET c == createExtractionContext(Has(c1, a) \o Has(c2, b), captured)
         IN (c1 => a \in Parts(c)) /\ (c2 => b \in Parts(c))
  <1> DEFINE c == createExtractionContext(Has(c1, a) \o Has(c2, b), captured)
  <1> SUFFICES (c1 => a \in Parts(c)) /\ (c2 => b \in Parts(c))
    OBVIOUS
  <1>1. c.parts = Has(c1, a) \o Has(c2, b)
    BY DEF createExtractionContext
  <1> HIDE DEF c
  <1>2. CASE c1 /\ c2
    <2>1. c.parts = <<a>> \o <<b>>
      BY <1>1, <1>2 DEF Has
    <2>2. Len(c.parts) = 2 /\ c.parts[1] = a /\ c.parts[2] = b
      BY <2>1
    <2>3. a \in Parts(c) /\ b \in Parts(c)
      BY <2>2 DEF Parts
    <2> QED  BY <2>3
  <1>3. CASE c1 /\ ~c2
    <2>1. c.parts = <<a>> \o <<>>
      BY <1>1, <1>3 DEF Has
    <2>2. Len(c.parts) = 1 /\ c.parts[1] = a
      BY <2>1
    <2>3. a \in Parts(c)
      BY <2>2 DEF Parts
    <2> QED  BY <1>3, <2>3, Zenon
  <1>4. CASE ~c1 /\ c2
    <2>1. c.parts = <<>> \o <<b>>
      BY <1>1, <1>4 DEF Has
    <2>2. Len(c.parts) = 1 /\ c.parts[1] = b
      BY <2>1
    <2>3. b \in Parts(c)
      BY <2>2 DEF Parts
    <2> QED  BY <1>4, <2>3, Zenon
  <1> QED  BY <1>2, <1>3, <1>4, Zenon

(* A context of one part. *)
LEMMA OnePart ==
  ASSUME NEW a, NEW captured
  PROVE  a \in Parts(createExtractionContext(<<a>>, captured))
  BY DEF createExtractionContext, Parts

(* The arguments an adapter takes for the prompt are at most one part. *)
LEMMA PositionalIsPart ==
  ASSUME NEW v \in Invocations
  PROVE  \E there \in BOOLEAN, part \in {"prompt", "stray"} :
           /\ Positional(v) = Has(there, part)
           /\ v.inline = "text" /\ "prompt" \notin Uncovered(v) => there /\ part = "prompt"
  <1>1. v.stray \in BOOLEAN /\ (v.stray \/ v.inline = "text") \in BOOLEAN
    BY DEF Invocations
  <1>2. CASE v.stray /\ v.tool \in FirstPositional
    <2>1. Positional(v) = Has(TRUE, "stray") /\ "prompt" \in Uncovered(v)
      BY <1>2 DEF Positional, Has, Uncovered
    <2> QED  BY <2>1
  <1>3. CASE ~(v.stray /\ v.tool \in FirstPositional)
    <2>1. Positional(v) = Has(v.stray \/ v.inline = "text", "prompt")
      BY <1>3 DEF Positional
    <2> QED  BY <1>1, <2>1
  <1> QED  BY <1>2, <1>3

Capturing == {"codex-cli", "ollama", "gemini-cli", "sgpt"}
FileTools == {"llama-cpp", "aider"}

(* Every adapter scans what it takes, but for what Uncovered lists. *)
LEMMA ExtractionComplete ==
  ASSUME NEW v \in Invocations, Extract(v).found
  PROVE  /\ v.inline = "text" /\ "prompt" \notin Uncovered(v) => "prompt" \in Parts(Extract(v))
         /\ v.stdin = "data" /\ "stdin" \notin Uncovered(v) => "stdin" \in Parts(Extract(v))
         /\ v.file # "none" /\ "file" \notin Uncovered(v) => "file" \in Parts(Extract(v))
  <1>0. /\ v.tool \in Tools /\ v.inline \in {"none", "text", "dash"}
        /\ v.file \in {"none", "ok", "unreadable"}
        /\ v.file # "none" => v.tool \in {"claude-code", "llama-cpp", "aider"}
    BY DEF Invocations, ReadsFiles
  <1>1. ~NotFound.found /\ ~Unreadable.found
    BY DEF NotFound, Unreadable
  <1>p. PICK there \in BOOLEAN, part \in {"prompt", "stray"} :
           /\ Positional(v) = Has(there, part)
           /\ v.inline = "text" /\ "prompt" \notin Uncovered(v) => there /\ part = "prompt"
    BY PositionalIsPart
  <1>2. ASSUME Extract(v) = PromptAndStdin(v)
        PROVE  /\ v.inline = "text" /\ "prompt" \notin Uncovered(v) => "prompt" \in Parts(Extract(v))
               /\ v.stdin = "data" => "stdin" \in Parts(Extract(v))
    <2> DEFINE c == createExtractionContext(Has(there, part)
                      \o Has(v.stdin = "data", "stdin"), isStdinPiped(v))
    <2>1. Extract(v) = c
      BY <1>1, <1>2, <1>p DEF PromptAndStdin, readStdin
    <2>2. /\ there => part \in Parts(c)
          /\ v.stdin = "data" => "stdin" \in Parts(c)
      BY TwoParts
    <2> HIDE DEF c
    <2> QED  BY <1>p, <2>1, <2>2
  <1>3. CASE v.tool \in Capturing
    <2>1. Extract(v) \in {NotFound, PromptAndStdin(v)}
      BY <1>3 DEF Capturing, Extract, ExtractCodex, ExtractOllama, ExtractGemini, ExtractSgpt
    <2> QED  BY <1>0, <1>1, <1>2, <1>3, <2>1 DEF Capturing
  <1>4. CASE v.tool \in FileTools
    <2> DEFINE c == createExtractionContext(Has(v.inline # "none", "prompt")
                      \o Has(v.file = "ok", "file"), FALSE)
    <2>1. Extract(v) = ExtractLlama(v)
      BY <1>4 DEF FileTools, Extract, ExtractLlama, ExtractAider
    <2>2. v.file # "unreadable" /\ Extract(v) = c
      <3>1. CASE v.inline = "none" /\ v.file = "none"
        <4>1. Extract(v) = NotFound
          BY <2>1, <3>1 DEF ExtractLlama
        <4> QED  BY <1>1, <4>1
      <3>2. CASE v.file = "unreadable"
        <4>1. Extract(v) = Unreadable
          BY <2>1, <3>2 DEF ExtractLlama
        <4> QED  BY <1>1, <4>1
      <3>3. CASE ~(v.inline = "none" /\ v.file = "none") /\ v.file # "unreadable"
        BY <2>1, <3>3 DEF ExtractLlama, readFiles
      <3> QED  BY <3>1, <3>2, <3>3
    <2>3. /\ v.inline # "none" => "prompt" \in Parts(c)
          /\ v.file = "ok" => "file" \in Parts(c)
      BY TwoParts
    <2> HIDE DEF c
    <2>4. "stdin" \in Uncovered(v)
      BY <1>4 DEF FileTools, Uncovered
    <2> QED  BY <1>0, <2>2, <2>3, <2>4
  <1>5. CASE v.tool = "claude-code"
    <2>1. Extract(v) = ExtractClaude(v)
      BY <1>5 DEF Extract
    <2> DEFINE c == createExtractionContext(Has(there, part) \o Has(v.file = "ok", "file"), FALSE)
    <2>2. Extract(v) = c
      BY <1>1, <1>p, <2>1 DEF ExtractClaude, readFiles
    <2>3. (there => part \in Parts(c)) /\ (v.file = "ok" => "file" \in Parts(c))
      BY TwoParts
    <2>4. "stdin" \in Uncovered(v) /\ (v.file = "unreadable" => "file" \in Uncovered(v))
      BY <1>5 DEF Uncovered
    <2> HIDE DEF c
    <2> QED  BY <1>0, <1>p, <2>2, <2>3, <2>4
  <1>6. CASE v.tool = "gh-copilot"
    <2>1. Extract(v) = ExtractGhCopilot(v)
      BY <1>6 DEF Extract
    <2>2. Extract(v) = createExtractionContext(Positional(v), FALSE)
      BY <1>1, <2>1 DEF ExtractGhCopilot
    <2>3. there => part \in Parts(Extract(v))
      BY <1>p, <2>2, OnePart DEF Has
    <2>4. "stdin" \in Uncovered(v)
      BY <1>6 DEF Uncovered
    <2> QED  BY <1>0, <1>p, <1>6, <2>3, <2>4
  <1>7. CASE v.tool = "mlx-lm"
    <2>1. v.inline = "text" => Extract(v) = createExtractionContext(<<"prompt">>, FALSE)
      BY <1>7 DEF Extract, ExtractMlx
    <2>2. v.inline = "dash" /\ v.stdin = "data" =>
            Extract(v) = createExtractionContext(<<"stdin">>, TRUE)
      BY <1>7 DEF Extract, ExtractMlx
    <2>3. v.inline # "dash" => "stdin" \in Uncovered(v)
      BY <1>7 DEF Uncovered
    <2> QED  BY <1>0, <1>7, <2>1, <2>2, <2>3, OnePart
  <1> QED  BY <1>0, <1>3, <1>4, <1>5, <1>6, <1>7 DEF Tools, Capturing, FileTools

LEMMA CliInvInit == ASSUME Init PROVE CliInv
  <1>1. /\ phase = "start" /\ inv \in Commands /\ ctx = NotFound /\ child = "none" /\ took = {}
    BY DEF Init
  <1> QED  BY <1>1 DEF CliInv

(* Once the run is over, or before it matters: steps that keep what the     *)
(* sanction rests on, and start no child.                                   *)
LEMMA RunKept ==
  ASSUME CliInv, UNCHANGED run, took' \in {took, Takes},
         child' # "none" => child # "none" \/ phase \in {"spawn", "running", "pty"},
         \/ phase' = phase /\ child' = child
         \/ phase' \in {"exited", "running"} /\ (phase' = "running" => phase = "spawn")
  PROVE  CliInv'
  <1>1. UNCHANGED <<inv, bypass, ctx, verdict, accepted>>
    BY DEF run
  <1>2. Takes' = Takes /\ Sanctioned' = Sanctioned /\ Extract(inv)' = Extract(inv)
    BY <1>1 DEF Takes, Sanctioned
  <1> HIDE DEF Takes, Sanctioned, Extract
  <1>3. inv' \in Commands /\ ctx' \in {NotFound, Unreadable, Extract(inv)'} /\ took' \in {{}, Takes'}
    BY <1>1, <1>2 DEF CliInv
  <1>4. (child # "none" \/ phase \in {"spawn", "running", "pty"} => bypass \/ Sanctioned)'
    BY <1>1, <1>2 DEF CliInv
  <1> QED  BY <1>1, <1>3, <1>4 DEF CliInv

LEMMA CliInvStep == ASSUME CliInv, [Next]_vars PROVE CliInv'
  <1>0. ~NotFound.found /\ ~NotFound.error /\ Unreadable.error
    BY DEF NotFound, Unreadable
  <1>1. CASE Start
    <2>1. /\ phase = "start" /\ phase' = IF bypass THEN "spawn" ELSE "extract"
          /\ UNCHANGED <<inv, bypass, ctx, verdict, accepted, child, took>>
      BY <1>1 DEF Start, run
    <2> QED  BY <2>1 DEF CliInv, Takes, Sanctioned
  <1>2. CASE ExtractContext
    <2>1. PICK r \in {Extract(inv), Unreadable} :
            /\ ctx' = r /\ phase' = AfterExtraction(r)
            /\ child' = IF phase' = "pty" THEN "running" ELSE child
      BY <1>2 DEF ExtractContext
    <2>2. UNCHANGED <<inv, bypass, verdict, accepted, took>> /\ phase = "extract"
      BY <1>2 DEF ExtractContext
    <2>3. child = "none"
      BY <2>2 DEF CliInv
    <2>4. inv' \in Commands /\ ctx' \in {NotFound, Unreadable, Extract(inv)'} /\ took' \in {{}, Takes'}
      BY <2>1, <2>2 DEF CliInv, Takes
    <2>5. CASE phase' = "exited"
      BY <2>1, <2>3, <2>4, <2>5 DEF CliInv
    <2>6. CASE phase' = "scan"
      <3>1. ctx'.found /\ ~ctx'.error
        BY <2>1, <2>6 DEF AfterExtraction
      <3> QED  BY <2>1, <2>3, <2>4, <2>6, <3>1 DEF CliInv
    <2>7. CASE phase' \in {"pty", "spawn"}
      <3>1. ~ctx'.found /\ ~ctx'.error
        BY <2>1, <2>7 DEF AfterExtraction
      <3>2. Sanctioned'
        BY <3>1 DEF Sanctioned
      <3> QED  BY <2>1, <2>3, <2>4, <2>7, <3>2 DEF CliInv
    <2> QED  BY <2>1, <2>5, <2>6, <2>7 DEF AfterExtraction
  <1>3. CASE AnswerPrompt
    <2>1. PICK yes \in BOOLEAN : accepted' = yes /\ phase' = IF yes THEN "spawn" ELSE "exited"
      BY <1>3 DEF AnswerPrompt
    <2>2. UNCHANGED <<inv, bypass, ctx, verdict, child, took>> /\ phase = "prompt"
      BY <1>3 DEF AnswerPrompt
    <2>3. child = "none" /\ verdict = "medium" /\ ~ctx.error
      BY <2>2 DEF CliInv
    <2>4. phase' = "spawn" => Sanctioned'
      BY <2>1, <2>2, <2>3 DEF Sanctioned
    <2> QED  BY <2>1, <2>2, <2>3, <2>4 DEF CliInv, Takes
  <1>4. ASSUME NEW v \in Verdicts, EvaluatePolicy(v) PROVE CliInv'
    <2>1. UNCHANGED <<inv, bypass, ctx, accepted, child, took>> /\ phase = "scan"
          /\ verdict' = v /\ phase' = Enforce(v)
      BY <1>4 DEF EvaluatePolicy
    <2>2. child = "none" /\ ctx.found /\ ~ctx.error
      BY <2>1 DEF CliInv
    <2>3. /\ phase' \in {"spawn", "prompt", "exited"}
          /\ phase' = "spawn" => v \in {"allow", "low"}
          /\ phase' = "prompt" => v = "medium"
      BY <2>1 DEF Enforce
    <2>4. phase' = "spawn" => Sanctioned'
      BY <2>1, <2>2, <2>3 DEF Sanctioned
    <2> QED  BY <2>1, <2>2, <2>3, <2>4 DEF CliInv, Takes
  <1>5. CASE SpawnReal
    BY <1>5, RunKept DEF SpawnReal, Exit
  <1>6. CASE ToolExits
    BY <1>6, RunKept DEF ToolExits, Exit
  <1>7. CASE GuardFails
    BY <1>7, RunKept DEF GuardFails, Exit
  <1>8. CASE Session
    BY <1>8, RunKept DEF Session, Exit
  <1>9. CASE HandleSignal
    BY <1>9, RunKept DEF HandleSignal, Exit
  <1>10. CASE Acknowledged
    BY <1>10, RunKept DEF Acknowledged
  <1>11. CASE UNCHANGED vars
    BY <1>11, RunKept DEF vars
  <1> QED  BY <1>1, <1>2, <1>3, <1>4, <1>5, <1>6, <1>7, <1>8, <1>9, <1>10, <1>11 DEF Next, RunStep

(* The guarded session goes on inside a run, and only there. *)
LEMMA SessionInvStep == ASSUME PtyInv, [Next]_vars PROVE PtyInv'
  <1>1. CASE Session
    BY <1>1, PtyInvStep DEF Session
  <1>2. CASE UNCHANGED ptyVars
    BY <1>2, PtyIdle DEF ptyVars
  <1>3. Session \/ UNCHANGED ptyVars
    BY DEF Next, RunStep, vars, Start, ExtractContext, AnswerPrompt, SpawnReal, ToolExits,
           EvaluatePolicy, GuardFails, Acknowledged, HandleSignal
  <1> QED  BY <1>1, <1>2, <1>3

LEMMA CliInvHolds == Spec => [](CliInv /\ PtyInv)
  <1>1. Init => CliInv /\ PtyInv
    BY CliInvInit, PtyInvInit DEF Init
  <1>2. CliInv /\ PtyInv /\ [Next]_vars => (CliInv /\ PtyInv)'
    BY CliInvStep, SessionInvStep
  <1> QED  BY <1>1, <1>2, PTL DEF Spec

(* CliConnector.run starts the real tool only on a bypass, without a prompt *)
(* to scan, or on a decision (and an answer) that lets it.                  *)
THEOREM ToolRunsSanctioned == Spec => []RanSanctioned
  <1>1. CliInv => RanSanctioned
    BY DEF CliInv, Sanctioned, RanSanctioned
  <1> QED  BY <1>1, CliInvHolds, PTL

(* Whatever the invocation, what the tool of an allowed run is given (and   *)
(* is short enough not to be cut) was in the text that was scanned, or is   *)
(* among what its adapter is known to leave out.                            *)
THEOREM GivenWasScanned == Spec => []GivenIsScanned
  <1>1. CliInv => GivenIsScanned
    <2> SUFFICES ASSUME CliInv, ctx.found, ~inv.long, NEW p \in took, p \notin Uncovered(inv)
                 PROVE  p \in ScannedParts(inv, ctx)
      BY DEF GivenIsScanned
    <2>1. inv \in Invocations /\ ctx = Extract(inv) /\ p \in Takes
      BY CommandsAssumption DEF CliInv, CommandsAssumption, NotFound, Unreadable
    <2>2. /\ p = "prompt" => inv.inline = "text"
          /\ p = "stdin" => inv.stdin = "data"
          /\ p = "file" => inv.file # "none"
          /\ p \in {"prompt", "file", "stdin"}
      BY <2>1 DEF Takes
    <2>3. p \in Parts(ctx)
      BY <2>1, <2>2, ExtractionComplete
    <2> QED  BY <2>3 DEF Parts, ScannedParts
  <1> QED  BY <1>1, CliInvHolds, PTL

(* runPtySession: until the shadow misses an edit (GoesAstray), a line the  *)
(* tool acts on passed the gate with the text the tool held, is blank or a  *)
(* slash command, or was flagged dirty; for sessions of any length.         *)
THEOREM LinesPassTheGate == Spec => [](LineGated /\ ShadowInStep)
  <1>1. PtyInv => LineGated /\ ShadowInStep
    BY DEF PtyInv
  <1> QED  BY <1>1, CliInvHolds, PTL
================================================================================
