------------------------------ MODULE ClaudeHook ------------------------------
(***************************************************************************)
(* The Claude Code hook (adapters/claude/src/hook.ts).  Claude Code starts *)
(* one hook process per event; a process reads one event from its standard *)
(* input, scans what the event carries, prints its answer and exits.       *)
(* Processes of one session overlap, and share the acknowledgement file,   *)
(* which each reads and writes back in two steps.                          *)
(***************************************************************************)
EXTENDS AckStore

CONSTANTS Hooks,      \* the hook processes
          MaxClock    \* bound: ticks of the clock

ASSUME HookAssumption == IsFiniteSet(Hooks) /\ MaxClock \in Nat

VARIABLES pc, kind, text, decision,   \* each process: its step, event, text and decision
          at, copy,                  \* the time and the store it read
          answer,                    \* what it printed
          store, clock,
          blocks, grants,            \* medium-risk texts blocked, and let through as acknowledged
          overlapped                 \* two processes were once between load and save

procs == <<pc, kind, text, decision, answer>>
hookVars == <<procs, at, copy, store, clock, blocks, grants, overlapped>>

Decisions == {"allow", "block", "low", "medium", "high", "fail"}   \* warn by risk level; fail: scan threw
Events == {"UserPromptSubmit", "PreToolUse"}
Acks == [key : Keys, at : Nat, by : Hooks]

HookInit ==
  /\ pc = [p \in Hooks |-> "idle"]
  /\ kind = [p \in Hooks |-> "none"] /\ text = [p \in Hooks |-> CHOOSE k \in Keys : TRUE]
  /\ decision = [p \in Hooks |-> "none"] /\ answer = [p \in Hooks |-> "none"]
  /\ at = [p \in Hooks |-> 0] /\ copy = [p \in Hooks |-> EmptyStore]
  /\ store = EmptyStore /\ clock = 0
  /\ blocks = {} /\ grants = {} /\ overlapped = FALSE
-----------------------------------------------------------------------------
Answer(p, a) == answer' = [answer EXCEPT ![p] = a] /\ pc' = [pc EXCEPT ![p] = "done"]

(* runHook, nothing to scan: malformed input is blocked; an unknown event, *)
(* a blank text and a tool other than Bash are let through.                *)
RunUnscanned(p) ==
  /\ pc[p] = "idle"
  /\ \E a \in {"allow", "block"} : Answer(p, a)
  /\ UNCHANGED <<kind, text, decision, at, copy, store, clock, blocks, grants, overlapped>>

(* runHook up to the await of the scan. *)
RunHook(p, e, k) ==
  /\ pc[p] = "idle"
  /\ kind' = [kind EXCEPT ![p] = e] /\ text' = [text EXCEPT ![p] = k]
  /\ pc' = [pc EXCEPT ![p] = "scanning"]
  /\ UNCHANGED <<decision, answer, at, copy, store, clock, blocks, grants, overlapped>>

warnTier(v) == CASE v = "high" -> "block" [] v = "low" -> "notice" [] OTHER -> "prompt"

(* handleUserPrompt after the scan; runHook turns an exception into a block. *)
PromptAnswer(v) ==
  CASE v = "allow" -> "allow"
    [] v \in {"block", "fail"} -> "block"
    [] OTHER -> warnTier(v)

(* handlePreTool after the scan: only a block, or a warning of the block tier, denies. *)
ToolAnswer(v) ==
  IF v \in {"block", "fail"} \/ (v \in {"low", "medium", "high"} /\ warnTier(v) = "block")
  THEN "block" ELSE "allow"

(* The scan is answered, or fails. *)
Scanned(p, v) ==
  /\ pc[p] = "scanning"
  /\ decision' = [decision EXCEPT ![p] = v]
  /\ LET a == IF kind[p] = "PreToolUse" THEN ToolAnswer(v) ELSE PromptAnswer(v)
     IN IF a = "prompt"
        THEN /\ pc' = [pc EXCEPT ![p] = "load"] /\ at' = [at EXCEPT ![p] = clock]
             /\ UNCHANGED answer
        ELSE Answer(p, IF a = "notice" THEN "allow" ELSE a) /\ UNCHANGED at
  /\ UNCHANGED <<kind, text, copy, store, clock, blocks, grants, overlapped>>

(* load: the file, or nothing when it is missing, corrupt or half written. *)
Load(p) ==
  /\ pc[p] = "load"
  /\ \E s \in {store, EmptyStore} : copy' = [copy EXCEPT ![p] = s]
  /\ pc' = [pc EXCEPT ![p] = "save"]
  /\ overlapped' = (overlapped \/ \E q \in Hooks \ {p} : pc[q] = "save")
  /\ UNCHANGED <<kind, text, decision, answer, at, store, clock, blocks, grants>>

(* save, and the answer that depends on what load saw. *)
Save(p) ==
  LET granted == Pending(copy[p], at[p], text[p])
      ack == [key |-> text[p], at |-> at[p], by |-> p]
  IN /\ pc[p] = "save"
     /\ store' = Saved(copy[p], at[p], text[p])
     /\ Answer(p, IF granted THEN "allow" ELSE "block")
     /\ grants' = IF granted THEN grants \cup {ack} ELSE grants
     /\ blocks' = IF granted THEN blocks ELSE blocks \cup {ack}
     /\ UNCHANGED <<kind, text, decision, at, copy, clock, overlapped>>

(* save throws (full disk, no permission): runHook blocks. *)
SaveFails(p) ==
  /\ pc[p] = "save"
  /\ Answer(p, "block")
  /\ UNCHANGED <<kind, text, decision, at, copy, store, clock, blocks, grants, overlapped>>

Tick ==
  /\ clock < MaxClock
  /\ clock' = clock + 1
  /\ UNCHANGED <<procs, at, copy, store, blocks, grants, overlapped>>

Step(p) ==
  \/ RunUnscanned(p) \/ \E e \in Events, k \in Keys : RunHook(p, e, k)
  \/ \E v \in Decisions : Scanned(p, v)
  \/ Load(p) \/ Save(p) \/ SaveFails(p)

HookNext == Tick \/ \E p \in Hooks : Step(p)

HookSpec == HookInit /\ [][HookNext]_hookVars
-----------------------------------------------------------------------------
HookTypeOK ==
  /\ pc \in [Hooks -> {"idle", "scanning", "load", "save", "done"}]
  /\ kind \in [Hooks -> Events \cup {"none"}] /\ text \in [Hooks -> Keys]
  /\ decision \in [Hooks -> Decisions \cup {"none"}]
  /\ answer \in [Hooks -> {"none", "allow", "block"}]
  /\ at \in [Hooks -> Nat] /\ IsStore(store)
  /\ DOMAIN copy = Hooks /\ \A p \in Hooks : IsStore(copy[p])
  /\ clock \in Nat /\ blocks \subseteq Acks /\ grants \subseteq Acks /\ overlapped \in BOOLEAN

(* A text let through as acknowledged was blocked before, in the same      *)
(* session and within the window, whatever the processes that share the    *)
(* file overwrite, lose or resurrect: consumeOrRecordAck never grants an   *)
(* acknowledgement that nobody was asked for.                              *)
AckFollowsBlock ==
  \A g \in grants : \E b \in blocks : b.key = g.key /\ g.at - b.at <= Window

(* While no two processes are between load and save at once, a block       *)
(* admits one resubmission: the entry is consumed by its use.  (Two that   *)
(* overlap both find it, so the claim needs the condition.)                *)
ConsumedOnce ==
  overlapped \/ \A k \in Keys :
    Cardinality({g \in grants : g.key = k}) <= Cardinality({b \in blocks : b.key = k})

(* A prompt that was scanned goes on only when the engine allowed it, when *)
(* the warning is low, or when it was acknowledged; a command of the model *)
(* is denied on a block, a high warning and a failed scan.                 *)
AllowedIsSanctioned ==
  \A p \in Hooks : pc[p] = "done" /\ answer[p] = "allow" /\ kind[p] # "none" =>
    /\ decision[p] \notin {"block", "high", "fail"}
    /\ decision[p] = "medium" /\ kind[p] = "UserPromptSubmit" => \E g \in grants : g.by = p

================================================================================
