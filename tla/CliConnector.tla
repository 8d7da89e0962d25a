----------------------------- MODULE CliConnector -----------------------------
(***************************************************************************)
(* One run of a command line wrapper (CliConnector.run): bypass, context   *)
(* extraction, scan, enforcement, and the real tool; or the interactive    *)
(* guard (PtySession) when the invocation carries no prompt and the guard  *)
(* was asked for on a terminal.  Signals may arrive at any time.           *)
(***************************************************************************)
EXTENDS CliAdapters, PtySession

CONSTANT Commands     \* the invocations to run: a subset of Invocations

ASSUME CommandsAssumption == Commands \subseteq Invocations

VARIABLES phase,      \* where run stands
          inv, bypass, guard,   \* the invocation and its two flags
          ctx,        \* what extractContext returned
          verdict,    \* the decision, and the answer to its prompt
          accepted,
          child,      \* the real tool: none, running, gone
          took,       \* the parts of the invocation the tool was given
          audit,      \* the bypass acknowledgement: none, sent, recorded, lost
          signal      \* none, or what became of a signal: "forwarded", "kept"

run == <<inv, bypass, guard, ctx, verdict, accepted>>
vars == <<phase, run, child, took, audit, signal, ptyVars>>

Init ==
  /\ phase = "start" /\ inv \in Commands /\ bypass \in BOOLEAN /\ guard \in BOOLEAN
  /\ ctx = NotFound /\ verdict = "none" /\ accepted = FALSE
  /\ child = "none" /\ took = {} /\ audit = "none" /\ signal = "none"
  /\ PtyInit

(* process.exit: an acknowledgement still under way is lost. *)
Exit == phase' = "exited" /\ audit' = IF audit = "sent" THEN "lost" ELSE audit
-----------------------------------------------------------------------------
(* Steps 0 and 1: the bypass sends its acknowledgement without waiting for *)
(* it; otherwise extraction begins.                                        *)
Start ==
  /\ phase = "start"
  /\ phase' = IF bypass THEN "spawn" ELSE "extract"
  /\ audit' = IF bypass THEN "sent" ELSE "none"
  /\ UNCHANGED <<run, child, took, signal, ptyVars>>

(* The guard was asked for, and the tool and the terminal allow it. *)
Guarded == guard /\ inv.tool \in InteractiveTools /\ inv.stdin = "tty"

(* Faulty variant: a failed extraction looks like an interactive session. *)
AfterExtractionOpen(r) ==
  IF r.found THEN "scan" ELSE IF Guarded THEN "pty" ELSE "spawn"

(* Where an extraction leads: an error is refused, no prompt is a session  *)
(* (guarded when that is possible), a prompt is scanned.                   *)
AfterExtraction(r) ==
  IF r.error THEN "exited" ELSE IF r.found THEN "scan" ELSE IF Guarded THEN "pty" ELSE "spawn"

(* extractContext answers, or throws. *)
ExtractContext ==
  /\ phase = "extract"
  /\ \E r \in {Extract(inv), Unreadable} :
       /\ ctx' = r
       /\ phase' = AfterExtraction(r)
       /\ child' = IF phase' = "pty" THEN "running" ELSE child
  /\ UNCHANGED <<inv, bypass, guard, verdict, accepted, took, audit, signal, ptyVars>>

(* runInteractiveGuard cannot create the terminal: the session is refused. *)
GuardFails ==
  /\ phase = "pty" /\ typed = 0 /\ ~over
  /\ child' = "none" /\ Exit
  /\ UNCHANGED <<run, took, signal, ptyVars>>

(* enforceDecision with handleWarning: proceed, ask, or refuse; a decision *)
(* that could not be had, or is not known, is a refusal.                   *)
Enforce(v) ==
  CASE v \in {"allow", "low"} -> "spawn" [] v = "medium" -> "prompt" [] OTHER -> "exited"

EvaluatePolicy(v) ==
  /\ phase = "scan"
  /\ verdict' = v /\ phase' = Enforce(v)
  /\ UNCHANGED <<inv, bypass, guard, ctx, accepted, child, took, audit, signal, ptyVars>>

(* showWarningPrompt: yes, no, or the prompt fails (no terminal). *)
AnswerPrompt ==
  /\ phase = "prompt"
  /\ \E yes \in BOOLEAN : accepted' = yes /\ phase' = IF yes THEN "spawn" ELSE "exited"
  /\ UNCHANGED <<inv, bypass, guard, ctx, verdict, child, took, audit, signal, ptyVars>>

(* spawnReal and executeTool: the tool gets the arguments, reads the files *)
(* they name, and inherits standard input, or is given what was captured.  *)
Takes ==
  {p \in {"prompt", "file", "stdin"} :
     \/ p = "prompt" /\ inv.inline = "text"
     \/ p = "file" /\ inv.file # "none"
     \/ p = "stdin" /\ inv.stdin = "data"}

SpawnReal ==
  /\ phase = "spawn"
  /\ \/ phase' = "running" /\ child' = "running" /\ took' = Takes /\ UNCHANGED audit
     \/ Exit /\ UNCHANGED <<child, took>>       \* spawn fails
  /\ UNCHANGED <<run, signal, ptyVars>>

(* The tool ends, and the wrapper with its exit code. *)
ToolExits ==
  /\ phase = "running" /\ child' = "gone" /\ Exit
  /\ UNCHANGED <<run, took, signal, ptyVars>>

(* acknowledgeBypass reaches the daemon while the tool runs. *)
Acknowledged ==
  /\ audit = "sent" /\ audit' = "recorded"
  /\ UNCHANGED <<phase, run, child, took, signal, ptyVars>>

(* handleSignal: childPid is never set, so nothing is forwarded and the    *)
(* wrapper exits at once.                                                  *)
HandleSignal ==
  /\ phase \notin {"exited", "start"} /\ Exit
  /\ signal' = "kept"
  /\ UNCHANGED <<run, child, took, ptyVars>>

(* The guarded session; run exits with it. *)
Session ==
  /\ phase = "pty" /\ PtyNext
  /\ IF over' THEN child' = "gone" /\ Exit ELSE UNCHANGED <<phase, child, audit>>
  /\ UNCHANGED <<run, took, signal>>

RunStep ==
  \/ Start \/ ExtractContext \/ AnswerPrompt \/ SpawnReal \/ ToolExits
  \/ \E v \in Verdicts : EvaluatePolicy(v)

Next == RunStep \/ GuardFails \/ Session \/ Acknowledged \/ HandleSignal

Spec == Init /\ [][Next]_vars

(* A run goes on by itself once the engine, the user and the tool answer;  *)
(* a session's loop goes on by itself; typing and signals are free.        *)
FairSpec ==
  /\ Spec /\ WF_vars(RunStep)
  /\ WF_vars(phase = "pty" /\ SessionStep /\ UNCHANGED <<phase, run, child, took, audit, signal>>)
-----------------------------------------------------------------------------
TypeOK ==
  /\ phase \in {"start", "extract", "scan", "prompt", "spawn", "running", "pty", "exited"}
  /\ inv \in Commands /\ {bypass, guard, accepted} \subseteq BOOLEAN
  /\ ctx.found \in BOOLEAN /\ ctx.error \in BOOLEAN /\ ctx.captured \in BOOLEAN
  /\ verdict \in Verdicts \cup {"none"} /\ child \in {"none", "running", "gone"}
  /\ took \subseteq {"prompt", "file", "stdin"}
  /\ audit \in {"none", "sent", "recorded", "lost"} /\ signal \in {"none", "forwarded", "kept"}
  /\ PtyTypeOK

(* The real tool starts only after a bypass, with no prompt to scan, or on *)
(* a decision that lets it: an extraction error, a scan that fails and a   *)
(* high warning never fail open, on any path through run.                  *)
RanSanctioned ==
  child # "none" /\ ~bypass =>
    /\ ~ctx.error
    /\ ctx.found => verdict \in {"allow", "low"} \/ (verdict = "medium" /\ accepted)

(* What the tool of an allowed run is given was in the scan, but for what  *)
(* its adapter leaves out (Uncovered): the value of an unknown flag taken  *)
(* for the prompt, piped input of five tools, a file claude cannot read.   *)
(* (Text beyond the size limits is cut from the scan and excepted.)        *)
GivenIsScanned ==
  child # "none" /\ ~bypass /\ ctx.found /\ ~inv.long =>
    took \ ScannedParts(inv, ctx) \subseteq Uncovered(inv)

(* Every keystroke of a guarded session is dealt with, or the session ends. *)
NoKeystrokeStuck ==
  queue # <<>> ~> over \/ phase = "exited" \/ (queue = <<>> /\ slice = <<>> /\ gate = "open")

================================================================================
