----------------------------- MODULE IdeConnector -----------------------------
(***************************************************************************)
(* The IDE connectors.  In VS Code (over the agent, or over the development *)
(* backend) and in JetBrains a command scans a prompt and tells the user    *)
(* whether it is safe to send; a warning is asked about and acknowledged to *)
(* the daemon.  VS Code also scans large pastes: they are collected per     *)
(* document and scanned after a quiet window.                               *)
(*                                                                          *)
(* Commands, answers, timers, pastes and deactivation come in any order.    *)
(***************************************************************************)
EXTENDS Naturals, FiniteSets

CONSTANTS Commands,     \* scan commands the user runs
          Docs, Pastes, \* open documents; paste-sized insertions
          MaxToggles    \* bound: uses of "Toggle Enabled"

ASSUME IdeAssumption ==
  IsFiniteSet(Commands) /\ IsFiniteSet(Docs) /\ IsFiniteSet(Pastes) /\ MaxToggles \in Nat

VARIABLES ide,               \* the IDE, and the transport of its extension
          enabled, toggles,   \* vguardrail.enabled
          bar,                \* the status bar
          active,             \* the extension has not been deactivated
          cmd,                \* where each command stands
          resp,               \* the ScanResponse it got
          choice,             \* what the user answered
          told,               \* what the user was told
          ack,                \* the acknowledgement the daemon recorded
          pending,            \* PassiveScanController.pending: the texts per document
          flying,             \* passive scans awaiting their response
          reported,           \* pastes whose scan was answered
          taken,              \* pastes the controller accepted
          muted               \* engineDownNotified

ext == <<ide, enabled, toggles, bar, active>>
command == <<cmd, resp, choice, told, ack>>
passive == <<pending, flying, reported, taken, muted>>
ideVars == <<ext, command, passive>>

VSCode == {"vscode", "vscode-dev"}
IdeVerdicts == {"allow", "low", "medium", "high", "block"}
Answers == {"proceed", "cancel", "dismissed"}

IdeInit ==
  /\ ide \in VSCode \cup {"jetbrains", "cursor"}
  /\ enabled \in (IF ide \in VSCode THEN BOOLEAN ELSE {TRUE}) /\ toggles = 0
  /\ bar = IF enabled THEN "ready" ELSE "disabled"
  /\ active = TRUE
  /\ cmd = [c \in Commands |-> "idle"] /\ resp = [c \in Commands |-> "none"]
  /\ choice = [c \in Commands |-> "none"]
  /\ told = [c \in Commands |-> "nothing"] /\ ack = [c \in Commands |-> "none"]
  /\ pending = [d \in Docs |-> {}] /\ flying = {} /\ reported = {} /\ taken = {} /\ muted = FALSE
-----------------------------------------------------------------------------
(* scanSelection, scanPrompt, ScanPromptAction, simulatePrompt, once there *)
(* is a text to scan; requireEnabled guards VS Code's.                     *)
StartScan(c) ==
  /\ active /\ cmd[c] = "idle" /\ enabled
  /\ cmd' = [cmd EXCEPT ![c] = "scan"]
  /\ UNCHANGED <<ext, resp, choice, told, ack, passive>>

(* statusFromOutcome. *)
ShowOutcome(r) ==
  bar' = IF ide \notin VSCode THEN bar
         ELSE CASE r = "fallback" -> "unavailable"
                [] r \in {"low", "medium", "high"} -> "warn"
                [] OTHER -> r

(* The command ends: the user reads that the prompt is safe to send, or    *)
(* why it is not.                                                          *)
Finish(c, safe, r) ==
  /\ cmd' = [cmd EXCEPT ![c] = "done"]
  /\ told' = [told EXCEPT ![c] = IF safe THEN "safe" ELSE "refused"]
  /\ ShowOutcome(r)

(* warnTier and resolve: what follows a response. Cursor's interceptor     *)
(* takes the ScanResponse for a Decision, which has no action it knows.    *)
Tier(r) ==
  IF ide = "cursor" THEN "stop"
  ELSE CASE r = "allow"  -> "pass"
         [] r = "low"    -> "notice"
         [] r = "medium" -> "prompt"
         [] r = "high"   -> "escalate"
         [] OTHER        -> "stop"

(* VS Code waits for the acknowledgement before it tells the user;         *)
(* JetBrains tells, and acknowledges from a pooled thread.                 *)
Acknowledge(c, safe, r) ==
  IF ide \in VSCode
  THEN cmd' = [cmd EXCEPT ![c] = "ack"] /\ UNCHANGED <<told, bar>>
  ELSE /\ cmd' = [cmd EXCEPT ![c] = "ack"]
       /\ told' = [told EXCEPT ![c] = IF safe THEN "safe" ELSE "refused"] /\ UNCHANGED bar

(* The scan's response arrives. *)
Resolve(c, r) ==
  /\ cmd[c] = "scan" /\ resp' = [resp EXCEPT ![c] = r]
  /\ \/ Tier(r) \in {"pass", "stop"} /\ Finish(c, Tier(r) = "pass", r)
     \/ Tier(r) = "prompt" /\ cmd' = [cmd EXCEPT ![c] = "ask"] /\ UNCHANGED <<told, bar>>
     \/ Tier(r) \in {"notice", "escalate"} /\ Acknowledge(c, Tier(r) = "notice", r)
  /\ UNCHANGED <<ide, enabled, toggles, active, choice, ack, passive>>

(* The engine decided. *)
Respond(c, v) == active /\ v \in IdeVerdicts /\ Resolve(c, v)

(* No decision: safeScan's fallback, an exception, a bridge that is        *)
(* missing, dies or exceeds BRIDGE_TIMEOUT_MS, a reply that does not       *)
(* parse, an unreachable backend, or a closed client.                      *)
Unavailable(c) == Resolve(c, "fallback")

(* Faulty variant: only "Cancel" declines. *)
AcceptedUnlessCancelled(a) == a # "cancel"

(* choice === PROCEED_ACTION *)
Accepted(a) == a = "proceed"

(* The user answers the warning.  A JetBrains balloon that is dismissed    *)
(* runs no action.                                                         *)
AnswerWarning(c, a) ==
  /\ cmd[c] = "ask" /\ choice' = [choice EXCEPT ![c] = a]
  /\ IF ide = "jetbrains" /\ a = "dismissed"
     THEN cmd' = [cmd EXCEPT ![c] = "done"] /\ UNCHANGED <<told, bar>>
     ELSE Acknowledge(c, Accepted(a), resp[c])
  /\ UNCHANGED <<ide, enabled, toggles, active, resp, ack, passive>>

(* Whether the prompt may go once its warning is acknowledged. *)
Safe(c) == resp[c] = "low" \/ (resp[c] = "medium" /\ Accepted(choice[c]))

(* The daemon records the acknowledgement.  The development backend has no *)
(* such endpoint.                                                          *)
AckRecorded(c) ==
  /\ cmd[c] = "ack" /\ ack[c] = "none" /\ active /\ ide # "vscode-dev"
  /\ ack' = [ack EXCEPT ![c] = IF Safe(c) THEN "accepted" ELSE "rejected"]
  /\ UNCHANGED <<ide, enabled, toggles, active, bar, cmd, resp, choice, told, passive>>

(* acknowledge returns, whether it was recorded or lost. *)
AckEnds(c) ==
  /\ cmd[c] = "ack" /\ Finish(c, Safe(c), resp[c])
  /\ UNCHANGED <<ide, enabled, toggles, active, resp, choice, ack, passive>>
-----------------------------------------------------------------------------
(* The other commands of VS Code. *)
ToggleEnabled ==
  /\ active /\ ide \in VSCode /\ toggles < MaxToggles
  /\ toggles' = toggles + 1 /\ enabled' = ~enabled
  /\ bar' = IF enabled' THEN "ready" ELSE "disabled"
  /\ UNCHANGED <<ide, active, command, passive>>

Status ==
  /\ active /\ ide \in VSCode
  /\ bar' \in {IF enabled THEN "ready" ELSE "disabled", "unavailable"}
  /\ UNCHANGED <<ide, enabled, toggles, active, command, passive>>

(* Faulty variant: the debounced entry is replaced by the new paste. *)
HandleChangeReplacing(d, p) ==
  /\ active /\ ide \in VSCode /\ p \notin taken
  /\ enabled /\ taken' = taken \cup {p} /\ pending' = [pending EXCEPT ![d] = {p}]
  /\ UNCHANGED <<ext, command, flying, reported, muted>>

(* handleChange with one paste-sized insertion: it joins the document's    *)
(* entry, whose timer starts again.                                        *)
HandleChange(d, p) ==
  /\ active /\ ide \in VSCode /\ p \notin taken
  /\ enabled /\ taken' = taken \cup {p} /\ pending' = [pending EXCEPT ![d] = @ \cup {p}]
  /\ UNCHANGED <<ext, command, flying, reported, muted>>

(* Faulty variant: an entry that falls due while scanning is off is lost. *)
FlushIfEnabled(d) ==
  /\ pending[d] # {} /\ pending' = [pending EXCEPT ![d] = {}]
  /\ flying' = IF enabled THEN flying \cup {pending[d]} ELSE flying
  /\ UNCHANGED <<ext, command, reported, taken, muted>>

(* flush, when the quiet window has passed: the entry leaves the map and   *)
(* its text is scanned, enabled or not by now.                             *)
Flush(d) ==
  /\ pending[d] # {} /\ pending' = [pending EXCEPT ![d] = {}]
  /\ flying' = flying \cup {pending[d]}
  /\ UNCHANGED <<ext, command, reported, taken, muted>>

(* The rest of flush: a notice for a finding, one for an unreachable       *)
(* engine until a scan succeeds.                                           *)
PassiveResponse(f, ok) ==
  /\ f \in flying /\ (ok => active) /\ flying' = flying \ {f}
  /\ reported' = reported \cup f /\ muted' = ~ok
  /\ UNCHANGED <<ext, command, pending, taken>>

(* deactivate and the subscriptions' dispose: timers are cancelled, the    *)
(* client closes and fails what awaits it.                                 *)
Deactivate ==
  /\ active /\ active' = FALSE /\ pending' = [d \in Docs |-> {}]
  /\ UNCHANGED <<ide, enabled, toggles, bar, command, flying, reported, taken, muted>>

Timers == \/ \E d \in Docs : Flush(d)
          \/ \E f \in flying, ok \in BOOLEAN : PassiveResponse(f, ok)

Ends(c) == Unavailable(c) \/ (\E v \in IdeVerdicts : Respond(c, v)) \/ AckEnds(c)

IdeNext ==
  \/ \E c \in Commands : StartScan(c) \/ Ends(c) \/ AckRecorded(c) \/ \E a \in Answers : AnswerWarning(c, a)
  \/ ToggleEnabled \/ Status \/ Deactivate \/ Timers
  \/ \E d \in Docs, p \in Pastes : HandleChange(d, p)

IdeSpec == IdeInit /\ [][IdeNext]_ideVars

(* Every call of the SDK, the bridge and the backend has a deadline, and   *)
(* timers fire; the user need not answer.                                  *)
IdeFairSpec == IdeSpec /\ WF_ideVars(Timers) /\ \A c \in Commands : WF_ideVars(Ends(c))
-----------------------------------------------------------------------------
IdeTypeOK ==
  /\ ide \in VSCode \cup {"jetbrains", "cursor"} /\ enabled \in BOOLEAN /\ active \in BOOLEAN
  /\ toggles \in 0..MaxToggles
  /\ bar \in {"ready", "disabled", "allow", "warn", "block", "unavailable"}
  /\ cmd \in [Commands -> {"idle", "scan", "ask", "ack", "done"}]
  /\ resp \in [Commands -> IdeVerdicts \cup {"none", "fallback"}]
  /\ choice \in [Commands -> Answers \cup {"none"}]
  /\ told \in [Commands -> {"nothing", "safe", "refused"}]
  /\ ack \in [Commands -> {"none", "accepted", "rejected"}]
  /\ pending \in [Docs -> SUBSET Pastes] /\ flying \subseteq SUBSET Pastes
  /\ reported \subseteq Pastes /\ taken \subseteq Pastes /\ muted \in BOOLEAN

(* "Safe to send" is said only of a prompt the engine allowed, warned of   *)
(* at a low risk, or warned of and the user pressed Proceed: not when it   *)
(* could not be asked, when the risk is high, or when the question was     *)
(* closed.  The daemon's record of a warning, made before the user is told *)
(* or after, never says the opposite.                                      *)
SafeToSend ==
  \A c \in Commands :
    /\ told[c] = "safe" =>
         \/ resp[c] \in {"allow", "low"}
         \/ resp[c] = "medium" /\ choice[c] = "proceed"
    /\ ack[c] = "accepted" => told[c] # "refused"
    /\ ack[c] = "rejected" => told[c] # "safe"

(* A paste the controller took is waiting in its document's entry, in a    *)
(* scan, or reported, however pastes, timers and responses interleave;     *)
(* only deactivation drops it.                                             *)
PasteKept == active => taken = (UNION {pending[d] : d \in Docs}) \cup (UNION flying) \cup reported

(* Every scan ends, and every paste that was taken is reported unless the  *)
(* extension is deactivated before its timer.                              *)
IdeSettles ==
  /\ \A c \in Commands : cmd[c] = "scan" ~> cmd[c] \in {"ask", "done"}
  /\ \A p \in Pastes : p \in taken ~> (p \in reported \/ ~active)
================================================================================
