--------------------------- MODULE BrowserIdeProofs ---------------------------
(***************************************************************************)
(* Proofs about the two connectors that live inside another program: the   *)
(* IDE connectors, for any number of commands, documents and pastes, in     *)
(* every host; and the browser extension, for any number of submissions,    *)
(* uploads, edits and deaths of its worker, in each build.                  *)
(***************************************************************************)
EXTENDS IdeConnector, BrowserConnector, TLAPS

(* PART 1: THE IDE CONNECTORS *)

(* Until a command acknowledges, nothing is recorded and the user is told  *)
(* nothing; while it does, both say what Safe says; and only a medium      *)
(* warning is asked about.                                                 *)
CommandInStep ==
  \A c \in Commands :
    /\ cmd[c] \in {"idle", "scan", "ask"} => ack[c] = "none" /\ told[c] = "nothing"
    /\ cmd[c] = "ask" => resp[c] = "medium"
    /\ cmd[c] = "ack" => /\ resp[c] # "none"
                         /\ told[c] \in {"nothing", IF Safe(c) THEN "safe" ELSE "refused"}
                         /\ ack[c] \in {"none", IF Safe(c) THEN "accepted" ELSE "rejected"}

IdeInv == IdeTypeOK /\ CommandInStep /\ SafeToSend /\ PasteKept

(* The members of the set of pastes that are waiting, in a scan or         *)
(* reported.                                                               *)
Held(x) == (\E d \in Docs : x \in pending[d]) \/ (\E f \in flying : x \in f) \/ x \in reported

(* The set PasteKept is about has these members. *)
LEMMA HeldMembers ==
  \A x : x \in (UNION {pending[d] : d \in Docs}) \cup (UNION flying) \cup reported <=> Held(x)
  <1> TAKE x
  <1>1. x \in UNION {pending[d] : d \in Docs} <=> \E d \in Docs : x \in pending[d]
    BY Zenon
  <1>2. x \in UNION flying <=> \E f \in flying : x \in f
    BY Zenon
  <1> QED
    BY <1>1, <1>2 DEF Held

(* PasteKept, said of one paste at a time. *)
LEMMA KeptByMember == PasteKept <=> (active => \A x : x \in taken <=> Held(x))
  <1> DEFINE S == (UNION {pending[d] : d \in Docs}) \cup (UNION flying) \cup reported
  <1>1. \A x : x \in S <=> Held(x)
    BY HeldMembers
  <1>2. taken = S <=> \A x : x \in taken <=> x \in S
    OBVIOUS
  <1> QED
    BY <1>1, <1>2, Zenon DEF PasteKept

(* What a command that leaves everything to do with pastes alone, keeps. *)
LEMMA PassiveKept ==
  ASSUME PasteKept, UNCHANGED <<active, passive>> PROVE PasteKept'
  BY DEF PasteKept, passive

(* The status bar shows one of its texts. *)
LEMMA BarShown ==
  ASSUME IdeTypeOK, NEW r \in IdeVerdicts \cup {"fallback"}, ShowOutcome(r)
  PROVE  bar' \in {"ready", "disabled", "allow", "warn", "block", "unavailable"}
  BY Zenon DEF ShowOutcome, IdeTypeOK, IdeVerdicts

(* The initial state satisfies the inductive invariant. *)
LEMMA IdeInitInv == IdeInit => IdeInv
  <1> SUFFICES ASSUME IdeInit PROVE IdeInv
    OBVIOUS
  <1>1. IdeTypeOK
    <2>1. enabled \in BOOLEAN /\ active \in BOOLEAN /\ muted \in BOOLEAN
      BY Zenon DEF IdeInit
    <2>2. toggles \in 0..MaxToggles
      BY IdeAssumption DEF IdeInit
    <2> QED
      BY <2>1, <2>2 DEF IdeInit, IdeTypeOK, IdeVerdicts, Answers
  <1>2. CommandInStep /\ SafeToSend
    BY DEF IdeInit, CommandInStep, SafeToSend
  <1>3. PasteKept
    BY DEF IdeInit, PasteKept
  <1> QED
    BY <1>1, <1>2, <1>3 DEF IdeInv

(* A response is told to the user, asked about or acknowledged. *)
LEMMA ResolveKeeps ==
  ASSUME IdeInv, NEW c \in Commands, NEW r \in IdeVerdicts \cup {"fallback"}, Resolve(c, r)
  PROVE  IdeInv'
  <1>1. IdeTypeOK /\ CommandInStep /\ SafeToSend /\ PasteKept
    BY DEF IdeInv
  <1>2. /\ cmd[c] = "scan" /\ resp' = [resp EXCEPT ![c] = r]
        /\ UNCHANGED <<ide, enabled, toggles, active, choice, ack, passive>>
    BY DEF Resolve
  <1>3. told[c] = "nothing" /\ ack[c] = "none"
    BY <1>1, <1>2 DEF CommandInStep
  <1>4. CASE Tier(r) \in {"pass", "stop"} /\ Finish(c, Tier(r) = "pass", r)
    <2>1. Tier(r) = "pass" => r = "allow"
      BY Zenon DEF Tier, IdeVerdicts
    <2>2. bar' \in {"ready", "disabled", "allow", "warn", "block", "unavailable"}
      BY <1>1, <1>4, BarShown DEF Finish
    <2>3. cmd' = [cmd EXCEPT ![c] = "done"] /\ told'[c] \in {"safe", "refused"}
          /\ told' = [told EXCEPT ![c] = told'[c]] /\ (told'[c] = "safe" => r = "allow")
      BY <1>1, <1>4, <2>1 DEF Finish, IdeTypeOK
    <2>4. IdeTypeOK'
      BY <1>1, <1>2, <2>2, <2>3 DEF IdeTypeOK, passive
    <2>5. CommandInStep' /\ SafeToSend'
      BY <1>1, <1>2, <1>3, <2>3 DEF IdeTypeOK, CommandInStep, SafeToSend, Safe, Accepted
    <2> QED
      BY <1>1, <1>2, <2>4, <2>5, PassiveKept DEF IdeInv
  <1>5. CASE Tier(r) = "prompt" /\ cmd' = [cmd EXCEPT ![c] = "ask"] /\ UNCHANGED <<told, bar>>
    <2>1. r = "medium"
      BY <1>5, Zenon DEF Tier, IdeVerdicts
    <2>2. IdeTypeOK'
      BY <1>1, <1>2, <1>5 DEF IdeTypeOK, passive
    <2>3. CommandInStep' /\ SafeToSend'
      BY <1>1, <1>2, <1>3, <1>5, <2>1 DEF IdeTypeOK, CommandInStep, SafeToSend, Safe, Accepted
    <2> QED
      BY <1>1, <1>2, <2>2, <2>3, PassiveKept DEF IdeInv
  <1>6. CASE Tier(r) \in {"notice", "escalate"} /\ Acknowledge(c, Tier(r) = "notice", r)
    <2>1. (Tier(r) = "notice" /\ r = "low") \/ (Tier(r) = "escalate" /\ r = "high")
      BY <1>6, Zenon DEF Tier, IdeVerdicts
    <2>2. cmd' = [cmd EXCEPT ![c] = "ack"] /\ bar' = bar
      BY <1>6 DEF Acknowledge
    <2>3. told'[c] \in {"nothing", IF r = "low" THEN "safe" ELSE "refused"} /\ told' = [told EXCEPT ![c] = told'[c]]
      BY <1>1, <1>3, <1>6, <2>1 DEF Acknowledge, IdeTypeOK
    <2>4. IdeTypeOK'
      BY <1>1, <1>2, <2>2, <2>3 DEF IdeTypeOK, passive
    <2>5. CommandInStep' /\ SafeToSend'
      BY <1>1, <1>2, <1>3, <2>1, <2>2, <2>3 DEF IdeTypeOK, CommandInStep, SafeToSend, Safe
    <2> QED
      BY <1>1, <1>2, <2>4, <2>5, PassiveKept DEF IdeInv
  <1>7. Tier(r) \in {"pass", "stop", "prompt", "notice", "escalate"}
    BY Zenon DEF Tier, IdeVerdicts
  <1> QED
    BY <1>4, <1>5, <1>6, <1>7 DEF Resolve

(* The user's answer to a warning. *)
LEMMA AnswerKeeps ==
  ASSUME IdeInv, NEW c \in Commands, NEW a \in Answers, AnswerWarning(c, a)
  PROVE  IdeInv'
  <1>1. IdeTypeOK /\ CommandInStep /\ SafeToSend /\ PasteKept
    BY DEF IdeInv
  <1>2. /\ cmd[c] = "ask" /\ choice' = [choice EXCEPT ![c] = a]
        /\ UNCHANGED <<ide, enabled, toggles, active, resp, ack, passive>>
    BY DEF AnswerWarning
  <1>3. told[c] = "nothing" /\ ack[c] = "none" /\ resp[c] = "medium"
    BY <1>1, <1>2 DEF CommandInStep
  <1>4. /\ cmd' \in {[cmd EXCEPT ![c] = "done"], [cmd EXCEPT ![c] = "ack"]} /\ bar' = bar
        /\ told'[c] \in {"nothing", IF a = "proceed" THEN "safe" ELSE "refused"}
        /\ told' = [told EXCEPT ![c] = told'[c]]
    BY <1>1, <1>3 DEF AnswerWarning, Acknowledge, Accepted, IdeTypeOK
  <1>5. IdeTypeOK'
    BY <1>1, <1>2, <1>4 DEF IdeTypeOK, passive
  <1>6. CommandInStep' /\ SafeToSend'
    BY <1>1, <1>2, <1>3, <1>4 DEF IdeTypeOK, CommandInStep, SafeToSend, Safe, Accepted
  <1> QED
    BY <1>1, <1>2, <1>5, <1>6, PassiveKept DEF IdeInv

(* The acknowledgement is recorded. *)
LEMMA RecordedKeeps ==
  ASSUME IdeInv, NEW c \in Commands, AckRecorded(c)
  PROVE  IdeInv'
  <1>1. IdeTypeOK /\ CommandInStep /\ SafeToSend /\ PasteKept
    BY DEF IdeInv
  <1>2. /\ cmd[c] = "ack" /\ ack' = [ack EXCEPT ![c] = IF Safe(c) THEN "accepted" ELSE "rejected"]
        /\ UNCHANGED <<ide, enabled, toggles, active, bar, cmd, resp, choice, told, passive>>
    BY DEF AckRecorded
  <1>3. IdeTypeOK'
    BY <1>1, <1>2 DEF IdeTypeOK, passive
  <1>4. CommandInStep' /\ SafeToSend'
    BY <1>1, <1>2 DEF IdeTypeOK, CommandInStep, SafeToSend, Safe, Accepted
  <1> QED
    BY <1>1, <1>2, <1>3, <1>4, PassiveKept DEF IdeInv

(* The acknowledgement ends and the command with it. *)
LEMMA AckKeeps ==
  ASSUME IdeInv, NEW c \in Commands, AckEnds(c)
  PROVE  IdeInv'
  <1>1. IdeTypeOK /\ CommandInStep /\ SafeToSend /\ PasteKept
    BY DEF IdeInv
  <1>2. /\ cmd[c] = "ack" /\ cmd' = [cmd EXCEPT ![c] = "done"]
        /\ UNCHANGED <<ide, enabled, toggles, active, resp, choice, ack, passive>>
    BY DEF AckEnds, Finish
  <1>3. told' = [told EXCEPT ![c] = IF Safe(c) THEN "safe" ELSE "refused"]
    BY DEF AckEnds, Finish
  <1>4. bar' \in {"ready", "disabled", "allow", "warn", "block", "unavailable"}
    <2>1. ShowOutcome(resp[c]) /\ resp[c] # "none"
      BY <1>1, <1>2 DEF AckEnds, Finish, CommandInStep
    <2> QED
      BY <1>1, <2>1, BarShown DEF IdeTypeOK
  <1>5. IdeTypeOK'
    BY <1>1, <1>2, <1>3, <1>4 DEF IdeTypeOK, passive
  <1>6. CommandInStep' /\ SafeToSend'
    BY <1>1, <1>2, <1>3 DEF IdeTypeOK, CommandInStep, SafeToSend, Safe, Accepted
  <1> QED
    BY <1>1, <1>2, <1>5, <1>6, PassiveKept DEF IdeInv

(* The passive scans: a paste is taken, flushed, answered or dropped at    *)
(* deactivation; and the commands that leave the scans alone.              *)
LEMMA OtherKeeps ==
  ASSUME IdeInv,
         \/ \E c \in Commands : StartScan(c)
         \/ ToggleEnabled \/ Status \/ Deactivate \/ Timers
         \/ \E d \in Docs, p \in Pastes : HandleChange(d, p)
  PROVE  IdeInv'
  <1>1. IdeTypeOK /\ CommandInStep /\ SafeToSend /\ PasteKept
    BY DEF IdeInv
  <1>2. ASSUME NEW c \in Commands, StartScan(c) PROVE IdeInv'
    <2>1. IdeTypeOK'
      BY <1>1, <1>2 DEF StartScan, IdeTypeOK, ext, passive
    <2>2. CommandInStep' /\ SafeToSend'
      BY <1>1, <1>2 DEF StartScan, IdeTypeOK, CommandInStep, SafeToSend, Safe
    <2>3. PasteKept'
      BY <1>1, <1>2, PassiveKept DEF StartScan, ext
    <2> QED
      BY <2>1, <2>2, <2>3 DEF IdeInv
  <1>3. CASE ToggleEnabled \/ Status
    <2>1. IdeTypeOK'
      <3>1. CASE ToggleEnabled
        <4>1. enabled' \in BOOLEAN
          BY <1>1, <3>1, Zenon DEF ToggleEnabled, IdeTypeOK
        <4>2. toggles' \in 0..MaxToggles
          BY <1>1, <3>1, IdeAssumption DEF ToggleEnabled, IdeTypeOK
        <4>3. bar' \in {"ready", "disabled"}
          BY <3>1 DEF ToggleEnabled
        <4> QED
          BY <1>1, <3>1, <4>1, <4>2, <4>3 DEF ToggleEnabled, IdeTypeOK, command, passive
      <3>2. CASE Status
        BY <1>1, <3>2 DEF Status, IdeTypeOK, command, passive
      <3> QED
        BY <1>3, <3>1, <3>2
    <2>2. CommandInStep' /\ SafeToSend'
      BY <1>1, <1>3 DEF ToggleEnabled, Status, command, CommandInStep, SafeToSend, Safe
    <2>3. PasteKept'
      BY <1>1, <1>3, PassiveKept DEF ToggleEnabled, Status
    <2> QED
      BY <2>1, <2>2, <2>3 DEF IdeInv
  <1>4. CASE Deactivate
    <2>1. IdeTypeOK'
      <3>1. active' \in BOOLEAN
        BY <1>4, Zenon DEF Deactivate
      <3> QED
        BY <1>1, <1>4, <3>1 DEF Deactivate, IdeTypeOK, command
    <2>2. CommandInStep' /\ SafeToSend'
      BY <1>1, <1>4 DEF Deactivate, command, CommandInStep, SafeToSend, Safe
    <2>3. PasteKept'
      BY <1>4 DEF Deactivate, PasteKept
    <2> QED
      BY <2>1, <2>2, <2>3 DEF IdeInv
  <1> DEFINE HeldNext(x) == (\E d \in Docs : x \in pending'[d]) \/ (\E f \in flying' : x \in f) \/ x \in reported'
  <1>5. ASSUME UNCHANGED <<ext, command>>, IdeTypeOK', active => \A x : x \in taken' <=> HeldNext(x)
        PROVE  IdeInv'
    <2>1. CommandInStep' /\ SafeToSend'
      BY <1>1, <1>5 DEF command, CommandInStep, SafeToSend, Safe
    <2>2. (active => \A x : x \in taken <=> Held(x))'
      BY <1>5, Zenon DEF ext, Held
    <2>3. PasteKept'
      BY <2>2, KeptByMember, PTL
    <2> QED
      BY <1>5, <2>1, <2>3 DEF IdeInv
  <1>6. active => \A x : x \in taken <=> Held(x)
    BY <1>1, KeptByMember
  <1>7. ASSUME NEW d \in Docs, Flush(d) PROVE IdeInv'
    <2>1. IdeTypeOK'
      BY <1>1, <1>7 DEF Flush, IdeTypeOK, ext, command
    <2>2. ASSUME NEW x PROVE Held(x) <=> HeldNext(x)
      <3>1. CASE x \in pending[d]
        BY <3>1, <1>7 DEF Flush, Held
      <3>2. CASE x \notin pending[d]
        BY <3>2, <1>1, <1>7 DEF Flush, Held, IdeTypeOK
      <3> QED
        BY <3>1, <3>2
    <2>3. taken' = taken /\ UNCHANGED <<ext, command>>
      BY <1>7 DEF Flush
    <2> QED
      BY <1>5, <1>6, <2>1, <2>2, <2>3
  <1>8. ASSUME NEW f \in flying, NEW ok \in BOOLEAN, PassiveResponse(f, ok) PROVE IdeInv'
    <2>1. IdeTypeOK'
      <3>1. muted' \in BOOLEAN
        BY <1>8, Zenon DEF PassiveResponse
      <3> QED
        BY <1>1, <1>8, <3>1 DEF PassiveResponse, IdeTypeOK, ext, command
    <2>2. \A x : Held(x) <=> HeldNext(x)
      BY <1>8 DEF PassiveResponse, Held
    <2>3. taken' = taken /\ UNCHANGED <<ext, command>>
      BY <1>8 DEF PassiveResponse
    <2> QED
      BY <1>5, <1>6, <2>1, <2>2, <2>3
  <1>9. ASSUME NEW d \in Docs, NEW p \in Pastes, HandleChange(d, p) PROVE IdeInv'
    <2>1. IdeTypeOK'
      BY <1>1, <1>9 DEF HandleChange, IdeTypeOK, ext, command
    <2>2. \A x : HeldNext(x) <=> Held(x) \/ x = p
      BY <1>1, <1>9 DEF HandleChange, Held, IdeTypeOK
    <2>3. taken' = taken \cup {p} /\ UNCHANGED <<ext, command>>
      BY <1>9 DEF HandleChange
    <2> QED
      BY <1>5, <1>6, <2>1, <2>2, <2>3
  <1> QED
    BY <1>2, <1>3, <1>4, <1>7, <1>8, <1>9 DEF Timers

(* A step without a change. *)
LEMMA StutterKeeps == ASSUME IdeInv, UNCHANGED ideVars PROVE IdeInv'
  BY DEF IdeInv, ideVars, ext, command, passive, IdeTypeOK, CommandInStep, SafeToSend, Safe, PasteKept

(* The inductive invariant holds of every behaviour. *)
LEMMA IdeInvariant == IdeSpec => []IdeInv
  <1>1. IdeInv /\ [IdeNext]_ideVars => IdeInv'
    <2> SUFFICES ASSUME IdeInv, [IdeNext]_ideVars PROVE IdeInv'
      OBVIOUS
    <2>1. ASSUME NEW c \in Commands, Ends(c) PROVE IdeInv'
      BY <2>1, ResolveKeeps, AckKeeps DEF Ends, Unavailable, Respond
    <2>2. ASSUME NEW c \in Commands, NEW a \in Answers, AnswerWarning(c, a) PROVE IdeInv'
      BY <2>2, AnswerKeeps
    <2>3. CASE UNCHANGED ideVars
      BY <2>3, StutterKeeps
    <2> QED
      BY <2>1, <2>2, <2>3, RecordedKeeps, OtherKeeps DEF IdeNext
  <1> QED
    BY <1>1, IdeInitInv, PTL DEF IdeSpec

(* IdeTypeOK of the IDE connectors, for every value of the constants. *)
THEOREM IdeTypeCorrect == IdeSpec => []IdeTypeOK
  <1>1. IdeInv => IdeTypeOK
    BY DEF IdeInv
  <1> QED
    BY <1>1, IdeInvariant, PTL

(* "Safe to send" is only said of a prompt that was allowed, warned of at  *)
(* a low risk, or confirmed by the user, and the daemon's record of a      *)
(* warning never says the opposite of what the user is told (resolve,      *)
(* resolveWarn, acknowledge).                                              *)
THEOREM SafeIsSanctioned == IdeSpec => []SafeToSend
  <1>1. IdeInv => SafeToSend
    BY DEF IdeInv
  <1> QED
    BY <1>1, IdeInvariant, PTL

(* No paste that handleChange took is lost between the debounce, the scan  *)
(* and the report, while the extension is active.                          *)
THEOREM NoPasteLost == IdeSpec => []PasteKept
  <1>1. IdeInv => PasteKept
    BY DEF IdeInv
  <1> QED
    BY <1>1, IdeInvariant, PTL
-----------------------------------------------------------------------------
(* PART 2: THE BROWSER EXTENSION *)

ScanStages == {"idle", "native", "app", "register", "post", "ask", "done"}
ScanVerdicts == {"none", "permit", "high", "block", "cancelled"}

BrowserTypes ==
  /\ req \in [Requests -> ScanStages]
  /\ verdict \in [Requests -> ScanVerdicts]
  /\ files \in [Requests -> BOOLEAN]
  /\ hook \in [Uploads -> {"idle", "waiting", "sent", "blocked"}]
  /\ why \in [Uploads -> {"none", "verdict", "large", "timeout", "relay"}]
  /\ edits \in Nat /\ read \in [Requests -> Nat]

(* The box holds the latest edit or nothing, and no scan was asked about   *)
(* a text still to be typed.                                               *)
BoxInOrder == box \in {Empty, edits} /\ \A r \in Requests : read[r] <= edits

(* Some submission was settled as permitted. *)
SomePermitted == \E p \in Prompts : Permitted(p)

(* What the gate has replayed is settled, as permitted, and no older than  *)
(* the text scanned; and the bypass window follows a permitted one.        *)
SentIsFinal ==
  /\ bypass => SomePermitted
  /\ \A s \in sent : IF s.by = Page THEN SomePermitted
                      ELSE s.by \in Prompts /\ Permitted(s.by) /\ s.text >= read[s.by]

(* The user is asked only about what a decision permits. *)
AskedIsPermitted == \A p \in Prompts : req[p] = "ask" => verdict[p] = "permit"

(* A request about an upload carries the file, in a build that can send it, *)
(* until the backend rejects its token.                                     *)
FileKept == \A u \in Uploads : files[u] \/ flavor = "safari" \/ u \in stripped

(* An upload the hook resolved on a verdict is settled, with that verdict.  *)
UploadIsFinal ==
  \A u \in Uploads :
    /\ hook[u] = "sent" /\ why[u] = "verdict" => req[u] = "done" /\ verdict[u] # "block"
    /\ hook[u] = "blocked" => req[u] = "done" /\ verdict[u] \in {"block", "high"}

BrowserInv == BrowserTypes /\ BoxInOrder /\ SentIsFinal /\ AskedIsPermitted /\ FileKept /\ UploadIsFinal

(* What the user or a replay sends adds at most one submission. *)
LEMMA SubmitAdds ==
  ASSUME NEW by, Submit(by)
  PROVE  /\ \A s \in sent' : s \in sent \/ (s.by = by /\ s.text = box /\ box # Empty)
         /\ box' \in {box, Empty}
  BY DEF Submit

(* Steps that settle nothing: what is done stays done with its verdict, no  *)
(* question is asked, no upload is resolved on a verdict, and what is sent  *)
(* is the page's.                                                            *)
LEMMA UnsettledStep ==
  ASSUME BrowserInv, BrowserTypes', BoxInOrder', FileKept', bypass' => bypass,
         \A s \in sent' : s \in sent \/ (s.by = Page /\ bypass),
         \A r \in Requests : req[r] = "done" =>
           \/ req'[r] = "done" /\ verdict'[r] = verdict[r] /\ read'[r] = read[r]
           \/ r \in Uploads /\ hook'[r] = "waiting",
         \A r \in Requests : req'[r] = "ask" => req[r] = "ask" /\ verdict'[r] = verdict[r],
         \A u \in Uploads : hook'[u] = "sent" /\ why'[u] = "verdict" =>
                            hook[u] = "sent" /\ why[u] = "verdict",
         \A u \in Uploads : hook'[u] = "blocked" => hook[u] = "blocked"
  PROVE  BrowserInv'
  <1> Prompts \subseteq Requests /\ Uploads \subseteq Requests /\ Prompts \cap Uploads = {}
    BY BrowserAssumption DEF Requests, BrowserAssumption
  <1>1. SentIsFinal'
    <2>1. \A p \in Prompts : Permitted(p) => Permitted(p)' /\ read'[p] = read[p]
      BY DEF Permitted
    <2>2. SomePermitted => SomePermitted'
      BY <2>1 DEF SomePermitted
    <2>3. bypass' => SomePermitted'
      BY <2>2 DEF BrowserInv, SentIsFinal
    <2>4. ASSUME NEW s \in sent'
          PROVE  IF s.by = Page THEN SomePermitted'
                 ELSE s.by \in Prompts /\ Permitted(s.by)' /\ s.text >= read'[s.by]
      <3>1. CASE s \in sent
        BY <2>1, <2>2, <3>1 DEF BrowserInv, SentIsFinal
      <3>2. CASE s.by = Page /\ bypass
        BY <2>2, <3>2 DEF BrowserInv, SentIsFinal
      <3> QED  BY <3>1, <3>2
    <2> QED  BY <2>3, <2>4 DEF SentIsFinal
  <1>2. AskedIsPermitted'
    BY DEF BrowserInv, AskedIsPermitted
  <1>3. UploadIsFinal'
    BY DEF BrowserInv, UploadIsFinal
  <1> QED  BY <1>1, <1>2, <1>3 DEF BrowserInv

(* The same, of a step that only moves requests about. *)
LEMMA MoveStep ==
  ASSUME BrowserInv, req' \in [Requests -> ScanStages],
         UNCHANGED <<flavor, verdict, read, files, hook, why, stripped>>,
         edits' \in Nat, BoxInOrder', bypass' => bypass,
         \A s \in sent' : s \in sent \/ (s.by = Page /\ bypass),
         \A r \in Requests : req[r] = "done" => req'[r] = "done",
         \A r \in Requests : req'[r] = "ask" => req[r] = "ask"
  PROVE  BrowserInv'
  <1>1. BrowserTypes' /\ FileKept'
    BY DEF BrowserInv, BrowserTypes, FileKept
  <1> QED  BY <1>1, UnsettledStep

(* Nothing of the page and no text asked about changes. *)
LEMMA PageKept ==
  ASSUME BrowserInv, UNCHANGED <<page, read>>
  PROVE  edits' \in Nat /\ BoxInOrder' /\ bypass' = bypass /\ sent' = sent /\ read' = read
  BY DEF BrowserInv, BrowserTypes, BoxInOrder, page

(* A permitted submission is replayed: it carries the text that was asked   *)
(* about or a later one, and the page keeps its order.                      *)
LEMMA ReplayStep ==
  ASSUME BrowserInv, NEW p \in Prompts, Replay(p), Permitted(p)', read' = read,
         \A q \in Prompts : Permitted(q) => Permitted(q)'
  PROVE  SentIsFinal' /\ BoxInOrder' /\ edits' = edits
  <1>0. Prompts \subseteq Requests
    BY DEF Requests
  <1>1. edits' = edits /\ box' \in {box, Empty}
        /\ \A s \in sent' : s \in sent \/ (s.by = p /\ s.text = box /\ box # Empty)
    BY SubmitAdds DEF Replay
  <1>2. edits \in Nat /\ read \in [Requests -> Nat] /\ box \in {Empty, edits}
        /\ \A r \in Requests : read[r] <= edits
    BY DEF BrowserInv, BrowserTypes, BoxInOrder
  <1>3. BoxInOrder'
    BY <1>1, <1>2 DEF BoxInOrder
  <1>4. SomePermitted'
    BY DEF SomePermitted
  <1>5. ASSUME NEW s \in sent'
        PROVE  IF s.by = Page THEN SomePermitted'
               ELSE s.by \in Prompts /\ Permitted(s.by)' /\ s.text >= read'[s.by]
    <2>1. CASE s \in sent
      BY <1>4, <2>1 DEF BrowserInv, SentIsFinal
    <2>2. CASE s.by = p /\ s.text = box /\ box # Empty
      BY <1>0, <1>2, <1>4, <2>2
    <2> QED  BY <1>1, <2>1, <2>2
  <1> QED  BY <1>1, <1>3, <1>4, <1>5 DEF SentIsFinal

(* A decision settles its request: a submission is replayed, or the user    *)
(* asked, only if the decision permits; an upload that still waits is        *)
(* resolved by it.                                                           *)
LEMMA DecidedStep ==
  ASSUME BrowserInv, NEW r \in Requests, req[r] \notin {"ask", "done"}, NEW v \in Verdicts,
         NEW viaHttp \in BOOLEAN, Decided(r, v, viaHttp), UNCHANGED <<flavor, stripped>>
  PROVE  BrowserInv'
  <1> DEFINE given == IF v \in {"allow", "low", "medium"} THEN "permit" ELSE v
  <1>0. Prompts \subseteq Requests /\ Uploads \subseteq Requests /\ Prompts \cap Uploads = {}
    BY BrowserAssumption DEF Requests, BrowserAssumption
  <1>1. /\ verdict' = [verdict EXCEPT ![r] = given] /\ files' = files /\ read' = read
    BY DEF Decided
  <1>2. given \in {"permit", "high", "block"}
    BY DEF Verdicts
  <1>3. /\ req \in [Requests -> ScanStages] /\ verdict \in [Requests -> ScanVerdicts]
        /\ hook \in [Uploads -> {"idle", "waiting", "sent", "blocked"}]
        /\ why \in [Uploads -> {"none", "verdict", "large", "timeout", "relay"}]
    BY DEF BrowserInv, BrowserTypes
  <1>4. /\ verdict' \in [Requests -> ScanVerdicts]
        /\ verdict'[r] = given /\ \A q \in Requests : q # r => verdict'[q] = verdict[q]
    BY <1>1, <1>2, <1>3 DEF ScanVerdicts
  <1>5. FileKept'
    BY <1>1 DEF BrowserInv, FileKept
  <1>6. CASE r \in Uploads
    <2>1. /\ req' = [req EXCEPT ![r] = "done"] /\ UNCHANGED page
          /\ ResolveUpload(r, ~BlocksUpload(v, viaHttp), "verdict")
      BY <1>6 DEF Decided
    <2>2. /\ req' \in [Requests -> ScanStages] /\ req'[r] = "done"
          /\ \A q \in Requests : q # r => req'[q] = req[q]
      BY <1>3, <2>1 DEF ScanStages
    <2>3. /\ hook' \in [Uploads -> {"idle", "waiting", "sent", "blocked"}]
          /\ why' \in [Uploads -> {"none", "verdict", "large", "timeout", "relay"}]
          /\ \A u \in Uploads : u # r => hook'[u] = hook[u] /\ why'[u] = why[u]
      BY <1>3, <2>1 DEF ResolveUpload, upload
    <2>4. /\ hook'[r] = "sent" /\ why'[r] = "verdict" => given # "block"
          /\ hook'[r] = "blocked" => given \in {"block", "high"}
      <3>1. CASE hook[r] = "waiting"
        <4>1. hook'[r] = IF ~BlocksUpload(v, viaHttp) THEN "sent" ELSE "blocked"
          BY <1>3, <1>6, <2>1, <3>1 DEF ResolveUpload
        <4> QED  BY <4>1 DEF BlocksUpload
      <3>2. CASE hook[r] # "waiting"
        <4>1. hook' = hook /\ why' = why
          BY <2>1, <3>2 DEF ResolveUpload, upload
        <4> QED  BY <1>6, <4>1 DEF BrowserInv, UploadIsFinal
      <3> QED  BY <3>1, <3>2
    <2> HIDE DEF given
    <2>5. /\ edits' \in Nat /\ BoxInOrder' /\ bypass' = bypass /\ sent' = sent
      BY <1>1, <2>1, PageKept
    <2>6. BrowserTypes'
      BY <1>1, <1>4, <2>2, <2>3, <2>5 DEF BrowserInv, BrowserTypes
    <2>7. SentIsFinal' /\ AskedIsPermitted'
      <3>1. \A p \in Prompts : req'[p] = req[p] /\ verdict'[p] = verdict[p]
        BY <1>0, <1>4, <1>6, <2>2
      <3>2. \A p \in Prompts : Permitted(p)' <=> Permitted(p)
        BY <3>1 DEF Permitted
      <3>3. SomePermitted' <=> SomePermitted
        BY <3>2 DEF SomePermitted
      <3> QED  BY <1>1, <2>5, <3>1, <3>2, <3>3 DEF BrowserInv, SentIsFinal, AskedIsPermitted
    <2>8. UploadIsFinal'
      BY <1>0, <1>4, <2>2, <2>3, <2>4 DEF BrowserInv, UploadIsFinal
    <2> QED  BY <1>5, <2>5, <2>6, <2>7, <2>8 DEF BrowserInv
  <1>7. CASE r \notin Uploads
    <2> DEFINE o == Outcome(v, viaHttp)
    <2>0. r \in Prompts
      BY <1>7 DEF Requests
    <2>1. /\ req' = [req EXCEPT ![r] = IF o = "ask" THEN "ask" ELSE "done"]
          /\ IF o = "send" THEN Replay(r) ELSE UNCHANGED page
          /\ UNCHANGED <<hook, why>>
      BY <1>7 DEF Decided, upload
    <2>2. o \in {"ask", "send"} => given = "permit"
      BY DEF Outcome, Verdicts
    <2> HIDE DEF given, o
    <2>3. /\ req' \in [Requests -> ScanStages] /\ req'[r] = IF o = "ask" THEN "ask" ELSE "done"
          /\ \A q \in Requests : q # r => req'[q] = req[q]
      BY <1>3, <2>1 DEF ScanStages
    <2>4. \A p \in Prompts : Permitted(p) => p # r /\ Permitted(p)'
      BY <1>0, <1>4, <2>3 DEF Permitted
    <2>5. SentIsFinal' /\ BoxInOrder' /\ edits' = edits
      <3>1. CASE o = "send"
        <4>1. Permitted(r)'
          BY <1>4, <2>2, <2>3, <3>1 DEF Permitted
        <4> QED  BY <1>1, <2>0, <2>1, <2>4, <3>1, <4>1, ReplayStep
      <3>2. CASE o # "send"
        <4>1. BoxInOrder' /\ UNCHANGED <<edits, sent, bypass>>
          BY <1>1, <2>1, <3>2 DEF BrowserInv, BoxInOrder, page
        <4>2. SomePermitted => SomePermitted'
          BY <2>4 DEF SomePermitted
        <4> QED  BY <1>1, <2>4, <4>1, <4>2 DEF BrowserInv, SentIsFinal
      <3> QED  BY <3>1, <3>2
    <2>6. BrowserTypes'
      BY <1>1, <1>4, <2>1, <2>3, <2>5 DEF BrowserInv, BrowserTypes
    <2>7. AskedIsPermitted'
      BY <1>0, <1>4, <2>2, <2>3 DEF BrowserInv, AskedIsPermitted
    <2>8. UploadIsFinal'
      BY <1>0, <1>4, <1>7, <2>1, <2>3 DEF BrowserInv, UploadIsFinal
    <2> QED  BY <1>5, <2>5, <2>6, <2>7, <2>8 DEF BrowserInv
  <1> QED  BY <1>6, <1>7

(* The gate asks for a scan, or the hook does. *)
LEMMA ScanStep ==
  ASSUME BrowserInv, NEW r \in Requests, NEW t \in Nat, t <= edits, Scan(r, t),
         req[r] \notin {"ask", "done"} \/ (r \in Uploads /\ hook'[r] = "waiting"),
         UNCHANGED <<flavor, page, stripped>>,
         hook' \in [Uploads -> {"idle", "waiting", "sent", "blocked"}], why' = why,
         \A u \in Uploads : hook'[u] = hook[u] \/ hook'[u] = "waiting"
  PROVE  BrowserInv'
  <1>0. HttpStep \in {"post", "register"} /\ FirstStep(r) \in {"app", "http", "native"}
    BY DEF HttpStep, FirstStep
  <1>1. verdict' = verdict
        /\ \E w \in {"native", "app", "post", "register"} : req' = [req EXCEPT ![r] = w]
    BY <1>0 DEF Scan
  <1>2. req \in [Requests -> ScanStages] /\ files \in [Requests -> BOOLEAN]
    BY DEF BrowserInv, BrowserTypes
  <1>3. /\ req' \in [Requests -> ScanStages]
        /\ \A q \in Requests : req[q] = "done" =>
             req'[q] = "done" \/ (q \in Uploads /\ hook'[q] = "waiting")
        /\ \A q \in Requests : req'[q] = "ask" => req[q] = "ask"
    BY <1>1, <1>2 DEF ScanStages
  <1>4. files' = [files EXCEPT ![r] = @ /\ FirstStep(r) = "http"] \/ (files' = files)
    BY DEF Scan
  <1>5. files' \in [Requests -> BOOLEAN]
    BY <1>2, <1>4
  <1>6. /\ edits' = edits /\ read' \in [Requests -> Nat] /\ BoxInOrder'
        /\ \A q \in Requests : q # r => read'[q] = read[q]
    BY DEF Scan, BrowserInv, BrowserTypes, BoxInOrder, page
  <1>10. BrowserTypes'
    BY <1>1, <1>3, <1>5, <1>6 DEF BrowserInv, BrowserTypes
  <1>7. \A u \in Uploads : flavor # "safari" => files'[u] = files[u]
    <2> SUFFICES ASSUME NEW u \in Uploads, flavor # "safari" PROVE files'[u] = files[u]
      OBVIOUS
    <2>1. u \in Requests
      BY DEF Requests
    <2>2. FirstStep(u) = "http"
      BY DEF FirstStep
    <2>3. CASE u = r
      <3>1. files[u] \in BOOLEAN
        BY <1>2, <2>1
      <3>2. files' = files \/ files'[u] = (files[u] /\ FirstStep(r) = "http")
        BY <1>2, <1>4, <2>1, <2>3
      <3> QED  BY <2>2, <2>3, <3>1, <3>2
    <2>4. CASE u # r
      BY <1>2, <1>4, <2>1, <2>4
    <2> QED  BY <2>3, <2>4
  <1>8. FileKept'
    BY <1>7 DEF BrowserInv, FileKept
  <1>9. \A u \in Uploads : /\ hook'[u] = "sent" => hook[u] = "sent" /\ why'[u] = why[u]
                           /\ hook'[u] = "blocked" => hook[u] = "blocked"
    OBVIOUS
  <1>11. \A q \in Requests : req[q] = "done" =>
           \/ req'[q] = "done" /\ verdict'[q] = verdict[q] /\ read'[q] = read[q]
           \/ q \in Uploads /\ hook'[q] = "waiting"
    BY <1>1, <1>3, <1>6
  <1>12. bypass' = bypass /\ sent' = sent
    BY DEF page
  <1> QED  BY <1>1, <1>3, <1>6, <1>8, <1>9, <1>10, <1>11, <1>12, UnsettledStep

(* The HTTP transport fails: it registers again, file and all, or blocks. *)
LEMMA HttpThrowsStep ==
  ASSUME BrowserInv, NEW r \in Requests, req[r] \in {"register", "post"}, HttpThrows(r),
         UNCHANGED <<flavor, stripped>>
  PROVE  BrowserInv'
  <1>1. CASE tries[r] # 0
    <2>1. Decided(r, "block", TRUE) /\ "block" \in Verdicts /\ TRUE \in BOOLEAN
      BY <1>1 DEF HttpThrows, Verdicts
    <2> QED  BY <2>1, DecidedStep
  <1>2. CASE tries[r] = 0
    <2>1. /\ req' = [req EXCEPT ![r] = "register"]
          /\ files' = [files EXCEPT ![r] = r \in Uploads]
          /\ UNCHANGED <<page, read, verdict, hook, why>>
      BY <1>2 DEF HttpThrows, upload
    <2>2. req \in [Requests -> ScanStages] /\ files \in [Requests -> BOOLEAN]
      BY DEF BrowserInv, BrowserTypes
    <2>3. /\ req' \in [Requests -> ScanStages]
          /\ \A q \in Requests : req[q] = "done" => req'[q] = "done"
          /\ \A q \in Requests : req'[q] = "ask" => req[q] = "ask"
      BY <2>1, <2>2 DEF ScanStages
    <2>4. /\ files' \in [Requests -> BOOLEAN]
          /\ \A u \in Requests : files'[u] = IF u = r THEN r \in Uploads ELSE files[u]
      BY <2>1, <2>2
    <2>5. FileKept'
      <3>1. Uploads \subseteq Requests
        BY DEF Requests
      <3> QED  BY <2>4, <3>1 DEF BrowserInv, FileKept
    <2>6. edits' \in Nat /\ BoxInOrder' /\ bypass' = bypass /\ sent' = sent
      BY <2>1, PageKept
    <2>7. BrowserTypes'
      BY <2>1, <2>3, <2>4, <2>6 DEF BrowserInv, BrowserTypes
    <2> QED  BY <2>1, <2>3, <2>5, <2>6, <2>7, UnsettledStep
  <1> QED  BY <1>1, <1>2

(* "Send anyway" replays what a decision permits; cancel settles it. *)
LEMMA ModalStep ==
  ASSUME BrowserInv, NEW p \in Prompts, NEW proceed \in BOOLEAN, AnswerModal(p, proceed)
  PROVE  BrowserInv'
  <1>0. Prompts \subseteq Requests /\ Uploads \subseteq Requests /\ Prompts \cap Uploads = {}
    BY BrowserAssumption DEF Requests, BrowserAssumption
  <1>1. /\ req[p] = "ask" /\ req' = [req EXCEPT ![p] = "done"]
        /\ UNCHANGED <<flavor, read, files, hook, why, stripped>>
        /\ \/ Replay(p) /\ verdict' = verdict
           \/ UNCHANGED page /\ verdict' = [verdict EXCEPT ![p] = "cancelled"]
    BY DEF AnswerModal, upload
  <1>2. req \in [Requests -> ScanStages] /\ verdict \in [Requests -> ScanVerdicts]
    BY DEF BrowserInv, BrowserTypes
  <1>3. /\ req' \in [Requests -> ScanStages] /\ req'[p] = "done"
        /\ \A q \in Requests : q # p => req'[q] = req[q]
    BY <1>0, <1>1, <1>2 DEF ScanStages
  <1>4. /\ verdict' \in [Requests -> ScanVerdicts]
        /\ \A q \in Requests : q # p => verdict'[q] = verdict[q]
    BY <1>0, <1>1, <1>2 DEF ScanVerdicts
  <1>5. verdict[p] = "permit"
    BY <1>1 DEF BrowserInv, AskedIsPermitted
  <1>6. \A q \in Prompts : Permitted(q) => q # p /\ Permitted(q)'
    BY <1>0, <1>1, <1>3, <1>4 DEF Permitted
  <1>7. SentIsFinal' /\ BoxInOrder' /\ edits' = edits
    <2>1. CASE Replay(p) /\ verdict' = verdict
      <3>1. Permitted(p)'
        BY <1>3, <1>5, <2>1 DEF Permitted
      <3> QED  BY <1>1, <1>6, <2>1, <3>1, ReplayStep
    <2>2. CASE UNCHANGED page
      <3>1. BoxInOrder' /\ UNCHANGED <<edits, sent, bypass>>
        BY <1>1, <2>2 DEF BrowserInv, BoxInOrder, page
      <3>2. SomePermitted => SomePermitted'
        BY <1>6 DEF SomePermitted
      <3> QED  BY <1>1, <1>6, <3>1, <3>2 DEF BrowserInv, SentIsFinal
    <2> QED  BY <1>1, <2>1, <2>2
  <1>8. BrowserTypes' /\ FileKept'
    BY <1>1, <1>3, <1>4, <1>7 DEF BrowserInv, BrowserTypes, FileKept
  <1>9. AskedIsPermitted' /\ UploadIsFinal'
    BY <1>0, <1>1, <1>3, <1>4 DEF BrowserInv, AskedIsPermitted, UploadIsFinal
  <1> QED  BY <1>7, <1>8, <1>9 DEF BrowserInv

(* The page hook resolves an upload without a verdict. *)
LEMMA HookStep ==
  ASSUME BrowserInv, NEW u \in Uploads, FetchUnscanned(u) \/ HookTimeout(u)
  PROVE  BrowserInv'
  <1>1. /\ UNCHANGED <<flavor, page, req, read, verdict, files, stripped>>
        /\ hook' = [hook EXCEPT ![u] = "sent"]
        /\ \E w \in {"large", "timeout"} : why' = [why EXCEPT ![u] = w]
    BY DEF FetchUnscanned, HookTimeout, ResolveUpload, scan
  <1>5. edits' \in Nat /\ BoxInOrder' /\ bypass' = bypass /\ sent' = sent
    BY <1>1, PageKept
  <1>2. BrowserTypes' /\ FileKept'
    BY <1>1, <1>5 DEF BrowserInv, BrowserTypes, FileKept
  <1>3. \A w \in Uploads : /\ hook'[w] = "sent" /\ why'[w] = "verdict" =>
                               hook[w] = "sent" /\ why[w] = "verdict"
                           /\ hook'[w] = "blocked" => hook[w] = "blocked"
    BY <1>1 DEF BrowserInv, BrowserTypes
  <1> QED  BY <1>1, <1>2, <1>3, <1>5, UnsettledStep

LEMMA WorkerDiesStep == ASSUME BrowserInv, WorkerDies PROVE BrowserInv'
  <1>0. Prompts \subseteq Requests /\ Uploads \subseteq Requests
    BY DEF Requests
  <1>1. /\ UNCHANGED <<flavor, page, read, files, stripped>>
        /\ req' = [r \in Requests |-> IF InWorker(r) THEN "done" ELSE req[r]]
        /\ verdict' = [r \in Requests |->
                         IF r \in Prompts /\ InWorker(r) THEN "block" ELSE verdict[r]]
        /\ hook' = [u \in Uploads |-> IF InWorker(u) /\ hook[u] = "waiting" THEN "sent" ELSE hook[u]]
        /\ why' = [u \in Uploads |-> IF InWorker(u) /\ hook[u] = "waiting" THEN "relay" ELSE why[u]]
    BY DEF WorkerDies
  <1>5. edits' \in Nat /\ BoxInOrder' /\ bypass' = bypass /\ sent' = sent
    BY <1>1, PageKept
  <1>2. BrowserTypes' /\ FileKept'
    BY <1>1, <1>5 DEF BrowserInv, BrowserTypes, FileKept, ScanStages, ScanVerdicts
  <1>3. \A u \in Uploads : /\ hook'[u] = "sent" /\ why'[u] = "verdict" =>
                               hook[u] = "sent" /\ why[u] = "verdict"
                           /\ hook'[u] = "blocked" => hook[u] = "blocked"
    BY <1>1
  <1>4. /\ \A r \in Requests : req[r] = "done" => req'[r] = "done" /\ verdict'[r] = verdict[r]
        /\ \A r \in Requests : req'[r] = "ask" => req[r] = "ask" /\ verdict'[r] = verdict[r]
    BY <1>1 DEF InWorker
  <1> QED  BY <1>1, <1>2, <1>3, <1>4, <1>5, UnsettledStep

LEMMA PostRejectedStep ==
  ASSUME BrowserInv, NEW r \in Requests, PostRejected(r) PROVE BrowserInv'
  <1>1. /\ req[r] = "post" /\ stripped' = stripped \cup ({r} \cap Uploads)
        /\ req' = [req EXCEPT ![r] = "register"] /\ files' = [files EXCEPT ![r] = FALSE]
        /\ UNCHANGED <<flavor, page, read, verdict, hook, why>>
    BY DEF PostRejected, upload
  <1>2. files \in [Requests -> BOOLEAN] /\ Uploads \subseteq Requests
    BY DEF BrowserInv, BrowserTypes, Requests
  <1>3. FileKept'
    BY <1>1, <1>2 DEF BrowserInv, FileKept
  <1>4. files' \in [Requests -> BOOLEAN]
    BY <1>1, <1>2
  <1>5. /\ req' \in [Requests -> ScanStages]
        /\ \A q \in Requests : req[q] = "done" => req'[q] = "done"
        /\ \A q \in Requests : req'[q] = "ask" => req[q] = "ask"
    BY <1>1 DEF BrowserInv, BrowserTypes, ScanStages
  <1>6. edits' \in Nat /\ BoxInOrder' /\ bypass' = bypass /\ sent' = sent
    BY <1>1, PageKept
  <1>7. BrowserTypes'
    BY <1>1, <1>4, <1>5, <1>6 DEF BrowserInv, BrowserTypes
  <1> QED  BY <1>1, <1>3, <1>5, <1>6, <1>7, UnsettledStep

LEMMA BrowserInvInit == Init => BrowserInv
  <1> SUFFICES ASSUME Init PROVE BrowserInv
    OBVIOUS
  <1>1. files \in [Requests -> BOOLEAN] /\ \A u \in Uploads : files[u]
    <2>1. files = [r \in Requests |-> r \in Uploads]
      BY DEF Init
    <2>2. \A r \in Requests : (r \in Uploads) \in BOOLEAN
      OBVIOUS
    <2>3. files \in [Requests -> BOOLEAN]
      BY <2>1, <2>2, Zenon
    <2> QED  BY <2>1, <2>3 DEF Requests
  <1>2. BrowserTypes
    BY <1>1 DEF Init, BrowserTypes, ScanStages, ScanVerdicts, Empty
  <1>3. BoxInOrder /\ SentIsFinal /\ AskedIsPermitted /\ FileKept /\ UploadIsFinal
    BY <1>1 DEF Init, BoxInOrder, Empty, SentIsFinal, AskedIsPermitted, FileKept, UploadIsFinal, Requests
  <1> QED  BY <1>2, <1>3 DEF BrowserInv

LEMMA BrowserInvStep == BrowserInv /\ [Next]_vars => BrowserInv'
  <1> SUFFICES ASSUME BrowserInv, [Next]_vars PROVE BrowserInv'
    OBVIOUS
  <1>0. req \in [Requests -> ScanStages] /\ hook \in [Uploads -> {"idle", "waiting", "sent", "blocked"}]
    BY DEF BrowserInv, BrowserTypes
  <1> edits \in Nat /\ read \in [Requests -> Nat] /\ box \in {Empty, edits}
      /\ \A r \in Requests : read[r] <= edits
    BY DEF BrowserInv, BrowserTypes, BoxInOrder
  <1>1. CASE Edit \/ ClearBypass \/ UNCHANGED vars
    <2>1. UNCHANGED <<flavor, sent, req, read, verdict, files, hook, why, stripped>>
      BY <1>1 DEF Edit, ClearBypass, vars, page, scan, upload
    <2>2. edits' \in Nat /\ BoxInOrder' /\ (bypass' => bypass)
      BY <1>1, <2>1 DEF Edit, ClearBypass, vars, page, BoxInOrder
    <2> QED  BY <1>0, <2>1, <2>2, MoveStep
  <1>2. CASE SubmitInBypass
    <2>1. /\ \A s \in sent' : s \in sent \/ (s.by = Page /\ bypass)
          /\ box' \in {box, Empty} /\ bypass' = bypass /\ edits' = edits /\ read' = read
      BY <1>2, SubmitAdds DEF SubmitInBypass, scan
    <2>2. BoxInOrder'
      BY <2>1 DEF BoxInOrder
    <2> QED  BY <1>0, <1>2, <2>1, <2>2, MoveStep DEF SubmitInBypass, scan, upload
  <1>3. CASE Disconnect
    <2>1. /\ req' \in [Requests -> ScanStages]
          /\ \A r \in Requests : req[r] = "done" => req'[r] = "done"
          /\ \A r \in Requests : req'[r] = "ask" => req[r] = "ask"
      BY <1>0, <1>3 DEF Disconnect, HttpStep, ScanStages
    <2> QED  BY <1>3, <2>1, PageKept, MoveStep DEF Disconnect, upload
  <1>4. ASSUME NEW p \in Prompts, Intercept(p) PROVE BrowserInv'
    <2>1. p \in Requests /\ req[p] = "idle" /\ Scan(p, box) /\ box \in Nat /\ box <= edits
          /\ UNCHANGED <<flavor, page, stripped, hook, why>>
      BY <1>4 DEF Intercept, upload, Requests, Empty
    <2> QED  BY <1>0, <2>1, ScanStep
  <1>5. ASSUME NEW u \in Uploads, Fetch(u) PROVE BrowserInv'
    <2>1. /\ u \in Requests /\ hook' = [hook EXCEPT ![u] = "waiting"] /\ Scan(u, Empty)
          /\ UNCHANGED <<flavor, page, stripped, why>> /\ hook[u] = "idle"
          /\ Empty \in Nat /\ Empty <= edits
      BY <1>5 DEF Fetch, Requests, Empty
    <2>2. /\ hook' \in [Uploads -> {"idle", "waiting", "sent", "blocked"}]
          /\ hook'[u] = "waiting"
          /\ \A w \in Uploads : hook'[w] = hook[w] \/ hook'[w] = "waiting"
      BY <1>0, <2>1
    <2> QED  BY <2>1, <2>2, ScanStep
  <1>6. ASSUME NEW r \in Requests, NativeTimeout(r) PROVE BrowserInv'
    <2>1. /\ req' \in [Requests -> ScanStages]
          /\ \A q \in Requests : req[q] = "done" => req'[q] = "done"
          /\ \A q \in Requests : req'[q] = "ask" => req[q] = "ask"
      BY <1>0, <1>6 DEF NativeTimeout, HttpStep, ScanStages
    <2> QED  BY <1>6, <2>1, PageKept, MoveStep DEF NativeTimeout, upload
  <1>7. ASSUME NEW r \in Requests, NEW ok \in BOOLEAN, RegisterDevice(r, ok) PROVE BrowserInv'
    <2>1. CASE ok
      <3>1. /\ req' \in [Requests -> ScanStages]
            /\ \A q \in Requests : req[q] = "done" => req'[q] = "done"
            /\ \A q \in Requests : req'[q] = "ask" => req[q] = "ask"
        BY <1>0, <1>7, <2>1 DEF RegisterDevice, ScanStages
      <3>2. UNCHANGED <<flavor, page, read, verdict, files, hook, why, stripped>>
        BY <1>7, <2>1 DEF RegisterDevice, upload
      <3> QED  BY <3>1, <3>2, PageKept, MoveStep
    <2>2. CASE ~ok
      BY <1>7, <2>2, HttpThrowsStep DEF RegisterDevice
    <2> QED  BY <2>1, <2>2
  <1>8. ASSUME NEW r \in Requests, PostFails(r) PROVE BrowserInv'
    BY <1>8, HttpThrowsStep DEF PostFails
  <1>9. ASSUME NEW r \in Requests, NEW v \in Verdicts, PostScan(r, v) \/ AppAnswer(r, v)
        PROVE  BrowserInv'
    <2>1. CASE PostScan(r, v)
      <3>1. /\ req[r] = "post" /\ Decided(r, v, TRUE) /\ UNCHANGED <<flavor, stripped>>
            /\ TRUE \in BOOLEAN
        BY <2>1 DEF PostScan
      <3> QED  BY <3>1, DecidedStep
    <2>2. CASE AppAnswer(r, v)
      <3>1. /\ req[r] = "app" /\ Decided(r, v, FALSE) /\ UNCHANGED <<flavor, stripped>>
            /\ FALSE \in BOOLEAN
        BY <2>2 DEF AppAnswer
      <3> QED  BY <3>1, DecidedStep
    <2> QED  BY <1>9, <2>1, <2>2
  <1>10. ASSUME NEW r \in Requests, NEW v \in Verdicts, NativeAnswer(r, v) PROVE BrowserInv'
    <2>1. CASE req[r] = "native"
      <3>1. Decided(r, v, FALSE) /\ UNCHANGED <<flavor, stripped>> /\ FALSE \in BOOLEAN
        BY <1>10, <2>1 DEF NativeAnswer
      <3> QED  BY <2>1, <3>1, DecidedStep
    <2>2. CASE req[r] # "native"
      BY <1>0, <1>10, <2>2, PageKept, MoveStep DEF NativeAnswer, scan, upload
    <2> QED  BY <2>1, <2>2
  <1> QED  BY <1>1, <1>2, <1>3, <1>4, <1>5, <1>6, <1>7, <1>8, <1>9, <1>10, ModalStep, HookStep,
              WorkerDiesStep, PostRejectedStep DEF Next, Progress

LEMMA BrowserInvHolds == Spec => []BrowserInv
  BY BrowserInvInit, BrowserInvStep, PTL DEF Spec

(* No submission without a decision: each one Gate.replay makes was itself  *)
(* permitted, with the text that was scanned or one typed later, and each   *)
(* that passes unread follows a permitted one, for any number of            *)
(* submissions of one box, edits, failing transports and dead workers.      *)
THEOREM ReplaysArePermitted == Spec => []SentWasPermitted
  <1>1. BrowserInv => SentWasPermitted
    BY DEF BrowserInv, SentIsFinal, SomePermitted, SentWasPermitted
  <1> QED  BY <1>1, BrowserInvHolds, PTL

(* The page hook releases an upload on a verdict only when the verdict lets *)
(* it and the file was in the scan (but for the two exceptions that         *)
(* UploadScanned names), and blocks one only on a blocking verdict.         *)
THEOREM UploadsAreScanned == Spec => []UploadScanned
  <1>1. BrowserInv => UploadScanned
    BY DEF BrowserInv, UploadIsFinal, FileKept, UploadScanned
  <1> QED  BY <1>1, BrowserInvHolds, PTL
================================================================================
