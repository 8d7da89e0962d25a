---------------------------- MODULE ConnectorClient ----------------------------
(***************************************************************************)
(* The connector SDK: ConnectorClient over XpcBridgeTransport, in one Node *)
(* event loop.  Concurrent safeScan calls share one client, one handshake, *)
(* one helper process, one table of pending correlation ids and one frame  *)
(* decoder.  The helper (xpc-bridge) answers in any order, or dies; the    *)
(* client may be closed at any time.                                       *)
(*                                                                         *)
(* Each caller makes one safeScan.  The handshake is a requester too, since *)
(* it runs the same invoke (withRetry around withTimeout around request).   *)
(* An event handler and the promise continuations it settles are one step: *)
(* Node runs the microtasks before the next event.                          *)
(***************************************************************************)
EXTENDS Naturals, FiniteSets

CONSTANTS Callers,      \* the safeScan calls
          Hello,        \* the handshake
          MaxAttempts,  \* retry.maxAttempts
          MaxCrashes,   \* bound: helpers that die unasked
          MaxCloses     \* bound: calls of close()

ASSUME ClientAssumption ==
  /\ IsFiniteSet(Callers) /\ Hello \notin Callers
  /\ MaxAttempts \in Nat \ {0} /\ MaxCrashes \in Nat /\ MaxCloses \in Nat

Requesters == Callers \cup {Hello}
Children == 1..Cardinality(Callers)   \* a caller starts at most one handshake, a handshake one helper
NoChild == 0

VARIABLES negotiated,   \* the client holds a NegotiatedVersion
          pc,           \* where each call stands
          attempt,      \* attempts the call's withRetry has made
          tries,        \* attempts ever made: with the requester, the correlation id
          outcome,      \* what safeScan gave its caller
          child,        \* transport.child
          pending,      \* transport.pending: correlation ids
          dirty,        \* the decoder holds part of a frame of a dead helper
          proc,         \* the helper processes
          stdin, stdout,\* frames written and not yet read, either way
          evaluated,    \* times the daemon evaluated (and audited) each scan
          crashes, closes,
          deadline,     \* timeoutMs > 0
          exited        \* the host process has ended

client == <<negotiated, pc, attempt, tries, outcome>>
pipes == <<stdin, stdout>>
bounds == <<crashes, closes>>
host == <<deadline, exited>>
vars == <<client, child, pending, dirty, proc, pipes, evaluated, bounds, host>>

Init ==
  /\ negotiated = FALSE
  /\ pc = [r \in Requesters |-> "idle"]
  /\ attempt = [r \in Requesters |-> 0]
  /\ tries = [r \in Requesters |-> 0]
  /\ outcome = [r \in Callers |-> "none"]
  /\ child = NoChild /\ pending = {} /\ dirty = FALSE
  /\ proc = [c \in Children |-> "unborn"]
  /\ stdin = {} /\ stdout = {}
  /\ evaluated = [r \in Callers |-> 0]
  /\ crashes = 0 /\ closes = 0
  /\ deadline \in BOOLEAN /\ exited = FALSE
-----------------------------------------------------------------------------
(* The error taxonomy. *)
isRetryable(e) == e \in {"TRANSPORT", "NOT_CONNECTED"}

(* Faulty variant: a write is retried like a read. *)
isWriteRetryableAsRead(e) == isRetryable(e)

isWriteRetryable(e) == e = "NOT_CONNECTED"

isAvailabilityError(e) ==
  e \in {"TIMEOUT", "NOT_CONNECTED", "TRANSPORT", "RETRY_EXHAUSTED", "UNAVAILABLE"}

(* Faulty variant: an unreachable engine counts as a decision to go on. *)
safeScanOpen(e) == IF isAvailabilityError(e) THEN "decision" ELSE "threw"

(* The catch of safeScan: a synthetic decision, or the error again. *)
safeScan(e) == IF isAvailabilityError(e) THEN "fallback" ELSE "threw"

Retryable(r, e) == IF r = Hello THEN isRetryable(e) ELSE isWriteRetryable(e)

(* Faulty variant: one attempt too many. *)
RetriesOnceMore(r, e) == Retryable(r, e) /\ attempt'[r] <= MaxAttempts

(* withRetry catches e: it sleeps and tries again, or throws. *)
Retries(r, e) == Retryable(r, e) /\ attempt'[r] < MaxAttempts
Thrown(r, e) == IF Retryable(r, e) THEN "RETRY_EXHAUSTED" ELSE e

(* The attempts of R fail with e.  When the handshake throws, connecting is *)
(* reset and everyone who awaits it gets its error.  at is pc before.       *)
Fail(R, e, at) ==
  LET handshakeThrows == Hello \in R /\ ~Retries(Hello, e)
      waiting == {r \in Callers : at[r] = "waiting" /\ handshakeThrows}
      over == {r \in R \cap Callers : ~Retries(r, e)}
  IN /\ pc' = [r \in Requesters |->
                 CASE r \in waiting \cup over -> "done"
                   [] r = Hello /\ handshakeThrows -> "idle"
                   [] r \in R /\ Retries(r, e) -> "backoff"
                   [] OTHER -> at[r]]
     /\ outcome' = [r \in Callers |->
                      CASE r \in over -> safeScan(Thrown(r, e))
                        [] r \in waiting -> safeScan(Thrown(Hello, e))
                        [] OTHER -> outcome[r]]
-----------------------------------------------------------------------------
(* transport.request with helper c for every member of R, first attempt or   *)
(* retry: each gets a new id, pending beside ids, and its frame is written.  *)
Attempts(R, first) ==
  [r \in Requesters |-> IF r \notin R THEN attempt[r] ELSE IF first THEN 1 ELSE attempt[r] + 1]

Send(R, first, c, ids, at) ==
  /\ attempt' = Attempts(R, first)
  /\ tries' = [r \in Requesters |-> IF r \in R THEN tries[r] + 1 ELSE tries[r]]
  /\ pc' = [r \in Requesters |-> IF r \in R THEN "sent" ELSE at[r]]
  /\ pending' = ids \cup {<<r, tries'[r]>> : r \in R}
  /\ stdin' = stdin \cup {[req |-> r, try |-> tries'[r], to |-> c] : r \in R}
  /\ UNCHANGED outcome

(* transport.request throws at once when there is no child. *)
Request(r, first) ==
  \/ /\ child # NoChild
     /\ Send({r}, first, child, pending, pc)
  \/ /\ child = NoChild
     /\ attempt' = Attempts({r}, first)
     /\ Fail({r}, "NOT_CONNECTED", pc)
     /\ UNCHANGED <<tries, pending, stdin>>

(* safeScan, scan, ensureConnected. *)
ScanConnected(r) ==
  /\ pc[r] = "idle" /\ negotiated
  /\ Request(r, TRUE)
  /\ UNCHANGED <<negotiated, child, dirty, proc, stdout, evaluated, bounds>>

(* connect() while another caller's handshake is in flight. *)
ScanJoins(r) ==
  /\ pc[r] = "idle" /\ ~negotiated /\ pc[Hello] # "idle"
  /\ pc' = [pc EXCEPT ![r] = "waiting"]
  /\ UNCHANGED <<negotiated, attempt, tries, outcome, child, pending, dirty, proc, pipes,
                 evaluated, bounds>>

(* connect() starts the handshake: transport.connect spawns a helper unless *)
(* there is one, and then hello is requested.                               *)
ScanConnects(r) ==
  /\ pc[r] = "idle" /\ ~negotiated /\ pc[Hello] = "idle"
  /\ \/ /\ child = NoChild
        /\ pc' = [pc EXCEPT ![r] = "waiting", ![Hello] = "spawning"]
        /\ UNCHANGED <<attempt, tries, outcome, pending, stdin>>
     \/ /\ child # NoChild
        /\ Send({Hello}, TRUE, child, pending, [pc EXCEPT ![r] = "waiting"])
  /\ UNCHANGED <<negotiated, child, dirty, proc, stdout, evaluated, bounds>>

(* The helper has started: this.child is assigned and hello requested. *)
Spawned ==
  /\ pc[Hello] = "spawning"
  /\ \E c \in Children :
       /\ proc[c] = "unborn" /\ \A b \in Children : b < c => proc[b] # "unborn"
       /\ proc' = [proc EXCEPT ![c] = "alive"]
       /\ child' = c
       /\ Send({Hello}, TRUE, c, pending, pc)
  /\ UNCHANGED <<negotiated, dirty, stdout, evaluated, bounds>>

(* The helper does not start: connect() rejects with a TransportError that  *)
(* no withRetry sees.                                                        *)
SpawnFails ==
  /\ pc[Hello] = "spawning"
  /\ pc' = [r \in Requesters |-> CASE r = Hello -> "idle"
                                   [] pc[r] = "waiting" -> "done"
                                   [] OTHER -> pc[r]]
  /\ outcome' = [r \in Callers |-> IF pc[r] = "waiting" THEN safeScan("TRANSPORT")
                                                        ELSE outcome[r]]
  /\ UNCHANGED <<negotiated, attempt, tries, child, pending, dirty, proc, pipes, evaluated, bounds>>

(* The backoff of withRetry elapses: request again, on whatever child there is. *)
Retry(r) ==
  /\ pc[r] = "backoff"
  /\ Request(r, FALSE)
  /\ UNCHANGED <<negotiated, child, dirty, proc, stdout, evaluated, bounds>>
-----------------------------------------------------------------------------
(* Bridge replies.  A scan that is answered with a decision was evaluated;  *)
(* one that the bridge timed out or lost over XPC may have been.  hello is  *)
(* answered by the bridge itself.                                           *)
Codes(r) == IF r = Hello THEN {"ok", "REMOTE"}
            ELSE {"ok", "REMOTE", "UNAVAILABLE", "NOT_CONNECTED", "TIMEOUT", "TRANSPORT"}
Effects(code) == CASE code = "ok" -> {1}
                   [] code \in {"TIMEOUT", "TRANSPORT"} -> {0, 1}
                   [] OTHER -> {0}

(* The helper handles one request; a helper told to stop still may. *)
HelperAnswers(m) ==
  /\ m \in stdin /\ proc[m.to] \in {"alive", "killed"}
  /\ stdin' = stdin \ {m}
  /\ \E code \in Codes(m.req) :
       /\ stdout' = stdout \cup {[req |-> m.req, try |-> m.try, from |-> m.to, code |-> code]}
       /\ IF m.req = Hello THEN UNCHANGED evaluated
          ELSE \E n \in Effects(code) : evaluated' = [evaluated EXCEPT ![m.req] = @ + n]
  /\ UNCHANGED <<client, child, pending, dirty, proc, bounds>>

(* The helper dies, perhaps in the middle of writing a reply. *)
HelperDies(c) ==
  /\ \/ proc[c] = "killed" /\ UNCHANGED crashes
     \/ proc[c] = "alive" /\ crashes < MaxCrashes /\ crashes' = crashes + 1
  /\ proc' = [proc EXCEPT ![c] = "dead"]
  /\ \/ UNCHANGED stdout
     \/ \E m \in stdout : /\ m.from = c
                          /\ stdout' = (stdout \ {m}) \cup {[m EXCEPT !.code = "partial"]}
  /\ UNCHANGED <<client, child, pending, dirty, stdin, evaluated, closes>>

PendingRequesters == {r \in Requesters : <<r, tries[r]>> \in pending}

(* A frame written to a helper that is gone: the write callback's error. *)
WriteFails(m) ==
  /\ m \in stdin /\ proc[m.to] = "dead"
  /\ stdin' = stdin \ {m}
  /\ attempt' = attempt
  /\ IF <<m.req, m.try>> \in pending
     THEN pending' = pending \ {<<m.req, m.try>>} /\ Fail({m.req}, "TRANSPORT", pc)
     ELSE UNCHANGED <<pending, pc, outcome>>
  /\ UNCHANGED <<negotiated, tries, child, dirty, proc, stdout, evaluated, bounds>>

(* Node delivers the exit event, of whichever helper it is. *)
onExit(c) ==
  /\ proc[c] = "dead"
  /\ proc' = [proc EXCEPT ![c] = "reaped"]
  /\ stdin' = {m \in stdin : m.to # c}
  /\ child' = NoChild
  /\ pending' = {}
  /\ attempt' = attempt
  /\ Fail(PendingRequesters, "TRANSPORT", pc)
  /\ UNCHANGED <<negotiated, tries, dirty, stdout, evaluated, bounds>>
-----------------------------------------------------------------------------
(* dispatch: the reply settles the pending request with its id, if any. *)
dispatch(m) ==
  IF <<m.req, m.try>> \notin pending
  THEN UNCHANGED <<negotiated, pc, attempt, tries, outcome, pending, stdin>>
  ELSE CASE m.code # "ok" ->
              /\ attempt' = attempt
              /\ pending' = pending \ {<<m.req, m.try>>}
              /\ Fail({m.req}, m.code, pc)
              /\ UNCHANGED <<negotiated, tries, stdin>>
         [] m.code = "ok" /\ m.req # Hello ->
              /\ pending' = pending \ {<<m.req, m.try>>}
              /\ pc' = [pc EXCEPT ![m.req] = "done"]
              /\ outcome' = [outcome EXCEPT ![m.req] = "decision"]
              /\ UNCHANGED <<negotiated, attempt, tries, stdin>>
         [] m.code = "ok" /\ m.req = Hello ->
              /\ negotiated' = TRUE
              /\ Send({r \in Callers : pc[r] = "waiting"}, TRUE, child,
                      pending \ {<<m.req, m.try>>}, [pc EXCEPT ![Hello] = "idle"])

(* Frames of one helper come in the order written: the torn one last. *)
Readable(m) == m \in stdout /\ (m.code = "partial" => \A n \in stdout : n.from = m.from => n = m)

kill(p) == [c \in Children |-> IF c = child /\ p[c] = "alive" THEN "killed" ELSE p[c]]

(* onStdout with the decoder on a frame boundary. *)
onStdout(m) ==
  /\ Readable(m) /\ ~dirty
  /\ stdout' = stdout \ {m}
  /\ IF m.code = "partial"
     THEN dirty' = TRUE /\ UNCHANGED <<client, pending, stdin>>
     ELSE dispatch(m) /\ UNCHANGED dirty
  /\ UNCHANGED <<child, proc, evaluated, bounds>>

(* onStdout with a torn frame in the decoder: the new bytes complete it.    *)
(* Not enough of them, and they are swallowed; enough, and the body does    *)
(* not parse: everything in flight fails and the transport closes.          *)
onStdoutTorn(m) ==
  /\ Readable(m) /\ dirty
  /\ stdout' = stdout \ {m}
  /\ \/ UNCHANGED <<client, child, pending, dirty, proc>>
     \/ /\ dirty' \in BOOLEAN
        /\ child' = NoChild /\ proc' = kill(proc)
        /\ pending' = {}
        /\ attempt' = attempt
        /\ Fail(PendingRequesters, "VALIDATION", pc)
        /\ UNCHANGED <<negotiated, tries>>
  /\ UNCHANGED <<stdin, evaluated, bounds>>

(* Faulty variant: the deadline leaves the correlation id behind. *)
TimeoutKeepsId(r) ==
  /\ pc[r] = "sent" /\ deadline
  /\ attempt' = attempt
  /\ Fail({r}, "TIMEOUT", pc)
  /\ UNCHANGED <<negotiated, tries, child, pending, dirty, proc, pipes, evaluated, bounds>>

(* Faulty variant: only scans have a deadline. *)
TimeoutScansOnly(r) ==
  /\ pc[r] = "sent" /\ deadline /\ r # Hello
  /\ pending' = pending \ {<<r, tries[r]>>}
  /\ attempt' = attempt
  /\ Fail({r}, "TIMEOUT", pc)
  /\ UNCHANGED <<negotiated, tries, child, dirty, proc, pipes, evaluated, bounds>>

(* withTimeout: the deadline, if there is one, passes; the request is        *)
(* aborted and forgotten.                                                    *)
Timeout(r) ==
  /\ pc[r] = "sent" /\ deadline
  /\ pending' = pending \ {<<r, tries[r]>>}
  /\ attempt' = attempt
  /\ Fail({r}, "TIMEOUT", pc)
  /\ UNCHANGED <<negotiated, tries, child, dirty, proc, pipes, evaluated, bounds>>

(* ConnectorClient.close and XpcBridgeTransport.close. *)
close ==
  /\ closes < MaxCloses /\ closes' = closes + 1
  /\ negotiated' = FALSE
  /\ child' = NoChild /\ proc' = kill(proc)
  /\ pending' = {}
  /\ attempt' = attempt
  /\ Fail(PendingRequesters, "NOT_CONNECTED", pc)
  /\ UNCHANGED <<tries, dirty, pipes, evaluated, crashes>>

(* The process is there, and stays. *)
Running == ~exited /\ UNCHANGED host

(* Neither the backoff's timer nor the deadline's keeps Node's event loop    *)
(* alive: a host that has nothing else to do exits as soon as no helper is   *)
(* being spawned, runs or still has output to read.                          *)
LoopEnds ==
  /\ ~exited /\ exited' = TRUE
  /\ pc[Hello] # "spawning" /\ stdout = {}
  /\ \A c \in Children : proc[c] \in {"unborn", "reaped"}
  /\ UNCHANGED <<client, child, pending, dirty, proc, pipes, evaluated, bounds, deadline>>

Step ==
  \/ \E r \in Callers : ScanConnected(r) \/ ScanJoins(r) \/ ScanConnects(r)
  \/ Spawned \/ SpawnFails
  \/ \E r \in Requesters : Retry(r) \/ Timeout(r)
  \/ \E m \in stdin : HelperAnswers(m) \/ WriteFails(m)
  \/ \E c \in Children : HelperDies(c) \/ onExit(c)
  \/ \E m \in stdout : onStdout(m) \/ onStdoutTorn(m)
  \/ close

Next == (Step /\ Running) \/ LoopEnds

Spec == Init /\ [][Next]_vars

(* While the process runs, timers fire, a spawn has an outcome and events    *)
(* are delivered.  Nothing is assumed of a helper except that, killed, it    *)
(* dies, nor of the host that it stays.                                      *)
FairSpec ==
  /\ Spec
  /\ \A r \in Callers :
       WF_vars((ScanConnected(r) \/ ScanJoins(r) \/ ScanConnects(r)) /\ Running)
  /\ \A r \in Requesters : WF_vars(Retry(r) /\ Running) /\ WF_vars(Timeout(r) /\ Running)
  /\ WF_vars((Spawned \/ SpawnFails) /\ Running)
  /\ \A c \in Children : /\ WF_vars(onExit(c) /\ Running)
                         /\ WF_vars(proc[c] = "killed" /\ HelperDies(c) /\ Running)
-----------------------------------------------------------------------------
Ids == Requesters \X (1..(MaxAttempts * Cardinality(Callers)))
AllCodes == Codes(Hello) \cup UNION {Codes(r) : r \in Callers} \cup {"partial"}

(* Type invariant of the client, the transport and the helpers; a withRetry *)
(* makes at most maxAttempts attempts.                                      *)
TypeOK ==
  /\ negotiated \in BOOLEAN /\ dirty \in BOOLEAN
  /\ pc \in [Requesters -> {"idle", "waiting", "spawning", "sent", "backoff", "done"}]
  /\ attempt \in [Requesters -> 0..MaxAttempts]
  /\ tries \in [Requesters -> 0..(MaxAttempts * Cardinality(Callers))]
  /\ outcome \in [Callers -> {"none", "decision", "fallback", "threw"}]
  /\ child \in Children \cup {NoChild}
  /\ pending \subseteq Ids
  /\ proc \in [Children -> {"unborn", "alive", "killed", "dead", "reaped"}]
  /\ \A m \in stdin : <<m.req, m.try>> \in Ids /\ m.to \in Children
  /\ \A m \in stdout : <<m.req, m.try>> \in Ids /\ m.from \in Children /\ m.code \in AllCodes
  /\ evaluated \in [Callers -> 0..MaxAttempts]
  /\ crashes \in 0..MaxCrashes /\ closes \in 0..MaxCloses
  /\ deadline \in BOOLEAN /\ exited \in BOOLEAN

(* transport.pending holds exactly the ids that a live attempt awaits:      *)
(* timeouts, exits, closes and torn frames leave no id behind, and no call  *)
(* awaits an id that nothing can settle.                                    *)
PendingMatches == pending = {<<r, tries[r]>> : r \in {q \in Requesters : pc[q] = "sent"}}

(* A decision that safeScan returns (rather than its fail-closed fallback)  *)
(* is the engine's decision on this very request: no late, foreign or       *)
(* erroneous reply is taken for one.                                        *)
DecisionIsReal == \A r \in Callers : outcome[r] = "decision" => evaluated[r] > 0

(* "A write is not auto-retried after it may have reached the daemon": the  *)
(* daemon evaluates, and audits, a scan at most once.                       *)
EvaluatedOnce == \A r \in Callers : evaluated[r] <= 1

(* It does so as long as the client is not closed, however helpers crash    *)
(* and requests time out around the retries of safeScan.                    *)
AtMostOnce == closes = 0 => EvaluatedOnce

(* A safeScan of a client with a deadline ends: with a decision, a fallback  *)
(* or an error.  Only a host that exits leaves it without an end, and only   *)
(* while it, or the handshake it awaits, sleeps between two attempts:        *)
(* retry.ts unrefs the timer it sleeps on, and nothing else is left then.    *)
Settles ==
  \A r \in Callers :
    (deadline /\ pc[r] # "idle")
      ~> \/ outcome[r] # "none"
         \/ exited /\ (pc[r] = "backoff" \/ (pc[r] = "waiting" /\ pc[Hello] = "backoff"))

(* "No active connection. Retryable (a reconnect may succeed)": a client    *)
(* that has lost its helper, and is asked for a scan, starts another.       *)
Reconnects ==
  (negotiated /\ child = NoChild /\ \E r \in Callers : pc[r] = "idle") ~> (child # NoChild)
=============================================================================
