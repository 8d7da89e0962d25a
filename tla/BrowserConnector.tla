--------------------------- MODULE BrowserConnector ---------------------------
(***************************************************************************)
(* The browser extension on one page of a chat site.  The content script's *)
(* Gate stops a submission, has its text scanned and replays it; the page  *)
(* hook holds back uploads until a verdict or a time-out; the background   *)
(* worker scans over the transports of its build, the native host first    *)
(* and the HTTP backend when that fails.                                   *)
(*                                                                         *)
(* Handlers run to their next await; answers, time-outs, disconnections,   *)
(* the death of the worker and the user's edits come in any order.         *)
(***************************************************************************)
EXTENDS Naturals, FiniteSets

CONSTANTS Prompts, Uploads,   \* submissions and uploads made on the page
          MaxEdits,           \* bound: times the user changes the text
          MaxKills            \* bound: deaths of the background worker

ASSUME BrowserAssumption ==
  /\ IsFiniteSet(Prompts) /\ IsFiniteSet(Uploads) /\ Prompts \cap Uploads = {}
  /\ MaxEdits \in Nat /\ MaxKills \in Nat

Requests == Prompts \cup Uploads
Page == "page"          \* a submission that no decision stands behind
Empty == 0              \* the input box without text; its other values number the user's edits

VARIABLES flavor,                 \* the build: which transports it has
          box, edits,             \* the site's input box
          bypass, timers,         \* Gate.bypass, and the timeouts that will reset it
          req,                    \* where each scan stands
          read,                   \* the text it was asked about
          verdict,                \* its decision
          tries, files,           \* HTTP attempts; whether the request still carries the file
          port, host,             \* NativeBridge.port; requests the native host has
          registered,             \* a device token is stored
          hook, why,              \* each upload in the page hook, and why it was let through
          sent,                   \* what the site received
          stripped,               \* history: uploads whose scan was repeated without the file
          kills

page == <<box, edits, bypass, timers, sent>>
scan == <<req, read, verdict, tries, files>>
native == <<port, host>>
upload == <<hook, why>>
vars == <<flavor, page, scan, native, registered, upload, stripped, kills>>

Init ==
  /\ flavor \in {"chromium", "safari"}
  /\ box = Empty /\ edits = 0 /\ bypass = FALSE /\ timers = 0 /\ sent = {}
  /\ req = [r \in Requests |-> "idle"] /\ read = [r \in Requests |-> Empty]
  /\ verdict = [r \in Requests |-> "none"]
  /\ tries = [r \in Requests |-> 0] /\ files = [r \in Requests |-> r \in Uploads]
  /\ port = FALSE /\ host = {} /\ registered = FALSE
  /\ hook = [u \in Uploads |-> "idle"] /\ why = [u \in Uploads |-> "none"]
  /\ stripped = {} /\ kills = 0
-----------------------------------------------------------------------------
(* The user. *)
InWorker(r) == req[r] \in {"native", "app", "register", "post"}

Edit ==
  /\ edits < MaxEdits
  /\ edits' = edits + 1 /\ box' = edits + 1
  /\ UNCHANGED <<flavor, bypass, timers, sent, scan, native, registered, upload, stripped, kills>>

(* adapter.submit: the site takes the text and empties the box; without a  *)
(* send button, or with an empty box, nothing happens.                     *)
Submit(by) ==
  \/ /\ box # Empty
     /\ sent' = sent \cup {[by |-> by, text |-> box]} /\ box' = Empty
  \/ UNCHANGED <<sent, box>>

(* Gate.onKeydown and onClick while the bypass token is set. *)
SubmitInBypass ==
  /\ bypass /\ box # Empty /\ Submit(Page)
  /\ UNCHANGED <<flavor, edits, bypass, timers, scan, native, registered, upload, stripped, kills>>

(* Faulty variant: the native host is asked about uploads as well. *)
FirstStepNativeFiles(r) ==
  IF flavor = "safari" THEN "app" ELSE "native"

(* scanThroughTransports: the first transport that takes the request. The  *)
(* native one refuses files.  (Safari's development build has HTTP alone,  *)
(* like Chromium without a host.)                                          *)
FirstStep(r) ==
  IF flavor = "safari" THEN "app" ELSE IF r \in Uploads THEN "http" ELSE "native"

(* HttpBackendTransport.scan: scanViaHttp registers the device first when *)
(* no token is stored.                                                     *)
HttpStep == IF registered THEN "post" ELSE "register"

(* handleScan, handleScanFile.  Only the HTTP transport sends the file.    *)
Scan(r, text) ==
  /\ read' = [read EXCEPT ![r] = text]
  /\ \/ /\ req' = [req EXCEPT ![r] = IF FirstStep(r) = "http" THEN HttpStep ELSE FirstStep(r)]
        /\ files' = [files EXCEPT ![r] = @ /\ FirstStep(r) = "http"]
        /\ IF FirstStep(r) = "native" THEN port' = TRUE /\ host' = host \cup {r} ELSE UNCHANGED native
     \/ /\ FirstStep(r) = "native"        \* ensurePort or postMessage throws
        /\ req' = [req EXCEPT ![r] = HttpStep] /\ UNCHANGED <<native, files>>
  /\ UNCHANGED <<verdict, tries>>

(* Gate.intercept: the text is read, the event stopped. *)
Intercept(p) ==
  /\ req[p] = "idle" /\ ~bypass /\ box # Empty
  /\ Scan(p, box)
  /\ UNCHANGED <<flavor, page, registered, upload, stripped, kills>>

(* Faulty variant: above the threshold the user is asked too. *)
OutcomeAsking(v, viaHttp) ==
  CASE v = "allow" -> "send" [] v = "block" -> "stop"
    [] v = "low" /\ ~viaHttp -> "send" [] OTHER -> "ask"

(* Gate.decide.  An HTTP decision has a score, and a low one asks; other   *)
(* transports give a risk level, and a low one is sent with a notice.      *)
Outcome(v, viaHttp) ==
  CASE v = "allow" -> "send"
    [] v \in {"block", "high"} -> "stop"
    [] v = "low" /\ ~viaHttp -> "send"
    [] OTHER -> "ask"

(* Gate.replay. *)
Replay(p) ==
  /\ Submit(p) /\ bypass' = TRUE /\ timers' = timers + 1
  /\ UNCHANGED edits

ClearBypass ==
  /\ timers > 0 /\ timers' = timers - 1 /\ bypass' = FALSE
  /\ UNCHANGED <<flavor, box, edits, sent, scan, native, registered, upload, stripped, kills>>

(* shouldBlockUpload: a warning blocks by its score, which only HTTP gives. *)
BlocksUpload(v, viaHttp) == v = "block" \/ (v = "high" /\ viaHttp)

(* The hook resolves an upload that still waits; a later verdict finds no  *)
(* pending entry.                                                          *)
ResolveUpload(u, allow, reason) ==
  IF hook[u] = "waiting"
  THEN /\ hook' = [hook EXCEPT ![u] = IF allow THEN "sent" ELSE "blocked"]
       /\ why' = [why EXCEPT ![u] = reason]
  ELSE UNCHANGED upload

(* A decision reaches whoever asked. *)
Decided(r, v, viaHttp) ==
  /\ verdict' = [verdict EXCEPT ![r] = IF v \in {"allow", "low", "medium"} THEN "permit" ELSE v]
  /\ IF r \in Uploads
     THEN /\ req' = [req EXCEPT ![r] = "done"]
          /\ ResolveUpload(r, ~BlocksUpload(v, viaHttp), "verdict") /\ UNCHANGED page
     ELSE LET o == Outcome(v, viaHttp)
          IN /\ req' = [req EXCEPT ![r] = IF o = "ask" THEN "ask" ELSE "done"]
             /\ IF o = "send" THEN Replay(r) ELSE UNCHANGED page
             /\ UNCHANGED upload
  /\ tries' = [tries EXCEPT ![r] = 0] /\ UNCHANGED <<read, files>>

(* showWarnModal: "Send anyway", or cancel. *)
AnswerModal(p, proceed) ==
  /\ req[p] = "ask" /\ req' = [req EXCEPT ![p] = "done"]
  /\ IF proceed THEN Replay(p) /\ UNCHANGED verdict
                ELSE UNCHANGED page /\ verdict' = [verdict EXCEPT ![p] = "cancelled"]
  /\ UNCHANGED <<flavor, read, tries, files, native, registered, upload, stripped, kills>>
-----------------------------------------------------------------------------
(* The native transport.  The host answers every scan it reads, an error   *)
(* of the agent with a block; an answer nobody waits for is dropped.       *)
NativeAnswer(r, v) ==
  /\ r \in host /\ host' = host \ {r}
  /\ IF req[r] = "native" THEN Decided(r, v, FALSE) ELSE UNCHANGED <<page, scan, upload>>
  /\ UNCHANGED <<flavor, port, registered, stripped, kills>>

(* Faulty variant: the entry is deleted and its promise never settled. *)
NativeTimeoutLost(r) ==
  /\ req[r] = "native" /\ req' = [req EXCEPT ![r] = "lost"]
  /\ UNCHANGED <<flavor, page, read, verdict, tries, files, native, registered, upload, stripped, kills>>

NativeTimeout(r) ==
  /\ req[r] = "native" /\ req' = [req EXCEPT ![r] = HttpStep]
  /\ UNCHANGED <<flavor, page, read, verdict, tries, files, native, registered, upload, stripped, kills>>

(* NativeBridge.onDisconnect: every pending request fails over. *)
Disconnect ==
  /\ port /\ port' = FALSE /\ host' = {}
  /\ req' = [r \in Requests |-> IF req[r] = "native" THEN HttpStep ELSE req[r]]
  /\ UNCHANGED <<flavor, page, read, verdict, tries, files, registered, upload, stripped, kills>>

(* SafariAppTransport: a decision, or an error, which is the last resort's block. *)
AppAnswer(r, v) ==
  /\ req[r] = "app" /\ Decided(r, v, FALSE)
  /\ UNCHANGED <<flavor, native, registered, stripped, kills>>
-----------------------------------------------------------------------------
(* The first exception registers again and repeats the scan, file and all; *)
(* a second one leaves failClosedBlock.                                    *)
HttpThrows(r) ==
  IF tries[r] = 0
  THEN /\ req' = [req EXCEPT ![r] = "register"] /\ tries' = [tries EXCEPT ![r] = 1]
       /\ files' = [files EXCEPT ![r] = r \in Uploads]
       /\ UNCHANGED <<page, read, verdict, upload>>
  ELSE Decided(r, "block", TRUE)

RegisterDevice(r, ok) ==
  /\ req[r] = "register"
  /\ IF ok THEN /\ registered' = TRUE /\ req' = [req EXCEPT ![r] = "post"]
                /\ UNCHANGED <<page, read, verdict, tries, files, upload>>
           ELSE HttpThrows(r) /\ UNCHANGED registered
  /\ UNCHANGED <<flavor, native, stripped, kills>>

PostScan(r, v) ==
  /\ req[r] = "post" /\ Decided(r, v, TRUE)
  /\ UNCHANGED <<flavor, native, registered, stripped, kills>>

(* 401 or 403: the device registers again and the scan is repeated without *)
(* its files argument, as often as the backend rejects it.                 *)
PostRejected(r) ==
  /\ req[r] = "post" /\ stripped' = stripped \cup ({r} \cap Uploads)
  /\ req' = [req EXCEPT ![r] = "register"] /\ files' = [files EXCEPT ![r] = FALSE]
  /\ UNCHANGED <<flavor, page, read, verdict, tries, native, registered, upload, kills>>

PostFails(r) ==
  /\ req[r] = "post" /\ HttpThrows(r)
  /\ UNCHANGED <<flavor, native, registered, stripped, kills>>
-----------------------------------------------------------------------------
(* The page hook: patchedFetch asks the relay, and waits VERDICT_TIMEOUT_MS. *)
Fetch(u) ==
  /\ hook[u] = "idle" /\ hook' = [hook EXCEPT ![u] = "waiting"] /\ Scan(u, Empty)
  /\ UNCHANGED <<flavor, page, why, registered, stripped, kills>>

FetchUnscanned(u) ==        \* above MAX_UPLOAD_BYTES
  /\ hook[u] = "idle" /\ hook' = [hook EXCEPT ![u] = "sent"] /\ why' = [why EXCEPT ![u] = "large"]
  /\ UNCHANGED <<flavor, page, scan, native, registered, stripped, kills>>

HookTimeout(u) ==
  /\ hook[u] = "waiting" /\ ResolveUpload(u, TRUE, "timeout")
  /\ UNCHANGED <<flavor, page, scan, native, registered, stripped, kills>>

(* The browser ends the worker: sendMessage rejects.  The gate stops the   *)
(* prompt, the relay lets the upload through.                              *)
WorkerDies ==
  /\ kills < MaxKills /\ kills' = kills + 1
  /\ \E r \in Requests : InWorker(r)
  /\ req' = [r \in Requests |-> IF InWorker(r) THEN "done" ELSE req[r]]
  /\ verdict' = [r \in Requests |-> IF r \in Prompts /\ InWorker(r) THEN "block" ELSE verdict[r]]
  /\ LET let == {u \in Uploads : InWorker(u) /\ hook[u] = "waiting"}
     IN /\ hook' = [u \in Uploads |-> IF u \in let THEN "sent" ELSE hook[u]]
        /\ why' = [u \in Uploads |-> IF u \in let THEN "relay" ELSE why[u]]
  /\ port' = FALSE /\ host' = {}
  /\ tries' = [r \in Requests |-> 0]
  /\ UNCHANGED <<flavor, page, read, files, registered, stripped>>

Verdicts == {"allow", "block", "low", "medium", "high"}

Progress(r) ==
  \/ NativeTimeout(r) \/ PostFails(r) \/ \E ok \in BOOLEAN : RegisterDevice(r, ok)
  \/ \E v \in Verdicts : PostScan(r, v) \/ AppAnswer(r, v)

Next ==
  \/ Edit \/ SubmitInBypass \/ ClearBypass \/ Disconnect \/ WorkerDies
  \/ \E p \in Prompts : Intercept(p) \/ \E yes \in BOOLEAN : AnswerModal(p, yes)
  \/ \E r \in Requests : Progress(r) \/ PostRejected(r) \/ \E v \in Verdicts : NativeAnswer(r, v)
  \/ \E u \in Uploads : Fetch(u) \/ FetchUnscanned(u) \/ HookTimeout(u)

Spec == Init /\ [][Next]_vars

(* Timers fire, and the browser ends every HTTP or application request,    *)
(* for which the extension has no time-out.                                *)
FairSpec ==
  /\ Spec /\ \A r \in Requests : WF_vars(Progress(r))
  /\ \A u \in Uploads : WF_vars(HookTimeout(u))
-----------------------------------------------------------------------------
TypeOK ==
  /\ box \in 0..MaxEdits /\ edits \in 0..MaxEdits /\ bypass \in BOOLEAN /\ timers \in Nat
  /\ req \in [Requests -> {"idle", "native", "app", "register", "post", "ask", "done"}]
  /\ verdict \in [Requests -> {"none", "permit", "high", "block", "cancelled"}]
  /\ tries \in [Requests -> 0..1] /\ files \in [Requests -> BOOLEAN]
  /\ port \in BOOLEAN /\ host \subseteq Requests /\ registered \in BOOLEAN
  /\ hook \in [Uploads -> {"idle", "waiting", "sent", "blocked"}]
  /\ sent \subseteq [by : Prompts \cup {Page}, text : 1..MaxEdits]

(* The decision on the submission itself, which is final. *)
Permitted(p) == req[p] = "done" /\ verdict[p] = "permit"

(* No submission without a decision: each one the gate replays was itself  *)
(* permitted (an unavailable agent, a dead worker, a block, a high score   *)
(* and a cancelled question replay nothing, whichever transports failed),  *)
(* and carries the text that was scanned or one typed later into the same  *)
(* box, never an older one; and one that passes unread does so in a window *)
(* that a permitted replay opened.  It is about the decision behind the    *)
(* submission, not about its text: a text typed meanwhile, even one that   *)
(* another submission was blocked for, goes along (SentWasScanned).        *)
SentWasPermitted ==
  \A s \in sent :
    IF s.by = Page THEN \E p \in Prompts : Permitted(p)
                   ELSE Permitted(s.by) /\ s.text >= read[s.by]

(* An upload let through on a verdict had its file in the scan, except in  *)
(* the Safari build, whose transport has no files, and after the backend   *)
(* rejected a token, when scanViaHttp repeats the scan without the file.   *)
UploadScanned ==
  \A u \in Uploads :
    /\ hook[u] = "sent" /\ why[u] = "verdict" =>
         verdict[u] # "block" /\ (files[u] \/ flavor = "safari" \/ u \in stripped)
    /\ hook[u] = "blocked" => verdict[u] \in {"block", "high"}

(* Every held upload is released, though hosts die and answers are lost;   *)
(* and every stopped prompt is decided, unless the backend goes on         *)
(* rejecting the token of each new registration: time-outs stand behind    *)
(* the native host and the page hook, whatever fails falls back to a       *)
(* request that the browser itself ends, but scanViaHttp repeats a         *)
(* rejected request without a limit.                                       *)
Settles ==
  /\ \A p \in Prompts :
       []<><<PostRejected(p)>>_vars \/ (InWorker(p) ~> req[p] \in {"ask", "done"})
  /\ \A u \in Uploads : hook[u] = "waiting" ~> hook[u] \in {"sent", "blocked"}

(* "every prompt a user sends to an AI tool - from a browser, an IDE, or a *)
(* CLI - is scanned by a local policy engine before it leaves the machine" *)
(* (README.md, lines 3-5): what a submission carries is a text that a scan *)
(* was asked about.  But replay submits the box as it is when the decision *)
(* arrives, and a user event in the bypass window passes unread.           *)
SentWasScanned == \A s \in sent : \E p \in Prompts : read[p] = s.text
================================================================================
