# VGuardrail: a TLA+ verification project

VGuardrail decides, on each developer's machine, whether a prompt may be sent to an AI
tool, and keeps a tamper-evident audit trail of those decisions in the cloud. This
directory holds TLA+ models of the parts of that system whose correctness depends on
the order of events, TLC configurations that check them on small instances, and TLAPS
proofs that hold for every instance. Paths below are relative to the repository root.

## 1. The system

A connector (browser, command line, IDE) calls `safeScan` of the connector SDK. The SDK
starts a helper process, `xpc-bridge`, and talks to it over stdin and stdout; the helper
calls the daemon `vguardiand` over XPC. The daemon asks the policy engine (gRPC over a
Unix socket) for a decision, writes signed audit events to a queue in SQLite, uploads
them in batches to the cloud, and hands new policy bundles to the engine. In the cloud,
Lambda invocations archive each batch in S3 and index its events in DynamoDB as one hash
chain per device. Administrators read that trail, and manage policies, devices,
exceptions and users, in the dashboard: a Next.js application whose route handlers (its
BFF) hold the session in cookies and call the backend.

| Component | State | Operations | Hard behaviour | Correct when |
|---|---|---|---|---|
| Audit ingestion (`backend/lambdas/crates/app`, `audit-core`) and its stores (`crates/aws`) | chain items and head per device, raw archive, idempotency records | `handle_events_batch`: look up the upload id, archive, append event by event, resynchronise on a conflict, record the outcome | invocations of one device interleave at every store call; a store call fails, also after it took effect; `idem.get` reads stale data; retries overlap | one intact append-only chain, archive first, no event confirmed that is not chained, every request answered |
| Agent event queue and upload worker (`agent/Sources/VGEventQueue`, `VGAgentCore`, `vguardiand`) | rows with status, attempts, next retry; the batch the worker holds | enqueue, claim, mark uploaded, purge, mark failed, back off | the daemon dies between two calls, every SQLite error is swallowed (`try?`), producers run during an upload | nothing deleted that was not sent, the documented lifecycle, every owed event settled |
| Agent and cloud together | the open request | upload, response, timeout, retry | a handler works on after its client gave up and meets the handler of the retry | what the agent deletes is in the cloud |
| Policy slots (`policy-engine/crates/pe-dsl`) | `current`, `previous`, `last_known_good` | `load`, `rollback_to_last_known_good` | long sequences of loads and rollbacks | only verified policies, only direct successors |
| Policy lifecycle (`pe-engine`, `pe-store`, agent policy worker) | the slots, the policy cache, the bundle on disk, the call under way | read the bundle, `LoadPolicy`, install and prune, restart | crashes of both processes, a call that outlives its caller, a failed cache write | no older policy comes back; a placed bundle gets loaded |
| Connector SDK (`connector-sdk/src`) and helper (`connector-sdk/bridge`) | the negotiated version, the child process, the pending ids, the frame decoder | `connect`, `safeScan`, `close`, handlers of stdout and exit | concurrent calls share everything; late, foreign and torn replies; a deadline racing an answer; exits delivered late | replies matched, ids never leaked, a scan audited once, every call ends |
| Policy evaluation (`pe-dsl/src/eval.rs`, `pe-engine/src/service.rs`) | none | pick the winning rule, force-block rules | precedence at ties, defaults | equals a reference definition |
| Scan path (`AgentCore.submitScan`, `record_decision`) | decision log, events | evaluate, enqueue, log | partial failure between the writes | a decision has its events or is known not to |
| Admin use cases (`app/src/admin.rs`, `aws/src/dynamo.rs`) | policies, exceptions, devices, settings | create, update, publish, approve, verify the chain by pages | concurrent administrators, unconditional writes, paging limits | no lost update; a verified chain was walked in full |
| Browser extension (`browser-connectors/chrome`) | the gate's bypass, scans under way, the native port, the device token, uploads held in the page | stop a submission, scan, ask, replay; hold an upload; fall back from the native host to HTTP | answers, time-outs, disconnects and the death of the worker in any order; the user keeps typing | nothing sent or uploaded without a decision that permits it; every wait ends |
| Command line wrapper (`cli-connectors/framework`, `adapters`) | where `run` stands, the child, the interactive guard's queue and shadow line | extract, scan, enforce, prompt, spawn; guard a session | extraction that fails, nine argument syntaxes, keystrokes during a scan, signals | fail closed; the tool gets what was scanned; each line passes the gate |
| Claude Code hook and acknowledgement file (`adapters/claude/src/hook.ts`, `util/ack-store.ts`) | a JSON file of blocked texts | load, prune, consume or record, save | overlapping processes, no lock | a resubmission passes only after a block |
| IDE connectors (`ide-connectors`) | commands, the status bar, pastes waiting per document | scan, warn, acknowledge; debounce pastes; toggle, deactivate | a debounce against new pastes, answers after a toggle or a deactivation | "safe to send" is true; no paste lost |
| Dashboard session and roles (`dashboard/lib/auth`, `middleware.ts`, `app/api`) | cookies of the browser, sign-ins at Cognito | login, callback, refresh, session poll, logout, guarded routes | responses of overlapping requests arrive in any order, cookies expire | one sign-in in the jar, only permitted calls, a logout that lasts |
| Dashboard pages (`dashboard/app`, `components`, `lib/api`) | list, detail, dialogs, drafts, busy flags, the export; retries of `backendFetch` | filter, page, open, review, invite, save, export, search | answers out of order, writes repeated after lost answers, events that arrive during an export | what is shown is what was asked; what is reported was done; nothing stays busy |
| Detectors, OCR, menu bar, message mapping, infrastructure | none, or external | - | - | out of scope |

`PROJECT.json` lists all components with their status, and the main hazards at the lines
where they bite; section 5 names some more.

## 2. Modules

| Module | Models | Based on |
|---|---|---|
| `AuditLog` | abstract: what the cloud promises a device | - |
| `AuditIngest` | concurrent `handle_events_batch` invocations over DynamoDB and S3 | implements `AuditLog` |
| `EventQueue` | the agent's queue and upload worker | - |
| `AuditPipeline` | agent and cloud over an unreliable connection | extends `AuditIngest`, with an instance of `EventQueue` |
| `PolicySet` | the three policy slots | - |
| `PolicyLifecycle` | policy worker, engine, cache, restarts | extends `PolicySet` |
| `ConnectorClient` | the SDK's client and transport with its helpers | - |
| `AckStore` | `consumeOrRecordAck` and the file behind it | - |
| `ClaudeHook` | overlapping hook processes | extends `AckStore` |
| `CliAdapters` | what the nine adapters take from a command line | - |
| `PtySession` | the interactive guard and its line reconstruction | - |
| `CliConnector` | one run of the wrapper | extends `CliAdapters` and `PtySession` |
| `BrowserConnector` | gate, page hook, background worker, transports | - |
| `IdeConnector` | commands and passive scans of VS Code, JetBrains, Cursor | - |
| `DashboardRbac` | roles, routes, pages, as operators | - |
| `DashboardSession` | cookies, route handlers, Cognito | extends `DashboardRbac` |
| `AdminConsole` | the pages with the calls they make | - |
| `AuditPipelineProofs`, `EventQueueProofs`, `PolicyLifecycleProofs`, `ConnectorClientProofs`, `AdminConsoleProofs` | theorems and proofs | extend the modules they are named after |
| `CommandLineProofs` | theorems and proofs | extends `CliConnector` and `ClaudeHook` |
| `BrowserIdeProofs` | theorems and proofs | extends `BrowserConnector` and `IdeConnector` |
| `DashboardProofs` | theorems and proofs | extends `DashboardSession` |
| `MC...` | instances for TLC | extend the modules they are named after |

Definitions marked *Faulty variant* are plausible bugs of the definition that follows
them. Nothing refers to them; they exist to show, by putting one in the place of the
original, that each property can fail.

### AuditIngest

State: `table` (chain items), `head`, `archive`, `idem`, and per invocation its program
point `pc`, batch, events still to append (`todo`), its copy of the head (`hd`), the
conflicts it met for the current event and its counts. A step is one store call with the
code up to the next one, because only there can another invocation come in between:
`Receive`/`Refuse` (size limit), `Replay`/`Validate` (`idem.get`, which may miss a record
since the read is eventually consistent), `PutRaw`, `ReadHead`, `AppendStored`/
`AppendDuplicate`/`AppendConflict` (the three outcomes of the transaction of
`append_if_head`), `ResyncDuplicate`/`ResyncRetry`/`ResyncReject`, `IdemPut`, `Respond`.
`StoreFailure` ends an invocation at a call that had no effect; a write that took effect and
whose answer was lost is a case of that write's own action, which then ends in `failed`.

Abstractions: the chain of one device (chains of two devices share no item); SHA-256 is
collision-free, so that a hash is the sequence of the events it covers; a batch is a set,
visited in one fixed order; events of other devices are events outside `Own`. A client is
trusted not to send an id of the derived form as its own (`PrefixAssumption`): the prefix
`upl_` is meant to separate the two, but `effective_upload_id` takes any text. Items and
records live for ninety days; a behaviour of the module lies within that time.
`acked` records what was confirmed under derived ids only, because a client that reuses
its own id for another batch is answered from the first one by design.

### EventQueue

State: per event its row (`status`, `attempts`, `waiting`), the worker's program point
`wk`, its batch, `todo` (rows of a failed batch still to mark), restarts and failed SQLite
calls. Every `await` of `runUploadOnce` is a step. `Write(ok)` is a SQLite write that takes
effect or fails, the failure being dropped as the code does. `Crash` keeps the rows and
forgets the worker; `Start` writes the `AgentStarted` event. Abstractions: `created_at` is
the event's number; `next_retry_at` is whether it lies in the future; a claim whose
transaction fails changes nothing, like a claim that is not made; `recordUpload`, which
writes a log that nothing reads, is part of the step before it.

### AuditPipeline

Both specifications side by side, the cloud's by extension and the agent's as the instance
`Agent`, joined by `conn`, the invocation that serves the open request. `PipelineAssumption`
says that the agent's events are events of this device and that any set of them may be a
batch. The agent supplies no upload id. A request may get lost (`Timeout` before `Deliver`); the agent may time out or
crash while the handler runs on; the response of such a handler reaches nobody.

### PolicySet and PolicyLifecycle

A bundle is its version, its `previous_version`, whether its signature verifies and
whether a rule names a domain lexicon. The last one matters because the lexicons are
enabled by a configuration read at each start (`registry.rs`), so that a bundle may
validate at one start and not at the next (`domains`). `load` is the whole pipeline,
signature, schema, succession, and the shift of the slots. `load_policy_bytes` runs under the
engine's write lock through the store calls, so `LoadPolicy` is one step; its cache write
may fail, which the code ignores (`install_fails`). `build_runtime` starts the engine from
the cache. `LoadPolicyOrphan` handles a call whose agent has died. The gRPC call has no
deadline: only the engine's end breaks it (`Unavailable`).

### ConnectorClient

Each caller makes one `safeScan`; the handshake is one more requester because it runs the
same `invoke` (retry around timeout around request). A handler of a Node event and the
promise continuations that it settles are one step, since Node drains microtasks before
the next event. The helper answers what it has read, in any order, with any code it can
produce; it may die, also in the middle of a frame, and one decoder serves all helpers in
turn (`dirty`). Replies are grouped by what the client does with them: one remote error
stands for the remote, validation and version errors. `deadline` is whether the client has
one (`timeoutMs` may be 0); `LoopEnds` is a host process that exits because only unref'd
timers are left, after which nothing of the client happens any more. Not modelled: the `error` events of
the child process after its start and of its stdin.

### AckStore and ClaudeHook

`AckStore` is the pure part of `consumeOrRecordAck`: prune by the window, then consume an
entry or record one. `ClaudeHook` is any number of processes, each with one event; the
load and the save of the file are two steps, so that a process may overwrite what another
saved. `blocks` and `grants` are the history the properties speak of. A file that cannot be
read counts as empty, and a save that fails blocks the prompt, as in the code. Texts are keys: a hash
collision is not modelled.

### CliAdapters, PtySession and CliConnector

An invocation is a tool, the kind of its subcommand, and which of the three carriers of
text it has (prompt argument, file, standard input), and whether a flag's value that the
adapter does not know comes before the prompt (`stray`); each adapter is the operator from
invocations to what it extracts, or to an extraction error. `Uncovered` names what the
adapters leave to the tool unscanned. `CliConnector` is `run` with
one step per await: bypass, extraction, scan, warning prompt, spawn, exit of the tool, and
a signal at any of them. `PtySession` is the guarded session: keystrokes (tokens) come in
chunks, go through `Drain` and `Push` of the line reconstructor, and wait in a queue while
`gateLine` awaits its scan. The keys are those the reconstructor tells apart: characters of
one and of several bytes, backspace, Ctrl+W, Ctrl+U, sequences it does not follow, a lone
escape, and the markers of a paste, whose end may come in two chunks. It keeps the bytes of a
text one by one, so that a backspace takes one byte of a character; whether the tool's box
does the same is a choice, as the terminal layer may encode the bytes anew. `astray` is set
when the shadow misses an edit without a flag. The tool's own input box is external and modelled from what the
code relies on: Enter submits, Ctrl+U clears, a bracketed paste keeps line breaks.

### BrowserConnector

A text is the number of the edit that produced it. `req` is where each scan stands on its
way through the transports of the build (Chromium: native host, then device registration
and HTTP; Safari: the app); `hook` where each upload stands in the page hook, which gives up
waiting and lets the upload go. `NativeTimeout`, `Disconnect` and the death of the worker come
at any time, and tokens may be rejected again and again; a scan repeated after a rejection
has lost its files (`stripped`). A submission inside the bypass window that the gate does not
look at is marked `Page`; `SentWasPermitted` says that a permitted replay opened that window. The
providers' DOM adapters appear as "a submission was recognised".

### IdeConnector

`host` chooses the IDE and transport at the start; commands differ by host only in `Tier`,
`ShowOutcome` and whether a warning is acknowledged. An acknowledgement is recorded by the
daemon (`AckRecorded`) before its call ends and the user is told (`AckEnds`), or fails. Pastes are collected per document
(`pending`), taken by a timer into a scan (`flying`) and reported. Toggling and deactivation
come between any two steps. Cursor's interceptor reads fields the SDK's answer does not have;
the model keeps that: all its scans end in a refusal.

### DashboardRbac and DashboardSession

The tables of the code (role levels, `ROUTE_PERMISSIONS`, `PAGE_ACCESS`, the sidebar) are
operators. In `DashboardSession` a request carries the jar of the moment it was sent, is served
by the handler of its kind, and applies its `Set-Cookie` headers when it arrives. A sign-in
stands for its state, verifier, code and tokens, so that PKCE and the state check are
equalities. The access cookie may expire at any time; every call of Cognito may fail, and a sign-in may be
given no refresh token (`short`), whereupon the code leaves that cookie as it is. `Routes` has
the HEAD handlers that Next.js derives from each GET; `authorizeRoute` lets them through to
every role. `Asked` is the set of routes that requests are made to.

### AdminConsole

One module for all pages, because they are written alike: a list that is fetched again when
its query changes, a detail, dialogs, writes with a busy flag. `View` says which controls
each page renders in which state; an action is possible only if its control is there.
`Guarded` names the pages whose effect cancels the fetch before it, which is most of them; the
user list, the exceptions and the search box do not. A write runs through `backendFetch`:
the backend may apply it and the answer be lost, upon which it is sent again, and may apply
an attempt after the next was sent (`ApplyLate`). The backend's records are left open. The
export pages through what `search_audit` finds: one query for the current month, newest
first, of which the first megabyte counts, whatever dates and type the page asked for. While
it runs events are sorted in (`NewEvent`), the oldest slide out (`OutOfReach`), and a read of
the eventually consistent index may lack what an earlier one had (`ReadBack`).

## 3. Runs

| Run | Expect | Checks | Shows |
|---|---|---|---|
| `ingest` | pass | `ArchivedFirst RecordTruthful AckedIsChained ConflictMeansProgress ImplementsLog Answered` | racing handlers and failing stores archive first, answer truthfully and always, and implement `AuditLog` |
| `queue` | pass | `DeletedWasSent InflightIsOwned DeadIsExhausted OldestFirst SettledUnlessStranded` | the queue loses nothing unsent, gives up at the limit exactly and settles every event that no fault stranded |
| `pipeline` | pass | `DeletedIsChained DeletedIsArchived` | what the agent deletes is chained, or belongs to an upload answered with rejections, and is archived in any case |
| `policy_lifecycle` | pass | `SlotsVerified CacheIsCurrent AnnouncedWasLoaded OnlyFaultsRollBack PlacedIsLoaded` | only a failed store call, or a cached bundle ignored at a start, lets an older policy in; what is announced was loaded |
| `connector` | pass | `DecisionIsReal AtMostOnce Settles` | replies matched, no double scan without `close`; every call with a deadline ends unless the host exits while it sleeps before a retry |
| `hook` | pass | `AckFollowsBlock ConsumedOnce` | no acknowledgement out of nothing, whatever the unlocked file goes through; without overlap each block is good for one |
| `cli` | pass | `RanSanctioned GivenIsScanned LineGated NoKeystrokeStuck` | no path of `run` fails open, no carrier of text but those of `Uncovered` slips past the scan, no line past the gate while the shadow follows the box or flags that it does not |
| `browser` | pass | `SentWasPermitted UploadScanned Settles` | no order of failures replays a submission that was not permitted itself; every upload is released and every prompt decided, unless tokens are rejected for ever |
| `ide` | pass | `SafeToSend PasteKept IdeSettles` | the message is true in all four hosts and never against the record, the debounce loses nothing |
| `session` | pass | `CookiesOfOneLogin OnlyPermitted LogoutSticks` | overlapping responses mix no sign-ins and revive none; roles are respected but for HEAD |
| `console` | pass | `ShownIsAsked ToldIsDone ExportComplete BusyEnds` | stale answers are not shown, reports are true, an export not marked truncated lacks nothing the backend still finds, buttons come back and skeletons go unless a fetch failed |
| `browser_edit` | violation | `SentWasScanned` | text that no scan has seen can be sent |

Type invariants (`TypeOK` of each module) are part of the proofs' inductive invariants,
where there is a proof, and not of the runs.

### Bounds

- `ingest`: two invocations, each usable again and again, since every conflict is between
  two; four events, one of another device; batches that overlap, an empty one and one
  above the limit; two conflicts in a row before an event is rejected (8 in the code),
  so that retry and rejection both happen. Client-supplied ids are in the proofs.
- `queue`: two events and two `AgentStarted` events, two starts (one crash), one failed
  SQLite call, batches of two, two attempts: a batch can be partly new and partly retried,
  partly marked when the daemon dies, and a row can fail once and die at its second
  attempt.
- `pipeline`: two events, a crash, a failed SQLite call, two overlapping handlers.
  Handlers are interchangeable, hence the symmetry.
- `policy_lifecycle`: a line of three releases with one that skips a release and needs
  the lexicons and an unsigned one; two crashes, one failed store call; one row kept
  besides the active one (three in the code), so that three releases reach the pruning.
- `connector`: two concurrent scans, two attempts each, one crash, one `close`. Two
  callers are enough for one to join, outlive or lose the connection of the other.
- `hook`: three processes, the least with which one can overwrite what a second saved and a
  third read; two texts; a window of one tick and a clock of two, so that entries expire.
- `cli`: every invocation of every adapter, with and without bypass and guard; sessions of
  four keystrokes out of twelve kinds, enough for a paste with an Enter in it, and for an
  Enter with two keystrokes typed behind it while it is scanned.
- `browser`: two prompts that share one box and bypass, one upload, two edits, one death of
  the worker, any number of rejected tokens; both builds.
- `ide`: two commands, two documents, two pastes, one toggle; all hosts. Two pastes are
  enough to extend a window, and to arrive while the scan of the first is out.
- `session`: two sign-ins and two requests at a time, each slot used again and again; every
  role occurs, and one of each group of routes that `authorizeRoute` treats alike.
- `console`: every page; two rows, two filters, lists of up to two pages, two fetches of each
  kind and one write under way, two attempts (three in the code); an export of pages of two
  with a cap of four over a log of up to five events, so that both limits are crossed.

Deadlock is checked except where what is started is bounded and the system rightly comes
to rest (all runs but `ingest` and `policy_lifecycle`).

### Fairness

- `AuditIngest`: weak fairness of each invocation's steps: a Lambda that was started runs
  on, and each store call returns or fails. A new request is never owed.
- `EventQueue`: weak fairness of the worker (an endless loop, whose upload has a timeout),
  of the clock, and of the restart by launchd (`KeepAlive`). Enqueuing, crashing and the
  backend's answer are free.
- `PolicyLifecycle`: weak fairness of the policy worker's loop and of the engine's
  restart. Not of the administrator.
- `ConnectorClient`: weak fairness of what Node's event loop does by itself: timers
  (deadlines, retry delays), the outcome of a spawn, and the exit events of processes
  that died; and of the callers, who do make their scans. The timers are unref'd, so they
  are fair only as long as the process runs (`Running`), and a deadline only if there is one.
  Nothing is assumed of the helper except that, killed, it dies: it may stay silent for ever.
- `CliConnector`: weak fairness of `run` and of the guard's loop, whose awaits are a scan
  that ends in a decision or a fallback and a prompt that the user answers or that the end
  of input closes.
- `BrowserConnector`: weak fairness of each scan's progress: the time-outs of the native
  request and of the page hook fire, and the browser ends an HTTP request or a message to
  the Safari app, with an answer or an error. For these two the extension has no time-out
  of its own, so this is an assumption about the browser. Nothing is assumed of the native host,
  the user, or a backend that rejects tokens: `Settles` excepts the prompts it goes on rejecting.
- `IdeConnector`: weak fairness of the debounce timers with the scans they start, and of
  the end of a command's scan, which `safeScan` guarantees in an editor, a host that does
  not exit by itself (`Settles` of `ConnectorClient`). The user need not answer a warning.
- `DashboardSession`: weak fairness of serving and of arriving, and of the expiry of the
  access cookie (`maxAge`), without which a late response could keep a sign-in for good.
- `AdminConsole`: weak fairness of answers (each may be an error: `backendFetch` has a
  time-out and a last attempt), of the export's loop and of the debounce. Nothing is
  assumed of the user.
- `ClaudeHook`, `AuditPipeline`: no liveness is claimed.

## 4. Proofs

Each proof module finds an inductive invariant for each of its specifications (`IndInv`, or
a name that says whose it is), shows that the initial states satisfy it and that every
action preserves it, action by action and conjunct by conjunct, and derives the listed
theorems. They hold for any number of invocations, processes, requests, events, versions,
crashes and failures. The only assumptions are those on the constants (named
`...Assumption`): limits are natural numbers, special values are not members of the sets
they complete, and what `PipelineAssumption` and `PrefixAssumption` say above. (From the
latter, `DerivedIsOwn`: a request under a derived id is one that left the id to the server.)

- `AuditPipelineProofs`, the handlers: `ChainIntact` alone is not inductive, since an append
  trusts the invocation's copy of the head. `HeadCopy` says the copy is an ancestor of the
  head, older than it after a conflict, and that each conflict was paid for by a longer
  chain; `Loop` says what each program point knows of the batch: archived, and, while nothing
  was rejected, chained as far as it was worked off. Proved: `TypeCorrect`, `ChainIsIntact`,
  `DurabilityFirst`, `ConfirmedIsChained`, `RecordsAreTrue`, `ConflictsAreProgress`,
  `ChainIsAppendOnly`, and the refinement `HandlersImplementLog`.
- `AuditPipelineProofs`, agent and cloud together: `PipelineInv` adds to the invariant of the
  handlers what joins the halves. `AnsweredIsArchived` says that a record, or a handler that is
  done, stands for an archived batch, so that also an answer replayed to a retry tells the
  truth; `Connection` says the handler that serves the agent works on the batch the agent holds;
  `ClaimConfirmed` says that what the worker is about to mark uploaded has reached the cloud.
  Proved: `PurgedIsChained`, `PurgedIsArchived`, and that the composition implements both
  parts, `PipelineImplementsIngest` and `PipelineImplementsQueue`, so that their theorems hold
  of it too.
- `EventQueueProofs`: `BatchHeld` ties the worker's program point to the status of its
  batch, `FreshIsAbsent` says ids not yet used have no row, and `InflightIsHeld` says who will
  settle an inflight row as long as nothing failed. Proved: `QueueTypeCorrect`,
  `NothingLostUnsent`, `OnlyFaultsStrand`, `DeadAtTheLimit`, and the action properties
  `RowsFollowLifecycle` and `ClaimsOldestFirst`. The latter rests on `OldestIsInitial`: a claim
  within the limit is an initial segment of the rows that are due.
- `PolicyLifecycleProofs`: `AnswerTruthful` (an acceptance on its way names a version that
  was enforced), `RestartFinds` (without faults the active row is at least as new as
  anything enforced) and `DownIsEmpty`. Proved: `SlotsStayVerified` and
  `SlotsNeverRegress` of the slots alone; `EnforcedIsVerified`, `CacheFollowsEngine`,
  `AnnouncementsAreTrue`, `RollbackNeedsFault`, `SuccessorsOnly` of the whole lifecycle.
- `ConnectorClientProofs`: `PendingMatches` says the pending table is exact: an entry is there
  if and only if its call waits for that reply. With `IdsIssued` (no id on the wire is from the
  future) a reply settles the attempt it answers and no other; with `OkIsEvaluated` a decision
  was made by the daemon. `AtMostOnce` needs `OneEvaluation`, which follows a scan's one
  evaluation through the places it may come from: a scan that has a request to send has not been
  evaluated (`UnsentIsFresh`), nor has one whose request a helper still has to read
  (`RequestIsFresh`), nor one whose request was refused with the error that makes the client
  retry (`RefusalIsClean`). Proved: `PendingTableExact`, `DecisionsAreReal`,
  `ScansEvaluatedOnce`.
- `CommandLineProofs`, the hook: `AckFollowsBlock` needs that every entry of the file, and of
  every process's copy of it, records a block that was made (`StoresRecord`), and that only a
  medium warning of a prompt reaches the file (`ProcessInStep`). Lost and repeated writes keep
  that: they only bring back older records. `ConsumedOnce` counts, and needs
  `EntryIsCredit`: without overlap one process at a time holds a copy of the file, and an entry
  of the file is a block that no grant has used. Proved: `HookTypeCorrect`,
  `GrantsFollowBlocks`, `GrantsAreConsumed`, `HookFailsClosed` (`AllowedIsSanctioned`, which is
  not in a run).
- `CommandLineProofs`, the wrapper and the guard: `PtyInv` strengthens `LineGated` by
  `ShadowInStep` (the reconstructed line is what the tool's input box holds, unless the
  reconstruction knows that it lost track, holds back an escape, or went astray) and by the
  fact that no line is at the gate inside a paste. `CliInv` says what `run` knows at each of its steps.
  `ExtractionComplete` goes through the nine adapters: what is extracted has every part that
  the tool is going to read, but for `Uncovered`. Proved: `ToolRunsSanctioned`, `GivenWasScanned`, `LinesPassTheGate`.
- `BrowserIdeProofs`, the extension: a verdict is behind a replay or an upload only if it
  cannot change afterwards, so `SentIsFinal` and `UploadIsFinal` say that the scan is over when
  its effect is there; `BoxInOrder` says the box holds the latest text or none, and
  `SomePermitted` that the bypass window is opened by a permitted replay only; `AskedIsPermitted` says the user is asked only about what may be sent,
  `FileKept` when a request still carries its file. Proved: `ReplaysArePermitted`,
  `UploadsAreScanned`.
- `BrowserIdeProofs`, the IDEs: `CommandInStep` says what a command has told and recorded at
  each of its steps, the record being made before the user is told. `PasteKept`, an equation between unions, is restated paste by paste
  (`KeptByMember`). Proved: `IdeTypeCorrect`, `SafeIsSanctioned`, `NoPasteLost`.
- `DashboardProofs`: `RoutesInherit` and `SidebarAgrees` compare tables kept by hand in
  four files. The jar stays of one sign-in because every response sets the access and the
  refresh cookie together and to the same sign-in, or neither, or the access cookie of a
  sign-in that has no refresh token (`Paired`). Proved besides:
  `JarOfOneLogin`, `BackendAskedIfPermitted`.
- `AdminConsoleProofs`: `ListInStep` (on a guarded page the fetch that is still heard is for
  the query on the screen), `PanelInStep` (the same of the findings and the open violation)
  and `CallsInStep` (an attempt that took effect did the write; only unguarded pages
  refresh after one). The export has an invariant of its own: `WalkInStep` says that, while it
  walks and no read went back, only full pages were copied, and that an event still found that
  was not copied lies ahead, also after an insertion has shifted the pages or the oldest have
  slid out. Proved: `ConsoleTypeCorrect`,
  `ShownIsCurrent`, `ReportsAreTrue`, `ExportsAreComplete`.

Every safety invariant and every action property of a passing run, and the refinement, is
thus proved. Only model-checked is liveness (`Answered`, `SettledUnlessStranded`,
`PlacedIsLoaded`, both `Settles`, `NoKeystrokeStuck`, `IdeSettles`, `LogoutSticks`,
`BusyEnds`), which TLAPS does not support under fairness.

## 5. Where code and documentation disagree

**Text that was not scanned can be sent** (run `browser_edit`, `gate.ts:174`). The gate
scans the prompt it read when the submission was stopped; the replay submits what the box
holds when the decision arrives. In between, and while the warning is open, the box can be
edited; with two submissions under way the text sent may be one that the other was blocked
for. `SentWasPermitted` holds nevertheless: there is a decision behind every replay, only not always
about that text.

The modules state further claims of the repository that TLC refutes. They are not among the
runs; adding the property to the configuration named shows the counterexample.

1. **A crash during an upload strands the batch** (`OwingIsSettled`, `MCEventQueue.cfg`;
   `EventQueue.swift:73`). Rows are claimed by marking them inflight; nothing makes an
   inflight row pending again, neither a start nor a failed `markUploaded`.
   `SettledUnlessStranded` and `OnlyFaultsStrand` show that only such faults strand a row.
2. **A helper that exits is never replaced** (`Reconnects`, `MCConnectorClient.cfg`;
   `xpc-bridge-transport.ts:188`). The transport drops its child, the client keeps
   `negotiated`, and every later scan falls back.
3. **`close()` can make a scan be audited twice** (`EvaluatedOnce`,
   `MCConnectorClient.cfg`; `xpc-bridge-transport.ts:142`). Requests already written are
   rejected with the error that is taken to mean "not sent".
4. **Rollback to the last known good policy does nothing** (`RollbackReplacesFaulty`, an
   instance of `PolicySet` alone with `SetSpec`; `policy_set.rs:109`): `load` has just made the
   faulty policy the last known good one, and rolling back overwrites the only other one.
5. **A failed cache write undoes the rollback protection at the next start**
   (`AntiRollback`, `MCPolicyLifecycle.cfg`; `service.rs:257`); so does a cached bundle that
   no longer validates.
6. **A replayed upload is not always answered verbatim** (`RecordStable`,
   `MCAuditIngest.cfg`; `handlers.rs:263`): two invocations of one upload may both run, and the
   later `idem.put` overwrites the record. `ConfirmedIsChained` holds nevertheless.
7. **A recalled line is not scanned** (`EachLineScanned`, `MCCliConnector.cfg`;
   `pty-session.ts:167`). At Enter the guard passes on a line whose reconstruction is blank,
   also if it is flagged: after Up, which recalls a line into the tool's box, the recalled
   line is submitted. `cli-connectors/README.md` (lines 155-158) says of such lines that they
   "are flagged internally and still scanned". The end of a paste that arrives in two chunks
   has the same effect on every later Enter.

Visible in the models without a property of their own: `onExit` of the transport does not
look at which helper exited, so that the exit of a helper that `close()` killed, delivered after a
reconnect, detaches the client from the new one; two hook processes that overlap both
consume one acknowledgement (`ConsumedOnce` needs its condition); a scan repeated after a
rejected device token is repeated without its files, and the Safari transport never
carries them (`UploadScanned` excepts both); the pages that do not cancel their fetches may show an older
answer over a newer one (`ShownIsAsked` names the ones that do); an exception's detail that
arrives while the review dialog is open replaces the exception under review; what is typed
into the settings while they are saved is replaced by the answer; the acknowledgement of a
bypass is lost when the tool ends quickly; a signal is not forwarded to the tool; a prompt
beyond the maximum length is scanned only in part; the adapters of claude, sgpt and gh copilot
take the value of a flag they do not know for the prompt, claude's drops files it cannot
read, and five adapters leave piped input to the tool (`Uncovered`); a HEAD request of any role
reaches the backend; a sign-in without a refresh token leaves the refresh cookie of the one
before; an export lacks, without a word, what lies outside the window that `search_audit`
reads; the skeletons of the lists, the settings and the findings stay after a failed fetch
(`BusyEnds` excepts them); a batch sent again after ninety days would be chained again.

## 6. Not modelled

Detectors and lexicons (regular expressions over text), OCR, the menu bar, mapping and
encoding of messages, charts, tables and layout of the dashboard, installers and shims of the
connectors, Terraform and scripts: no state of their own, or calls of external services. The
store's event queue in `pe-store` is a twin of the agent's that the engine only appends to.
The other admin repositories of the backend, the evaluation of rules and the pair of events of a scan
are left out so far (section 7).

## 7. Plan

In this order; the first three blocks are done.

1. `AuditLog`, `AuditIngest`, `EventQueue`, `AuditPipeline`, `PolicySet`,
   `PolicyLifecycle`, `ConnectorClient`, with their proofs. *(done)*
2. The connectors (`AckStore`, `ClaudeHook`, `CliAdapters`, `PtySession`, `CliConnector`,
   `BrowserConnector`, `IdeConnector`) and the dashboard (`DashboardRbac`,
   `DashboardSession`, `AdminConsole`), with the proofs of section 4. *(done)*
3. Proofs of all safety invariants and action properties of the passing runs. *(done)*
4. The admin repositories: `create_policy`, `update_policy` (which ignores the expected
   version), `publish_policy` (checks, then writes unconditionally), exceptions, devices;
   and `verify_chain_segment`, paging against a full walk of the chain.
5. `PolicyEval`: `evaluate`, `pick_winner`, `subject_matches`, `condition_matches` and the
   forced blocks of `evaluate_input`, against a declarative reference definition over all
   small rule sets.
6. The scan path: `submitScan` with its two events and log entry, `record_decision`, and
   the engine being unavailable, composed with `EventQueue`. The bridge's runner: 16
   requests in flight, drain at end of input.
