------------------------------ MODULE EventQueue ------------------------------
(***************************************************************************)
(* The agent's durable audit queue (EventQueue.swift, a table in SQLite)   *)
(* and the upload worker that drains it (AgentCore.runUploadOnce, looped   *)
(* by the daemon).  Every await of the worker is a step, so producers and  *)
(* crashes interleave with it; launchd restarts a daemon that died, and    *)
(* the rows survive it while the worker's claimed batch does not.          *)
(*                                                                         *)
(* Events are numbered in created_at order.  next_retry_at is reduced to   *)
(* whether it still lies in the future (waiting).                          *)
(***************************************************************************)
EXTENDS Naturals, FiniteSets

CONSTANTS MaxProduced,  \* bound: events enqueued besides the AgentStarted ones
          MaxStarts,    \* bound: starts of the daemon, hence crashes
          MaxDbErrors,  \* bound: SQLite calls that fail
          BatchLimit,   \* config.uploadBatchSize
          MaxAttempts   \* config.maxUploadAttempts

ASSUME QueueAssumption ==
  /\ MaxProduced \in Nat /\ MaxStarts \in Nat /\ MaxDbErrors \in Nat
  /\ BatchLimit \in Nat \ {0} /\ MaxAttempts \in Nat \ {0}

EventId == 1..(MaxProduced + MaxStarts)

VARIABLES status,    \* the row's status; "absent" before, "deleted" after its life
          attempts,  \* the row's attempts column
          waiting,   \* next_retry_at lies in the future
          produced,  \* events the daemon's callers tried to enqueue
          starts,    \* starts of the daemon so far
          up,        \* the daemon runs
          wk,        \* what the upload worker does next
          claimed,   \* the worker's batch
          todo,      \* events of a failed batch still to be marked
          last,      \* lastUploadOutcome
          dbErrors,  \* failed SQLite calls so far
          sent       \* history: events of a batch the backend answered with 2xx

rows == <<status, attempts, waiting>>
vars == <<rows, produced, starts, up, wk, claimed, todo, last, dbErrors, sent>>

Status == {"absent", "pending", "inflight", "uploaded", "failed", "dead", "deleted"}

Owing == {"pending", "inflight", "failed"}      \* queueDepth

Set(S, st) == [e \in EventId |-> IF e \in S THEN st ELSE status[e]]

(* The id and timestamp of the next event to be made. *)
Fresh == produced + starts + 1
-----------------------------------------------------------------------------
Init ==
  /\ status = [e \in EventId |-> "absent"]
  /\ attempts = [e \in EventId |-> 0]
  /\ waiting = [e \in EventId |-> FALSE]
  /\ produced = 0 /\ starts = 0 /\ dbErrors = 0
  /\ up = FALSE
  /\ wk = "idle" /\ claimed = {} /\ todo = {}
  /\ last = "none"
  /\ sent = {}

(* A write to the store: it happens, or SQLite refuses it and ok is FALSE.  *)
Write(ok) == \/ ok /\ dbErrors' = dbErrors
             \/ ~ok /\ dbErrors < MaxDbErrors /\ dbErrors' = dbErrors + 1

(* The daemon starts: bootstrap records an AgentStarted event. *)
Start ==
  /\ ~up /\ starts < MaxStarts
  /\ up' = TRUE
  /\ starts' = starts + 1
  /\ \E ok \in BOOLEAN : Write(ok) /\ status' = IF ok THEN Set({Fresh}, "pending") ELSE status
  /\ UNCHANGED <<attempts, waiting, produced, wk, claimed, todo, last, sent>>

(* Any other producer of the daemon signs and enqueues an event; when it    *)
(* cannot be persisted the event is dropped.                                *)
Enqueue ==
  /\ up /\ produced < MaxProduced
  /\ produced' = produced + 1
  /\ \E ok \in BOOLEAN : Write(ok) /\ status' = IF ok THEN Set({Fresh}, "pending") ELSE status
  /\ UNCHANGED <<attempts, waiting, starts, up, wk, claimed, todo, last, sent>>

(* Faulty variant: dead rows are claimed again. *)
ReadyAnySettled == {e \in EventId : status[e] \in {"pending", "failed", "dead"} /\ ~waiting[e]}

(* Faulty variant: failed rows are never claimed again. *)
ReadyPendingOnly == {e \in EventId : status[e] = "pending" /\ ~waiting[e]}

Ready == {e \in EventId : status[e] \in {"pending", "failed"} /\ ~waiting[e]}

(* Faulty variant: ORDER BY created_at DESC. *)
OldestReversed(S, limit) == {e \in S : Cardinality({f \in S : f > e}) < limit}

(* ORDER BY created_at LIMIT limit *)
Oldest(S, limit) == {e \in S : Cardinality({f \in S : f < e}) < limit}

claimBatch ==
  /\ up /\ wk = "idle"
  /\ Ready # {}
  /\ LET batch == Oldest(Ready, BatchLimit) IN
       /\ status' = Set(batch, "inflight")
       /\ claimed' = batch
  /\ wk' = "upload"
  /\ UNCHANGED <<attempts, waiting, produced, starts, up, todo, last, dbErrors, sent>>

(* The backend answered 2xx; how many events it rejected is not looked at.  *)
UploadOk ==
  /\ wk = "upload"
  /\ sent' = sent \cup claimed
  /\ wk' = "mark"
  /\ UNCHANGED <<rows, produced, starts, up, claimed, todo, last, dbErrors>>

(* Faulty variant: the failed batch is not marked. *)
UploadFailsUnmarked ==
  /\ wk = "upload"
  /\ wk' = "fail"
  /\ todo' = {}
  /\ UNCHANGED <<rows, produced, starts, up, claimed, last, dbErrors, sent>>

(* Any other answer, a transport error or a timeout. *)
UploadFails ==
  /\ wk = "upload"
  /\ wk' = "fail"
  /\ todo' = claimed
  /\ UNCHANGED <<rows, produced, starts, up, claimed, last, dbErrors, sent>>

(* try? markUploaded: on an error the rows stay as they are. *)
markUploaded ==
  /\ wk = "mark"
  /\ \E ok \in BOOLEAN : Write(ok) /\ status' = IF ok THEN Set(claimed, "uploaded") ELSE status
  /\ wk' = "purge"
  /\ UNCHANGED <<attempts, waiting, produced, starts, up, claimed, todo, last, sent>>

(* Faulty variant: the purge takes inflight rows along. *)
purgeUploadedAll ==
  /\ wk = "purge"
  /\ \E ok \in BOOLEAN :
       /\ Write(ok)
       /\ status' = IF ok THEN Set({e \in EventId : status[e] \in {"uploaded", "inflight"}}, "deleted") ELSE status
  /\ wk' = "idle"
  /\ claimed' = {}
  /\ last' = "success"
  /\ UNCHANGED <<attempts, waiting, produced, starts, up, todo, sent>>

(* try? purgeUploaded, whatever became of markUploaded. *)
purgeUploaded ==
  /\ wk = "purge"
  /\ \E ok \in BOOLEAN :
       /\ Write(ok)
       /\ status' = IF ok THEN Set({e \in EventId : status[e] = "uploaded"}, "deleted") ELSE status
  /\ wk' = "idle"
  /\ claimed' = {}
  /\ last' = "success"
  /\ UNCHANGED <<attempts, waiting, produced, starts, up, todo, sent>>

(* Faulty variant: one attempt too many. *)
markFailedLate(e) ==
  LET dies == attempts[e] + 1 > MaxAttempts IN
  /\ wk = "fail" /\ e \in todo /\ \A f \in todo : e <= f
  /\ \E ok \in BOOLEAN :
       /\ Write(ok)
       /\ IF ok
          THEN /\ status' = Set({e}, IF dies THEN "dead" ELSE "failed")
               /\ attempts' = [attempts EXCEPT ![e] = @ + 1]
               /\ waiting' = [waiting EXCEPT ![e] = ~dies]
          ELSE UNCHANGED rows
  /\ todo' = todo \ {e}
  /\ UNCHANGED <<produced, starts, up, wk, claimed, last, sent>>

(* Faulty variant: no row is ever given up on. *)
markFailedForever(e) ==
  LET dies == FALSE IN
  /\ wk = "fail" /\ e \in todo /\ \A f \in todo : e <= f
  /\ \E ok \in BOOLEAN :
       /\ Write(ok)
       /\ IF ok
          THEN /\ status' = Set({e}, IF dies THEN "dead" ELSE "failed")
               /\ attempts' = [attempts EXCEPT ![e] = @ + 1]
               /\ waiting' = [waiting EXCEPT ![e] = ~dies]
          ELSE UNCHANGED rows
  /\ todo' = todo \ {e}
  /\ UNCHANGED <<produced, starts, up, wk, claimed, last, sent>>

(* try? markFailed, event by event in batch order: dead at the last         *)
(* attempt, failed with a backoff before it.                                *)
markFailed(e) ==
  LET dies == attempts[e] + 1 >= MaxAttempts IN
  /\ wk = "fail" /\ e \in todo /\ \A f \in todo : e <= f
  /\ \E ok \in BOOLEAN :
       /\ Write(ok)
       /\ IF ok
          THEN /\ status' = Set({e}, IF dies THEN "dead" ELSE "failed")
               /\ attempts' = [attempts EXCEPT ![e] = @ + 1]
               /\ waiting' = [waiting EXCEPT ![e] = ~dies]
          ELSE UNCHANGED rows
  /\ todo' = todo \ {e}
  /\ UNCHANGED <<produced, starts, up, wk, claimed, last, sent>>

RecordFailure ==
  /\ wk = "fail" /\ todo = {}
  /\ wk' = "idle"
  /\ claimed' = {}
  /\ last' = "failure"
  /\ UNCHANGED <<rows, produced, starts, up, todo, dbErrors, sent>>

(* The clock passes next_retry_at. *)
BackoffElapses(e) ==
  /\ waiting[e]
  /\ waiting' = [waiting EXCEPT ![e] = FALSE]
  /\ UNCHANGED <<status, attempts, produced, starts, up, wk, claimed, todo, last, dbErrors, sent>>

(* The daemon dies; only the rows survive.  launchd starts it again. *)
Crash ==
  /\ up /\ starts < MaxStarts
  /\ up' = FALSE
  /\ wk' = "idle" /\ claimed' = {} /\ todo' = {}
  /\ last' = "none"
  /\ UNCHANGED <<rows, produced, starts, dbErrors, sent>>

Worker ==
  \/ claimBatch \/ UploadOk \/ UploadFails \/ markUploaded \/ purgeUploaded
  \/ (\E e \in EventId : markFailed(e)) \/ RecordFailure

Next ==
  \/ Start \/ Enqueue \/ Crash \/ Worker
  \/ \E e \in EventId : BackoffElapses(e)

Spec == Init /\ [][Next]_vars

(* The worker loop never ends, an upload is answered or times out, the      *)
(* clock advances, and launchd restarts a daemon that died.                 *)
Fairness ==
  /\ WF_vars(Worker)
  /\ WF_vars(Start)
  /\ \A e \in EventId : WF_vars(BackoffElapses(e))

FairSpec == Spec /\ Fairness
-----------------------------------------------------------------------------
(* Every variable holds a value of its kind, and the worker's variables are *)
(* the ones its program point says are live.                                *)
TypeOK ==
  /\ status \in [EventId -> Status]
  /\ attempts \in [EventId -> 0..MaxAttempts]
  /\ waiting \in [EventId -> BOOLEAN]
  /\ produced \in 0..MaxProduced /\ starts \in 0..MaxStarts
  /\ dbErrors \in 0..MaxDbErrors
  /\ up \in BOOLEAN
  /\ wk \in {"idle", "upload", "mark", "purge", "fail"}
  /\ claimed \in SUBSET EventId /\ todo \in SUBSET claimed
  /\ last \in {"none", "success", "failure"}
  /\ sent \in SUBSET EventId

(* No row is marked uploaded or deleted before the backend answered a batch *)
(* that holds it with 2xx, whatever crashed or failed in between.           *)
DeletedWasSent == \A e \in EventId : status[e] \in {"uploaded", "deleted"} => e \in sent

(* The lifecycle the store documents: pending, inflight, uploaded, with     *)
(* failed and its backoff, or dead; a settled row never comes back, although *)
(* markUploaded and markFailed update a row whatever its status is.         *)
LifecycleEdges ==
  {<<"absent", "pending">>, <<"pending", "inflight">>, <<"failed", "inflight">>,
   <<"inflight", "uploaded">>, <<"inflight", "failed">>, <<"inflight", "dead">>,
   <<"uploaded", "deleted">>}
Lifecycle ==
  [][\A e \in EventId : status'[e] # status[e] => <<status[e], status'[e]>> \in LifecycleEdges]_vars

(* No daemon died and no SQLite call failed so far. *)
Faultless == starts <= 1 /\ (up \/ starts = 0) /\ dbErrors = 0

(* As long as no daemon died and no SQLite call failed, every inflight row  *)
(* is in the hands of the worker, which will settle it.                     *)
InflightIsOwned ==
  Faultless => \A e \in EventId : status[e] = "inflight" => e \in claimed

(* A row is given up on after MaxAttempts failed uploads and no earlier,    *)
(* and a row that waits for a retry has attempts left.                      *)
DeadIsExhausted ==
  \A e \in EventId : /\ status[e] = "dead" <=> attempts[e] = MaxAttempts
                     /\ waiting[e] => status[e] = "failed"

(* The inductive invariant.  The worker's batch is inflight until the       *)
(* worker settles it, a daemon that runs was started, and rows beyond the   *)
(* last event made are untouched.                                           *)
BatchHeld ==
  /\ wk = "idle" => claimed = {}
  /\ wk # "fail" => todo = {}
  /\ wk # "idle" => up
  /\ up => starts > 0
  /\ wk \in {"mark", "purge"} => claimed \subseteq sent
  /\ wk \in {"upload", "mark"} => \A e \in claimed : status[e] = "inflight"
  /\ \A e \in todo : status[e] = "inflight"

FreshIsAbsent ==
  \A e \in EventId : e > produced + starts => status[e] = "absent" /\ attempts[e] = 0

InflightIsHeld ==
  Faultless => \A e \in EventId : status[e] = "inflight" =>
                 (wk \in {"upload", "mark"} /\ e \in claimed) \/ e \in todo

IndInv ==
  /\ TypeOK /\ BatchHeld /\ FreshIsAbsent /\ InflightIsHeld
  /\ DeletedWasSent /\ DeadIsExhausted

(* A younger event is never claimed before an older one that is ready.      *)
OldestFirst ==
  [][\A e, f \in EventId :
       /\ f < e /\ f \in Ready
       /\ status[e] # "inflight" /\ status'[e] = "inflight"
       => status'[f] = "inflight"]_vars

(* Every event that owes an upload is eventually uploaded or given up on    *)
(* after its last attempt, unless a crash or a failed SQLite call left its  *)
(* row inflight with no worker that holds it.                               *)
Stranded(e) == status[e] = "inflight" /\ e \notin claimed /\ ~Faultless
SettledUnlessStranded ==
  \A e \in EventId :
    status[e] \in Owing ~> (status[e] \in {"uploaded", "deleted", "dead"} \/ Stranded(e))

(* Every event that owes an upload is eventually uploaded and deleted, or   *)
(* given up on after its last attempt.                                      *)
OwingIsSettled ==
  \A e \in EventId : status[e] \in Owing ~> status[e] \in {"deleted", "dead"}
=============================================================================
