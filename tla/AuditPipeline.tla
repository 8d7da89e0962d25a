---------------------------- MODULE AuditPipeline ----------------------------
(***************************************************************************)
(* The audit trail end to end: the agent's queue and upload worker          *)
(* (EventQueue) posting batches to the cloud's handlers (AuditIngest).      *)
(* A request may be lost; the agent may give up on one (URLSession timeout, *)
(* crash) whose handler keeps running and later meets the handler of the    *)
(* retry; a response may reach nobody.  The agent supplies no upload id.    *)
(***************************************************************************)
EXTENDS AuditIngest

CONSTANTS MaxProduced, MaxStarts, MaxDbErrors, BatchLimit, MaxAttempts,
          NoConn          \* no handler works for the agent

VARIABLES \* the agent, as in EventQueue
          status, qAttempts, waiting, produced, starts, up, wk, claimed, qTodo,
          last, dbErrors, sent,
          \* the connection
          conn,           \* the invocation that serves the agent's open request
          short           \* history: events of an upload answered with rejections

Ids == 1..(MaxProduced + MaxStarts)

(* The cloud knows the events of this device, in batches of any size. *)
ASSUME PipelineAssumption ==
  /\ MaxProduced \in Nat /\ MaxStarts \in Nat
  /\ Ids \subseteq Own /\ SUBSET Ids \subseteq Batches
  /\ NoConn \notin Invocation

Agent == INSTANCE EventQueue WITH attempts <- qAttempts, todo <- qTodo

agent == <<status, qAttempts, waiting, produced, starts, up, wk, claimed, qTodo,
           last, dbErrors, sent>>
cloud == vars
pipeline == <<agent, cloud, conn, short>>
-----------------------------------------------------------------------------
PipelineInit == Agent!Init /\ Init /\ conn = NoConn /\ short = {}

(* Steps of the agent that do not touch the connection. *)
Local ==
  /\ \/ Agent!Start \/ Agent!Enqueue \/ Agent!claimBatch
     \/ Agent!markUploaded \/ Agent!purgeUploaded \/ Agent!RecordFailure
     \/ \E e \in Ids : Agent!markFailed(e) \/ Agent!BackoffElapses(e)
  /\ UNCHANGED <<cloud, conn, short>>

(* upload(batch): the request reaches a free invocation. *)
Deliver(p) ==
  /\ wk = "upload" /\ conn = NoConn
  /\ Receive(p, NoClientId, claimed) \/ Refuse(p, claimed)
  /\ conn' = p
  /\ UNCHANGED <<agent, short>>

(* The invocation works on, whether or not anybody still waits for it. *)
Serve(p) == Work(p) /\ UNCHANGED <<agent, conn, short>>

(* Faulty variant: any response counts as success. *)
AnswerAnyStatus(p) ==
  /\ wk = "upload" /\ conn = p
  /\ Respond(p)
  /\ IF TRUE
     THEN /\ Agent!UploadOk
          /\ short' = IF rejected[p] > 0 THEN short \cup claimed ELSE short
     ELSE Agent!UploadFails /\ UNCHANGED short
  /\ conn' = NoConn

(* The response reaches the agent: 2xx, or a status that upload throws on. *)
Answer(p) ==
  /\ wk = "upload" /\ conn = p
  /\ Respond(p)
  /\ IF pc[p] = "done"
     THEN /\ Agent!UploadOk
          /\ short' = IF rejected[p] > 0 THEN short \cup claimed ELSE short
     ELSE Agent!UploadFails /\ UNCHANGED short
  /\ conn' = NoConn

(* The response of an abandoned request reaches nobody. *)
AnswerNobody(p) ==
  /\ conn # p
  /\ Respond(p)
  /\ UNCHANGED <<agent, conn, short>>

(* Faulty variant: a late response is still taken for the current request. *)
TimeoutStillConnected ==
  /\ Agent!UploadFails
  /\ UNCHANGED conn
  /\ UNCHANGED <<cloud, short>>

(* The agent gives up on its request, delivered or not. *)
Timeout ==
  /\ Agent!UploadFails
  /\ conn' = NoConn
  /\ UNCHANGED <<cloud, short>>

AgentCrash ==
  /\ Agent!Crash
  /\ conn' = NoConn
  /\ UNCHANGED <<cloud, short>>

PipelineNext ==
  \/ Local \/ Timeout \/ AgentCrash
  \/ \E p \in Invocation : Deliver(p) \/ Serve(p) \/ Answer(p) \/ AnswerNobody(p)

PipelineSpec == PipelineInit /\ [][PipelineNext]_pipeline
-----------------------------------------------------------------------------
(* The connection is open only while the worker waits in upload, to an      *)
(* invocation that works on the worker's own batch.                         *)
ConnectionMatches ==
  conn # NoConn => /\ wk = "upload"
                   /\ pc[conn] \notin {"idle", "failed"} => batch[conn] = claimed

(* The agent deletes a row only when the event is in the cloud's chain, or  *)
(* the response it acted on reported rejections, which the agent ignores.   *)
DeletedIsChained ==
  \A e \in Ids : status[e] \in {"uploaded", "deleted"} =>
    e \in ChainedEvents \cup short

(* Even then the raw event is in the archive: nothing the agent deletes is  *)
(* gone altogether.                                                         *)
DeletedIsArchived ==
  \A e \in Ids : status[e] \in {"uploaded", "deleted"} => e \in UNION archive
=============================================================================
