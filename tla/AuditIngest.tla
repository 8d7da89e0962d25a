----------------------------- MODULE AuditIngest -----------------------------
(***************************************************************************)
(* The batch-ingestion handler of the audit cloud (handle_events_batch)    *)
(* against its three stores: the DynamoDB audit table with the per-device  *)
(* chain head, the S3 archive and the idempotency records.  Several        *)
(* invocations run concurrently for one device; every await on a store is  *)
(* a step of its own, so an invocation may act on a stale head, and a      *)
(* store call may fail before or after it took effect.                     *)
(*                                                                         *)
(* Events are numbered in the order the handler sorts them in, by          *)
(* (timestamp_ms, event_id).  SHA-256 is taken to be collision-free: the   *)
(* hash of an event chained onto prev is Append(prev, event), and          *)
(* GENESIS_PREV, the hash of the absent head, is <<>>.                     *)
(*                                                                         *)
(* Items and records carry a time to live of TTL_SECONDS, ninety days.  A  *)
(* behaviour of this module lies within it: the uploads that matter to one *)
(* another are less than ninety days apart, and nothing expires.  (Later,  *)
(* a batch that is sent again would find neither its record nor the items  *)
(* of its events, and be chained a second time.)                           *)
(***************************************************************************)
EXTENDS Naturals, Sequences, FiniteSets

CONSTANTS Event,           \* event ids, numbered in (timestamp_ms, event_id) order
          Own,             \* the events that carry the caller's device_id
          ClientId,        \* the upload ids a client may supply itself
          NoClientId,      \* stands for an absent or blank client upload id
          Batches,         \* the sets of events uploaders send in one request
          Invocation,      \* concurrent executions of the handler
          MaxBatchEvents,  \* MAX_BATCH_EVENTS
          MaxChainRetries, \* MAX_CHAIN_RETRIES
          NoRecord         \* stands for an absent idempotency record

ASSUME EventAssumption == Event \subseteq Nat /\ Own \subseteq Event /\ IsFiniteSet(Event)
ASSUME BatchAssumption == Batches \subseteq SUBSET Event
ASSUME ClientAssumption == NoClientId \notin ClientId
ASSUME LimitAssumption == MaxBatchEvents \in Nat \ {0} /\ MaxChainRetries \in Nat \ {0}
ASSUME RecordAssumption == NoRecord \notin [accepted : Nat, rejected : Nat]

VARIABLES table,     \* audit items: [event, prev, hash]
          head,      \* the CHAINHEAD item: [hash, count]
          archive,   \* batches written to S3
          idem,      \* upload_id -> idempotency record
          pc,        \* the store call each invocation is about to make
          batch,     \* the events of the request
          client,    \* the client-supplied upload id of the request
          todo,      \* valid events not yet chained or given up on
          hd,        \* the invocation's copy of the chain head
          attempts,  \* ChainConflicts met for the current event
          accepted,  \* events counted as accepted so far
          rejected,  \* events counted as rejected so far
          acked      \* history: events confirmed by a response that rejects none
                     \* (to requests that leave the upload id to the server)

stores == <<table, head, archive, idem>>
locals == <<batch, client, todo, hd, attempts, accepted, rejected>>
vars == <<stores, pc, locals, acked>>

Elems(s) == {s[i] : i \in 1..Len(s)}
Hash == Seq(Event)
NoHead == [hash |-> <<>>, count |-> 0]

(* derive_upload_id depends on the batch's set of event ids only. *)
derive_upload_id(B) == <<"upl_", B>>

(* Clients are trusted not to send a derived id as their own: the prefix is *)
(* meant to tell the two apart, but effective_upload_id takes whatever text *)
(* a client sends, and a record's key does not name the device.             *)
ASSUME PrefixAssumption == \A B \in SUBSET Event : derive_upload_id(B) \notin ClientId

UploadId == {derive_upload_id(B) : B \in SUBSET Event} \cup ClientId

effective_upload_id(c, B) == IF c = NoClientId THEN derive_upload_id(B) ELSE c

Upload(p) == effective_upload_id(client[p], batch[p])

compute_event_hash(e, prev) == Append(prev, e)

ChainedEvents == {item.event : item \in table}

(* The chain order inside a batch: ascending (timestamp_ms, event_id). *)
IsNext(e, S) == e \in S /\ \A f \in S : e <= f

StoreCalls == {"idem_get", "put_raw", "chain_head", "append", "duplicate", "conflict", "idem_put"}
-----------------------------------------------------------------------------
Init ==
  /\ table = {}
  /\ head = NoHead
  /\ archive = {}
  /\ idem = [u \in UploadId |-> NoRecord]
  /\ pc = [p \in Invocation |-> "idle"]
  /\ batch = [p \in Invocation |-> {}]
  /\ client = [p \in Invocation |-> NoClientId]
  /\ todo = [p \in Invocation |-> {}]
  /\ hd = [p \in Invocation |-> NoHead]
  /\ attempts = [p \in Invocation |-> 0]
  /\ accepted = [p \in Invocation |-> 0]
  /\ rejected = [p \in Invocation |-> 0]
  /\ acked = {}

(* A request with an acceptable body reaches the handler. *)
Receive(p, c, B) ==
  /\ pc[p] = "idle"
  /\ B # {} /\ Cardinality(B) <= MaxBatchEvents
  /\ pc' = [pc EXCEPT ![p] = "idem_get"]
  /\ batch' = [batch EXCEPT ![p] = B]
  /\ client' = [client EXCEPT ![p] = c]
  /\ UNCHANGED <<stores, todo, hd, attempts, accepted, rejected, acked>>

(* 422 for an empty batch, 413 for one with too many events. *)
Refuse(p, B) ==
  /\ pc[p] = "idle"
  /\ B = {} \/ Cardinality(B) > MaxBatchEvents
  /\ pc' = [pc EXCEPT ![p] = "failed"]
  /\ UNCHANGED <<stores, locals, acked>>

(* Faulty variant: a replay that answers every event as accepted. *)
ReplayAsAccepted(p) ==
  /\ pc[p] = "idem_get"
  /\ idem[Upload(p)] # NoRecord
  /\ accepted' = [accepted EXCEPT ![p] = Cardinality(batch[p])]
  /\ rejected' = [rejected EXCEPT ![p] = 0]
  /\ pc' = [pc EXCEPT ![p] = "done"]
  /\ UNCHANGED <<stores, batch, client, todo, hd, attempts, acked>>

(* idem.get finds a record: the earlier outcome is replayed. *)
Replay(p) ==
  /\ pc[p] = "idem_get"
  /\ idem[Upload(p)] # NoRecord
  /\ accepted' = [accepted EXCEPT ![p] = idem[Upload(p)].accepted]
  /\ rejected' = [rejected EXCEPT ![p] = idem[Upload(p)].rejected]
  /\ pc' = [pc EXCEPT ![p] = "done"]
  /\ UNCHANGED <<stores, batch, client, todo, hd, attempts, acked>>

(* Faulty variant: indexing without archiving first. *)
ValidateUnarchived(p) ==
  /\ pc[p] = "idem_get"
  /\ todo' = [todo EXCEPT ![p] = batch[p] \cap Own]
  /\ accepted' = [accepted EXCEPT ![p] = 0]
  /\ rejected' = [rejected EXCEPT ![p] = Cardinality(batch[p] \ Own)]
  /\ pc' = [pc EXCEPT ![p] = "chain_head"]
  /\ UNCHANGED <<stores, batch, client, hd, attempts, acked>>

(* idem.get finds none: the upload is new, or the read, which is not        *)
(* strongly consistent, misses a recent record.  Events of another device   *)
(* and events with no id are counted as rejected.                           *)
Validate(p) ==
  /\ pc[p] = "idem_get"
  /\ todo' = [todo EXCEPT ![p] = batch[p] \cap Own]
  /\ accepted' = [accepted EXCEPT ![p] = 0]
  /\ rejected' = [rejected EXCEPT ![p] = Cardinality(batch[p] \ Own)]
  /\ pc' = [pc EXCEPT ![p] = "put_raw"]
  /\ UNCHANGED <<stores, batch, client, hd, attempts, acked>>

(* The raw batch is archived before anything of it is indexed. *)
PutRaw(p) ==
  /\ pc[p] = "put_raw"
  /\ archive' = archive \cup {batch[p]}
  /\ \E next \in {"chain_head", "failed"} : pc' = [pc EXCEPT ![p] = next]
  /\ UNCHANGED <<table, head, idem, locals, acked>>

(* Where the loop over the sorted events goes once rest remain. *)
LoopPc(rest) == IF rest = {} THEN "idem_put" ELSE "append"

ReadHead(p) ==
  /\ pc[p] = "chain_head"
  /\ hd' = [hd EXCEPT ![p] = head]
  /\ attempts' = [attempts EXCEPT ![p] = 0]
  /\ pc' = [pc EXCEPT ![p] = LoopPc(todo[p])]
  /\ UNCHANGED <<stores, batch, client, todo, accepted, rejected, acked>>

(* Faulty variant: the head is moved unconditionally. *)
AppendStoredAnyHead(p, e) ==
  LET hash == compute_event_hash(e, hd[p].hash) IN
  /\ pc[p] = "append" /\ IsNext(e, todo[p])
  /\ e \notin ChainedEvents
  /\ table' = table \cup {[event |-> e, prev |-> hd[p].hash, hash |-> hash]}
  /\ head' = [hash |-> hash, count |-> hd[p].count + 1]
  /\ hd' = [hd EXCEPT ![p] = head']
  /\ attempts' = [attempts EXCEPT ![p] = 0]
  /\ accepted' = [accepted EXCEPT ![p] = @ + 1]
  /\ todo' = [todo EXCEPT ![p] = @ \ {e}]
  /\ \E next \in {LoopPc(todo[p] \ {e}), "failed"} : pc' = [pc EXCEPT ![p] = next]
  /\ UNCHANGED <<archive, idem, batch, client, rejected, acked>>

(* Faulty variant: the item is put unconditionally. *)
AppendStoredAnyKey(p, e) ==
  LET hash == compute_event_hash(e, hd[p].hash) IN
  /\ pc[p] = "append" /\ IsNext(e, todo[p])
  /\ head.hash = hd[p].hash
  /\ table' = table \cup {[event |-> e, prev |-> hd[p].hash, hash |-> hash]}
  /\ head' = [hash |-> hash, count |-> hd[p].count + 1]
  /\ hd' = [hd EXCEPT ![p] = head']
  /\ attempts' = [attempts EXCEPT ![p] = 0]
  /\ accepted' = [accepted EXCEPT ![p] = @ + 1]
  /\ todo' = [todo EXCEPT ![p] = @ \ {e}]
  /\ \E next \in {LoopPc(todo[p] \ {e}), "failed"} : pc' = [pc EXCEPT ![p] = next]
  /\ UNCHANGED <<archive, idem, batch, client, rejected, acked>>

(* append_if_head: one transaction that puts the item if its key is absent  *)
(* and moves the head if it still is the expected one.                      *)
AppendStored(p, e) ==
  LET hash == compute_event_hash(e, hd[p].hash) IN
  /\ pc[p] = "append" /\ IsNext(e, todo[p])
  /\ e \notin ChainedEvents
  /\ head.hash = hd[p].hash
  /\ table' = table \cup {[event |-> e, prev |-> hd[p].hash, hash |-> hash]}
  /\ head' = [hash |-> hash, count |-> hd[p].count + 1]
  /\ hd' = [hd EXCEPT ![p] = head']
  /\ attempts' = [attempts EXCEPT ![p] = 0]
  /\ accepted' = [accepted EXCEPT ![p] = @ + 1]
  /\ todo' = [todo EXCEPT ![p] = @ \ {e}]
  /\ \E next \in {LoopPc(todo[p] \ {e}), "failed"} : pc' = [pc EXCEPT ![p] = next]
  /\ UNCHANGED <<archive, idem, batch, client, rejected, acked>>

(* The item's key exists; a stale head as well does not change the verdict. *)
AppendDuplicate(p, e) ==
  /\ pc[p] = "append" /\ IsNext(e, todo[p])
  /\ e \in ChainedEvents
  /\ pc' = [pc EXCEPT ![p] = "duplicate"]
  /\ UNCHANGED <<stores, locals, acked>>

AppendConflict(p, e) ==
  /\ pc[p] = "append" /\ IsNext(e, todo[p])
  /\ e \notin ChainedEvents
  /\ head.hash # hd[p].hash
  /\ pc' = [pc EXCEPT ![p] = "conflict"]
  /\ UNCHANGED <<stores, locals, acked>>

(* Faulty variant: a duplicate counts as nothing. *)
ResyncDuplicateUncounted(p, e) ==
  /\ pc[p] = "duplicate" /\ IsNext(e, todo[p])
  /\ hd' = [hd EXCEPT ![p] = head]
  /\ attempts' = [attempts EXCEPT ![p] = 0]
  /\ accepted' = [accepted EXCEPT ![p] = @]
  /\ todo' = [todo EXCEPT ![p] = @ \ {e}]
  /\ pc' = [pc EXCEPT ![p] = LoopPc(todo[p] \ {e})]
  /\ UNCHANGED <<stores, batch, client, rejected, acked>>

(* DuplicateEvent: resync the head, count the event as accepted, move on. *)
ResyncDuplicate(p, e) ==
  /\ pc[p] = "duplicate" /\ IsNext(e, todo[p])
  /\ hd' = [hd EXCEPT ![p] = head]
  /\ attempts' = [attempts EXCEPT ![p] = 0]
  /\ accepted' = [accepted EXCEPT ![p] = @ + 1]
  /\ todo' = [todo EXCEPT ![p] = @ \ {e}]
  /\ pc' = [pc EXCEPT ![p] = LoopPc(todo[p] \ {e})]
  /\ UNCHANGED <<stores, batch, client, rejected, acked>>

(* Faulty variant: the retry counter runs the wrong way. *)
ResyncRetryCountsDown(p) ==
  /\ pc[p] = "conflict"
  /\ attempts[p] + 1 < MaxChainRetries
  /\ hd' = [hd EXCEPT ![p] = head]
  /\ attempts' = [attempts EXCEPT ![p] = @ - 1]
  /\ pc' = [pc EXCEPT ![p] = "append"]
  /\ UNCHANGED <<stores, batch, client, todo, accepted, rejected, acked>>

(* Faulty variant: the event is retried against the same stale head. *)
ResyncRetryStaleHead(p) ==
  /\ pc[p] = "conflict"
  /\ attempts[p] + 1 < MaxChainRetries
  /\ hd' = hd
  /\ attempts' = [attempts EXCEPT ![p] = @ + 1]
  /\ pc' = [pc EXCEPT ![p] = "append"]
  /\ UNCHANGED <<stores, batch, client, todo, accepted, rejected, acked>>

(* Faulty variant: neither the head is re-read nor the attempt counted. *)
ResyncRetryForever(p) ==
  /\ pc[p] = "conflict"
  /\ attempts[p] + 1 < MaxChainRetries
  /\ hd' = hd
  /\ attempts' = [attempts EXCEPT ![p] = @]
  /\ pc' = [pc EXCEPT ![p] = "append"]
  /\ UNCHANGED <<stores, batch, client, todo, accepted, rejected, acked>>

(* ChainConflict: resync the head and try the event again. *)
ResyncRetry(p) ==
  /\ pc[p] = "conflict"
  /\ attempts[p] + 1 < MaxChainRetries
  /\ hd' = [hd EXCEPT ![p] = head]
  /\ attempts' = [attempts EXCEPT ![p] = @ + 1]
  /\ pc' = [pc EXCEPT ![p] = "append"]
  /\ UNCHANGED <<stores, batch, client, todo, accepted, rejected, acked>>

(* Faulty variant: an event given up on is not counted. *)
ResyncRejectUncounted(p, e) ==
  /\ pc[p] = "conflict" /\ IsNext(e, todo[p])
  /\ attempts[p] + 1 >= MaxChainRetries
  /\ hd' = [hd EXCEPT ![p] = head]
  /\ attempts' = [attempts EXCEPT ![p] = 0]
  /\ rejected' = [rejected EXCEPT ![p] = @]
  /\ todo' = [todo EXCEPT ![p] = @ \ {e}]
  /\ pc' = [pc EXCEPT ![p] = LoopPc(todo[p] \ {e})]
  /\ UNCHANGED <<stores, batch, client, accepted, acked>>

(* ChainConflict for the last time: the event is counted as rejected. *)
ResyncReject(p, e) ==
  /\ pc[p] = "conflict" /\ IsNext(e, todo[p])
  /\ attempts[p] + 1 >= MaxChainRetries
  /\ hd' = [hd EXCEPT ![p] = head]
  /\ attempts' = [attempts EXCEPT ![p] = 0]
  /\ rejected' = [rejected EXCEPT ![p] = @ + 1]
  /\ todo' = [todo EXCEPT ![p] = @ \ {e}]
  /\ pc' = [pc EXCEPT ![p] = LoopPc(todo[p] \ {e})]
  /\ UNCHANGED <<stores, batch, client, accepted, acked>>

(* The outcome is recorded, over any record already there; its time to live *)
(* starts again.                                                            *)
IdemPut(p) ==
  /\ pc[p] = "idem_put"
  /\ idem' = [idem EXCEPT ![Upload(p)] =
                [accepted |-> accepted[p], rejected |-> rejected[p]]]
  /\ \E next \in {"done", "failed"} : pc' = [pc EXCEPT ![p] = next]
  /\ UNCHANGED <<table, head, archive, locals, acked>>

(* A store call fails with no effect, or the invocation is killed: 500. *)
StoreFailure(p) ==
  /\ pc[p] \in StoreCalls
  /\ pc' = [pc EXCEPT ![p] = "failed"]
  /\ UNCHANGED <<stores, locals, acked>>

(* The response goes out and the invocation ends. *)
Respond(p) ==
  /\ pc[p] \in {"done", "failed"}
  /\ acked' = IF pc[p] = "done" /\ rejected[p] = 0 /\ client[p] = NoClientId
              THEN acked \cup batch[p] ELSE acked
  /\ pc' = [pc EXCEPT ![p] = "idle"]
  /\ batch' = [batch EXCEPT ![p] = {}]
  /\ client' = [client EXCEPT ![p] = NoClientId]
  /\ todo' = [todo EXCEPT ![p] = {}]
  /\ hd' = [hd EXCEPT ![p] = NoHead]
  /\ attempts' = [attempts EXCEPT ![p] = 0]
  /\ accepted' = [accepted EXCEPT ![p] = 0]
  /\ rejected' = [rejected EXCEPT ![p] = 0]
  /\ UNCHANGED stores

(* Everything an invocation does before it responds. *)
Work(p) ==
  \/ Replay(p) \/ Validate(p) \/ PutRaw(p) \/ ReadHead(p)
  \/ \E e \in Event : \/ AppendStored(p, e) \/ AppendDuplicate(p, e)
                      \/ AppendConflict(p, e)
                      \/ ResyncDuplicate(p, e) \/ ResyncReject(p, e)
  \/ ResyncRetry(p) \/ IdemPut(p) \/ StoreFailure(p)

Step(p) == Work(p) \/ Respond(p)

Next ==
  \E p \in Invocation :
    \/ \E c \in ClientId \cup {NoClientId}, B \in Batches : Receive(p, c, B)
    \/ \E B \in Batches : Refuse(p, B)
    \/ Step(p)

Spec == Init /\ [][Next]_vars

(* The runtime keeps running an invocation it has started. *)
FairSpec == Spec /\ \A p \in Invocation : WF_vars(Step(p))
-----------------------------------------------------------------------------
(* Links(s): the items of a chain that holds the events s, in this order. *)
Links(s) == {[event |-> s[k], prev |-> SubSeq(s, 1, k - 1), hash |-> SubSeq(s, 1, k)] :
               k \in 1..Len(s)}

Ancestor(s, t) == Len(s) <= Len(t) /\ \A i \in 1..Len(s) : s[i] = t[i]

(* Every variable holds a value of its kind. *)
TypeOK ==
  /\ table \subseteq [event : Event, prev : Hash, hash : Hash]
  /\ head \in [hash : Hash, count : Nat]
  /\ archive \subseteq SUBSET Event
  /\ idem \in [UploadId -> [accepted : Nat, rejected : Nat] \cup {NoRecord}]
  /\ pc \in [Invocation -> StoreCalls \cup {"idle", "done", "failed"}]
  /\ batch \in [Invocation -> SUBSET Event]
  /\ client \in [Invocation -> ClientId \cup {NoClientId}]
  /\ todo \in [Invocation -> SUBSET Event]
  /\ hd \in [Invocation -> [hash : Hash, count : Nat]]
  /\ attempts \in [Invocation -> Nat]
  /\ accepted \in [Invocation -> Nat]
  /\ rejected \in [Invocation -> Nat]
  /\ acked \subseteq Event

(* However the invocations interleave, re-walking the stored items from the *)
(* head meets every stored event exactly once, each linked to the previous  *)
(* one by its hash, and the head's count is the length of the walk          *)
(* (append_if_head, compute_event_hash).                                    *)
ChainIntact ==
  /\ table = Links(head.hash)
  /\ head.count = Len(head.hash)
  /\ \A i, j \in 1..Len(head.hash) : head.hash[i] = head.hash[j] => i = j

(* Every indexed event is in a batch that had been archived: a crash never  *)
(* leaves an event in the table whose raw batch is missing from S3.         *)
ArchivedFirst == ChainedEvents \subseteq UNION archive

(* An idempotency record that rejects nothing, which every later retry of   *)
(* the upload is answered from, stands for a batch that is chained in full. *)
RecordTruthful ==
  \A B \in SUBSET Event :
    LET record == idem[derive_upload_id(B)] IN
    record # NoRecord /\ record.rejected = 0 => B \subseteq ChainedEvents

(* An uploader told that nothing was rejected may drop the whole batch.     *)
AckedIsChained == acked \subseteq ChainedEvents

(* The counts of a record add up, and no event counts as accepted that is   *)
(* not in the chain.                                                        *)
RecordBalances ==
  \A B \in SUBSET Event :
    LET record == idem[derive_upload_id(B)] IN
    record # NoRecord =>
      /\ record.accepted + record.rejected = Cardinality(B)
      /\ record.accepted <= Cardinality(B \cap ChainedEvents)

(* An invocation's copy of the head is stale at worst, never on another     *)
(* branch; and it only meets a conflict when someone else made progress, so *)
(* a device with fewer than MAX_CHAIN_RETRIES chained events has no event   *)
(* rejected for contention.                                                 *)
ConflictMeansProgress ==
  \A p \in Invocation : /\ Ancestor(hd[p].hash, head.hash)
                        /\ attempts[p] <= Len(hd[p].hash)

(* The inductive invariant: what each invocation knows while it loops over  *)
(* its batch.  The handlers never look at another invocation's state, so    *)
(* this is a statement per invocation about the shared stores.              *)
Looping == {"put_raw", "chain_head", "append", "duplicate", "conflict", "idem_put"}

HeadCopy(p) ==
  /\ hd[p].count = Len(hd[p].hash)
  /\ Ancestor(hd[p].hash, head.hash)
  /\ attempts[p] <= Len(hd[p].hash)
  /\ pc[p] = "conflict" => Len(hd[p].hash) < Len(head.hash)

Loop(p) ==
  /\ pc[p] \in Looping => todo[p] \subseteq batch[p]
  /\ pc[p] \in Looping \ {"put_raw"} => batch[p] \in archive
  /\ pc[p] \in Looping /\ rejected[p] = 0 => batch[p] \ todo[p] \subseteq ChainedEvents
  /\ pc[p] = "idem_put" => todo[p] = {}
  /\ pc[p] = "duplicate" => \A e \in Event : IsNext(e, todo[p]) => e \in ChainedEvents
  /\ pc[p] = "done" /\ rejected[p] = 0 /\ client[p] = NoClientId => batch[p] \subseteq ChainedEvents

IndInv ==
  /\ TypeOK /\ ChainIntact /\ ArchivedFirst /\ RecordTruthful /\ AckedIsChained
  /\ \A p \in Invocation : HeadCopy(p) /\ Loop(p)

(* The chain only grows at its end and no stored item is ever rewritten.    *)
ChainAppendOnly ==
  [][table \subseteq table' /\ Ancestor(head.hash, head'.hash)]_vars

(* The handlers implement the abstract audit log. *)
Log == INSTANCE AuditLog WITH log <- head.hash, durable <- UNION archive
ImplementsLog == Log!Spec

(* Every request is answered: conflicts are retried a bounded number of     *)
(* times.                                                                   *)
Answered == \A p \in Invocation : pc[p] = "idem_get" ~> pc[p] = "idle"

(* The comment on idem.get: a previously processed upload is replayed       *)
(* verbatim, that is, a recorded outcome never changes.                     *)
RecordStable ==
  [][\A u \in UploadId : idem[u] # NoRecord => idem'[u] = idem[u]]_vars
=============================================================================
