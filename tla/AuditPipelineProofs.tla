------------------------- MODULE AuditPipelineProofs -------------------------
(***************************************************************************)
(* Proofs about AuditIngest, for every set of events, batches, client ids  *)
(* and concurrent invocations and every retry limit, and about the         *)
(* pipeline of an agent and these handlers, for every number of events,    *)
(* starts and failures.                                                    *)
(***************************************************************************)
EXTENDS AuditPipeline, FiniteSetTheorems, TLAPS

(* Appending to a sequence: type, length and elements. *)
LEMMA AppendFacts ==
  ASSUME NEW S, NEW s \in Seq(S), NEW e \in S
  PROVE  /\ Append(s, e) \in Seq(S)
         /\ Len(Append(s, e)) = Len(s) + 1
         /\ \A i \in 1..Len(s) : Append(s, e)[i] = s[i]
         /\ Append(s, e)[Len(s) + 1] = e
  OBVIOUS

(* The next program point of the loop is one of the handler's. *)
LEMMA LoopPcType == \A S : LoopPc(S) \in {"idem_put", "append"}
  BY DEF LoopPc

(* The number of events of another device in a batch is a number, and it   *)
(* is zero only when there is none.                                        *)
LEMMA ForeignCount ==
  ASSUME NEW B \in SUBSET Event
  PROVE  /\ Cardinality(B \ Own) \in Nat
         /\ Cardinality(B \ Own) = 0 => B \subseteq Own
  <1>1. IsFiniteSet(B \ Own)
    BY EventAssumption, FS_Subset
  <1> QED
    BY <1>1, FS_CardinalityType, FS_EmptySet

(* The upload id the handler settles on is a key of the records. *)
LEMMA UploadType ==
  ASSUME TypeOK, NEW p \in Invocation
  PROVE  Upload(p) \in UploadId
  BY DEF TypeOK, Upload, UploadId, effective_upload_id, derive_upload_id

(* A derived id stands for the invocation's own batch. *)
LEMMA DerivedIsOwn ==
  ASSUME TypeOK, NEW p \in Invocation, NEW B \in SUBSET Event, derive_upload_id(B) = Upload(p)
  PROVE  batch[p] = B
  <1>1. client[p] \in ClientId \cup {NoClientId}
    BY DEF TypeOK
  <1>2. client[p] = NoClientId
    BY <1>1, PrefixAssumption DEF Upload, effective_upload_id
  <1> QED
    BY <1>2 DEF Upload, effective_upload_id, derive_upload_id

(* The initial state is well typed. *)
LEMMA TypeInit == Init => TypeOK
  <1> SUFFICES ASSUME Init PROVE TypeOK
    OBVIOUS
  <1>1. NoHead \in [hash : Hash, count : Nat]
    BY DEF NoHead, Hash
  <1> QED
    BY <1>1 DEF Init, TypeOK

(* Every step of every handler keeps the variables well typed. *)
LEMMA TypeNext == TypeOK /\ [Next]_vars => TypeOK'
  <1> SUFFICES ASSUME TypeOK, [Next]_vars PROVE TypeOK'
    OBVIOUS
  <1> USE DEF TypeOK
  <1>1. ASSUME NEW p \in Invocation, NEW c \in ClientId \cup {NoClientId}, NEW B \in Batches,
               Receive(p, c, B)
        PROVE  TypeOK'
    BY <1>1, BatchAssumption DEF Receive, stores, StoreCalls
  <1>2. ASSUME NEW p \in Invocation, NEW B \in Batches, Refuse(p, B) PROVE TypeOK'
    BY <1>2 DEF Refuse, stores, locals
  <1>3. ASSUME NEW p \in Invocation, Replay(p) PROVE TypeOK'
    <2>1. idem[Upload(p)] \in [accepted : Nat, rejected : Nat]
      BY <1>3, UploadType DEF Replay
    <2> QED
      BY <1>3, <2>1 DEF Replay, stores
  <1>4. ASSUME NEW p \in Invocation, Validate(p) PROVE TypeOK'
    <2>1. Cardinality(batch[p] \ Own) \in Nat
      BY ForeignCount
    <2>2. batch[p] \cap Own \in SUBSET Event
      OBVIOUS
    <2> QED
      BY <1>4, <2>1, <2>2 DEF Validate, stores, StoreCalls
  <1>5. ASSUME NEW p \in Invocation, PutRaw(p) PROVE TypeOK'
    BY <1>5 DEF PutRaw, locals, StoreCalls
  <1>6. ASSUME NEW p \in Invocation, ReadHead(p) PROVE TypeOK'
    BY <1>6, LoopPcType DEF ReadHead, stores, StoreCalls
  <1>7. ASSUME NEW p \in Invocation, NEW e \in Event, AppendStored(p, e) PROVE TypeOK'
    <2>1. compute_event_hash(e, hd[p].hash) \in Hash
      BY AppendFacts DEF compute_event_hash, Hash
    <2>2. head' \in [hash : Hash, count : Nat]
      BY <1>7, <2>1 DEF AppendStored
    <2>3. table' \subseteq [event : Event, prev : Hash, hash : Hash]
      BY <1>7, <2>1 DEF AppendStored
    <2>4. pc' \in [Invocation -> StoreCalls \cup {"idle", "done", "failed"}]
      BY <1>7, LoopPcType DEF AppendStored, StoreCalls
    <2> QED
      BY <1>7, <2>2, <2>3, <2>4 DEF AppendStored
  <1>8. ASSUME NEW p \in Invocation, NEW e \in Event,
               AppendDuplicate(p, e) \/ AppendConflict(p, e)
        PROVE  TypeOK'
    BY <1>8 DEF AppendDuplicate, AppendConflict, stores, locals, StoreCalls
  <1>9. ASSUME NEW p \in Invocation, NEW e \in Event, ResyncDuplicate(p, e) PROVE TypeOK'
    BY <1>9, LoopPcType DEF ResyncDuplicate, stores, StoreCalls
  <1>10. ASSUME NEW p \in Invocation, NEW e \in Event, ResyncReject(p, e) PROVE TypeOK'
    BY <1>10, LoopPcType DEF ResyncReject, stores, StoreCalls
  <1>11. ASSUME NEW p \in Invocation, ResyncRetry(p) PROVE TypeOK'
    BY <1>11 DEF ResyncRetry, stores, StoreCalls
  <1>12. ASSUME NEW p \in Invocation, IdemPut(p) PROVE TypeOK'
    BY <1>12, UploadType DEF IdemPut, locals
  <1>13. ASSUME NEW p \in Invocation, StoreFailure(p) PROVE TypeOK'
    BY <1>13 DEF StoreFailure, stores, locals
  <1>14. ASSUME NEW p \in Invocation, Respond(p) PROVE TypeOK'
    <2>1. NoHead \in [hash : Hash, count : Nat]
      BY DEF NoHead, Hash
    <2> QED
      BY <1>14, <2>1 DEF Respond, stores
  <1>15. CASE UNCHANGED vars
    BY <1>15 DEF vars, stores, locals
  <1> QED
    BY <1>1, <1>2, <1>3, <1>4, <1>5, <1>6, <1>7, <1>8, <1>9, <1>10, <1>11, <1>12, <1>13,
       <1>14, <1>15 DEF Next, Step, Work

(* Type correctness of the ingestion handlers. *)
THEOREM TypeCorrect == Spec => []TypeOK
  BY TypeInit, TypeNext, PTL DEF Spec
-----------------------------------------------------------------------------
(* The items of a chain grown by one event. *)
LEMMA LinksAppend ==
  ASSUME NEW s \in Seq(Event), NEW e \in Event
  PROVE  Links(Append(s, e)) =
           Links(s) \cup {[event |-> e, prev |-> s, hash |-> Append(s, e)]}
  <1> DEFINE t == Append(s, e)
  <1>1. /\ t \in Seq(Event) /\ Len(t) = Len(s) + 1 /\ t[Len(s) + 1] = e
        /\ \A i \in 1..Len(s) : t[i] = s[i]
    BY AppendFacts
  <1>2. ASSUME NEW k \in 0..Len(s) PROVE SubSeq(t, 1, k) = SubSeq(s, 1, k)
    BY <1>1
  <1>3. SubSeq(t, 1, Len(s) + 1) = t
    BY <1>1
  <1>4. SubSeq(s, 1, Len(s)) = s
    OBVIOUS
  <1> DEFINE Link(u, k) == [event |-> u[k], prev |-> SubSeq(u, 1, k - 1), hash |-> SubSeq(u, 1, k)]
  <1>5. ASSUME NEW k \in 1..Len(s) PROVE Link(t, k) = Link(s, k)
    <2>1. k \in 0..Len(s) /\ k - 1 \in 0..Len(s) /\ t[k] = s[k]
      BY <1>1
    <2>2. SubSeq(t, 1, k) = SubSeq(s, 1, k) /\ SubSeq(t, 1, k - 1) = SubSeq(s, 1, k - 1)
      BY <1>2, <2>1
    <2> QED
      BY <2>1, <2>2
  <1>6. Link(t, Len(s) + 1) = [event |-> e, prev |-> s, hash |-> t]
    BY <1>1, <1>2, <1>3, <1>4
  <1>7. 1..Len(t) = 1..Len(s) \cup {Len(s) + 1}
    BY <1>1
  <1>8. Links(t) = {Link(t, k) : k \in 1..Len(t)} /\ Links(s) = {Link(s, k) : k \in 1..Len(s)}
    BY DEF Links
  <1> HIDE DEF t, Link
  <1>9. Links(t) = Links(s) \cup {Link(t, Len(s) + 1)}
    BY <1>5, <1>7, <1>8
  <1> QED
    BY <1>6, <1>9 DEF t

(* The chained events are the ones on the walk from the head. *)
LEMMA ChainedIsElems ==
  ASSUME TypeOK, ChainIntact
  PROVE  ChainedEvents = Elems(head.hash)
  <1> DEFINE s == head.hash
             Link(k) == [event |-> s[k], prev |-> SubSeq(s, 1, k - 1), hash |-> SubSeq(s, 1, k)]
  <1>1. table = {Link(k) : k \in 1..Len(s)}
    BY DEF ChainIntact, Links
  <1>2. \A k \in 1..Len(s) : Link(k).event = s[k]
    OBVIOUS
  <1> HIDE DEF Link
  <1>3. {item.event : item \in {Link(k) : k \in 1..Len(s)}} = {s[k] : k \in 1..Len(s)}
    BY <1>2
  <1> QED
    BY <1>1, <1>3 DEF ChainedEvents, Elems

(* Only a successful append touches the table and the head. *)
LEMMA ChainChanges ==
  ASSUME [Next]_vars
  PROVE  \/ UNCHANGED <<table, head>>
         \/ \E p \in Invocation, e \in Event : AppendStored(p, e)
  <1> USE DEF stores
  <1>1. CASE UNCHANGED vars
    BY <1>1 DEF vars
  <1>2. ASSUME NEW p \in Invocation, NEW c \in ClientId \cup {NoClientId}, NEW B \in Batches,
               Receive(p, c, B) \/ Refuse(p, B)
        PROVE  UNCHANGED <<table, head>>
    BY <1>2 DEF Receive, Refuse
  <1>3. ASSUME NEW p \in Invocation,
               \/ Replay(p) \/ Validate(p) \/ PutRaw(p) \/ ReadHead(p)
               \/ ResyncRetry(p) \/ IdemPut(p) \/ StoreFailure(p) \/ Respond(p)
        PROVE  UNCHANGED <<table, head>>
    BY <1>3 DEF Replay, Validate, PutRaw, ReadHead, ResyncRetry, IdemPut, StoreFailure, Respond
  <1>4. ASSUME NEW p \in Invocation, NEW e \in Event,
               \/ AppendDuplicate(p, e) \/ AppendConflict(p, e)
               \/ ResyncDuplicate(p, e) \/ ResyncReject(p, e)
        PROVE  UNCHANGED <<table, head>>
    BY <1>4 DEF AppendDuplicate, AppendConflict, ResyncDuplicate, ResyncReject
  <1> QED
    BY <1>1, <1>2, <1>3, <1>4 DEF Next, Step, Work

(* What a successful append does to the chain. *)
LEMMA AppendEffect ==
  ASSUME TypeOK, ChainIntact, NEW p \in Invocation, NEW e \in Event, AppendStored(p, e)
  PROVE  /\ head'.hash = Append(head.hash, e)
         /\ table' = table \cup {[event |-> e, prev |-> head.hash, hash |-> Append(head.hash, e)]}
         /\ head.hash \in Seq(Event)
         /\ ChainedEvents' = ChainedEvents \cup {e}
         /\ e \notin ChainedEvents
  <1> DEFINE item == [event |-> e, prev |-> head.hash, hash |-> Append(head.hash, e)]
  <1>1. head.hash \in Seq(Event)
    BY DEF TypeOK, Hash
  <1>2. head.hash = hd[p].hash /\ e \notin ChainedEvents
    BY DEF AppendStored
  <1>3. head' = [hash |-> Append(head.hash, e), count |-> hd[p].count + 1]
    BY <1>2 DEF AppendStored, compute_event_hash
  <1>4. table' = table \cup {item}
    BY <1>2 DEF AppendStored, compute_event_hash
  <1>5. ChainedEvents' = ChainedEvents \cup {item.event}
    <2> HIDE DEF item
    <2> QED
      BY <1>4 DEF ChainedEvents
  <1> QED
    BY <1>1, <1>2, <1>3, <1>4, <1>5

(* A step keeps the chain intact: a handler only moves the head it has a
   current copy of, and knows its length. *)
LEMMA ChainNext ==
  ASSUME TypeOK, ChainIntact, \A p \in Invocation : HeadCopy(p), [Next]_vars
  PROVE  ChainIntact'
  <1>1. CASE UNCHANGED <<table, head>>
    BY <1>1 DEF ChainIntact, Links
  <1>2. ASSUME NEW p \in Invocation, NEW e \in Event, AppendStored(p, e) PROVE ChainIntact'
    <2> DEFINE s == head.hash
    <2>1. /\ s \in Seq(Event) /\ head'.hash = Append(s, e) /\ e \notin ChainedEvents
          /\ table' = table \cup {[event |-> e, prev |-> s, hash |-> Append(s, e)]}
      BY <1>2, AppendEffect
    <2>2. table' = Links(head'.hash)
      BY <2>1, LinksAppend DEF ChainIntact
    <2>3. head'.count = Len(head'.hash)
      <3>1. head'.count = hd[p].count + 1 /\ hd[p].hash = s
        BY <1>2 DEF AppendStored, TypeOK
      <3> QED
        BY <2>1, <3>1, AppendFacts DEF HeadCopy
    <2>4. \A i, j \in 1..Len(head'.hash) : head'.hash[i] = head'.hash[j] => i = j
      <3>1. e \notin Elems(s)
        BY <2>1, ChainedIsElems
      <3>2. \A i \in 1..Len(s) : s[i] # e
        BY <3>1 DEF Elems
      <3>3. /\ Len(head'.hash) = Len(s) + 1 /\ head'.hash[Len(s) + 1] = e
            /\ \A i \in 1..Len(s) : head'.hash[i] = s[i]
        BY <2>1, AppendFacts
      <3>4. \A i, j \in 1..Len(s) : s[i] = s[j] => i = j
        BY DEF ChainIntact
      <3> QED
        BY <2>1, <3>2, <3>3, <3>4
    <2> QED
      BY <2>2, <2>3, <2>4 DEF ChainIntact
  <1> QED
    BY <1>1, <1>2, ChainChanges

(* A step never shrinks the chain. *)
LEMMA ChainGrows ==
  ASSUME TypeOK, ChainIntact, [Next]_vars
  PROVE  /\ table \subseteq table' /\ ChainedEvents \subseteq ChainedEvents'
         /\ Ancestor(head.hash, head'.hash)
  <1>1. head.hash \in Seq(Event)
    BY DEF TypeOK, Hash
  <1>2. CASE UNCHANGED <<table, head>>
    BY <1>1, <1>2 DEF Ancestor, ChainedEvents
  <1>3. ASSUME NEW p \in Invocation, NEW e \in Event, AppendStored(p, e)
        PROVE  /\ table \subseteq table' /\ ChainedEvents \subseteq ChainedEvents'
               /\ Ancestor(head.hash, head'.hash)
    BY <1>1, <1>3, AppendEffect, AppendFacts DEF Ancestor
  <1> QED
    BY <1>2, <1>3, ChainChanges
-----------------------------------------------------------------------------
(* Ancestor is a partial order on chains, and a proper ancestor is shorter. *)
LEMMA AncestorFacts ==
  ASSUME NEW s \in Seq(Event), NEW t \in Seq(Event), NEW u \in Seq(Event)
  PROVE  /\ Ancestor(s, s) /\ Ancestor(<<>>, s)
         /\ Ancestor(s, t) /\ Ancestor(t, u) => Ancestor(s, u)
         /\ Ancestor(s, t) /\ s # t => Len(s) < Len(t)
  <1>1. Ancestor(s, s) /\ Ancestor(<<>>, s)
    BY DEF Ancestor
  <1>2. Ancestor(s, t) /\ Ancestor(t, u) => Ancestor(s, u)
    BY DEF Ancestor
  <1>3. ASSUME Ancestor(s, t), s # t PROVE Len(s) < Len(t)
    <2>1. SUFFICES ASSUME Len(s) = Len(t) PROVE FALSE
      BY <1>3 DEF Ancestor
    <2>2. \A i \in 1..Len(s) : s[i] = t[i]
      BY <1>3 DEF Ancestor
    <2>3. s = t
      BY <2>1, <2>2
    <2> QED
      BY <1>3, <2>3
  <1> QED
    BY <1>1, <1>2, <1>3

(* A step keeps every handler's copy of the head an ancestor of the head
   and its conflict counter covered by the progress of others. *)
LEMMA HeadCopyNext ==
  ASSUME TypeOK, TypeOK', ChainIntact, ChainIntact', \A p \in Invocation : HeadCopy(p),
         [Next]_vars, NEW q \in Invocation
  PROVE  HeadCopy(q)'
  <1>1. /\ hd[q].hash \in Seq(Event) /\ head.hash \in Seq(Event) /\ head'.hash \in Seq(Event)
        /\ attempts[q] \in Nat
    BY DEF TypeOK, Hash
  <1>2. Ancestor(head.hash, head'.hash)
    BY ChainGrows
  \* An invocation whose copy of the head is left alone.
  <1>3. ASSUME hd'[q] = hd[q], attempts'[q] = attempts[q], pc'[q] = "conflict" => pc[q] = "conflict"
        PROVE  HeadCopy(q)'
    <2>1. Ancestor(hd[q].hash, head'.hash)
      BY <1>1, <1>2, AncestorFacts DEF HeadCopy
    <2>2. Len(head.hash) <= Len(head'.hash)
      BY <1>2 DEF Ancestor
    <2> QED
      BY <1>1, <1>3, <2>1, <2>2 DEF HeadCopy
  \* An invocation that has just read or written the head.
  <1>4. ASSUME hd'[q] = head', attempts'[q] = 0, pc'[q] # "conflict" PROVE HeadCopy(q)'
    BY <1>1, <1>4, AncestorFacts DEF HeadCopy, ChainIntact
  <1> USE DEF stores, locals, TypeOK
  <1>5. ASSUME NEW p \in Invocation, NEW c \in ClientId \cup {NoClientId}, NEW B \in Batches,
               Receive(p, c, B) \/ Refuse(p, B)
        PROVE  HeadCopy(q)'
    BY <1>3, <1>5 DEF Receive, Refuse
  <1>6. ASSUME NEW p \in Invocation,
               Replay(p) \/ Validate(p) \/ PutRaw(p) \/ IdemPut(p) \/ StoreFailure(p)
        PROVE  HeadCopy(q)'
    BY <1>3, <1>6 DEF Replay, Validate, PutRaw, IdemPut, StoreFailure
  <1>7. ASSUME NEW p \in Invocation, ReadHead(p) PROVE HeadCopy(q)'
    <2>1. LoopPc(todo[p]) # "conflict"
      BY LoopPcType
    <2> QED
      BY <1>3, <1>4, <1>7, <2>1 DEF ReadHead
  <1>8. ASSUME NEW p \in Invocation, NEW e \in Event, AppendStored(p, e) PROVE HeadCopy(q)'
    <2>1. LoopPc(todo[p] \ {e}) # "conflict"
      BY LoopPcType
    <2>2. CASE q = p
      BY <1>4, <1>8, <2>1, <2>2 DEF AppendStored
    <2>3. CASE q # p
      BY <1>3, <1>8, <2>3 DEF AppendStored
    <2> QED
      BY <2>2, <2>3
  <1>9. ASSUME NEW p \in Invocation, NEW e \in Event, AppendDuplicate(p, e) PROVE HeadCopy(q)'
    BY <1>3, <1>9 DEF AppendDuplicate
  <1>10. ASSUME NEW p \in Invocation, NEW e \in Event, AppendConflict(p, e) PROVE HeadCopy(q)'
    <2>1. CASE q = p
      <3>1. Len(hd[q].hash) < Len(head.hash)
        BY <1>1, <1>10, <2>1, AncestorFacts DEF AppendConflict, HeadCopy
      <3> QED
        BY <1>10, <2>1, <3>1 DEF AppendConflict, HeadCopy
    <2>2. CASE q # p
      BY <1>3, <1>10, <2>2 DEF AppendConflict
    <2> QED
      BY <2>1, <2>2
  <1>11. ASSUME NEW p \in Invocation, NEW e \in Event,
                ResyncDuplicate(p, e) \/ ResyncReject(p, e)
         PROVE  HeadCopy(q)'
    <2>1. LoopPc(todo[p] \ {e}) # "conflict"
      BY LoopPcType
    <2>2. CASE q = p
      BY <1>4, <1>11, <2>1, <2>2 DEF ResyncDuplicate, ResyncReject
    <2>3. CASE q # p
      BY <1>3, <1>11, <2>3 DEF ResyncDuplicate, ResyncReject
    <2> QED
      BY <2>2, <2>3
  <1>12. ASSUME NEW p \in Invocation, ResyncRetry(p) PROVE HeadCopy(q)'
    <2>1. CASE q = p
      <3>1. attempts[q] + 1 <= Len(head.hash)
        BY <1>1, <1>12, <2>1 DEF ResyncRetry, HeadCopy
      <3>2. /\ hd'[q] = head /\ head' = head /\ attempts'[q] = attempts[q] + 1
            /\ pc'[q] = "append"
        BY <1>12, <2>1 DEF ResyncRetry
      <3> QED
        BY <1>1, <3>1, <3>2, AncestorFacts DEF HeadCopy, ChainIntact
    <2>2. CASE q # p
      BY <1>3, <1>12, <2>2 DEF ResyncRetry
    <2> QED
      BY <2>1, <2>2
  <1>13. ASSUME NEW p \in Invocation, Respond(p) PROVE HeadCopy(q)'
    <2>1. CASE q = p
      <3>1. hd'[q] = NoHead /\ attempts'[q] = 0 /\ pc'[q] = "idle"
        BY <1>13, <2>1 DEF Respond
      <3> QED
        BY <1>1, <3>1, AncestorFacts DEF HeadCopy, NoHead
    <2>2. CASE q # p
      BY <1>3, <1>13, <2>2 DEF Respond
    <2> QED
      BY <2>1, <2>2
  <1>14. CASE UNCHANGED vars
    BY <1>3, <1>14 DEF vars
  <1> QED
    BY <1>5, <1>6, <1>7, <1>8, <1>9, <1>10, <1>11, <1>12, <1>13, <1>14 DEF Next, Step, Work
-----------------------------------------------------------------------------
(* The archive and the chained events only grow. *)
LEMMA StoresGrow ==
  ASSUME TypeOK, ChainIntact, [Next]_vars
  PROVE  archive \subseteq archive' /\ ChainedEvents \subseteq ChainedEvents'
  <1> USE DEF stores
  <1>1. CASE UNCHANGED vars
    BY <1>1, ChainGrows DEF vars
  <1>2. ASSUME NEW p \in Invocation, NEW c \in ClientId \cup {NoClientId}, NEW B \in Batches,
               Receive(p, c, B) \/ Refuse(p, B)
        PROVE  archive \subseteq archive'
    BY <1>2 DEF Receive, Refuse
  <1>3. ASSUME NEW p \in Invocation,
               \/ Replay(p) \/ Validate(p) \/ PutRaw(p) \/ ReadHead(p)
               \/ ResyncRetry(p) \/ IdemPut(p) \/ StoreFailure(p) \/ Respond(p)
        PROVE  archive \subseteq archive'
    BY <1>3 DEF Replay, Validate, PutRaw, ReadHead, ResyncRetry, IdemPut, StoreFailure, Respond
  <1>4. ASSUME NEW p \in Invocation, NEW e \in Event,
               \/ AppendStored(p, e) \/ AppendDuplicate(p, e) \/ AppendConflict(p, e)
               \/ ResyncDuplicate(p, e) \/ ResyncReject(p, e)
        PROVE  archive \subseteq archive'
    BY <1>4 DEF AppendStored, AppendDuplicate, AppendConflict, ResyncDuplicate, ResyncReject
  <1> QED
    BY <1>1, <1>2, <1>3, <1>4, ChainGrows DEF Next, Step, Work

(* A step keeps what every handler knows about its batch: what is left of
   it, that it is archived, and that what it counted as accepted is chained. *)
LEMMA LoopNext ==
  ASSUME TypeOK, TypeOK', ChainIntact, RecordTruthful, \A p \in Invocation : Loop(p),
         [Next]_vars, NEW q \in Invocation
  PROVE  Loop(q)'
  <1>1. archive \subseteq archive' /\ ChainedEvents \subseteq ChainedEvents'
    BY StoresGrow
  \* An invocation that does not move.
  <1>2. ASSUME pc'[q] = pc[q], batch'[q] = batch[q], todo'[q] = todo[q],
               rejected'[q] = rejected[q], client'[q] = client[q]
        PROVE  Loop(q)'
    BY <1>1, <1>2 DEF Loop, IsNext
  \* An invocation that ends, or has not looked at its events yet.
  <1>3. ASSUME pc'[q] \in {"idle", "idem_get", "failed"} PROVE Loop(q)'
    BY <1>3 DEF Loop, Looping
  \* An invocation that leaves an event e of its batch behind it.
  <1>4. ASSUME NEW e \in todo[q], pc[q] \in Looping \ {"put_raw"},
               batch'[q] = batch[q], todo'[q] = todo[q] \ {e},
               pc'[q] = LoopPc(todo[q] \ {e}), client'[q] = client[q],
               \/ rejected'[q] = rejected[q] /\ e \in ChainedEvents'
               \/ rejected'[q] # 0
        PROVE  Loop(q)'
    <2>1. pc'[q] \in {"append", "idem_put"} /\ (pc'[q] = "idem_put" => todo'[q] = {})
      BY <1>4 DEF LoopPc
    <2>2. todo'[q] \subseteq batch'[q] /\ batch'[q] \in archive'
      BY <1>1, <1>4 DEF Loop
    <2>3. rejected'[q] = 0 => batch'[q] \ todo'[q] \subseteq ChainedEvents'
      BY <1>1, <1>4 DEF Loop
    <2> QED
      BY <2>1, <2>2, <2>3 DEF Loop
  <1> USE DEF stores, locals
  <1>5. ASSUME NEW p \in Invocation, NEW c \in ClientId \cup {NoClientId}, NEW B \in Batches,
               Receive(p, c, B) \/ Refuse(p, B)
        PROVE  Loop(q)'
    BY <1>2, <1>3, <1>5 DEF Receive, Refuse, TypeOK
  <1>6. ASSUME NEW p \in Invocation, Replay(p) PROVE Loop(q)'
    <2>1. CASE q = p
      <3>1. /\ pc'[p] = "done" /\ rejected'[p] = idem[Upload(p)].rejected
            /\ batch'[p] = batch[p] /\ client'[p] = client[p] /\ idem[Upload(p)] # NoRecord
        BY <1>6 DEF Replay, TypeOK
      <3>2. client[p] = NoClientId => Upload(p) = derive_upload_id(batch[p])
        BY DEF Upload, effective_upload_id
      <3>3. batch[p] \in SUBSET Event
        BY DEF TypeOK
      <3>4. rejected'[p] = 0 /\ client'[p] = NoClientId => batch'[p] \subseteq ChainedEvents'
        BY <1>1, <3>1, <3>2, <3>3 DEF RecordTruthful
      <3> QED
        BY <2>1, <3>1, <3>4 DEF Loop, Looping
    <2>2. CASE q # p
      BY <1>2, <1>6, <2>2 DEF Replay, TypeOK
    <2> QED
      BY <2>1, <2>2
  <1>7. ASSUME NEW p \in Invocation, Validate(p) PROVE Loop(q)'
    <2>1. CASE q = p
      <3>1. /\ pc'[p] = "put_raw" /\ todo'[p] = batch[p] \cap Own /\ batch'[p] = batch[p]
            /\ rejected'[p] = Cardinality(batch[p] \ Own)
        BY <1>7 DEF Validate, TypeOK
      <3>2. rejected'[p] = 0 => batch'[p] \ todo'[p] = {}
        <4>1. batch[p] \in SUBSET Event
          BY DEF TypeOK
        <4>2. rejected'[p] = 0 => batch[p] \subseteq Own
          BY <3>1, <4>1, ForeignCount
        <4> QED
          BY <3>1, <4>2
      <3> QED
        BY <2>1, <3>1, <3>2 DEF Loop, Looping
    <2>2. CASE q # p
      BY <1>2, <1>7, <2>2 DEF Validate, TypeOK
    <2> QED
      BY <2>1, <2>2
  <1>8. ASSUME NEW p \in Invocation, PutRaw(p) PROVE Loop(q)'
    <2>1. CASE q = p
      <3>1. /\ pc[p] = "put_raw" /\ pc'[p] \in {"chain_head", "failed"}
            /\ batch[p] \in archive' /\ batch'[p] = batch[p] /\ todo'[p] = todo[p]
            /\ rejected'[p] = rejected[p]
        BY <1>8 DEF PutRaw, TypeOK
      <3> QED
        BY <1>1, <2>1, <3>1 DEF Loop, Looping
    <2>2. CASE q # p
      BY <1>2, <1>8, <2>2 DEF PutRaw, TypeOK
    <2> QED
      BY <2>1, <2>2
  <1>9. ASSUME NEW p \in Invocation, ReadHead(p) PROVE Loop(q)'
    <2>1. CASE q = p
      <3>1. /\ pc[p] = "chain_head" /\ pc'[p] = LoopPc(todo[p])
            /\ batch'[p] = batch[p] /\ todo'[p] = todo[p] /\ rejected'[p] = rejected[p]
        BY <1>9 DEF ReadHead, TypeOK
      <3> QED
        BY <1>1, <2>1, <3>1 DEF Loop, Looping, LoopPc
    <2>2. CASE q # p
      BY <1>2, <1>9, <2>2 DEF ReadHead, TypeOK
    <2> QED
      BY <2>1, <2>2
  <1>10. ASSUME NEW p \in Invocation, NEW e \in Event, AppendStored(p, e) PROVE Loop(q)'
    <2>1. CASE q = p
      <3>1. /\ pc[p] = "append" /\ e \in todo[p] /\ pc'[p] \in {LoopPc(todo[p] \ {e}), "failed"}
            /\ batch'[p] = batch[p] /\ todo'[p] = todo[p] \ {e}
            /\ rejected'[p] = rejected[p] /\ client'[p] = client[p]
        BY <1>10 DEF AppendStored, IsNext, TypeOK
      <3>2. e \in ChainedEvents'
        BY <1>10, AppendEffect
      <3> QED
        BY <1>3, <1>4, <2>1, <3>1, <3>2 DEF Looping
    <2>2. CASE q # p
      BY <1>2, <1>10, <2>2 DEF AppendStored, TypeOK
    <2> QED
      BY <2>1, <2>2
  <1>11. ASSUME NEW p \in Invocation, NEW e \in Event, AppendDuplicate(p, e) PROVE Loop(q)'
    <2>1. CASE q = p
      <3>1. /\ pc[p] = "append" /\ pc'[p] = "duplicate" /\ IsNext(e, todo[p])
            /\ batch'[p] = batch[p] /\ todo'[p] = todo[p] /\ rejected'[p] = rejected[p]
            /\ e \in ChainedEvents
        BY <1>11 DEF AppendDuplicate, TypeOK
      <3>2. ASSUME NEW f \in Event, IsNext(f, todo[p]) PROVE f = e
        <4>1. f \in Nat /\ e \in Nat
          BY EventAssumption
        <4>2. f <= e /\ e <= f
          BY <3>1, <3>2 DEF IsNext
        <4> QED
          BY <4>1, <4>2
      <3> QED
        BY <1>1, <2>1, <3>1, <3>2 DEF Loop, Looping
    <2>2. CASE q # p
      BY <1>2, <1>11, <2>2 DEF AppendDuplicate, TypeOK
    <2> QED
      BY <2>1, <2>2
  <1>12. ASSUME NEW p \in Invocation, NEW e \in Event, AppendConflict(p, e) PROVE Loop(q)'
    <2>1. CASE q = p
      <3>1. /\ pc[p] = "append" /\ pc'[p] = "conflict"
            /\ batch'[p] = batch[p] /\ todo'[p] = todo[p] /\ rejected'[p] = rejected[p]
        BY <1>12 DEF AppendConflict, TypeOK
      <3> QED
        BY <1>1, <2>1, <3>1 DEF Loop, Looping
    <2>2. CASE q # p
      BY <1>2, <1>12, <2>2 DEF AppendConflict, TypeOK
    <2> QED
      BY <2>1, <2>2
  <1>13. ASSUME NEW p \in Invocation, NEW e \in Event, ResyncDuplicate(p, e) PROVE Loop(q)'
    <2>1. CASE q = p
      <3>1. /\ pc[p] = "duplicate" /\ IsNext(e, todo[p]) /\ pc'[p] = LoopPc(todo[p] \ {e})
            /\ batch'[p] = batch[p] /\ todo'[p] = todo[p] \ {e}
            /\ rejected'[p] = rejected[p] /\ client'[p] = client[p]
        BY <1>13 DEF ResyncDuplicate, TypeOK
      <3>2. e \in todo[p] /\ e \in ChainedEvents'
        BY <1>1, <3>1 DEF Loop, IsNext
      <3> QED
        BY <1>4, <2>1, <3>1, <3>2 DEF Looping
    <2>2. CASE q # p
      BY <1>2, <1>13, <2>2 DEF ResyncDuplicate, TypeOK
    <2> QED
      BY <2>1, <2>2
  <1>14. ASSUME NEW p \in Invocation, NEW e \in Event, ResyncReject(p, e) PROVE Loop(q)'
    <2>1. CASE q = p
      <3>1. /\ pc[p] = "conflict" /\ IsNext(e, todo[p]) /\ pc'[p] = LoopPc(todo[p] \ {e})
            /\ batch'[p] = batch[p] /\ todo'[p] = todo[p] \ {e}
            /\ rejected'[p] = rejected[p] + 1 /\ client'[p] = client[p]
        BY <1>14 DEF ResyncReject, TypeOK
      <3>2. e \in todo[p] /\ rejected'[p] # 0
        BY <3>1 DEF IsNext, TypeOK
      <3> QED
        BY <1>4, <2>1, <3>1, <3>2 DEF Looping
    <2>2. CASE q # p
      BY <1>2, <1>14, <2>2 DEF ResyncReject, TypeOK
    <2> QED
      BY <2>1, <2>2
  <1>15. ASSUME NEW p \in Invocation, ResyncRetry(p) PROVE Loop(q)'
    <2>1. CASE q = p
      <3>1. /\ pc[p] = "conflict" /\ pc'[p] = "append"
            /\ batch'[p] = batch[p] /\ todo'[p] = todo[p] /\ rejected'[p] = rejected[p]
        BY <1>15 DEF ResyncRetry, TypeOK
      <3> QED
        BY <1>1, <2>1, <3>1 DEF Loop, Looping
    <2>2. CASE q # p
      BY <1>2, <1>15, <2>2 DEF ResyncRetry, TypeOK
    <2> QED
      BY <2>1, <2>2
  <1>16. ASSUME NEW p \in Invocation, IdemPut(p) PROVE Loop(q)'
    <2>1. CASE q = p
      <3>1. /\ pc[p] = "idem_put" /\ pc'[p] \in {"done", "failed"}
            /\ batch'[p] = batch[p] /\ rejected'[p] = rejected[p]
        BY <1>16 DEF IdemPut, TypeOK
      <3>2. rejected[p] = 0 => batch[p] \subseteq ChainedEvents
        BY <3>1 DEF Loop, Looping
      <3> QED
        BY <1>1, <2>1, <3>1, <3>2 DEF Loop, Looping
    <2>2. CASE q # p
      BY <1>2, <1>16, <2>2 DEF IdemPut, TypeOK
    <2> QED
      BY <2>1, <2>2
  <1>17. ASSUME NEW p \in Invocation, StoreFailure(p) \/ Respond(p) PROVE Loop(q)'
    BY <1>2, <1>3, <1>17 DEF StoreFailure, Respond, TypeOK
  <1>18. CASE UNCHANGED vars
    BY <1>2, <1>18 DEF vars
  <1> QED
    BY <1>5, <1>6, <1>7, <1>8, <1>9, <1>10, <1>11, <1>12, <1>13, <1>14, <1>15, <1>16, <1>17,
       <1>18 DEF Next, Step, Work
-----------------------------------------------------------------------------
(* An event that becomes chained is in a batch archived before. *)
LEMMA ArchivedNext ==
  ASSUME TypeOK, ChainIntact, ArchivedFirst, \A p \in Invocation : Loop(p), [Next]_vars
  PROVE  ArchivedFirst'
  <1>1. archive \subseteq archive'
    BY StoresGrow
  <1>2. CASE UNCHANGED <<table, head>>
    BY <1>1, <1>2 DEF ArchivedFirst, ChainedEvents
  <1>3. ASSUME NEW p \in Invocation, NEW e \in Event, AppendStored(p, e) PROVE ArchivedFirst'
    <2>1. ChainedEvents' = ChainedEvents \cup {e}
      BY <1>3, AppendEffect
    <2>2. pc[p] = "append" /\ e \in todo[p]
      BY <1>3 DEF AppendStored, IsNext
    <2>3. batch[p] \in archive /\ e \in batch[p]
      BY <2>2 DEF Loop, Looping
    <2> QED
      BY <1>1, <2>1, <2>3 DEF ArchivedFirst
  <1> QED
    BY <1>2, <1>3, ChainChanges

(* The records and the history of responses change in two steps only. *)
LEMMA AnswerChanges ==
  ASSUME [Next]_vars
  PROVE  /\ idem' = idem \/ \E p \in Invocation : IdemPut(p)
         /\ acked' = acked \/ \E p \in Invocation : Respond(p)
  <1> USE DEF stores
  <1>1. CASE UNCHANGED vars
    BY <1>1 DEF vars
  <1>2. ASSUME NEW p \in Invocation, NEW c \in ClientId \cup {NoClientId}, NEW B \in Batches,
               Receive(p, c, B) \/ Refuse(p, B)
        PROVE  idem' = idem /\ acked' = acked
    BY <1>2 DEF Receive, Refuse
  <1>3. ASSUME NEW p \in Invocation,
               \/ Replay(p) \/ Validate(p) \/ PutRaw(p) \/ ReadHead(p)
               \/ ResyncRetry(p) \/ StoreFailure(p)
        PROVE  idem' = idem /\ acked' = acked
    BY <1>3 DEF Replay, Validate, PutRaw, ReadHead, ResyncRetry, StoreFailure
  <1>4. ASSUME NEW p \in Invocation, NEW e \in Event,
               \/ AppendStored(p, e) \/ AppendDuplicate(p, e) \/ AppendConflict(p, e)
               \/ ResyncDuplicate(p, e) \/ ResyncReject(p, e)
        PROVE  idem' = idem /\ acked' = acked
    BY <1>4 DEF AppendStored, AppendDuplicate, AppendConflict, ResyncDuplicate, ResyncReject
  <1>5. ASSUME NEW p \in Invocation, IdemPut(p) PROVE acked' = acked
    BY <1>5 DEF IdemPut
  <1>6. ASSUME NEW p \in Invocation, Respond(p) PROVE idem' = idem
    BY <1>6 DEF Respond
  <1> QED
    BY <1>1, <1>2, <1>3, <1>4, <1>5, <1>6 DEF Next, Step, Work

(* A record that is written tells the truth about the chain, and later
   steps do not make it false. *)
LEMMA RecordNext ==
  ASSUME TypeOK, ChainIntact, RecordTruthful, \A p \in Invocation : Loop(p), [Next]_vars
  PROVE  RecordTruthful'
  <1>1. ChainedEvents \subseteq ChainedEvents'
    BY ChainGrows
  <1>2. CASE idem' = idem
    BY <1>1, <1>2 DEF RecordTruthful
  <1>3. ASSUME NEW p \in Invocation, IdemPut(p) PROVE RecordTruthful'
    <2>1. SUFFICES ASSUME NEW B \in SUBSET Event,
                          idem'[derive_upload_id(B)] # NoRecord,
                          idem'[derive_upload_id(B)].rejected = 0
                   PROVE  B \subseteq ChainedEvents'
      BY DEF RecordTruthful
    <2>2. derive_upload_id(B) \in UploadId /\ Upload(p) \in UploadId
      BY UploadType DEF UploadId
    <2>3. CASE derive_upload_id(B) = Upload(p)
      <3>1. batch[p] = B
        BY <2>3, DerivedIsOwn
      <3>2. idem'[derive_upload_id(B)] = [accepted |-> accepted[p], rejected |-> rejected[p]]
        BY <1>3, <2>2, <2>3 DEF IdemPut, TypeOK
      <3>3. rejected[p] = 0 /\ pc[p] = "idem_put"
        BY <1>3, <2>1, <3>2 DEF IdemPut
      <3>4. batch[p] \subseteq ChainedEvents
        BY <3>3 DEF Loop, Looping
      <3> QED
        BY <1>1, <3>1, <3>4
    <2>4. CASE derive_upload_id(B) # Upload(p)
      <3>1. idem'[derive_upload_id(B)] = idem[derive_upload_id(B)]
        BY <1>3, <2>2, <2>4 DEF IdemPut, TypeOK
      <3> QED
        BY <1>1, <2>1, <3>1 DEF RecordTruthful
    <2> QED
      BY <2>3, <2>4
  <1> QED
    BY <1>2, <1>3, AnswerChanges

(* A response confirms chained events only. *)
LEMMA AckedNext ==
  ASSUME TypeOK, ChainIntact, AckedIsChained, \A p \in Invocation : Loop(p), [Next]_vars
  PROVE  AckedIsChained'
  <1>1. ChainedEvents \subseteq ChainedEvents'
    BY ChainGrows
  <1>2. CASE acked' = acked
    BY <1>1, <1>2 DEF AckedIsChained
  <1>3. ASSUME NEW p \in Invocation, Respond(p) PROVE AckedIsChained'
    <2>1. CASE pc[p] = "done" /\ rejected[p] = 0 /\ client[p] = NoClientId
      <3>1. acked' = acked \cup batch[p]
        BY <1>3, <2>1 DEF Respond
      <3>2. batch[p] \subseteq ChainedEvents
        BY <2>1 DEF Loop
      <3> QED
        BY <1>1, <3>1, <3>2 DEF AckedIsChained
    <2>2. CASE ~(pc[p] = "done" /\ rejected[p] = 0 /\ client[p] = NoClientId)
      BY <1>2, <1>3, <2>2 DEF Respond
    <2> QED
      BY <2>1, <2>2
  <1> QED
    BY <1>2, <1>3, AnswerChanges

(* The inductive invariant holds initially. *)
LEMMA IndInit == Init => IndInv
  <1> SUFFICES ASSUME Init PROVE IndInv
    OBVIOUS
  <1>1. TypeOK
    BY TypeInit
  <1>2. /\ head.hash = <<>> /\ head.count = 0 /\ table = {} /\ acked = {}
        /\ \A p \in Invocation : hd[p].hash = <<>> /\ hd[p].count = 0
                                 /\ attempts[p] = 0 /\ pc[p] = "idle"
    BY DEF Init, NoHead
  <1>3. ChainedEvents = {}
    BY <1>2 DEF ChainedEvents
  <1>4. ChainIntact
    BY <1>2 DEF ChainIntact, Links
  <1>5. ASSUME NEW p \in Invocation PROVE HeadCopy(p) /\ Loop(p)
    BY <1>2, <1>5 DEF HeadCopy, Loop, Looping, Ancestor
  <1>6. ArchivedFirst /\ AckedIsChained
    BY <1>2, <1>3 DEF ArchivedFirst, AckedIsChained
  <1>7. RecordTruthful
    <2>1. \A B \in SUBSET Event : derive_upload_id(B) \in UploadId
      BY DEF UploadId
    <2> QED
      BY <2>1 DEF Init, RecordTruthful
  <1> QED
    BY <1>1, <1>4, <1>5, <1>6, <1>7 DEF IndInv

(* Every step preserves the inductive invariant. *)
LEMMA IndNext == IndInv /\ [Next]_vars => IndInv'
  <1> SUFFICES ASSUME IndInv, [Next]_vars PROVE IndInv'
    OBVIOUS
  <1>1. /\ TypeOK /\ ChainIntact /\ ArchivedFirst /\ RecordTruthful /\ AckedIsChained
        /\ \A p \in Invocation : HeadCopy(p)
        /\ \A p \in Invocation : Loop(p)
    BY DEF IndInv
  <1>2. TypeOK'
    BY <1>1, TypeNext
  <1>3. ChainIntact'
    BY <1>1, ChainNext
  <1>4. \A p \in Invocation : HeadCopy(p)'
    BY <1>1, <1>2, <1>3, HeadCopyNext
  <1>5. \A p \in Invocation : Loop(p)'
    BY <1>1, <1>2, LoopNext
  <1>6. ArchivedFirst' /\ RecordTruthful' /\ AckedIsChained'
    BY <1>1, ArchivedNext, RecordNext, AckedNext
  <1> QED
    BY <1>2, <1>3, <1>4, <1>5, <1>6 DEF IndInv

(* The inductive invariant holds in every reachable state. *)
THEOREM Inductive == Spec => []IndInv
  BY IndInit, IndNext, PTL DEF Spec

(* However many handlers run and fail, the stored items form one hash chain *)
(* that holds every stored event once and ends in the recorded head.        *)
THEOREM ChainIsIntact == Spec => []ChainIntact
  <1>1. IndInv => ChainIntact
    BY DEF IndInv
  <1> QED
    BY <1>1, Inductive, PTL

(* No event is indexed before its raw batch is in the archive.              *)
THEOREM DurabilityFirst == Spec => []ArchivedFirst
  <1>1. IndInv => ArchivedFirst
    BY DEF IndInv
  <1> QED
    BY <1>1, Inductive, PTL

(* A response that rejects nothing confirms chained events only.            *)
THEOREM ConfirmedIsChained == Spec => []AckedIsChained
  <1>1. IndInv => AckedIsChained
    BY DEF IndInv
  <1> QED
    BY <1>1, Inductive, PTL

(* An idempotency record that rejects nothing, which every retry of the     *)
(* upload is answered from, stands for a batch that is chained in full.     *)
THEOREM RecordsAreTrue == Spec => []RecordTruthful
  <1>1. IndInv => RecordTruthful
    BY DEF IndInv
  <1> QED
    BY <1>1, Inductive, PTL

(* A conflict is never spurious, so contention rejects no event of a device *)
(* with fewer than MAX_CHAIN_RETRIES chained events.                        *)
THEOREM ConflictsAreProgress == Spec => []ConflictMeansProgress
  <1>1. IndInv => ConflictMeansProgress
    BY DEF IndInv, HeadCopy, ConflictMeansProgress
  <1> QED
    BY <1>1, Inductive, PTL

(* The chain is append-only.                                                *)
THEOREM ChainIsAppendOnly == Spec => ChainAppendOnly
  <1>1. IndInv /\ [Next]_vars => [table \subseteq table' /\ Ancestor(head.hash, head'.hash)]_vars
    BY ChainGrows DEF IndInv
  <1> QED
    BY <1>1, Inductive, PTL DEF Spec, ChainAppendOnly
-----------------------------------------------------------------------------
(* The initial state maps to the empty log. *)
LEMMA LogInit == Init => Log!Init
  BY DEF Init, NoHead, Log!Init

(* A step on the archive, on the chain or on the responses is a step of the *)
(* abstract log, and every other step leaves it alone.                      *)
LEMMA LogNext == IndInv /\ IndInv' /\ [Next]_vars => [Log!Next]_(Log!vars)
  <1> SUFFICES ASSUME IndInv, IndInv', [Next]_vars PROVE [Log!Next]_(Log!vars)
    OBVIOUS
  <1> USE DEF Log!vars
  <1>1. /\ TypeOK /\ ChainIntact /\ ArchivedFirst
        /\ \A p \in Invocation : Loop(p)
        /\ ArchivedFirst' /\ ChainIntact'
    BY DEF IndInv
  <1>2. ChainedEvents = Elems(head.hash)
    BY <1>1, ChainedIsElems
  <1>3. ASSUME UNCHANGED <<head, archive, acked>> PROVE [Log!Next]_(Log!vars)
    BY <1>3
  <1>4. ASSUME NEW p \in Invocation, NEW e \in Event, AppendStored(p, e) PROVE Log!Next
    <2>1. head'.hash = Append(head.hash, e) /\ e \notin ChainedEvents
      BY <1>1, <1>4, AppendEffect
    <2>2. pc[p] = "append" /\ e \in todo[p] /\ archive' = archive /\ acked' = acked
      BY <1>4 DEF AppendStored, IsNext
    <2>3. e \in UNION archive
      BY <1>1, <2>2 DEF Loop, Looping
    <2>4. e \notin Log!Elems(head.hash)
      BY <1>2, <2>1 DEF Elems, Log!Elems
    <2>5. Log!Log(e)
      BY <2>1, <2>2, <2>3, <2>4 DEF Log!Log
    <2> QED
      BY <2>5 DEF Log!Next
  <1>5. ASSUME NEW p \in Invocation, PutRaw(p) PROVE Log!Next
    <2>1. archive' = archive \cup {batch[p]} /\ head' = head /\ acked' = acked
      BY <1>5 DEF PutRaw
    <2>2. UNION archive' = (UNION archive) \cup batch[p]
      BY <2>1
    <2>3. Log!Archive(batch[p]) /\ batch[p] \in SUBSET Event
      BY <1>1, <2>1, <2>2 DEF Log!Archive, TypeOK
    <2> QED
      BY <2>3 DEF Log!Next
  <1>6. ASSUME NEW p \in Invocation, Respond(p) PROVE [Log!Next]_(Log!vars)
    <2>1. head' = head /\ archive' = archive
      BY <1>6 DEF Respond, stores
    <2>2. CASE pc[p] = "done" /\ rejected[p] = 0 /\ client[p] = NoClientId
      <3>1. acked' = acked \cup batch[p]
        BY <1>6, <2>2 DEF Respond
      <3>2. batch[p] \subseteq Log!Elems(head.hash)
        BY <1>1, <1>2, <2>2 DEF Loop, Elems, Log!Elems
      <3>3. Log!Ack(batch[p]) /\ batch[p] \in SUBSET Event
        BY <1>1, <2>1, <3>1, <3>2 DEF Log!Ack, TypeOK
      <3> QED
        BY <3>3 DEF Log!Next
    <2>3. CASE ~(pc[p] = "done" /\ rejected[p] = 0 /\ client[p] = NoClientId)
      BY <1>6, <2>1, <2>3 DEF Respond
    <2> QED
      BY <2>2, <2>3
  <1> USE DEF stores
  <1>7. ASSUME NEW p \in Invocation, NEW c \in ClientId \cup {NoClientId}, NEW B \in Batches,
               Receive(p, c, B) \/ Refuse(p, B)
        PROVE  UNCHANGED <<head, archive, acked>>
    BY <1>7 DEF Receive, Refuse
  <1>8. ASSUME NEW p \in Invocation,
               \/ Replay(p) \/ Validate(p) \/ ReadHead(p)
               \/ ResyncRetry(p) \/ IdemPut(p) \/ StoreFailure(p)
        PROVE  UNCHANGED <<head, archive, acked>>
    BY <1>8 DEF Replay, Validate, ReadHead, ResyncRetry, IdemPut, StoreFailure
  <1>9. ASSUME NEW p \in Invocation, NEW e \in Event,
               \/ AppendDuplicate(p, e) \/ AppendConflict(p, e)
               \/ ResyncDuplicate(p, e) \/ ResyncReject(p, e)
        PROVE  UNCHANGED <<head, archive, acked>>
    BY <1>9 DEF AppendDuplicate, AppendConflict, ResyncDuplicate, ResyncReject
  <1>10. CASE UNCHANGED vars
    BY <1>3, <1>10 DEF vars
  <1> QED
    BY <1>3, <1>4, <1>5, <1>6, <1>7, <1>8, <1>9, <1>10 DEF Next, Step, Work

(* The concurrent handlers implement the abstract audit log. *)
THEOREM HandlersImplementLog == Spec => ImplementsLog
  BY LogInit, LogNext, Inductive, PTL DEF Spec, ImplementsLog, Log!Spec
-----------------------------------------------------------------------------
(* A batch that a record or a finished handler stands for is in the         *)
(* archive, where the upload id was left to the server.                     *)
AnsweredIsArchived ==
  /\ \A B \in SUBSET Event : idem[derive_upload_id(B)] # NoRecord => B \in archive
  /\ \A p \in Invocation : pc[p] = "done" /\ client[p] = NoClientId => batch[p] \in archive

(* The rows and the worker's batch are of this device.                      *)
AgentTypes == status \in [Ids -> Agent!Status] /\ claimed \in SUBSET Ids

(* No handler was given an upload id: the agent supplies none.              *)
ServerIds == \A p \in Invocation : client[p] = NoClientId

Connection == ConnectionMatches /\ conn \in Invocation \cup {NoConn}

(* What the worker is about to mark uploaded has reached the cloud.         *)
ClaimConfirmed ==
  wk = "mark" => /\ claimed \subseteq ChainedEvents \cup short
                 /\ claimed \subseteq UNION archive

PipelineInv ==
  /\ IndInv /\ AnsweredIsArchived /\ AgentTypes /\ ServerIds /\ Connection
  /\ ClaimConfirmed /\ DeletedIsChained /\ DeletedIsArchived

(* Every step of the pipeline is a step of the cloud, or none of it.        *)
LEMMA CloudStep ==
  ASSUME claimed \in SUBSET Ids, [PipelineNext]_pipeline
  PROVE  [Next]_vars
  <1>1. CASE Local \/ Timeout \/ AgentCrash \/ UNCHANGED pipeline
    BY <1>1 DEF Local, Timeout, AgentCrash, pipeline, cloud
  <1>2. ASSUME NEW p \in Invocation, Deliver(p) PROVE Next
    <2>1. claimed \in Batches
      BY PipelineAssumption
    <2>2. \/ Receive(p, NoClientId, claimed)
          \/ Refuse(p, claimed)
      BY <1>2 DEF Deliver
    <2> QED
      BY <2>1, <2>2 DEF Next
  <1>3. ASSUME NEW p \in Invocation, Serve(p) \/ Answer(p) \/ AnswerNobody(p) PROVE Next
    BY <1>3 DEF Serve, Answer, AnswerNobody, Next, Step
  <1> QED
    BY <1>1, <1>2, <1>3 DEF PipelineNext

(* A step of a handler keeps the archive ahead of its records and answers. *)
LEMMA ArchiveAhead ==
  ASSUME IndInv, AnsweredIsArchived, [Next]_vars
  PROVE  AnsweredIsArchived'
  <1>1. TypeOK /\ TypeOK' /\ \A p \in Invocation : Loop(p)
    BY TypeNext DEF IndInv
  <1>2. archive \subseteq archive'
    BY StoresGrow DEF IndInv
  \* A step that writes no record and finishes no handler.
  <1>3. ASSUME idem' = idem,
               \A p \in Invocation : pc'[p] = "done" =>
                 pc[p] = "done" /\ client'[p] = client[p] /\ batch'[p] = batch[p]
        PROVE  AnsweredIsArchived'
    BY <1>2, <1>3 DEF AnsweredIsArchived
  <1> USE DEF stores, locals
  <1>4. ASSUME NEW q \in Invocation, NEW c \in ClientId \cup {NoClientId}, NEW B \in Batches,
               Receive(q, c, B) \/ Refuse(q, B)
        PROVE  AnsweredIsArchived'
    BY <1>1, <1>3, <1>4 DEF Receive, Refuse, TypeOK
  <1>5. ASSUME NEW q \in Invocation, Replay(q) PROVE AnsweredIsArchived'
    <2>1. client[q] = NoClientId => Upload(q) = derive_upload_id(batch[q])
      BY DEF Upload, effective_upload_id
    <2>2. batch[q] \in SUBSET Event /\ idem[Upload(q)] # NoRecord
      BY <1>1, <1>5 DEF TypeOK, Replay
    <2>3. client[q] = NoClientId => batch[q] \in archive
      BY <2>1, <2>2 DEF AnsweredIsArchived
    <2>4. /\ idem' = idem /\ client' = client /\ batch' = batch /\ archive' = archive
          /\ \A p \in Invocation \ {q} : pc'[p] = pc[p]
      BY <1>1, <1>5 DEF Replay, TypeOK
    <2> QED
      BY <2>3, <2>4 DEF AnsweredIsArchived
  <1>6. ASSUME NEW q \in Invocation,
               \/ Validate(q) \/ PutRaw(q) \/ ReadHead(q) \/ ResyncRetry(q) \/ StoreFailure(q)
               \/ Respond(q)
        PROVE  AnsweredIsArchived'
    <2>1. idem' = idem
      BY <1>6 DEF Validate, PutRaw, ReadHead, ResyncRetry, StoreFailure, Respond
    <2>2. \A p \in Invocation \ {q} : /\ pc'[p] = pc[p] /\ client'[p] = client[p]
                                      /\ batch'[p] = batch[p]
      BY <1>1, <1>6 DEF Validate, PutRaw, ReadHead, ResyncRetry, StoreFailure, Respond, TypeOK
    <2>3. pc'[q] # "done"
      BY <1>1, <1>6, LoopPcType
         DEF Validate, PutRaw, ReadHead, ResyncRetry, StoreFailure, Respond, TypeOK
    <2> QED
      BY <1>3, <2>1, <2>2, <2>3
  <1>7. ASSUME NEW q \in Invocation, NEW e \in Event,
               \/ AppendStored(q, e) \/ AppendDuplicate(q, e) \/ AppendConflict(q, e)
               \/ ResyncDuplicate(q, e) \/ ResyncReject(q, e)
        PROVE  AnsweredIsArchived'
    <2>1. idem' = idem /\ batch' = batch /\ client' = client
      BY <1>7 DEF AppendStored, AppendDuplicate, AppendConflict, ResyncDuplicate, ResyncReject
    <2>2. \A p \in Invocation \ {q} : pc'[p] = pc[p]
      BY <1>1, <1>7 DEF AppendStored, AppendDuplicate, AppendConflict, ResyncDuplicate,
                        ResyncReject, TypeOK
    <2>3. pc'[q] # "done"
      BY <1>1, <1>7, LoopPcType DEF AppendStored, AppendDuplicate, AppendConflict,
                                    ResyncDuplicate, ResyncReject, TypeOK
    <2> QED
      BY <1>3, <2>1, <2>2, <2>3
  <1>8. ASSUME NEW q \in Invocation, IdemPut(q) PROVE AnsweredIsArchived'
    <2>1. batch[q] \in archive
      BY <1>1, <1>8 DEF IdemPut, Loop, Looping
    <2>2. /\ \A p \in Invocation \ {q} : pc'[p] = pc[p]
          /\ client' = client /\ batch' = batch /\ archive' = archive
      BY <1>1, <1>8 DEF IdemPut, TypeOK
    <2>3. ASSUME NEW B \in SUBSET Event, idem'[derive_upload_id(B)] # NoRecord
          PROVE  B \in archive'
      <3>1. CASE derive_upload_id(B) = Upload(q)
        <4>1. B = batch[q]
          BY <1>1, <3>1, DerivedIsOwn
        <4> QED
          BY <2>1, <2>2, <4>1
      <3>2. CASE derive_upload_id(B) # Upload(q)
        <4>1. idem'[derive_upload_id(B)] = idem[derive_upload_id(B)]
          BY <1>1, <1>8, <3>2 DEF IdemPut, TypeOK, UploadId
        <4> QED
          BY <1>2, <2>3, <4>1 DEF AnsweredIsArchived
      <3> QED
        BY <3>1, <3>2
    <2> QED
      BY <2>1, <2>2, <2>3 DEF AnsweredIsArchived
  <1> QED
    <2>1. CASE UNCHANGED vars
      BY <1>3, <2>1 DEF vars
    <2> QED
      BY <1>4, <1>5, <1>6, <1>7, <1>8, <2>1 DEF Next, Step, Work

(* Set changes the rows of a set of events to one status.                   *)
LEMMA AgentSet ==
  ASSUME AgentTypes, NEW S, NEW st \in Agent!Status
  PROVE  /\ Agent!Set(S, st) \in [Ids -> Agent!Status]
         /\ \A e \in Ids : Agent!Set(S, st)[e] = IF e \in S THEN st ELSE status[e]
  BY DEF AgentTypes, Agent!Set, Agent!EventId, Ids

(* The invariant holds initially.                                           *)
LEMMA PipelineStart == PipelineInit => PipelineInv
  <1> SUFFICES ASSUME PipelineInit PROVE PipelineInv
    OBVIOUS
  <1>1. Init /\ Agent!Init /\ conn = NoConn /\ wk = "idle" /\ claimed = {}
    BY DEF PipelineInit, Agent!Init
  <1>2. IndInv
    BY <1>1, IndInit
  <1>3. AnsweredIsArchived
    <2>1. \A B \in SUBSET Event : derive_upload_id(B) \in UploadId
      BY DEF UploadId
    <2> QED
      BY <1>1, <2>1 DEF Init, AnsweredIsArchived
  <1>4. status = [e \in Ids |-> "absent"]
    BY <1>1 DEF Agent!Init, Agent!EventId, Ids
  <1>5. AgentTypes /\ DeletedIsChained /\ DeletedIsArchived
    BY <1>1, <1>4 DEF AgentTypes, Agent!Status, DeletedIsChained, DeletedIsArchived
  <1>6. ServerIds /\ Connection /\ ClaimConfirmed
    BY <1>1 DEF Init, ServerIds, Connection, ConnectionMatches, ClaimConfirmed
  <1> QED
    BY <1>2, <1>3, <1>5, <1>6 DEF PipelineInv

(* What the agent may do to its rows while the cloud stands still: settle   *)
(* none but those of a confirmed batch.                                     *)
LEMMA RowsKeep ==
  ASSUME PipelineInv, ChainedEvents \subseteq ChainedEvents', archive \subseteq archive',
         short \subseteq short',
         \A e \in Ids : status'[e] \in {"uploaded", "deleted"} =>
           \/ status[e] \in {"uploaded", "deleted"}
           \/ wk = "mark" /\ e \in claimed
  PROVE  DeletedIsChained' /\ DeletedIsArchived'
  <1>1. DeletedIsChained /\ DeletedIsArchived /\ ClaimConfirmed
    BY DEF PipelineInv
  <1> USE <1>1 DEF DeletedIsChained, DeletedIsArchived, ClaimConfirmed
  <1>2. ASSUME NEW e \in Ids, status'[e] \in {"uploaded", "deleted"}
        PROVE  e \in ChainedEvents \cup short /\ e \in UNION archive
    BY <1>2
  <1>3. UNION archive \subseteq UNION archive'
    OBVIOUS
  <1> QED
    BY <1>2, <1>3

(* A step of the agent alone keeps its part of the invariant.               *)
LEMMA LocalKeeps ==
  ASSUME PipelineInv, Local
  PROVE  AgentTypes' /\ Connection' /\ ClaimConfirmed' /\ DeletedIsChained' /\ DeletedIsArchived'
  <1>1. AgentTypes /\ Connection /\ ClaimConfirmed
    BY DEF PipelineInv
  <1>2. /\ table' = table /\ archive' = archive /\ short' = short /\ conn' = conn
        /\ pc' = pc /\ batch' = batch
    BY DEF Local, cloud, vars, stores, locals
  <1>3. ChainedEvents' = ChainedEvents
    BY <1>2 DEF ChainedEvents
  <1>4. Ids = Agent!EventId
    BY DEF Ids, Agent!EventId
  \* It suffices to look at the rows, at the batch and at the worker.
  <1>5. SUFFICES /\ status' \in [Ids -> Agent!Status] /\ claimed' \in SUBSET Ids
                 /\ wk = "upload" => wk' = wk /\ claimed' = claimed
                 /\ wk' = "mark" => wk = "mark" /\ claimed' = claimed
                 /\ \A e \in Ids : status'[e] \in {"uploaded", "deleted"} =>
                      \/ status[e] \in {"uploaded", "deleted"}
                      \/ wk = "mark" /\ e \in claimed
    <2>1. AgentTypes'
      BY <1>5 DEF AgentTypes
    <2>2. Connection'
      BY <1>1, <1>2, <1>5 DEF Connection, ConnectionMatches
    <2>3. ClaimConfirmed'
      BY <1>1, <1>2, <1>3, <1>5 DEF ClaimConfirmed
    <2>4. DeletedIsChained' /\ DeletedIsArchived'
      BY <1>2, <1>3, <1>5, RowsKeep
    <2> QED
      BY <2>1, <2>2, <2>3, <2>4
  <1>6. CASE Agent!Start \/ Agent!Enqueue
    <2>1. wk' = wk /\ claimed' = claimed
      BY <1>6 DEF Agent!Start, Agent!Enqueue
    <2>2. status' = status \/ \E S : status' = Agent!Set(S, "pending")
      BY <1>6 DEF Agent!Start, Agent!Enqueue
    <2> QED
      BY <1>1, <2>1, <2>2, AgentSet DEF AgentTypes, Agent!Status
  <1>7. CASE Agent!claimBatch
    <2>1. wk = "idle" /\ wk' = "upload" /\ \E S : status' = Agent!Set(S, "inflight")
      BY <1>7 DEF Agent!claimBatch
    <2>2. claimed' \in SUBSET Ids
      BY <1>4, <1>7 DEF Agent!claimBatch, Agent!Oldest, Agent!Ready
    <2> QED
      BY <1>1, <2>1, <2>2, AgentSet DEF AgentTypes, Agent!Status
  <1>8. CASE Agent!markUploaded
    <2>1. wk = "mark" /\ wk' = "purge" /\ claimed' = claimed
      BY <1>8 DEF Agent!markUploaded
    <2>2. status' = status \/ status' = Agent!Set(claimed, "uploaded")
      BY <1>8 DEF Agent!markUploaded
    <2> QED
      BY <1>1, <2>1, <2>2, AgentSet DEF AgentTypes, Agent!Status
  <1>9. CASE Agent!purgeUploaded
    <2> DEFINE Uploaded == {e \in Agent!EventId : status[e] = "uploaded"}
    <2>1. wk = "purge" /\ wk' = "idle" /\ claimed' = {}
      BY <1>9 DEF Agent!purgeUploaded
    <2>2. status' = status \/ status' = Agent!Set(Uploaded, "deleted")
      BY <1>9 DEF Agent!purgeUploaded
    <2>3. \A e \in Uploaded : status[e] = "uploaded"
      OBVIOUS
    <2> HIDE DEF Uploaded
    <2> QED
      BY <1>1, <2>1, <2>2, <2>3, AgentSet DEF AgentTypes, Agent!Status
  <1>10. CASE Agent!RecordFailure
    BY <1>1, <1>10 DEF Agent!RecordFailure, Agent!rows, AgentTypes
  <1>11. ASSUME NEW e \in Ids, Agent!markFailed(e) \/ Agent!BackoffElapses(e)
         PROVE  /\ wk' = wk /\ claimed' = claimed
                /\ status' = status \/ \E S : \E st \in {"dead", "failed"} : status' = Agent!Set(S, st)
    BY <1>11 DEF Agent!markFailed, Agent!BackoffElapses, Agent!rows
  <1>12. CASE \E e \in Ids : Agent!markFailed(e) \/ Agent!BackoffElapses(e)
    BY <1>1, <1>11, <1>12, AgentSet DEF AgentTypes, Agent!Status
  <1> QED
    BY <1>6, <1>7, <1>8, <1>9, <1>10, <1>12 DEF Local

(* A step of a handler other than its response leaves its request alone and *)
(* never takes up a handler that is idle or has failed.                     *)
LEMMA WorkKeeps ==
  ASSUME TypeOK, NEW p \in Invocation, Work(p)
  PROVE  /\ batch' = batch /\ client' = client
         /\ pc[p] \notin {"idle", "failed"} /\ \A q \in Invocation \ {p} : pc'[q] = pc[q]
  <1> USE DEF stores, locals, TypeOK
  <1>1. CASE Replay(p) \/ Validate(p) \/ PutRaw(p) \/ ReadHead(p)
    BY <1>1 DEF Replay, Validate, PutRaw, ReadHead
  <1>2. CASE ResyncRetry(p) \/ IdemPut(p) \/ StoreFailure(p)
    BY <1>2 DEF ResyncRetry, IdemPut, StoreFailure, StoreCalls
  <1>3. ASSUME NEW e \in Event,
               \/ AppendStored(p, e) \/ AppendDuplicate(p, e) \/ AppendConflict(p, e)
               \/ ResyncDuplicate(p, e) \/ ResyncReject(p, e)
        PROVE  /\ batch' = batch /\ client' = client
               /\ pc[p] \notin {"idle", "failed"} /\ \A q \in Invocation \ {p} : pc'[q] = pc[q]
    BY <1>3 DEF AppendStored, AppendDuplicate, AppendConflict, ResyncDuplicate, ResyncReject
  <1> QED
    BY <1>1, <1>2, <1>3 DEF Work

(* No step of the pipeline gives a handler an upload id.                    *)
LEMMA ServerIdsKept ==
  ASSUME TypeOK, ServerIds, [PipelineNext]_pipeline
  PROVE  ServerIds'
  <1>1. CASE Local \/ Timeout \/ AgentCrash \/ UNCHANGED pipeline
    BY <1>1 DEF Local, Timeout, AgentCrash, pipeline, cloud, vars, locals, ServerIds
  <1>2. ASSUME NEW p \in Invocation, Deliver(p) PROVE ServerIds'
    BY <1>2 DEF Deliver, Receive, Refuse, locals, ServerIds, TypeOK
  <1>3. ASSUME NEW p \in Invocation, Serve(p) PROVE ServerIds'
    BY <1>3, WorkKeeps DEF Serve, ServerIds
  <1>4. ASSUME NEW p \in Invocation, Answer(p) \/ AnswerNobody(p) PROVE ServerIds'
    BY <1>4 DEF Answer, AnswerNobody, Respond, ServerIds, TypeOK
  <1> QED
    BY <1>1, <1>2, <1>3, <1>4 DEF PipelineNext

(* A step that meets the connection, on either side, keeps the agent's part *)
(* of the invariant: the only batch the worker may go on to mark uploaded   *)
(* is the one that its own request was answered for.                        *)
LEMMA RequestKeeps ==
  ASSUME PipelineInv, [PipelineNext]_pipeline, ~Local
  PROVE  AgentTypes' /\ Connection' /\ ClaimConfirmed' /\ DeletedIsChained' /\ DeletedIsArchived'
  <1>1. /\ AgentTypes /\ Connection /\ ClaimConfirmed /\ AnsweredIsArchived /\ ServerIds
        /\ TypeOK /\ ChainIntact /\ \A p \in Invocation : Loop(p)
    BY DEF PipelineInv, IndInv
  <1>2. [Next]_vars
    BY <1>1, CloudStep DEF AgentTypes
  <1>3. archive \subseteq archive' /\ ChainedEvents \subseteq ChainedEvents'
    BY <1>1, <1>2, StoresGrow
  \* The rows are only touched by the steps of Local.
  <1>4. status' = status /\ short \subseteq short' /\ claimed' \in {claimed, {}}
    <2>1. CASE Timeout \/ AgentCrash
      BY <2>1 DEF Timeout, AgentCrash, Agent!UploadFails, Agent!Crash, Agent!rows
    <2>2. ASSUME NEW p \in Invocation, Deliver(p) \/ Serve(p) \/ AnswerNobody(p)
          PROVE  status' = status /\ short' = short /\ claimed' = claimed
      BY <2>2 DEF Deliver, Serve, AnswerNobody, agent
    <2>3. ASSUME NEW p \in Invocation, Answer(p)
          PROVE  status' = status /\ short \subseteq short' /\ claimed' = claimed
      BY <2>3 DEF Answer, Agent!UploadOk, Agent!UploadFails, Agent!rows
    <2>4. CASE UNCHANGED pipeline
      BY <2>4 DEF pipeline, agent
    <2> QED
      BY <2>1, <2>2, <2>3, <2>4 DEF PipelineNext
  <1>6. DeletedIsChained' /\ DeletedIsArchived'
    BY <1>3, <1>4, RowsKeep
  <1>7. AgentTypes'
    BY <1>1, <1>4 DEF AgentTypes
  \* The claim stays confirmed while the worker is about to mark it.
  <1>8. ASSUME wk' # "mark" \/ (wk' = wk /\ claimed' = claimed) PROVE ClaimConfirmed'
    <2>1. UNION archive \subseteq UNION archive'
      BY <1>3
    <2> QED
      BY <1>1, <1>3, <1>4, <1>8, <2>1 DEF ClaimConfirmed
  <1>9. NoConn \notin Invocation
    BY PipelineAssumption
  <1>10. ASSUME Timeout \/ AgentCrash PROVE Connection' /\ ClaimConfirmed'
    <2>1. conn' = NoConn /\ wk' \in {"fail", "idle"}
      BY <1>10 DEF Timeout, AgentCrash, Agent!UploadFails, Agent!Crash
    <2> QED
      BY <1>8, <2>1 DEF Connection, ConnectionMatches
  <1>11. ASSUME UNCHANGED pipeline PROVE Connection' /\ ClaimConfirmed'
    <2>1. UNCHANGED <<conn, wk, claimed, pc, batch>>
      BY <1>11 DEF pipeline, agent, cloud, vars, locals
    <2> QED
      BY <1>1, <1>8, <2>1 DEF Connection, ConnectionMatches
  <1>12. ASSUME NEW p \in Invocation, Deliver(p) PROVE Connection' /\ ClaimConfirmed'
    <2>1. wk = "upload" /\ wk' = wk /\ claimed' = claimed /\ conn' = p
      BY <1>12 DEF Deliver, agent
    <2>2. pc'[p] = "failed" \/ batch'[p] = claimed
      BY <1>1, <1>12 DEF Deliver, Receive, Refuse, TypeOK
    <2> QED
      BY <1>8, <2>1, <2>2 DEF Connection, ConnectionMatches
  <1>13. ASSUME NEW p \in Invocation, Serve(p) PROVE Connection' /\ ClaimConfirmed'
    <2>1. wk' = wk /\ claimed' = claimed /\ conn' = conn
      BY <1>13 DEF Serve, agent
    <2>2. /\ batch' = batch
          /\ pc[p] \notin {"idle", "failed"} /\ \A q \in Invocation \ {p} : pc'[q] = pc[q]
      BY <1>1, <1>13, WorkKeeps DEF Serve
    <2> QED
      BY <1>1, <1>8, <2>1, <2>2 DEF Connection, ConnectionMatches
  <1>14. ASSUME NEW p \in Invocation, AnswerNobody(p) PROVE Connection' /\ ClaimConfirmed'
    <2>1. wk' = wk /\ claimed' = claimed /\ conn' = conn /\ conn # p
      BY <1>14 DEF AnswerNobody, agent
    <2>2. \A q \in Invocation \ {p} : pc'[q] = pc[q] /\ batch'[q] = batch[q]
      BY <1>1, <1>14 DEF AnswerNobody, Respond, TypeOK
    <2> QED
      BY <1>1, <1>8, <2>1, <2>2 DEF Connection, ConnectionMatches
  <1>15. ASSUME NEW p \in Invocation, Answer(p) PROVE Connection' /\ ClaimConfirmed'
    <2>1. Connection'
      BY <1>15 DEF Answer, Connection, ConnectionMatches
    <2>2. CASE pc[p] # "done"
      <3>1. wk' = "fail"
        BY <1>15, <2>2 DEF Answer, Agent!UploadFails
      <3> QED
        BY <1>8, <2>1, <3>1
    <2>3. CASE pc[p] = "done"
      <3>1. /\ conn = p /\ claimed' = claimed
            /\ short' = IF rejected[p] > 0 THEN short \cup claimed ELSE short
        BY <1>15, <2>3 DEF Answer, Agent!UploadOk
      <3>2. claimed = batch[p]
        BY <1>1, <1>9, <2>3, <3>1 DEF Connection, ConnectionMatches
      <3>3. client[p] = NoClientId /\ rejected[p] \in Nat
        BY <1>1 DEF ServerIds, TypeOK
      <3>4. claimed \in archive'
        BY <1>1, <1>3, <2>3, <3>2, <3>3 DEF AnsweredIsArchived
      <3>5. claimed \subseteq ChainedEvents' \cup short'
        <4>1. CASE rejected[p] > 0
          BY <3>1, <4>1
        <4>2. CASE rejected[p] = 0
          BY <1>1, <1>3, <2>3, <3>2, <3>3, <4>2 DEF Loop
        <4> QED
          BY <3>3, <4>1, <4>2
      <3> QED
        BY <2>1, <3>1, <3>4, <3>5 DEF ClaimConfirmed
    <2> QED
      BY <2>2, <2>3
  <1> QED
    BY <1>6, <1>7, <1>10, <1>11, <1>12, <1>13, <1>14, <1>15 DEF PipelineNext

(* Every step preserves the invariant.                                      *)
LEMMA PipelineStep == PipelineInv /\ [PipelineNext]_pipeline => PipelineInv'
  <1> SUFFICES ASSUME PipelineInv, [PipelineNext]_pipeline PROVE PipelineInv'
    OBVIOUS
  <1>1. IndInv /\ AnsweredIsArchived /\ AgentTypes /\ ServerIds /\ TypeOK
    BY DEF PipelineInv, IndInv
  <1>2. [Next]_vars
    BY <1>1, CloudStep DEF AgentTypes
  <1>3. IndInv' /\ AnsweredIsArchived'
    BY <1>1, <1>2, IndNext, ArchiveAhead
  <1>4. ServerIds'
    BY <1>1, ServerIdsKept
  <1>5. AgentTypes' /\ Connection' /\ ClaimConfirmed' /\ DeletedIsChained' /\ DeletedIsArchived'
    BY LocalKeeps, RequestKeeps
  <1> QED
    BY <1>3, <1>4, <1>5 DEF PipelineInv

LEMMA PipelineInductive == PipelineSpec => []PipelineInv
  BY PipelineStart, PipelineStep, PTL DEF PipelineSpec

(* However requests are lost, given up on and repeated, and whichever       *)
(* handlers are still at work on a batch the agent gave up on: a row that   *)
(* the agent marked uploaded or purged is in the device's chain, unless the *)
(* response it acted on reported rejections (UploadOk does not look).       *)
THEOREM PurgedIsChained == PipelineSpec => []DeletedIsChained
  <1>1. PipelineInv => DeletedIsChained
    BY DEF PipelineInv
  <1> QED
    BY <1>1, PipelineInductive, PTL

(* And with no exception it is in the archive, from where it can be         *)
(* recovered.                                                               *)
THEOREM PurgedIsArchived == PipelineSpec => []DeletedIsArchived
  <1>1. PipelineInv => DeletedIsArchived
    BY DEF PipelineInv
  <1> QED
    BY <1>1, PipelineInductive, PTL

(* The agent's retries are uploads like any other to the handlers: the      *)
(* pipeline implements AuditIngest, so all that is proved of it holds here. *)
THEOREM PipelineImplementsIngest == PipelineSpec => Spec
  <1>1. PipelineInit => Init
    BY DEF PipelineInit
  <1>2. PipelineInv /\ [PipelineNext]_pipeline => [Next]_vars
    BY CloudStep DEF PipelineInv, AgentTypes
  <1> QED
    BY <1>1, <1>2, PipelineInductive, PTL DEF PipelineSpec, Spec

(* Nor does the cloud make the agent do anything that it does not do on its *)
(* own: the pipeline implements EventQueue.                                 *)
THEOREM PipelineImplementsQueue == PipelineSpec => Agent!Spec
  <1>1. PipelineInit => Agent!Init
    BY DEF PipelineInit
  <1>2. ASSUME [PipelineNext]_pipeline PROVE [Agent!Next]_(Agent!vars)
    <2>1. ASSUME UNCHANGED agent PROVE [Agent!Next]_(Agent!vars)
      BY <2>1 DEF agent, Agent!vars, Agent!rows
    <2>2. ASSUME Local PROVE Agent!Next
      BY <2>2 DEF Local, Ids, Agent!EventId, Agent!Next, Agent!Worker
    <2>3. ASSUME Timeout \/ AgentCrash PROVE Agent!Next
      BY <2>3 DEF Timeout, AgentCrash, Agent!Next, Agent!Worker
    <2>4. ASSUME NEW p \in Invocation, Answer(p) PROVE Agent!Next
      BY <2>4 DEF Answer, Agent!Next, Agent!Worker
    <2>5. ASSUME NEW p \in Invocation, Deliver(p) \/ Serve(p) \/ AnswerNobody(p)
          PROVE  UNCHANGED agent
      BY <2>5 DEF Deliver, Serve, AnswerNobody
    <2>6. ASSUME UNCHANGED pipeline PROVE UNCHANGED agent
      BY <2>6 DEF pipeline
    <2> QED
      BY <1>2, <2>1, <2>2, <2>3, <2>4, <2>5, <2>6 DEF PipelineNext
  <1> QED
    BY <1>1, <1>2, PTL DEF PipelineSpec, Agent!Spec
=============================================================================
