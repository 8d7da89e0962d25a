--------------------------- MODULE EventQueueProofs ---------------------------
(***************************************************************************)
(* Proofs about the agent's queue and upload worker, for any number of     *)
(* events, crashes and SQLite errors, any batch size and retry limit.      *)
(***************************************************************************)
EXTENDS EventQueue, FiniteSetTheorems, TLAPS

(* What updating the status of a set of rows does to each row. *)
LEMMA SetFacts ==
  ASSUME NEW S, NEW st
  PROVE  /\ DOMAIN Set(S, st) = EventId
         /\ \A e \in EventId : Set(S, st)[e] = IF e \in S THEN st ELSE status[e]
         /\ TypeOK /\ st \in Status => Set(S, st) \in [EventId -> Status]
  BY DEF Set, TypeOK

(* The next event number is one of the modelled ones, and no row has it. *)
LEMMA FreshFacts ==
  ASSUME TypeOK, FreshIsAbsent, produced + starts < MaxProduced + MaxStarts
  PROVE  /\ Fresh \in EventId /\ Fresh = produced + starts + 1
         /\ status[Fresh] = "absent" /\ attempts[Fresh] = 0
  BY QueueAssumption DEF TypeOK, FreshIsAbsent, Fresh, EventId

(* The initial state satisfies the inductive invariant. *)
LEMMA QueueInit == Init => IndInv
  <1> SUFFICES ASSUME Init PROVE IndInv
    OBVIOUS
  <1>1. \A e \in EventId : status[e] = "absent" /\ attempts[e] = 0 /\ waiting[e] = FALSE
    BY DEF Init
  <1>2. TypeOK
    <2>1. status \in [EventId -> Status] /\ attempts \in [EventId -> 0..MaxAttempts]
      BY QueueAssumption DEF Init, Status
    <2>2. waiting \in [EventId -> BOOLEAN] /\ up \in BOOLEAN
      BY Zenon DEF Init
    <2>3. produced \in 0..MaxProduced /\ starts \in 0..MaxStarts /\ dbErrors \in 0..MaxDbErrors
      BY QueueAssumption DEF Init
    <2>4. /\ wk \in {"idle", "upload", "mark", "purge", "fail"}
          /\ claimed \in SUBSET EventId /\ todo \in SUBSET claimed
          /\ last \in {"none", "success", "failure"}
          /\ sent \in SUBSET EventId
      BY DEF Init
    <2> QED
      BY <2>1, <2>2, <2>3, <2>4, Zenon DEF TypeOK
  <1>3. BatchHeld
    BY DEF Init, BatchHeld
  <1>4. FreshIsAbsent /\ InflightIsHeld /\ DeletedWasSent
    BY <1>1 DEF FreshIsAbsent, InflightIsHeld, DeletedWasSent
  <1>5. DeadIsExhausted
    BY <1>1, QueueAssumption DEF DeadIsExhausted
  <1> QED
    BY <1>2, <1>3, <1>4, <1>5 DEF IndInv

(* A write that succeeds or fails changes the error count accordingly. *)
LEMMA WriteFacts ==
  ASSUME TypeOK, NEW ok \in BOOLEAN, Write(ok)
  PROVE  /\ dbErrors' \in 0..MaxDbErrors
         /\ dbErrors' = 0 => dbErrors = 0 /\ ok
  BY QueueAssumption DEF TypeOK, Write

(* A new row, whether it could be persisted or not. *)
LEMMA NewRow ==
  ASSUME IndInv, produced + starts < MaxProduced + MaxStarts,
         produced' + starts' = produced + starts + 1,
         produced' \in 0..MaxProduced, starts' \in 0..MaxStarts,
         NEW ok \in BOOLEAN, Write(ok),
         status' = IF ok THEN Set({Fresh}, "pending") ELSE status,
         Faultless' => Faultless,
         up' = TRUE, starts' > 0,
         UNCHANGED <<attempts, waiting, wk, claimed, todo, last, sent>>
  PROVE  IndInv'
  <1>1. /\ TypeOK /\ BatchHeld /\ FreshIsAbsent /\ InflightIsHeld
        /\ DeletedWasSent /\ DeadIsExhausted
    BY DEF IndInv
  <1>2. /\ Fresh \in EventId /\ Fresh = produced + starts + 1
        /\ status[Fresh] = "absent" /\ attempts[Fresh] = 0
    BY <1>1, FreshFacts
  <1>3. dbErrors' \in 0..MaxDbErrors
    BY <1>1, WriteFacts
  <1>4. \A e \in EventId : status'[e] = status[e] \/ (e = Fresh /\ status'[e] = "pending")
    BY SetFacts
  <1>5. status' \in [EventId -> Status]
    BY <1>1, SetFacts DEF TypeOK, Status
  <1>6. TypeOK'
    BY <1>1, <1>3, <1>5 DEF TypeOK
  <1>7. BatchHeld'
    BY <1>1, <1>2, <1>4 DEF BatchHeld, TypeOK
  <1>8. FreshIsAbsent'
    <2> SUFFICES ASSUME NEW e \in EventId, e > produced' + starts'
                 PROVE  status'[e] = "absent" /\ attempts'[e] = 0
      BY DEF FreshIsAbsent
    <2>1. e \in Nat /\ produced \in Nat /\ starts \in Nat
      BY <1>1, QueueAssumption DEF TypeOK, EventId
    <2>2. e > produced + starts + 1
      BY <2>1
    <2>3. e # Fresh /\ e > produced + starts
      BY <2>1, <2>2, <1>2
    <2> QED
      BY <1>1, <1>4, <2>3 DEF FreshIsAbsent
  <1>9. InflightIsHeld'
    BY <1>1, <1>4 DEF InflightIsHeld
  <1>10. DeletedWasSent'
    BY <1>1, <1>4 DEF DeletedWasSent
  <1>11. DeadIsExhausted'
    <2>1. /\ MaxAttempts # 0
          /\ \A e \in EventId : (status[e] = "dead" <=> attempts[e] = MaxAttempts)
                                /\ (waiting[e] => status[e] = "failed")
      BY <1>1, QueueAssumption DEF DeadIsExhausted
    <2> QED
      BY <1>2, <1>4, <2>1 DEF DeadIsExhausted
  <1> QED
    BY <1>6, <1>7, <1>8, <1>9, <1>10, <1>11 DEF IndInv

(* Starting the daemon is a new AgentStarted row, and from the second start *)
(* on a daemon has died.                                                    *)
LEMMA StartStep == IndInv /\ Start => IndInv'
  <1> SUFFICES ASSUME IndInv, Start PROVE IndInv'
    OBVIOUS
  <1>1. TypeOK
    BY DEF IndInv
  <1>2. /\ produced \in 0..MaxProduced /\ starts \in 0..MaxStarts
        /\ starts < MaxStarts /\ starts' = starts + 1 /\ produced' = produced
        /\ ~up /\ up' = TRUE
    BY <1>1 DEF TypeOK, Start
  <1>3. PICK ok \in BOOLEAN :
          Write(ok) /\ status' = IF ok THEN Set({Fresh}, "pending") ELSE status
    BY DEF Start
  <1>4. Faultless' => Faultless
    BY <1>1, <1>2, <1>3, WriteFacts, QueueAssumption DEF Faultless
  <1>5. /\ produced + starts < MaxProduced + MaxStarts
        /\ produced' + starts' = produced + starts + 1
        /\ produced' \in 0..MaxProduced /\ starts' \in 0..MaxStarts /\ starts' > 0
    BY <1>2, QueueAssumption
  <1>6. UNCHANGED <<attempts, waiting, wk, claimed, todo, last, sent>>
    BY DEF Start
  <1> QED
    BY <1>2, <1>3, <1>4, <1>5, <1>6, NewRow

(* So is any other event of a running daemon. *)
LEMMA EnqueueStep == IndInv /\ Enqueue => IndInv'
  <1> SUFFICES ASSUME IndInv, Enqueue PROVE IndInv'
    OBVIOUS
  <1>1. TypeOK
    BY DEF IndInv
  <1>2. /\ produced \in 0..MaxProduced /\ starts \in 0..MaxStarts
        /\ produced < MaxProduced /\ produced' = produced + 1 /\ starts' = starts
        /\ up /\ up' = up
    BY <1>1 DEF TypeOK, Enqueue
  <1>3. PICK ok \in BOOLEAN :
          Write(ok) /\ status' = IF ok THEN Set({Fresh}, "pending") ELSE status
    BY DEF Enqueue
  <1>4. Faultless' => Faultless
    BY <1>1, <1>2, <1>3, WriteFacts DEF Faultless
  <1>5. /\ produced + starts < MaxProduced + MaxStarts
        /\ produced' + starts' = produced + starts + 1
        /\ produced' \in 0..MaxProduced /\ starts' \in 0..MaxStarts
    BY <1>2, QueueAssumption
  <1>6. UNCHANGED <<attempts, waiting, wk, claimed, todo, last, sent>>
    BY DEF Enqueue
  <1>7. up' = TRUE /\ starts' > 0
    BY <1>1, <1>2 DEF TypeOK, IndInv, BatchHeld
  <1> QED
    BY <1>3, <1>4, <1>5, <1>6, <1>7, NewRow

(* The oldest ready rows are rows that are ready. *)
LEMMA OldestFacts ==
  /\ Oldest(Ready, BatchLimit) \subseteq EventId
  /\ \A e \in Oldest(Ready, BatchLimit) : status[e] \in {"pending", "failed"} /\ ~waiting[e]
  BY DEF Oldest, Ready

(* The worker claims rows: they are the only inflight ones it answers for. *)
LEMMA ClaimStep == IndInv /\ claimBatch => IndInv'
  <1> SUFFICES ASSUME IndInv, claimBatch PROVE IndInv'
    OBVIOUS
  <1> DEFINE batch == Oldest(Ready, BatchLimit)
  <1>1. /\ TypeOK /\ BatchHeld /\ FreshIsAbsent /\ InflightIsHeld
        /\ DeletedWasSent /\ DeadIsExhausted
    BY DEF IndInv
  <1>2. /\ up /\ wk = "idle" /\ wk' = "upload"
        /\ status' = Set(batch, "inflight") /\ claimed' = batch
        /\ UNCHANGED <<attempts, waiting, produced, starts, up, todo, last, dbErrors, sent>>
    BY DEF claimBatch
  <1>3. /\ batch \subseteq EventId
        /\ \A e \in batch : status[e] \in {"pending", "failed"} /\ ~waiting[e]
    BY OldestFacts
  <1> HIDE DEF batch
  <1>4. \A e \in EventId : status'[e] = IF e \in batch THEN "inflight" ELSE status[e]
    BY <1>2, SetFacts
  <1>5. status' \in [EventId -> Status]
    BY <1>1, <1>2, SetFacts DEF Status
  <1>6. claimed = {} /\ todo = {}
    BY <1>1, <1>2 DEF BatchHeld
  <1>7. TypeOK'
    BY <1>1, <1>2, <1>3, <1>5, <1>6 DEF TypeOK
  <1>8. BatchHeld'
    BY <1>1, <1>2, <1>3, <1>4, <1>6 DEF BatchHeld, TypeOK
  <1>9. FreshIsAbsent'
    BY <1>1, <1>2, <1>3, <1>4 DEF FreshIsAbsent
  <1>10. InflightIsHeld'
    BY <1>1, <1>2, <1>4, <1>6 DEF InflightIsHeld, Faultless
  <1>11. DeletedWasSent'
    BY <1>1, <1>2, <1>4 DEF DeletedWasSent
  <1>12. DeadIsExhausted'
    BY <1>1, <1>2, <1>3, <1>4 DEF DeadIsExhausted
  <1> QED
    BY <1>7, <1>8, <1>9, <1>10, <1>11, <1>12 DEF IndInv

(* A batch is answered: nothing is written yet. *)
LEMMA AnswerStep == IndInv /\ (UploadOk \/ UploadFails) => IndInv'
  <1> SUFFICES ASSUME IndInv, UploadOk \/ UploadFails PROVE IndInv'
    OBVIOUS
  <1>1. /\ TypeOK /\ BatchHeld /\ FreshIsAbsent /\ InflightIsHeld
        /\ DeletedWasSent /\ DeadIsExhausted
    BY DEF IndInv
  <1>2. /\ wk = "upload"
        /\ UNCHANGED <<status, attempts, waiting, produced, starts, up, claimed, last, dbErrors>>
        /\ \/ wk' = "mark" /\ sent' = sent \cup claimed /\ todo' = todo
           \/ wk' = "fail" /\ sent' = sent /\ todo' = claimed
    BY DEF UploadOk, UploadFails, rows
  <1>3. TypeOK'
    BY <1>1, <1>2 DEF TypeOK
  <1>4. BatchHeld'
    BY <1>1, <1>2 DEF BatchHeld, TypeOK
  <1>5. FreshIsAbsent'
    BY <1>1, <1>2 DEF FreshIsAbsent
  <1>6. InflightIsHeld'
    <2> SUFFICES ASSUME Faultless', NEW e \in EventId, status'[e] = "inflight"
                 PROVE  (wk' = "mark" /\ e \in claimed') \/ e \in todo'
      BY DEF InflightIsHeld
    <2>1. Faultless /\ status[e] = "inflight"
      BY <1>2 DEF Faultless
    <2>2. todo = {}
      BY <1>1, <1>2 DEF BatchHeld
    <2> QED
      BY <1>1, <1>2, <2>1, <2>2 DEF InflightIsHeld
  <1>7. DeletedWasSent'
    BY <1>1, <1>2 DEF DeletedWasSent
  <1>8. DeadIsExhausted'
    BY <1>1, <1>2 DEF DeadIsExhausted
  <1> QED
    BY <1>3, <1>4, <1>5, <1>6, <1>7, <1>8 DEF IndInv

(* The answered batch is marked, or stays inflight when SQLite refuses. *)
LEMMA MarkUploadedStep == IndInv /\ markUploaded => IndInv'
  <1> SUFFICES ASSUME IndInv, markUploaded PROVE IndInv'
    OBVIOUS
  <1>1. /\ TypeOK /\ BatchHeld /\ FreshIsAbsent /\ InflightIsHeld
        /\ DeletedWasSent /\ DeadIsExhausted
    BY DEF IndInv
  <1>2. PICK ok \in BOOLEAN :
          Write(ok) /\ status' = IF ok THEN Set(claimed, "uploaded") ELSE status
    BY DEF markUploaded
  <1>3. /\ wk = "mark" /\ wk' = "purge"
        /\ UNCHANGED <<attempts, waiting, produced, starts, up, claimed, todo, last, sent>>
    BY DEF markUploaded
  <1>4. \A e \in EventId :
          status'[e] = status[e] \/ (e \in claimed /\ status'[e] = "uploaded")
    BY <1>2, SetFacts
  <1>5. status' \in [EventId -> Status]
    BY <1>1, <1>2, SetFacts DEF TypeOK, Status
  <1>6. /\ dbErrors' \in 0..MaxDbErrors
        /\ dbErrors' = 0 => dbErrors = 0 /\ ok
    BY <1>1, <1>2, WriteFacts
  <1>7. /\ todo = {} /\ claimed \subseteq sent /\ claimed \subseteq EventId
        /\ \A e \in claimed : status[e] = "inflight"
    BY <1>1, <1>3 DEF BatchHeld, TypeOK
  <1>8. TypeOK'
    BY <1>1, <1>3, <1>5, <1>6 DEF TypeOK
  <1>9. BatchHeld'
    BY <1>1, <1>3, <1>7 DEF BatchHeld
  <1>10. FreshIsAbsent'
    BY <1>1, <1>3, <1>4, <1>7 DEF FreshIsAbsent
  <1>11. InflightIsHeld'
    <2> SUFFICES ASSUME Faultless', NEW e \in EventId, status'[e] = "inflight"
                 PROVE  FALSE
      BY DEF InflightIsHeld
    <2>1. Faultless /\ ok
      BY <1>3, <1>6 DEF Faultless
    <2>2. e \in claimed \/ e \in todo
      BY <1>1, <1>4, <2>1 DEF InflightIsHeld
    <2>3. status'[e] = "uploaded"
      BY <1>2, <1>7, <2>1, <2>2, SetFacts
    <2> QED
      BY <2>3
  <1>12. DeletedWasSent'
    BY <1>1, <1>3, <1>4, <1>7 DEF DeletedWasSent
  <1>13. DeadIsExhausted'
    BY <1>1, <1>3, <1>4, <1>7 DEF DeadIsExhausted
  <1> QED
    BY <1>8, <1>9, <1>10, <1>11, <1>12, <1>13 DEF IndInv

(* The rows that are marked are deleted; every one of them was sent. *)
LEMMA PurgeStep == IndInv /\ purgeUploaded => IndInv'
  <1> SUFFICES ASSUME IndInv, purgeUploaded PROVE IndInv'
    OBVIOUS
  <1>1. /\ TypeOK /\ BatchHeld /\ FreshIsAbsent /\ InflightIsHeld
        /\ DeletedWasSent /\ DeadIsExhausted
    BY DEF IndInv
  <1> DEFINE gone == {e \in EventId : status[e] = "uploaded"}
  <1>2. PICK ok \in BOOLEAN :
          Write(ok) /\ status' = IF ok THEN Set(gone, "deleted") ELSE status
    BY DEF purgeUploaded
  <1>3. /\ wk = "purge" /\ wk' = "idle" /\ claimed' = {} /\ last' = "success"
        /\ UNCHANGED <<attempts, waiting, produced, starts, up, todo, sent>>
    BY DEF purgeUploaded
  <1>4. \A e \in EventId : status'[e] = status[e]
                         \/ (status[e] = "uploaded" /\ status'[e] = "deleted")
    BY <1>2, SetFacts
  <1>5. status' \in [EventId -> Status]
    BY <1>1, <1>2, SetFacts DEF TypeOK, Status
  <1>6. /\ dbErrors' \in 0..MaxDbErrors
        /\ dbErrors' = 0 => dbErrors = 0 /\ ok
    BY <1>1, <1>2, WriteFacts
  <1>7. todo = {}
    BY <1>1, <1>3 DEF BatchHeld
  <1>8. TypeOK'
    BY <1>1, <1>3, <1>5, <1>6, <1>7 DEF TypeOK
  <1>9. BatchHeld'
    BY <1>1, <1>3, <1>7 DEF BatchHeld
  <1>10. FreshIsAbsent'
    BY <1>1, <1>3, <1>4 DEF FreshIsAbsent
  <1>11. InflightIsHeld'
    BY <1>1, <1>3, <1>4, <1>6, <1>7 DEF InflightIsHeld, Faultless
  <1>12. DeletedWasSent'
    BY <1>1, <1>3, <1>4 DEF DeletedWasSent
  <1>13. DeadIsExhausted'
    BY <1>1, <1>3, <1>4 DEF DeadIsExhausted
  <1> QED
    BY <1>8, <1>9, <1>10, <1>11, <1>12, <1>13 DEF IndInv

(* One event of a failed batch: it fails, dies at the last attempt, or     *)
(* stays inflight when SQLite refuses.                                      *)
LEMMA MarkFailedStep == ASSUME IndInv, NEW e \in EventId, markFailed(e) PROVE IndInv'
  <1> DEFINE dies == attempts[e] + 1 >= MaxAttempts
  <1>1. /\ TypeOK /\ BatchHeld /\ FreshIsAbsent /\ InflightIsHeld
        /\ DeletedWasSent /\ DeadIsExhausted
    BY DEF IndInv
  <1>2. /\ wk = "fail" /\ e \in todo /\ todo' = todo \ {e}
        /\ UNCHANGED <<produced, starts, up, wk, claimed, last, sent>>
    BY DEF markFailed
  <1>3. PICK ok \in BOOLEAN :
          /\ Write(ok)
          /\ IF ok
             THEN /\ status' = Set({e}, IF dies THEN "dead" ELSE "failed")
                  /\ attempts' = [attempts EXCEPT ![e] = @ + 1]
                  /\ waiting' = [waiting EXCEPT ![e] = ~dies]
             ELSE UNCHANGED rows
    BY DEF markFailed
  <1>4. /\ dbErrors' \in 0..MaxDbErrors
        /\ dbErrors' = 0 => dbErrors = 0 /\ ok
    BY <1>1, <1>3, WriteFacts
  <1>5. /\ status[e] = "inflight" /\ attempts[e] # MaxAttempts /\ ~waiting[e]
    BY <1>1, <1>2 DEF BatchHeld, DeadIsExhausted
  <1>6. /\ attempts[e] \in Nat /\ attempts[e] < MaxAttempts
        /\ dies <=> attempts[e] + 1 = MaxAttempts
    BY <1>1, <1>5, QueueAssumption DEF TypeOK
  <1>7. todo \subseteq claimed /\ claimed \subseteq EventId /\ todo' \subseteq claimed'
    BY <1>1, <1>2 DEF TypeOK
  <1>8. CASE ok
    <2>1. /\ status' = Set({e}, IF dies THEN "dead" ELSE "failed")
          /\ attempts' = [attempts EXCEPT ![e] = @ + 1]
          /\ waiting' = [waiting EXCEPT ![e] = ~dies]
      BY <1>3, <1>8
    <2>2. \A f \in EventId : f # e => status'[f] = status[f] /\ attempts'[f] = attempts[f]
                                      /\ waiting'[f] = waiting[f]
      BY <1>1, <2>1, SetFacts DEF TypeOK
    <2>3. /\ status'[e] = IF dies THEN "dead" ELSE "failed"
          /\ attempts'[e] = attempts[e] + 1
      BY <1>1, <2>1, SetFacts DEF TypeOK
    <2>4. waiting'[e] = ~dies
      BY <1>1, <2>1 DEF TypeOK
    <2>5. status' \in [EventId -> Status]
      BY <1>1, <2>1, SetFacts DEF Status
    <2>6. attempts' \in [EventId -> 0..MaxAttempts]
      <3>1. attempts[e] + 1 \in 0..MaxAttempts
        BY <1>6, QueueAssumption
      <3>2. attempts \in [EventId -> 0..MaxAttempts]
        BY <1>1 DEF TypeOK
      <3> QED
        BY <2>1, <3>1, <3>2
    <2>7. waiting' \in [EventId -> BOOLEAN]
      BY <1>1, <2>1, Zenon DEF TypeOK
    <2>8. TypeOK'
      BY <1>1, <1>2, <1>4, <1>7, <2>5, <2>6, <2>7 DEF TypeOK
    <2> HIDE DEF dies
    <2>9. BatchHeld'
      BY <1>1, <1>2, <1>7, <2>2 DEF BatchHeld
    <2>10. FreshIsAbsent'
      BY <1>1, <1>2, <1>5, <2>2 DEF FreshIsAbsent
    <2>11. InflightIsHeld'
      BY <1>1, <1>2, <1>4, <2>2, <2>3 DEF InflightIsHeld, Faultless
    <2>12. DeletedWasSent'
      BY <1>1, <1>2, <2>2, <2>3 DEF DeletedWasSent
    <2>13. /\ status'[e] = "dead" <=> attempts'[e] = MaxAttempts
           /\ waiting'[e] => status'[e] = "failed"
      BY <1>6, <2>3, <2>4
    <2>14. DeadIsExhausted'
      BY <1>1, <2>2, <2>13 DEF DeadIsExhausted
    <2> QED
      BY <2>8, <2>9, <2>10, <2>11, <2>12, <2>14 DEF IndInv
  <1>9. CASE ~ok
    <2>1. UNCHANGED <<status, attempts, waiting>> /\ dbErrors' # 0
      BY <1>3, <1>4, <1>9 DEF rows
    <2>2. TypeOK'
      BY <1>1, <1>2, <1>4, <1>7, <2>1 DEF TypeOK
    <2>3. BatchHeld'
      BY <1>1, <1>2, <2>1 DEF BatchHeld
    <2>4. FreshIsAbsent' /\ DeletedWasSent' /\ DeadIsExhausted'
      BY <1>1, <1>2, <2>1 DEF FreshIsAbsent, DeletedWasSent, DeadIsExhausted
    <2>5. InflightIsHeld'
      BY <2>1 DEF InflightIsHeld, Faultless
    <2> QED
      BY <2>2, <2>3, <2>4, <2>5 DEF IndInv
  <1> QED
    BY <1>8, <1>9

(* The worker goes back to sleep, or the daemon dies: no row changes. *)
LEMMA ReleaseStep == IndInv /\ (RecordFailure \/ Crash) => IndInv'
  <1> SUFFICES ASSUME IndInv, RecordFailure \/ Crash PROVE IndInv'
    OBVIOUS
  <1>1. /\ TypeOK /\ BatchHeld /\ FreshIsAbsent /\ InflightIsHeld
        /\ DeletedWasSent /\ DeadIsExhausted
    BY DEF IndInv
  <1>2. /\ wk' = "idle" /\ claimed' = {} /\ todo' = {}
        /\ UNCHANGED <<status, attempts, waiting, produced, starts, dbErrors, sent>>
        /\ last' \in {"none", "failure"}
    BY DEF RecordFailure, Crash, rows
  <1>3. \/ wk = "fail" /\ todo = {} /\ up' = up
        \/ up /\ ~up' /\ up' \in BOOLEAN
    BY DEF RecordFailure, Crash
  <1>4. TypeOK'
    BY <1>1, <1>2, <1>3 DEF TypeOK
  <1>5. BatchHeld'
    BY <1>1, <1>2, <1>3 DEF BatchHeld
  <1>6. FreshIsAbsent' /\ DeletedWasSent' /\ DeadIsExhausted'
    BY <1>1, <1>2 DEF FreshIsAbsent, DeletedWasSent, DeadIsExhausted
  <1>7. InflightIsHeld'
    <2>1. CASE wk = "fail" /\ todo = {} /\ up' = up
      BY <1>1, <1>2, <2>1 DEF InflightIsHeld, Faultless
    <2>2. CASE up /\ ~up'
      <3>1. starts' > 0 /\ starts' \in Nat
        BY <1>1, <1>2, <2>2, QueueAssumption DEF BatchHeld, TypeOK
      <3>2. ~Faultless'
        BY <2>2, <3>1 DEF Faultless
      <3> QED
        BY <3>2 DEF InflightIsHeld
    <2> QED
      BY <1>3, <2>1, <2>2
  <1> QED
    BY <1>4, <1>5, <1>6, <1>7 DEF IndInv

(* A backoff ends: only a failed row waits. *)
LEMMA BackoffStep == ASSUME IndInv, NEW e \in EventId, BackoffElapses(e) PROVE IndInv'
  <1>1. /\ TypeOK /\ BatchHeld /\ FreshIsAbsent /\ InflightIsHeld
        /\ DeletedWasSent /\ DeadIsExhausted
    BY DEF IndInv
  <1>2. /\ waiting' = [waiting EXCEPT ![e] = FALSE]
        /\ UNCHANGED <<status, attempts, produced, starts, up, wk, claimed, todo, last,
                       dbErrors, sent>>
    BY DEF BackoffElapses
  <1>3. waiting' \in [EventId -> BOOLEAN]
    BY <1>1, <1>2, Zenon DEF TypeOK
  <1>4. \A f \in EventId : waiting'[f] => waiting[f]
    BY <1>1, <1>2 DEF TypeOK
  <1>5. TypeOK'
    BY <1>1, <1>2, <1>3 DEF TypeOK
  <1>6. BatchHeld' /\ FreshIsAbsent' /\ DeletedWasSent'
    BY <1>1, <1>2 DEF BatchHeld, FreshIsAbsent, DeletedWasSent
  <1>7. InflightIsHeld'
    BY <1>1, <1>2 DEF InflightIsHeld, Faultless
  <1>8. DeadIsExhausted'
    BY <1>1, <1>2, <1>4 DEF DeadIsExhausted
  <1> QED
    BY <1>5, <1>6, <1>7, <1>8 DEF IndInv

(* Every step of the daemon, its worker and the clock keeps the invariant. *)
LEMMA QueueNext == IndInv /\ [Next]_vars => IndInv'
  <1> SUFFICES ASSUME IndInv, [Next]_vars PROVE IndInv'
    OBVIOUS
  <1>1. CASE Start
    BY <1>1, StartStep
  <1>2. CASE Enqueue
    BY <1>2, EnqueueStep
  <1>3. CASE claimBatch
    BY <1>3, ClaimStep
  <1>4. CASE UploadOk \/ UploadFails
    BY <1>4, AnswerStep
  <1>5. CASE markUploaded
    BY <1>5, MarkUploadedStep
  <1>6. CASE purgeUploaded
    BY <1>6, PurgeStep
  <1>7. ASSUME NEW e \in EventId, markFailed(e) PROVE IndInv'
    BY <1>7, MarkFailedStep
  <1>8. CASE RecordFailure \/ Crash
    BY <1>8, ReleaseStep
  <1>9. ASSUME NEW e \in EventId, BackoffElapses(e) PROVE IndInv'
    BY <1>9, BackoffStep
  <1>10. CASE UNCHANGED vars
    BY <1>10 DEF vars, rows, IndInv, TypeOK, BatchHeld, FreshIsAbsent, InflightIsHeld,
       DeletedWasSent, DeadIsExhausted, Faultless
  <1> QED
    BY <1>1, <1>2, <1>3, <1>4, <1>5, <1>6, <1>7, <1>8, <1>9, <1>10 DEF Next, Worker

(* The inductive invariant holds in every reachable state. *)
THEOREM QueueInductive == Spec => []IndInv
  BY QueueInit, QueueNext, PTL DEF Spec

(* Every variable of the queue and the worker keeps a value of its kind. *)
THEOREM QueueTypeCorrect == Spec => []TypeOK
  <1>1. IndInv => TypeOK
    BY DEF IndInv
  <1> QED
    BY <1>1, QueueInductive, PTL

(* Whatever crashes and SQLite errors happen, the store never marks or      *)
(* deletes a row before the backend answered a batch that holds it.         *)
THEOREM NothingLostUnsent == Spec => []DeletedWasSent
  <1>1. IndInv => DeletedWasSent
    BY DEF IndInv
  <1> QED
    BY <1>1, QueueInductive, PTL

(* Until a daemon dies or a SQLite call fails, the worker holds every       *)
(* inflight row: only such a fault can strand one.                          *)
THEOREM OnlyFaultsStrand == Spec => []InflightIsOwned
  <1>1. IndInv => InflightIsOwned
    BY DEF IndInv, InflightIsHeld, InflightIsOwned, TypeOK
  <1> QED
    BY <1>1, QueueInductive, PTL

(* A row is dead after exactly MaxAttempts failures, and only a row with    *)
(* attempts left waits for a retry.                                         *)
THEOREM DeadAtTheLimit == Spec => []DeadIsExhausted
  <1>1. IndInv => DeadIsExhausted
    BY DEF IndInv
  <1> QED
    BY <1>1, QueueInductive, PTL

(* Although markUploaded, purgeUploaded and markFailed do not look at the   *)
(* status they overwrite, every change of a row is an edge of the lifecycle. *)
THEOREM RowsFollowLifecycle == Spec => Lifecycle
  <1> DEFINE Edge == \A e \in EventId : status'[e] # status[e]
                                        => <<status[e], status'[e]>> \in LifecycleEdges
  <1>1. IndInv /\ [Next]_vars => [Edge]_vars
    <2> SUFFICES ASSUME IndInv, Next, NEW e \in EventId, status'[e] # status[e]
                 PROVE  <<status[e], status'[e]>> \in LifecycleEdges
      OBVIOUS
    <2>1. TypeOK /\ BatchHeld /\ FreshIsAbsent
      BY DEF IndInv
    <2>2. CASE Start \/ Enqueue
      <3>1. produced + starts < MaxProduced + MaxStarts
        BY <2>1, <2>2, QueueAssumption DEF Start, Enqueue, TypeOK
      <3>2. status[Fresh] = "absent"
        BY <2>1, <3>1, FreshFacts
      <3>3. status'[e] = IF e \in {Fresh} THEN "pending" ELSE status[e]
        BY <2>2, SetFacts DEF Start, Enqueue
      <3> QED
        BY <3>2, <3>3 DEF LifecycleEdges
    <2>3. CASE claimBatch
      <3>1. status'[e] = IF e \in Oldest(Ready, BatchLimit) THEN "inflight" ELSE status[e]
        BY <2>3, SetFacts DEF claimBatch
      <3> QED
        BY <3>1, OldestFacts DEF LifecycleEdges
    <2>4. CASE markUploaded
      <3>1. status'[e] = IF e \in claimed THEN "uploaded" ELSE status[e]
        BY <2>4, SetFacts DEF markUploaded
      <3>2. e \in claimed => status[e] = "inflight"
        BY <2>1, <2>4 DEF markUploaded, BatchHeld
      <3> QED
        BY <3>1, <3>2 DEF LifecycleEdges
    <2>5. CASE purgeUploaded
      <3>1. status[e] = "uploaded" /\ status'[e] = "deleted"
        BY <2>5, SetFacts DEF purgeUploaded
      <3> QED
        BY <3>1 DEF LifecycleEdges
    <2>6. ASSUME NEW f \in EventId, markFailed(f)
          PROVE  <<status[e], status'[e]>> \in LifecycleEdges
      <3>1. status[f] = "inflight"
        BY <2>1, <2>6 DEF markFailed, BatchHeld
      <3>2. e = f /\ status'[e] \in {"dead", "failed"}
        BY <2>6, SetFacts DEF markFailed, rows
      <3> QED
        BY <3>1, <3>2 DEF LifecycleEdges
    <2> QED
      BY <2>2, <2>3, <2>4, <2>5, <2>6
      DEF Next, Worker, UploadOk, UploadFails, RecordFailure, Crash, BackoffElapses, rows
  <1> QED
    BY <1>1, QueueInductive, PTL DEF Spec, Lifecycle

(* LIMIT leaves out the youngest: with a row, the rows before it are among  *)
(* the oldest.                                                              *)
LEMMA OldestIsInitial ==
  ASSUME NEW e \in Oldest(Ready, BatchLimit), NEW f \in Ready, f < e
  PROVE  f \in Oldest(Ready, BatchLimit)
  <1> DEFINE Before(g) == {h \in Ready : h < g}
  <1>1. e \in Int /\ f \in Int /\ Ready \subseteq EventId /\ EventId \subseteq Int
    BY QueueAssumption DEF Oldest, Ready, EventId
  <1>2. IsFiniteSet(EventId)
    BY QueueAssumption, FS_Interval DEF EventId
  <1>3. Before(e) \subseteq EventId /\ Before(f) \subseteq Before(e)
    <2>1. \A h \in Int : h < f => h < e
      BY <1>1
    <2> QED
      BY <1>1, <2>1
  <1> HIDE DEF Before
  <1>4. IsFiniteSet(Before(e))
    BY <1>2, <1>3, FS_Subset
  <1>5. Cardinality(Before(f)) <= Cardinality(Before(e))
    BY <1>3, <1>4, FS_Subset
  <1>6. /\ Cardinality(Before(e)) \in Nat /\ Cardinality(Before(f)) \in Nat
    BY <1>3, <1>4, FS_Subset, FS_CardinalityType
  <1>7. Cardinality(Before(e)) < BatchLimit
    BY DEF Oldest, Before
  <1>8. Cardinality(Before(f)) < BatchLimit
    BY <1>5, <1>6, <1>7, QueueAssumption
  <1> QED
    BY <1>8 DEF Oldest, Before

(* Whatever the batch size, and however failures put rows back among the    *)
(* ready ones: no event is claimed while an older one that is ready waits.  *)
THEOREM ClaimsOldestFirst == Spec => OldestFirst
  <1> DEFINE Ordered == \A e, f \in EventId :
               /\ f < e /\ f \in Ready
               /\ status[e] # "inflight" /\ status'[e] = "inflight"
               => status'[f] = "inflight"
  <1>1. IndInv /\ [Next]_vars => [Ordered]_vars
    <2> SUFFICES ASSUME IndInv, Next, NEW e \in EventId, NEW f \in EventId, f < e, f \in Ready,
                        status[e] # "inflight", status'[e] = "inflight"
                 PROVE  status'[f] = "inflight"
      OBVIOUS
    <2>1. CASE claimBatch
      <3>1. \A g \in EventId :
              status'[g] = IF g \in Oldest(Ready, BatchLimit) THEN "inflight" ELSE status[g]
        BY <2>1, SetFacts DEF claimBatch
      <3>2. e \in Oldest(Ready, BatchLimit)
        BY <3>1
      <3> QED
        BY <3>1, <3>2, OldestIsInitial
    <2>2. CASE Start \/ Enqueue
      <3>1. status'[e] = IF e \in {Fresh} THEN "pending" ELSE status[e]
        BY <2>2, SetFacts DEF Start, Enqueue
      <3> QED
        BY <3>1
    <2>3. CASE markUploaded
      <3>1. status'[e] = status[e] \/ status'[e] = IF e \in claimed THEN "uploaded" ELSE status[e]
        BY <2>3, SetFacts DEF markUploaded
      <3> QED
        BY <3>1
    <2>4. CASE purgeUploaded
      <3>1. status' = status \/ \E S : status' = Set(S, "deleted")
        BY <2>4 DEF purgeUploaded
      <3> QED
        BY <3>1, SetFacts
    <2>5. ASSUME NEW g \in EventId, markFailed(g) PROVE FALSE
      BY <2>5, SetFacts DEF markFailed, rows
    <2> QED
      BY <2>1, <2>2, <2>3, <2>4, <2>5
      DEF Next, Worker, UploadOk, UploadFails, RecordFailure, Crash, BackoffElapses, rows
  <1> QED
    BY <1>1, QueueInductive, PTL DEF Spec, OldestFirst
=============================================================================
