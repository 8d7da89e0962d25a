------------------------- MODULE ConnectorClientProofs -------------------------
(***************************************************************************)
(* Proofs about ConnectorClient: the pending table and the calls agree, a  *)
(* decision comes from the engine, and a scan is evaluated at most once as  *)
(* long as the client is not closed.  All for any number of callers,        *)
(* attempts, crashes and closes.                                            *)
(***************************************************************************)
EXTENDS ConnectorClient, TLAPS

Stages == {"idle", "waiting", "spawning", "sent", "backoff", "done"}
Outcomes == {"none", "decision", "fallback", "threw"}
ReplyCodes == {"ok", "REMOTE", "UNAVAILABLE", "NOT_CONNECTED", "TIMEOUT", "TRANSPORT", "partial"}
Calls == [req : Requesters, try : Nat, to : Children \cup {NoChild}]
Replies == [req : Requesters, try : Nat, from : Children \cup {NoChild}, code : ReplyCodes]

(* The types the proofs use: those of TypeOK without the bounds on counters. *)
ClientTypes ==
  /\ pc \in [Requesters -> Stages]
  /\ attempt \in [Requesters -> Nat]
  /\ tries \in [Requesters -> Nat]
  /\ outcome \in [Callers -> Outcomes]
  /\ child \in Children \cup {NoChild}
  /\ stdin \subseteq Calls
  /\ stdout \subseteq Replies
  /\ evaluated \in [Callers -> Nat]
  /\ closes \in Nat

(* A frame carries an id that its requester has issued. *)
IdsIssued ==
  /\ \A m \in stdin : m.try <= tries[m.req]
  /\ \A m \in stdout : m.try <= tries[m.req]

(* An ok reply to a scan, read or not, follows its evaluation. *)
OkIsEvaluated == \A m \in stdout : m.req # Hello /\ m.code = "ok" => evaluated[m.req] > 0

(* A call that will still write a request has not been evaluated and has no *)
(* request in the pipe.                                                     *)
UnsentIsFresh(r) ==
  pc[r] \notin {"sent", "done"} => evaluated[r] = 0 /\ \A m \in stdin : m.req # r

(* A request in the pipe is the only one of its call, the latest, and has  *)
(* neither been evaluated nor answered.                                     *)
RequestIsFresh(r) ==
  \A m \in stdin : m.req = r =>
    /\ m.try = tries[r] /\ evaluated[r] = 0
    /\ \A n \in stdin : n.req = r => n = m
    /\ \A n \in stdout : n.req = r => n.try # tries[r]

(* The one answer a write is retried after says that nothing was evaluated. *)
RefusalIsClean(r) ==
  \A m \in stdout : m.req = r /\ m.try = tries[r] /\ m.code = "NOT_CONNECTED" => evaluated[r] = 0

OneEvaluation(r) ==
  evaluated[r] <= 1 /\ UnsentIsFresh(r) /\ RequestIsFresh(r) /\ RefusalIsClean(r)

WhileOpen == closes = 0 => \A r \in Callers : OneEvaluation(r)

ClientInv ==
  ClientTypes /\ PendingMatches /\ IdsIssued /\ OkIsEvaluated /\ DecisionIsReal /\ WhileOpen
-----------------------------------------------------------------------------
(* What Fail does to the calls: those of R and nobody else stop waiting for a *)
(* reply, no outcome becomes a decision, and of the callers that had a       *)
(* request out only a refused one is to send again.                          *)
Settled(R, e) ==
  /\ pc' \in [Requesters -> Stages]
  /\ outcome' \in [Callers -> Outcomes]
  /\ \A r \in Callers : outcome'[r] = "decision" => outcome[r] = "decision"
  /\ \A r \in Requesters : pc'[r] = "sent" <=> pc[r] = "sent" /\ r \notin R
  /\ \A r \in Callers : pc'[r] \notin {"sent", "done"} =>
       \/ pc[r] \notin {"sent", "done"}
       \/ r \in R /\ e = "NOT_CONNECTED"

LEMMA FailEffect ==
  ASSUME ClientTypes, NEW R \in SUBSET Requesters, NEW e,
         \A r \in R : pc[r] # "waiting", Fail(R, e, pc)
  PROVE  Settled(R, e)
  <1> DEFINE throws == Hello \in R /\ ~Retries(Hello, e)
             waiting == {r \in Callers : pc[r] = "waiting" /\ throws}
             over == {r \in R \cap Callers : ~Retries(r, e)}
  <1>1. \A x : safeScan(x) \in {"fallback", "threw"}
    BY DEF safeScan
  <1>2. /\ \A r \in Callers : outcome'[r] = CASE r \in over -> safeScan(Thrown(r, e))
                        [] r \in waiting -> safeScan(Thrown(Hello, e))
                        [] OTHER -> outcome[r]
        /\ outcome' = [r \in Callers |-> outcome'[r]]
    BY DEF Fail
  <1>3. \A r \in Callers : outcome'[r] \in {"fallback", "threw"} \/ outcome'[r] = outcome[r]
    <2> TAKE r \in Callers
    <2> r \in over => r \notin waiting
      OBVIOUS
    <2> HIDE DEF over, waiting
    <2> QED  BY <1>1, <1>2
  <1>4. /\ outcome' \in [Callers -> Outcomes]
        /\ \A r \in Callers : outcome'[r] = "decision" => outcome[r] = "decision"
    BY <1>2, <1>3 DEF ClientTypes, Outcomes
  <1>5. /\ \A r \in Requesters : pc'[r] = CASE r \in waiting \cup over -> "done"
                   [] r = Hello /\ throws -> "idle"
                   [] r \in R /\ Retries(r, e) -> "backoff"
                   [] OTHER -> pc[r]
        /\ pc' = [r \in Requesters |-> pc'[r]]
    BY DEF Fail
  <1>6. ASSUME NEW r \in Requesters
        PROVE  \/ r \in waiting \cup over /\ pc'[r] = "done"
               \/ r = Hello /\ throws /\ pc'[r] = "idle"
               \/ r \in R /\ Retries(r, e) /\ pc'[r] = "backoff"
               \/ r \notin R /\ pc'[r] = pc[r]
    <2>1. r \in waiting \cup over => r # Hello /\ ~(r \in R /\ Retries(r, e))
      BY ClientAssumption DEF ClientAssumption
    <2>2. r = Hello /\ throws => ~(r \in R /\ Retries(r, e))
      OBVIOUS
    <2>3. r \in R => r \in over \/ (r = Hello /\ throws) \/ Retries(r, e)
      BY DEF Requesters
    <2> HIDE DEF over, waiting, throws
    <2> QED  BY <1>5, <2>1, <2>2, <2>3
  <1>7. \A r \in Requesters : pc'[r] \in Stages
    BY <1>6 DEF ClientTypes, Stages
  <1>8. \A r \in Requesters : pc'[r] = "sent" <=> pc[r] = "sent" /\ r \notin R
    BY <1>6
  <1>9. ASSUME NEW r \in Callers, pc'[r] \notin {"sent", "done"}, pc[r] \in {"sent", "done"}
        PROVE  r \in R /\ e = "NOT_CONNECTED"
    <2>1. r \in Requesters /\ r # Hello
      BY ClientAssumption DEF Requesters, ClientAssumption
    <2>2. r \in R /\ Retries(r, e)
      BY <2>1, <1>6, <1>9
    <2> QED  BY <2>1, <2>2 DEF Retries, Retryable, isWriteRetryable
  <1> QED  BY <1>4, <1>5, <1>7, <1>8, <1>9 DEF Settled

(* The ids awaited, when tries stays as it is and R stops waiting. *)
LEMMA Forgotten ==
  ASSUME PendingMatches, NEW R \in SUBSET Requesters, tries' = tries,
         pending' = pending \ {<<r, tries[r]>> : r \in R},
         \A r \in Requesters : pc'[r] = "sent" <=> pc[r] = "sent" /\ r \notin R
  PROVE  PendingMatches'
  BY DEF PendingMatches
-----------------------------------------------------------------------------
(* Steps in which the requests of R fail and frames only disappear. *)
LEMMA FailStep ==
  ASSUME ClientInv, NEW R \in SUBSET Requesters, NEW e,
         \A r \in R : pc[r] # "waiting", Fail(R, e, pc),
         attempt' \in [Requesters -> Nat], tries' = tries, evaluated' = evaluated,
         child' \in Children \cup {NoChild}, closes' \in Nat,
         pending' = pending \ {<<r, tries[r]>> : r \in R},
         stdin' \subseteq stdin, stdout' \subseteq stdout,
         closes' = 0 => closes = 0,
         closes' = 0 /\ e = "NOT_CONNECTED" =>
           \A r \in R \cap Callers : evaluated[r] = 0 /\ \A m \in stdin' : m.req # r
  PROVE  ClientInv'
  <1> USE DEF ClientInv
  <1>1. Settled(R, e)
    BY FailEffect
  <1>2. ClientTypes'
    BY <1>1 DEF ClientTypes, Settled
  <1>3. PendingMatches'
    BY <1>1, Forgotten DEF Settled
  <1>4. IdsIssued' /\ OkIsEvaluated'
    BY DEF IdsIssued, OkIsEvaluated
  <1>5. DecisionIsReal'
    BY <1>1 DEF DecisionIsReal, Settled
  <1>6. ASSUME closes' = 0, NEW r \in Callers
        PROVE  OneEvaluation(r)'
    <2>1. OneEvaluation(r)
      BY <1>6 DEF WhileOpen
    <2>2. (evaluated[r] <= 1)' /\ RequestIsFresh(r)' /\ RefusalIsClean(r)'
      BY <2>1 DEF OneEvaluation, RequestIsFresh, RefusalIsClean
    <2>3. UnsentIsFresh(r)'
      BY <1>1, <1>6, <2>1 DEF OneEvaluation, UnsentIsFresh, Settled
    <2> QED  BY <2>2, <2>3 DEF OneEvaluation
  <1> QED  BY <1>2, <1>3, <1>4, <1>5, <1>6 DEF WhileOpen

(* Steps in which every member of R writes a request. *)
LEMMA SendStep ==
  ASSUME ClientInv, NEW R \in SUBSET Requesters, NEW first \in BOOLEAN,
         NEW c \in Children \cup {NoChild}, NEW ids, NEW at \in [Requesters -> Stages],
         Send(R, first, c, ids, at),
         ids = {<<r, tries[r]>> : r \in {q \in Requesters : at[q] = "sent"}},
         \A r \in R : at[r] # "sent",
         \A r \in R \cap Callers : pc[r] \notin {"sent", "done"},
         \A r \in Callers : at[r] \notin {"sent", "done"} => pc[r] \notin {"sent", "done"},
         evaluated' = evaluated, stdout' \subseteq stdout, closes' = closes,
         child' \in Children \cup {NoChild}
  PROVE  ClientInv'
  <1> USE DEF ClientInv
  <1>1. /\ tries' \in [Requesters -> Nat] /\ attempt' \in [Requesters -> Nat]
        /\ pc' \in [Requesters -> Stages]
    BY DEF Send, Attempts, ClientTypes, Stages
  <1>2. \A m \in stdin' : m \in stdin \/ (m.req \in R /\ m.try = tries'[m.req] /\ m.to = c)
    BY DEF Send
  <1>3. stdin' \subseteq Calls
    <2>1. \A r \in R : [req |-> r, try |-> tries'[r], to |-> c] \in Calls
      BY <1>1 DEF Calls
    <2> QED  BY <2>1 DEF ClientTypes, Send
  <1>4. ClientTypes'
    BY <1>1, <1>3 DEF ClientTypes, Send
  <1>5. /\ \A r \in Requesters : tries'[r] = IF r \in R THEN tries[r] + 1 ELSE tries[r]
        /\ \A r \in Requesters : pc'[r] = IF r \in R THEN "sent" ELSE at[r]
    BY DEF Send
  <1>6. PendingMatches'
    <2>1. pending' = {<<r, tries[r]>> : r \in {q \in Requesters : at[q] = "sent"}}
                       \cup {<<r, tries'[r]>> : r \in R}
      BY DEF Send
    <2>2. \A q \in Requesters : pc'[q] = "sent" <=> q \in R \/ at[q] = "sent"
      BY <1>5
    <2>3. \A q \in Requesters : at[q] = "sent" => tries'[q] = tries[q]
      BY <1>5
    <2> QED  BY <2>1, <2>2, <2>3 DEF PendingMatches
  <1>7. IdsIssued'
    <2>1. \A r \in Requesters : tries[r] <= tries'[r] /\ tries[r] \in Nat /\ tries'[r] \in Nat
      BY <1>5, <1>1 DEF ClientTypes
    <2>2. ASSUME NEW m \in stdout PROVE m.try <= tries'[m.req]
      <3> m.req \in Requesters /\ m.try \in Nat
        BY DEF ClientTypes, Replies
      <3> QED  BY <2>1 DEF IdsIssued
    <2>3. ASSUME NEW m \in stdin' PROVE m.try <= tries'[m.req]
      <3> m.req \in Requesters /\ m.try \in Nat
        BY <1>3 DEF Calls
      <3> QED  BY <2>1, <1>2 DEF IdsIssued
    <2> QED  BY <2>2, <2>3 DEF IdsIssued
  <1>8. OkIsEvaluated' /\ DecisionIsReal'
    BY DEF OkIsEvaluated, DecisionIsReal, Send
  <1>9. ASSUME closes' = 0, NEW r \in Callers
        PROVE  OneEvaluation(r)'
    <2>0. r \in Requesters
      BY DEF Requesters
    <2>1. OneEvaluation(r)
      BY <1>9 DEF WhileOpen
    <2>2. CASE r \notin R
      <3>1. tries'[r] = tries[r] /\ pc'[r] = at[r]
        BY <1>5, <2>0, <2>2
      <3>2. \A m \in stdin' : m.req = r => m \in stdin
        BY <1>2, <2>2
      <3> QED  BY <2>1, <3>1, <3>2
               DEF OneEvaluation, RequestIsFresh, RefusalIsClean, UnsentIsFresh
    <2>3. CASE r \in R
      <3>1. tries'[r] = tries[r] + 1 /\ pc'[r] = "sent" /\ tries[r] \in Nat
        BY <1>5, <2>0, <2>3 DEF ClientTypes
      <3>2. evaluated[r] = 0 /\ \A m \in stdin : m.req # r
        BY <2>1, <2>3 DEF OneEvaluation, UnsentIsFresh
      <3>3. \A n \in stdout' : n.req = r => n.try # tries'[r]
        <4> SUFFICES ASSUME NEW n \in stdout, n.req = r PROVE n.try # tries'[r]
          OBVIOUS
        <4>1. n.try <= tries[r] /\ n.try \in Nat
          BY DEF IdsIssued, ClientTypes, Replies
        <4> QED  BY <4>1, <3>1
      <3>4. \A m, n \in stdin' : m.req = r /\ n.req = r => m = n /\ m.try = tries'[r]
        <4>1. \A m \in stdin' : m \in stdin \/
                \E q \in R : m = [req |-> q, try |-> tries'[q], to |-> c]
          BY DEF Send
        <4>2. \A m \in stdin' : m.req = r => m = [req |-> r, try |-> tries'[r], to |-> c]
          BY <3>2, <4>1
        <4> QED  BY <4>2
      <3> QED  BY <3>1, <3>2, <3>3, <3>4
               DEF OneEvaluation, RequestIsFresh, RefusalIsClean, UnsentIsFresh
    <2> QED  BY <2>2, <2>3
  <1> QED  BY <1>4, <1>6, <1>7, <1>8, <1>9 DEF WhileOpen

(* Steps that only move callers towards the handshake, or end their wait for *)
(* it, and read no frame.                                                     *)
LEMMA QuietStep ==
  ASSUME ClientInv, pc' \in [Requesters -> Stages], outcome' \in [Callers -> Outcomes],
         \A r \in Callers : outcome'[r] = "decision" => outcome[r] = "decision",
         \A r \in Requesters : pc'[r] = "sent" <=> pc[r] = "sent",
         \A r \in Callers : pc'[r] \notin {"sent", "done"} => pc[r] \notin {"sent", "done"},
         UNCHANGED <<attempt, tries, child, pending, stdin, evaluated, closes>>,
         stdout' \subseteq stdout
  PROVE  ClientInv'
  <1> USE DEF ClientInv
  <1>1. ClientTypes' /\ PendingMatches' /\ IdsIssued' /\ OkIsEvaluated' /\ DecisionIsReal'
    BY DEF ClientTypes, PendingMatches, IdsIssued, OkIsEvaluated, DecisionIsReal
  <1>2. ASSUME closes' = 0, NEW r \in Callers
        PROVE  OneEvaluation(r)'
    <2>1. OneEvaluation(r)
      BY <1>2 DEF WhileOpen
    <2> QED  BY <2>1 DEF OneEvaluation, RequestIsFresh, RefusalIsClean, UnsentIsFresh
  <1> QED  BY <1>1, <1>2 DEF WhileOpen

(* The table of pending ids names the calls that await a reply. *)
LEMMA Awaited ==
  ASSUME ClientInv
  PROVE  /\ \A r, t : <<r, t>> \in pending => r \in Requesters /\ pc[r] = "sent" /\ t = tries[r]
         /\ \A r \in Requesters : r \in PendingRequesters <=> pc[r] = "sent"
         /\ pending \ {<<r, tries[r]>> : r \in PendingRequesters} = {}
  BY DEF ClientInv, PendingMatches, PendingRequesters

(* Everything in flight fails: the exit, a torn frame, a close. *)
LEMMA FailAllStep ==
  ASSUME ClientInv, NEW e, Fail(PendingRequesters, e, pc), attempt' = attempt, tries' = tries,
         evaluated' = evaluated, child' = NoChild, closes' \in Nat, pending' = {},
         stdin' \subseteq stdin, stdout' \subseteq stdout, closes' = 0 => closes = 0,
         e = "NOT_CONNECTED" => closes' # 0
  PROVE  ClientInv'
  <1>1. /\ PendingRequesters \in SUBSET Requesters
        /\ \A r \in PendingRequesters : pc[r] # "waiting"
    BY Awaited DEF PendingRequesters
  <1>2. pending' = pending \ {<<r, tries[r]>> : r \in PendingRequesters}
    BY Awaited
  <1>3. attempt' \in [Requesters -> Nat] /\ child' \in Children \cup {NoChild}
    BY DEF ClientInv, ClientTypes
  <1> HIDE DEF PendingRequesters
  <1> QED  BY <1>1, <1>2, <1>3, FailStep

(* The one call r fails, with its id removed from the table. *)
LEMMA FailOneStep ==
  ASSUME ClientInv, NEW r \in Requesters, NEW e, pc[r] = "sent", Fail({r}, e, pc),
         attempt' = attempt, tries' = tries, pending' = pending \ {<<r, tries[r]>>},
         UNCHANGED <<evaluated, child, closes>>,
         stdin' \subseteq stdin, stdout' \subseteq stdout,
         closes = 0 /\ e = "NOT_CONNECTED" /\ r # Hello =>
           evaluated[r] = 0 /\ \A m \in stdin : m.req # r
  PROVE  ClientInv'
  <1>1. {r} \in SUBSET Requesters /\ \A q \in {r} : pc[q] # "waiting"
    OBVIOUS
  <1>2. pending' = pending \ {<<q, tries[q]>> : q \in {r}}
    OBVIOUS
  <1>3. /\ attempt' \in [Requesters -> Nat] /\ child' \in Children \cup {NoChild}
        /\ closes' \in Nat /\ (closes' = 0 => closes = 0)
    BY DEF ClientInv, ClientTypes
  <1>4. closes' = 0 /\ e = "NOT_CONNECTED" =>
          \A q \in {r} \cap Callers : evaluated[q] = 0 /\ \A m \in stdin' : m.req # q
    BY ClientAssumption DEF ClientAssumption
  <1> QED  BY <1>1, <1>2, <1>3, <1>4, FailStep
-----------------------------------------------------------------------------
(* transport.request of a call that has no request out. *)
LEMMA RequestStep ==
  ASSUME ClientInv, NEW r \in Requesters, NEW first \in BOOLEAN, Request(r, first),
         pc[r] \in {"idle", "backoff"}, UNCHANGED <<child, stdout, evaluated, closes>>
  PROVE  ClientInv'
  <1>1. CASE child # NoChild /\ Send({r}, first, child, pending, pc)
    <2>1. /\ child \in Children \cup {NoChild} /\ pc \in [Requesters -> Stages]
          /\ child' \in Children \cup {NoChild}
          /\ pending = {<<q, tries[q]>> : q \in {p \in Requesters : pc[p] = "sent"}}
      BY DEF ClientInv, ClientTypes, PendingMatches
    <2>2. /\ {r} \in SUBSET Requesters
          /\ \A q \in {r} : pc[q] # "sent"
          /\ \A q \in {r} \cap Callers : pc[q] \notin {"sent", "done"}
      OBVIOUS
    <2> QED  BY <1>1, <2>1, <2>2, SendStep
  <1>2. CASE /\ attempt' = Attempts({r}, first) /\ Fail({r}, "NOT_CONNECTED", pc)
             /\ UNCHANGED <<tries, pending, stdin>>
    <2>1. attempt' \in [Requesters -> Nat]
      BY <1>2 DEF Attempts, ClientInv, ClientTypes
    <2>2. {r} \in SUBSET Requesters /\ \A q \in {r} : pc[q] # "waiting"
      OBVIOUS
    <2>3. pending' = pending \ {<<q, tries[q]>> : q \in {r}}
      BY <1>2, Awaited
    <2>4. /\ child' \in Children \cup {NoChild} /\ closes' \in Nat
          /\ closes' = 0 => closes = 0
      BY DEF ClientInv, ClientTypes
    <2>5. closes' = 0 =>
            \A q \in {r} \cap Callers : evaluated[q] = 0 /\ \A m \in stdin' : m.req # q
      BY <1>2 DEF ClientInv, WhileOpen, OneEvaluation, UnsentIsFresh
    <2> QED  BY <1>2, <2>1, <2>2, <2>3, <2>4, <2>5, FailStep
  <1> QED  BY <1>1, <1>2 DEF Request

LEMMA ScanStep ==
  ASSUME ClientInv, NEW r \in Callers,
         ScanConnected(r) \/ ScanJoins(r) \/ ScanConnects(r)
  PROVE  ClientInv'
  <1>0. r \in Requesters /\ Hello \in Requesters /\ r # Hello
    BY ClientAssumption DEF Requesters, ClientAssumption
  <1>1. CASE ScanConnected(r)
    BY <1>0, <1>1, RequestStep DEF ScanConnected, bounds
  <1>2. CASE ScanJoins(r)
    <2>1. /\ pc[r] = "idle" /\ pc' = [pc EXCEPT ![r] = "waiting"]
          /\ UNCHANGED <<attempt, tries, outcome, child, pending, stdin, stdout, evaluated, closes>>
      BY <1>2 DEF ScanJoins, pipes, bounds
    <2>2. pc \in [Requesters -> Stages] /\ outcome \in [Callers -> Outcomes]
      BY DEF ClientInv, ClientTypes
    <2>3. pc' \in [Requesters -> Stages]
      BY <2>1, <2>2 DEF Stages
    <2>4. \A q \in Requesters : pc'[q] = IF q = r THEN "waiting" ELSE pc[q]
      BY <2>1, <2>2
    <2>5. Callers \subseteq Requesters
      BY DEF Requesters
    <2> QED  BY <2>1, <2>2, <2>3, <2>4, <2>5, QuietStep
  <1>3. CASE ScanConnects(r)
    <2>0. /\ pc[r] = "idle" /\ pc[Hello] = "idle" /\ UNCHANGED <<child, stdout, evaluated, closes>>
      BY <1>3 DEF ScanConnects, bounds
    <2>1. pc \in [Requesters -> Stages] /\ outcome \in [Callers -> Outcomes]
      BY DEF ClientInv, ClientTypes
    <2>2. Callers \subseteq Requesters
      BY DEF Requesters
    <2>3. CASE /\ pc' = [pc EXCEPT ![r] = "waiting", ![Hello] = "spawning"]
               /\ UNCHANGED <<attempt, tries, outcome, pending, stdin>>
      <3>1. pc' \in [Requesters -> Stages]
        BY <2>1, <2>3 DEF Stages
      <3>2. \A q \in Requesters : pc'[q] = IF q = Hello THEN "spawning"
                                            ELSE IF q = r THEN "waiting" ELSE pc[q]
        BY <1>0, <2>1, <2>3
      <3> QED  BY <1>0, <2>0, <2>1, <2>2, <2>3, <3>1, <3>2, QuietStep
    <2>4. CASE Send({Hello}, TRUE, child, pending, [pc EXCEPT ![r] = "waiting"])
      <3> DEFINE at == [pc EXCEPT ![r] = "waiting"]
      <3>1. at \in [Requesters -> Stages]
        BY <2>1 DEF Stages
      <3>2. \A q \in Requesters : at[q] = IF q = r THEN "waiting" ELSE pc[q]
        BY <2>1
      <3>3. pending = {<<q, tries[q]>> : q \in {p \in Requesters : pc[p] = "sent"}}
        BY DEF ClientInv, PendingMatches
      <3>4. {p \in Requesters : at[p] = "sent"} = {p \in Requesters : pc[p] = "sent"}
        BY <2>0, <3>2
      <3>5. child \in Children \cup {NoChild}
        BY DEF ClientInv, ClientTypes
      <3>6. /\ {Hello} \in SUBSET Requesters /\ \A q \in {Hello} : at[q] # "sent"
            /\ \A q \in {Hello} \cap Callers : pc[q] \notin {"sent", "done"}
            /\ \A q \in Callers : at[q] \notin {"sent", "done"} => pc[q] \notin {"sent", "done"}
        BY <1>0, <2>0, <2>2, <3>2
      <3>7. Send({Hello}, TRUE, child, pending, at)
        BY <2>4
      <3> HIDE DEF at
      <3> QED  BY <2>0, <3>1, <3>3, <3>4, <3>5, <3>6, <3>7, SendStep
    <2> QED  BY <1>3, <2>3, <2>4 DEF ScanConnects
  <1> QED  BY <1>1, <1>2, <1>3

LEMMA SpawnStep ==
  ASSUME ClientInv, Spawned \/ SpawnFails
  PROVE  ClientInv'
  <1>0. /\ pc[Hello] = "spawning" /\ Hello \in Requesters /\ Callers \subseteq Requesters
        /\ Hello \notin Callers
    BY ClientAssumption DEF Requesters, ClientAssumption, Spawned, SpawnFails
  <1>1. pc \in [Requesters -> Stages] /\ outcome \in [Callers -> Outcomes]
    BY DEF ClientInv, ClientTypes
  <1>2. CASE Spawned
    <2>1. PICK c \in Children : child' = c /\ Send({Hello}, TRUE, c, pending, pc)
      BY <1>2 DEF Spawned
    <2>2. UNCHANGED <<stdout, evaluated, closes>>
      BY <1>2 DEF Spawned, bounds
    <2>3. /\ child' \in Children \cup {NoChild} /\ c \in Children \cup {NoChild}
          /\ pending = {<<q, tries[q]>> : q \in {p \in Requesters : pc[p] = "sent"}}
      BY <2>1 DEF ClientInv, PendingMatches
    <2>4. /\ {Hello} \in SUBSET Requesters /\ \A q \in {Hello} : pc[q] # "sent"
          /\ \A q \in {Hello} \cap Callers : pc[q] \notin {"sent", "done"}
      BY <1>0
    <2> QED  BY <1>1, <2>1, <2>2, <2>3, <2>4, SendStep
  <1>3. CASE SpawnFails
    <2>1. UNCHANGED <<attempt, tries, child, pending, stdin, stdout, evaluated, closes>>
      BY <1>3 DEF SpawnFails, pipes, bounds
    <2>2. \A q \in Requesters : pc'[q] = IF q = Hello THEN "idle"
                                          ELSE IF pc[q] = "waiting" THEN "done" ELSE pc[q]
      BY <1>0, <1>3 DEF SpawnFails
    <2>3. /\ pc' = [q \in Requesters |-> pc'[q]]
          /\ outcome' = [q \in Callers |-> outcome'[q]]
          /\ \A q \in Callers : outcome'[q] \in {outcome[q], safeScan("TRANSPORT")}
      BY <1>3 DEF SpawnFails
    <2>4. pc' \in [Requesters -> Stages]
      BY <1>1, <2>2, <2>3 DEF Stages
    <2>5. /\ outcome' \in [Callers -> Outcomes]
          /\ \A q \in Callers : outcome'[q] = "decision" => outcome[q] = "decision"
      BY <1>1, <2>3 DEF Outcomes, safeScan
    <2>6. \A q \in Requesters : pc'[q] = "sent" <=> pc[q] = "sent"
      BY <1>0, <2>2
    <2>7. \A q \in Callers : pc'[q] \notin {"sent", "done"} => pc[q] \notin {"sent", "done"}
      BY <1>0, <2>2
    <2> QED  BY <2>1, <2>4, <2>5, <2>6, <2>7, QuietStep
  <1> QED  BY <1>2, <1>3

LEMMA TimerStep ==
  ASSUME ClientInv, NEW r \in Requesters, Retry(r) \/ Timeout(r)
  PROVE  ClientInv'
  <1>1. CASE Retry(r)
    BY <1>1, RequestStep DEF Retry, bounds
  <1>2. CASE Timeout(r)
    BY <1>2, FailOneStep DEF Timeout, pipes, bounds
  <1> QED  BY <1>1, <1>2

LEMMA WriteFailsStep ==
  ASSUME ClientInv, NEW m \in stdin, WriteFails(m)
  PROVE  ClientInv'
  <1>1. CASE <<m.req, m.try>> \in pending
    <2>1. m.req \in Requesters /\ pc[m.req] = "sent" /\ m.try = tries[m.req]
      BY <1>1, Awaited
    <2>2. /\ pending' = pending \ {<<m.req, tries[m.req]>>}
          /\ Fail({m.req}, "TRANSPORT", pc) /\ attempt' = attempt /\ tries' = tries
          /\ stdin' \subseteq stdin /\ stdout' \subseteq stdout
          /\ UNCHANGED <<evaluated, child, closes>>
      BY <1>1, <2>1 DEF WriteFails, bounds
    <2> QED  BY <2>1, <2>2, FailOneStep
  <1>2. CASE <<m.req, m.try>> \notin pending
    <2>1. /\ UNCHANGED <<pending, pc, outcome, attempt, tries, stdout, evaluated, child, closes>>
          /\ stdin' \subseteq stdin
      BY <1>2 DEF WriteFails, bounds
    <2>2. /\ ClientTypes' /\ PendingMatches' /\ IdsIssued' /\ OkIsEvaluated'
          /\ DecisionIsReal'
      BY <2>1 DEF ClientInv, ClientTypes, PendingMatches, IdsIssued, OkIsEvaluated, DecisionIsReal
    <2>3. WhileOpen'
      BY <2>1 DEF ClientInv, WhileOpen, OneEvaluation, RequestIsFresh, RefusalIsClean,
                  UnsentIsFresh
    <2> QED  BY <2>2, <2>3 DEF ClientInv
  <1> QED  BY <1>1, <1>2

LEMMA ExitAndCloseStep ==
  ASSUME ClientInv, close \/ \E c \in Children : onExit(c)
  PROVE  ClientInv'
  <1>0. closes \in Nat
    BY DEF ClientInv, ClientTypes
  <1>1. CASE close
    <2>1. closes' \in Nat /\ closes' # 0
      BY <1>0, <1>1 DEF close
    <2> QED  BY <1>1, <2>1, FailAllStep DEF close, pipes
  <1>2. ASSUME NEW c \in Children, onExit(c)
        PROVE  ClientInv'
    <2>1. /\ Fail(PendingRequesters, "TRANSPORT", pc) /\ attempt' = attempt /\ tries' = tries
          /\ evaluated' = evaluated /\ child' = NoChild /\ closes' = closes /\ pending' = {}
          /\ stdin' \subseteq stdin /\ stdout' \subseteq stdout
      BY <1>2 DEF onExit, bounds
    <2> QED  BY <1>0, <2>1, FailAllStep
  <1> QED  BY <1>1, <1>2
-----------------------------------------------------------------------------
LEMMA HelperAnswersStep ==
  ASSUME ClientInv, NEW m \in stdin, HelperAnswers(m)
  PROVE  ClientInv'
  <1> USE DEF ClientInv
  <1>0. /\ m \in Calls /\ m.req \in Requesters /\ m.try \in Nat
        /\ m.to \in Children \cup {NoChild} /\ m.try <= tries[m.req]
    BY DEF ClientTypes, Calls, IdsIssued
  <1>1. PICK code \in Codes(m.req) :
          /\ stdout' = stdout \cup {[req |-> m.req, try |-> m.try, from |-> m.to, code |-> code]}
          /\ IF m.req = Hello THEN UNCHANGED evaluated
             ELSE \E n \in Effects(code) : evaluated' = [evaluated EXCEPT ![m.req] = @ + n]
    BY DEF HelperAnswers
  <1> DEFINE reply == [req |-> m.req, try |-> m.try, from |-> m.to, code |-> code]
  <1>2. reply \in Replies /\ reply.req = m.req /\ reply.try = m.try /\ reply.code = code
    <2>1. code \in ReplyCodes
      BY DEF Codes, ReplyCodes
    <2> QED  BY <1>0, <2>1 DEF Replies
  <1>3. /\ UNCHANGED <<pc, attempt, tries, outcome, child, pending, closes>>
        /\ stdin' = stdin \ {m}
    BY DEF HelperAnswers, client, bounds
  <1>4. stdout' = stdout \cup {reply}
    BY <1>1
  <1> HIDE DEF reply
  <1>5. CASE m.req = Hello
    <2>1. evaluated' = evaluated
      BY <1>1, <1>5
    <2>2. ClientTypes' /\ PendingMatches' /\ DecisionIsReal'
      BY <1>2, <1>3, <1>4, <2>1 DEF ClientTypes, PendingMatches, DecisionIsReal
    <2>3. IdsIssued' /\ OkIsEvaluated'
      BY <1>0, <1>2, <1>3, <1>4, <1>5, <2>1 DEF IdsIssued, OkIsEvaluated
    <2>4. ASSUME closes' = 0, NEW r \in Callers
          PROVE  OneEvaluation(r)'
      <3>1. OneEvaluation(r) /\ r # Hello
        BY <1>3, <2>4, ClientAssumption DEF WhileOpen, ClientAssumption
      <3> QED  BY <1>2, <1>3, <1>4, <1>5, <2>1, <3>1
               DEF OneEvaluation, RequestIsFresh, RefusalIsClean, UnsentIsFresh
    <2> QED  BY <2>2, <2>3, <2>4 DEF WhileOpen
  <1>6. CASE m.req # Hello
    <2>0. m.req \in Callers
      BY <1>0, <1>6 DEF Requesters
    <2>1. PICK n \in Effects(code) : evaluated' = [evaluated EXCEPT ![m.req] = @ + n]
      BY <1>1, <1>6
    <2>2. /\ n \in {0, 1}
          /\ code = "ok" => n = 1
          /\ code = "NOT_CONNECTED" => n = 0
      BY <2>1 DEF Effects
    <2>3. /\ evaluated \in [Callers -> Nat] /\ evaluated' \in [Callers -> Nat]
          /\ evaluated'[m.req] = evaluated[m.req] + n
          /\ \A r \in Callers : r # m.req => evaluated'[r] = evaluated[r]
      BY <2>0, <2>1, <2>2 DEF ClientTypes
    <2>4. \A r \in Callers : evaluated'[r] >= evaluated[r]
      BY <2>2, <2>3
    <2>5. ClientTypes' /\ PendingMatches'
      BY <1>2, <1>3, <1>4, <2>3 DEF ClientTypes, PendingMatches
    <2>6. IdsIssued'
      BY <1>0, <1>2, <1>3, <1>4 DEF IdsIssued
    <2>7. DecisionIsReal'
      BY <1>3, <2>3, <2>4 DEF DecisionIsReal
    <2>8. OkIsEvaluated'
      <3>1. code = "ok" => evaluated'[m.req] > 0
        BY <2>0, <2>2, <2>3
      <3>2. ASSUME NEW k \in stdout, k.req # Hello, k.code = "ok"
            PROVE  evaluated'[k.req] > 0
        <4>1. k.req \in Callers
          BY <3>2 DEF ClientTypes, Replies, Requesters
        <4> QED  BY <2>3, <2>4, <3>2, <4>1 DEF OkIsEvaluated
      <3> QED  BY <1>2, <1>4, <3>1, <3>2 DEF OkIsEvaluated
    <2>9. ASSUME closes' = 0, NEW r \in Callers
          PROVE  OneEvaluation(r)'
      <3>1. OneEvaluation(r)
        BY <1>3, <2>9 DEF WhileOpen
      <3>2. CASE r # m.req
        BY <1>2, <1>3, <1>4, <2>3, <3>1, <3>2
        DEF OneEvaluation, RequestIsFresh, RefusalIsClean, UnsentIsFresh
      <3>3. CASE r = m.req
        <4>1. /\ evaluated[r] = 0 /\ m.try = tries[r]
              /\ \A k \in stdin : k.req = r => k = m
              /\ \A k \in stdout : k.req = r => k.try # tries[r]
          BY <3>1, <3>3 DEF OneEvaluation, RequestIsFresh
        <4>2. \A k \in stdin' : k.req # r
          BY <1>3, <4>1
        <4>3. evaluated'[r] = n
          BY <2>2, <2>3, <3>3, <4>1
        <4>4. UnsentIsFresh(r)'
          BY <1>3, <3>1, <3>3 DEF OneEvaluation, UnsentIsFresh
        <4>5. RefusalIsClean(r)'
          BY <1>2, <1>3, <1>4, <2>2, <4>1, <4>3 DEF RefusalIsClean
        <4> QED  BY <2>2, <4>2, <4>3, <4>4, <4>5 DEF OneEvaluation, RequestIsFresh
      <3> QED  BY <3>2, <3>3
    <2> QED  BY <2>5, <2>6, <2>7, <2>8, <2>9 DEF WhileOpen
  <1> QED  BY <1>5, <1>6

LEMMA HelperDiesStep ==
  ASSUME ClientInv, NEW c \in Children, HelperDies(c)
  PROVE  ClientInv'
  <1> USE DEF ClientInv
  <1>1. UNCHANGED <<pc, attempt, tries, outcome, child, pending, stdin, evaluated, closes>>
    BY DEF HelperDies, client
  <1>2. \A k \in stdout' : k \in Replies /\ (k \in stdout \/
          (k.code = "partial" /\ \E m \in stdout : k.req = m.req /\ k.try = m.try))
    <2>1. CASE stdout' = stdout
      BY <2>1 DEF ClientTypes
    <2>2. ASSUME NEW m \in stdout, stdout' = (stdout \ {m}) \cup {[m EXCEPT !.code = "partial"]}
          PROVE  \A k \in stdout' : k \in Replies /\ (k \in stdout \/
                   (k.code = "partial" /\ \E q \in stdout : k.req = q.req /\ k.try = q.try))
      <3>1. m \in Replies /\ "partial" \in ReplyCodes
        BY DEF ClientTypes, ReplyCodes
      <3>2. /\ [m EXCEPT !.code = "partial"] \in Replies
            /\ [m EXCEPT !.code = "partial"].code = "partial"
            /\ [m EXCEPT !.code = "partial"].req = m.req
            /\ [m EXCEPT !.code = "partial"].try = m.try
        BY <3>1 DEF Replies
      <3> QED  BY <2>2, <3>2 DEF ClientTypes
    <2> QED  BY <2>1, <2>2 DEF HelperDies
  <1>3. ClientTypes' /\ PendingMatches' /\ DecisionIsReal'
    BY <1>1, <1>2 DEF ClientTypes, PendingMatches, DecisionIsReal
  <1>4. IdsIssued' /\ OkIsEvaluated'
    BY <1>1, <1>2 DEF IdsIssued, OkIsEvaluated
  <1>5. ASSUME closes' = 0, NEW r \in Callers
        PROVE  OneEvaluation(r)'
    <2>1. OneEvaluation(r)
      BY <1>1, <1>5 DEF WhileOpen
    <2> QED  BY <1>1, <1>2, <2>1
             DEF OneEvaluation, RequestIsFresh, RefusalIsClean, UnsentIsFresh
  <1> QED  BY <1>3, <1>4, <1>5 DEF WhileOpen
-----------------------------------------------------------------------------
(* A reply with an awaited id settles its call. *)
LEMMA DispatchStep ==
  ASSUME ClientInv, NEW m \in stdout, dispatch(m), stdout' = stdout \ {m},
         UNCHANGED <<child, evaluated, closes>>
  PROVE  ClientInv'
  <1>0. m \in Replies /\ m.req \in Requesters
    BY DEF ClientInv, ClientTypes, Replies
  <1>1. CASE <<m.req, m.try>> \notin pending
    <2>1. UNCHANGED <<pc, attempt, tries, outcome, pending, stdin>>
      BY <1>1 DEF dispatch
    <2> QED  BY <2>1, QuietStep DEF ClientInv, ClientTypes
  <1>2. CASE <<m.req, m.try>> \in pending /\ m.code # "ok"
    <2>1. pc[m.req] = "sent" /\ m.try = tries[m.req]
      BY <1>2, Awaited
    <2>2. /\ pending' = pending \ {<<m.req, tries[m.req]>>}
          /\ Fail({m.req}, m.code, pc) /\ attempt' = attempt /\ tries' = tries
          /\ stdin' \subseteq stdin /\ stdout' \subseteq stdout
      BY <1>2, <2>1 DEF dispatch
    <2>3. closes = 0 /\ m.code = "NOT_CONNECTED" /\ m.req # Hello =>
            evaluated[m.req] = 0 /\ \A k \in stdin : k.req # m.req
      <3> SUFFICES ASSUME closes = 0, m.code = "NOT_CONNECTED", m.req # Hello
                   PROVE  evaluated[m.req] = 0 /\ \A k \in stdin : k.req # m.req
        OBVIOUS
      <3>1. OneEvaluation(m.req)
        BY <1>0 DEF Requesters, ClientInv, WhileOpen
      <3> QED  BY <2>1, <3>1 DEF OneEvaluation, RefusalIsClean, RequestIsFresh
    <2> QED  BY <1>0, <2>1, <2>2, <2>3, FailOneStep
  <1>3. CASE <<m.req, m.try>> \in pending /\ m.code = "ok" /\ m.req # Hello
    <2>0. m.req \in Callers /\ pc[m.req] = "sent" /\ m.try = tries[m.req]
      BY <1>0, <1>3, Awaited DEF Requesters
    <2>1. /\ pending' = pending \ {<<m.req, tries[m.req]>>}
          /\ pc' = [pc EXCEPT ![m.req] = "done"]
          /\ outcome' = [outcome EXCEPT ![m.req] = "decision"]
          /\ UNCHANGED <<attempt, tries, stdin>>
      BY <1>3, <2>0 DEF dispatch
    <2>2. pc \in [Requesters -> Stages] /\ outcome \in [Callers -> Outcomes]
      BY DEF ClientInv, ClientTypes
    <2>3. /\ pc' \in [Requesters -> Stages] /\ outcome' \in [Callers -> Outcomes]
          /\ \A q \in Requesters : pc'[q] = IF q = m.req THEN "done" ELSE pc[q]
          /\ \A q \in Callers : outcome'[q] = IF q = m.req THEN "decision" ELSE outcome[q]
      BY <2>1, <2>2 DEF Stages, Outcomes
    <2>4. ClientTypes' /\ IdsIssued' /\ OkIsEvaluated'
      BY <2>1, <2>3 DEF ClientInv, ClientTypes, IdsIssued, OkIsEvaluated
    <2>5. PendingMatches'
      <3>1. pending' = pending \ {<<r, tries[r]>> : r \in {m.req}}
        BY <2>1
      <3>2. /\ {m.req} \in SUBSET Requesters /\ tries' = tries /\ PendingMatches
            /\ \A r \in Requesters : pc'[r] = "sent" <=> pc[r] = "sent" /\ r \notin {m.req}
        BY <1>0, <2>1, <2>3 DEF ClientInv
      <3> QED  BY <3>1, <3>2, Forgotten
    <2>6. DecisionIsReal'
      BY <1>3, <2>3 DEF ClientInv, DecisionIsReal, OkIsEvaluated
    <2>7. WhileOpen'
      <3> SUFFICES ASSUME closes' = 0, NEW r \in Callers PROVE OneEvaluation(r)'
        BY DEF WhileOpen
      <3>1. OneEvaluation(r) /\ r \in Requesters
        BY DEF ClientInv, WhileOpen, Requesters
      <3> QED  BY <2>1, <2>3, <3>1
               DEF OneEvaluation, RequestIsFresh, RefusalIsClean, UnsentIsFresh
    <2> QED  BY <2>4, <2>5, <2>6, <2>7 DEF ClientInv
  <1>4. CASE <<m.req, m.try>> \in pending /\ m.code = "ok" /\ m.req = Hello
    <2> DEFINE R == {r \in Callers : pc[r] = "waiting"}
               at == [pc EXCEPT ![Hello] = "idle"]
               ids == pending \ {<<m.req, m.try>>}
    <2>0. pc \in [Requesters -> Stages] /\ Hello \in Requesters /\ Hello \notin Callers
          /\ Callers \subseteq Requesters
      BY ClientAssumption DEF ClientInv, ClientTypes, Requesters, ClientAssumption
    <2>1. pc[Hello] = "sent" /\ m.try = tries[Hello]
      BY <1>4, Awaited
    <2>2. Send(R, TRUE, child, ids, at)
      BY <1>4 DEF dispatch
    <2>3. /\ at \in [Requesters -> Stages]
          /\ \A q \in Requesters : at[q] = IF q = Hello THEN "idle" ELSE pc[q]
      BY <2>0 DEF Stages
    <2>4. ids = {<<r, tries[r]>> : r \in {q \in Requesters : at[q] = "sent"}}
      BY <1>4, <2>1, <2>3 DEF ClientInv, PendingMatches
    <2>5. /\ R \in SUBSET Requesters
          /\ \A r \in R : at[r] # "sent"
          /\ \A r \in R \cap Callers : pc[r] \notin {"sent", "done"}
      BY <2>0, <2>3
    <2>6. \A r \in Callers : at[r] \notin {"sent", "done"} => pc[r] \notin {"sent", "done"}
      BY <2>0, <2>3
    <2>7. child \in Children \cup {NoChild} /\ child' \in Children \cup {NoChild}
      BY DEF ClientInv, ClientTypes
    <2> HIDE DEF R, at, ids
    <2>8. stdout' \subseteq stdout /\ evaluated' = evaluated /\ closes' = closes
      OBVIOUS
    <2> QED  BY <2>2, <2>3, <2>4, <2>5, <2>6, <2>7, <2>8, SendStep
  <1> QED  BY <1>1, <1>2, <1>3, <1>4

LEMMA StdoutStep ==
  ASSUME ClientInv, NEW m \in stdout, onStdout(m) \/ onStdoutTorn(m)
  PROVE  ClientInv'
  <1>0. stdout' = stdout \ {m} /\ evaluated' = evaluated /\ closes' = closes
    BY DEF onStdout, onStdoutTorn, bounds
  <1>1. CASE UNCHANGED <<client, child, pending, stdin>>
    <2>1. /\ pc' \in [Requesters -> Stages] /\ outcome' \in [Callers -> Outcomes]
          /\ UNCHANGED <<pc, attempt, tries, outcome, child, pending, stdin>>
      BY <1>1 DEF client, ClientInv, ClientTypes
    <2> QED  BY <1>0, <2>1, QuietStep
  <1>2. CASE dispatch(m) /\ child' = child
    BY <1>0, <1>2, DispatchStep
  <1>3. CASE /\ child' = NoChild /\ pending' = {} /\ attempt' = attempt
             /\ Fail(PendingRequesters, "VALIDATION", pc) /\ tries' = tries /\ stdin' = stdin
    <2>1. closes' \in Nat
      BY <1>0 DEF ClientInv, ClientTypes
    <2> QED  BY <1>0, <1>3, <2>1, FailAllStep
  <1> QED  BY <1>1, <1>2, <1>3 DEF onStdout, onStdoutTorn

LEMMA ClientInvInit == Init => ClientInv
  <1> SUFFICES ASSUME Init PROVE ClientInv
    OBVIOUS
  <1>1. ClientTypes
    BY DEF Init, ClientTypes, Stages, Outcomes, NoChild
  <1>2. PendingMatches /\ IdsIssued /\ OkIsEvaluated /\ DecisionIsReal
    BY DEF Init, PendingMatches, IdsIssued, OkIsEvaluated, DecisionIsReal
  <1>3. WhileOpen
    BY DEF Init, WhileOpen, OneEvaluation, UnsentIsFresh, RequestIsFresh, RefusalIsClean
  <1> QED  BY <1>1, <1>2, <1>3 DEF ClientInv

LEMMA ClientInvStep == ClientInv /\ [Next]_vars => ClientInv'
  <1> SUFFICES ASSUME ClientInv, [Next]_vars PROVE ClientInv'
    OBVIOUS
  <1>1. CASE UNCHANGED vars
    BY <1>1, QuietStep DEF vars, client, pipes, bounds, ClientInv, ClientTypes
  <1>2. CASE Step
    BY <1>2, ScanStep, SpawnStep, TimerStep, HelperAnswersStep, WriteFailsStep, HelperDiesStep,
       ExitAndCloseStep, StdoutStep DEF Step
  <1>3. CASE LoopEnds
    BY <1>3, QuietStep DEF LoopEnds, client, pipes, bounds, ClientInv, ClientTypes
  <1> QED  BY <1>1, <1>2, <1>3 DEF Next

(* ClientInv holds of every behaviour of the client. *)
LEMMA ClientInvHolds == Spec => []ClientInv
  BY ClientInvInit, ClientInvStep, PTL DEF Spec

(* transport.pending and the calls agree: XpcBridgeTransport keeps no id of a *)
(* call that has timed out, failed or ended, and no call awaits an id that is *)
(* not in the table.                                                          *)
THEOREM PendingTableExact == Spec => []PendingMatches
  <1>1. ClientInv => PendingMatches
    BY DEF ClientInv
  <1> QED  BY <1>1, ClientInvHolds, PTL

(* safeScan never returns as the engine's decision a reply that the engine  *)
(* did not give to this call: whatever dies, is late or is torn.             *)
THEOREM DecisionsAreReal == Spec => []DecisionIsReal
  <1>1. ClientInv => DecisionIsReal
    BY DEF ClientInv
  <1> QED  BY <1>1, ClientInvHolds, PTL

(* Without a close, the retries of safeScan never make the daemon evaluate,  *)
(* and audit, the same scan twice.                                           *)
THEOREM ScansEvaluatedOnce == Spec => []AtMostOnce
  <1>1. ClientInv => AtMostOnce
    BY DEF ClientInv, WhileOpen, OneEvaluation, AtMostOnce, EvaluatedOnce
  <1> QED  BY <1>1, ClientInvHolds, PTL
=============================================================================
