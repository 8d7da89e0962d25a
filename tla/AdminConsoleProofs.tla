-------------------------- MODULE AdminConsoleProofs --------------------------
(***************************************************************************)
(* Proofs about the console's pages, for any number of rows, filters,      *)
(* fetches and writes under way.                                           *)
(***************************************************************************)
EXTENDS AdminConsole, FiniteSetTheorems, SequenceTheorems, TLAPS

(* On a page that guards its fetches, the one that is still heard is for   *)
(* the query on the screen.                                                *)
ListInStep == page \in Guarded => \A i \in Slots : fetch[i].live => fetch[i].q = query

(* The fetch of findings that is still heard is for the open violation. *)
PanelInStep ==
  page = "violations" => \A i \in Slots : look[i].live => look[i].id = selected.id /\ selected # NoDetail

(* Only the pages without a guard refresh after a write, only the          *)
(* exceptions are reviewed, and an attempt that took effect did the write. *)
CallsInStep ==
  \A i \in Calls :
    /\ call[i].q # NoQuery => page \notin Guarded
    /\ call[i].op = "review" => page = "exceptions"
    /\ call[i].here => call[i].done

RowsCurrent == page \in Guarded /\ ~loading /\ rows # NoRows => rows.of = query \/ failed
FindingsCurrent == page = "violations" /\ detail # None => detail = selected.id

ListInv == ListTypes /\ ListInStep /\ RowsCurrent
PanelInv == PanelTypes /\ PanelInStep /\ FindingsCurrent
CallInv == CallTypes /\ CallsInStep /\ ToldIsDone
IndInv == ListInv /\ PanelInv /\ CallInv

(* A step that leaves one of the three parts alone keeps its invariant. *)
LEMMA ListKept == ASSUME ListInv, UNCHANGED <<page, list>> PROVE ListInv'
  BY DEF ListInv, list, ListTypes, ListInStep, RowsCurrent, Queries

(* The same of the panel. *)
LEMMA PanelKept == ASSUME PanelInv, UNCHANGED <<page, panel>> PROVE PanelInv'
  BY DEF PanelInv, panel, PanelTypes, PanelInStep, FindingsCurrent

(* The same of the writes. *)
LEMMA CallsKept == ASSUME CallInv, UNCHANGED <<page, call, told, busy>> PROVE CallInv'
  BY DEF CallInv, CallTypes, CallsInStep, ToldIsDone, CallRecords, Queries

(* What stands for nothing has its type. *)
LEMMA Nothings ==
  /\ NoQuery \in Queries /\ NoRows \in [of : Queries, pages : 0 .. MaxPages]
  /\ NoFetch \in [q : Queries, live : BOOLEAN] /\ ~NoFetch.live
  /\ NoLook \in [id : Ids \cup {None}, live : BOOLEAN] /\ ~NoLook.live
  /\ NoDetail \in [id : Ids \cup {None}, pending : BOOLEAN] /\ NoDetail.id = None
  /\ NoCall \in CallRecords /\ NoCall.q = NoQuery /\ NoCall.op # "review" /\ ~NoCall.here
  <1>1. NoQuery \in Queries
    BY ConsoleAssumption DEF NoQuery, Queries
  <1>2. NoCall \in CallRecords /\ NoCall.q = NoQuery /\ NoCall.op # "review" /\ ~NoCall.here
    BY <1>1, ConsoleAssumption DEF NoCall, CallRecords, None
  <1> QED
    BY <1>1, <1>2, ConsoleAssumption DEF NoRows, NoFetch, NoLook, NoDetail

(* The initial state satisfies the inductive invariant. *)
LEMMA ConsoleInit == Init => IndInv
  <1> SUFFICES ASSUME Init PROVE IndInv
    OBVIOUS
  <1>1. query \in Queries /\ page \in Pages
    BY ConsoleAssumption DEF Init, Queries, All, None
  <1>2. loading \in BOOLEAN /\ failed \in BOOLEAN /\ detailLoading \in BOOLEAN
    BY Zenon DEF Init
  <1>3. fetch \in [Slots -> [q : Queries, live : BOOLEAN]]
    BY <1>1, Nothings DEF Init
  <1>4. ListTypes
    BY <1>1, <1>2, <1>3, Nothings DEF Init, ListTypes
  <1>5. ListInStep /\ RowsCurrent
    BY Nothings DEF Init, ListInStep, RowsCurrent
  <1>6. PanelInv
    BY <1>2, Nothings DEF Init, PanelInv, PanelTypes, PanelInStep, FindingsCurrent
  <1>7. CallInv
    <2>1. busy = {} /\ told = {} /\ call = [i \in Calls |-> NoCall]
      BY DEF Init
    <2>2. CallTypes
      BY <2>1, Nothings DEF CallTypes, CallRecords
    <2>3. CallsInStep
      BY <2>1, Nothings DEF CallsInStep
    <2> QED
      BY <2>1, <2>2, <2>3 DEF CallInv, ToldIsDone
  <1> QED
    BY <1>4, <1>5, <1>6, <1>7 DEF IndInv, ListInv

(* A new fetch: on a guarded page it is for the new query, and the others  *)
(* are no longer heard.                                                    *)
LEMMA RefetchKeeps ==
  ASSUME ListInv, NEW q \in Queries, Refetch(q), page \in Guarded => query' = q,
         query' \in Queries, edits' \in Nat, UNCHANGED <<page, rows, failed>>
  PROVE  ListInv'
  <1>1. ListTypes
    BY DEF ListInv
  <1>2. PICK i \in Slots :
          /\ fetch' = [j \in Slots |-> IF j = i THEN [q |-> q, live |-> TRUE]
                                       ELSE [fetch[j] EXCEPT !.live = fetch[j].live /\ page \notin Guarded]]
          /\ loading' = TRUE
    BY <1>1 DEF Refetch, Free, ListTypes
  <1>3. ASSUME NEW j \in Slots PROVE fetch'[j] \in [q : Queries, live : BOOLEAN]
    <2>1. fetch[j] \in [q : Queries, live : BOOLEAN]
      BY <1>1 DEF ListTypes
    <2>2. (fetch[j].live /\ page \notin Guarded) \in BOOLEAN
      BY Zenon
    <2>3. [fetch[j] EXCEPT !.live = fetch[j].live /\ page \notin Guarded] \in [q : Queries, live : BOOLEAN]
      BY <2>1, <2>2
    <2> QED
      BY <1>2, <2>3
  <1>4. fetch' \in [Slots -> [q : Queries, live : BOOLEAN]]
    BY <1>2, <1>3
  <1>5. ListTypes'
    BY <1>1, <1>2, <1>4 DEF ListTypes, Queries
  <1>6. ListInStep'
    <2> SUFFICES ASSUME page \in Guarded, NEW j \in Slots, fetch'[j].live PROVE fetch'[j].q = query'
      BY DEF ListInStep
    <2>1. fetch[j] \in [q : Queries, live : BOOLEAN]
      BY <1>1 DEF ListTypes
    <2>2. j = i
      BY <1>2, <2>1
    <2> QED
      BY <1>2, <2>2
  <1>7. RowsCurrent'
    BY <1>2 DEF RowsCurrent
  <1> QED
    BY <1>5, <1>6, <1>7 DEF ListInv

(* A fetch is answered, or fails. *)
LEMMA SettleKeeps ==
  ASSUME ListInv, NEW i \in Slots, NEW answer, NEW error \in BOOLEAN, Settle(i, answer, error),
         answer \in [of : Queries, pages : 0 .. MaxPages], error \/ answer.of = fetch[i].q
  PROVE  ListInv'
  <1>1. ListTypes /\ ListInStep /\ RowsCurrent
    BY DEF ListInv
  <1>2. fetch' = [fetch EXCEPT ![i] = NoFetch] /\ UNCHANGED <<page, query, edits>>
    BY DEF Settle
  <1>3. ListInStep'
    BY <1>1, <1>2, Nothings DEF ListTypes, ListInStep
  <1>4. CASE Heard(i)
    <2>1. rows' = answer /\ loading' = FALSE /\ failed' = error
      BY <1>4 DEF Settle
    <2>2. ListTypes'
      <3>1. loading' \in BOOLEAN
        BY <2>1, Zenon
      <3> QED
        BY <1>1, <1>2, <2>1, <3>1, Nothings DEF ListTypes, Queries
    <2>3. RowsCurrent'
      BY <1>1, <1>2, <1>4, <2>1 DEF RowsCurrent, Heard, ListInStep
    <2> QED
      BY <1>3, <2>2, <2>3 DEF ListInv
  <1>5. CASE ~Heard(i)
    <2>1. UNCHANGED <<rows, loading, failed>>
      BY <1>5 DEF Settle
    <2>2. ListTypes'
      BY <1>1, <1>2, <2>1, Nothings DEF ListTypes, Queries
    <2> QED
      BY <1>1, <1>2, <1>3, <2>1, <2>2 DEF ListInv, RowsCurrent
  <1> QED
    BY <1>4, <1>5

(* What a button says of the page it is on. *)
LEMMA ControlsOfPages ==
  ASSUME page \in Pages
  PROVE  /\ "submit" \in View => page = "exceptions"
         /\ "invite" \in View => page = "users"
         /\ page = "violations" /\ "row" \in View => selected = NoDetail
  <1> USE DEF When, ListView
  <1>1. "submit" \in View => page = "exceptions"
    BY DEF Pages, Guarded, View, DevicesView, PoliciesView, ViolationsView, AuditView, UsersView, OrgView, DeviceView
  <1>2. "invite" \in View => page = "users"
    BY DEF Pages, Guarded, View, DevicesView, PoliciesView, ViolationsView, ExceptionsView, AuditView, OrgView, DeviceView
  <1>3. page = "violations" /\ "row" \in View => selected = NoDetail
    BY DEF View, ViolationsView
  <1> QED
    BY <1>1, <1>2, <1>3

(* The steps of the list alone. *)
LEMMA ListSteps ==
  ASSUME ListInv
  PROVE  /\ \A f \in Filters : ChangeFilter(f) => ListInv'
         /\ \A n \in 1 .. MaxPages : GoTo(n) => ListInv'
         /\ \A f \in Filters \cup {None} : Type(f) => ListInv'
         /\ FireSearch => ListInv'
         /\ Navigate => ListInv'
         /\ \A i \in Slots : ListAnswer(i) \/ ListFails(i) => ListInv'
  <1>1. ListTypes
    BY DEF ListInv
  <1>2. ASSUME NEW f \in Filters, ChangeFilter(f) PROVE ListInv'
    <2>1. query' \in Queries /\ edits' \in Nat /\ Refetch(query') /\ UNCHANGED <<page, rows, failed>>
      BY <1>1, <1>2, ConsoleAssumption DEF ChangeFilter, ListTypes, Queries
    <2> QED
      BY <2>1, RefetchKeeps
  <1>3. ASSUME NEW n \in 1 .. MaxPages, GoTo(n) PROVE ListInv'
    <2>1. query' \in Queries /\ edits' \in Nat /\ Refetch(query') /\ UNCHANGED <<page, rows, failed>>
      BY <1>1, <1>3, ConsoleAssumption DEF GoTo, ListTypes, Queries
    <2> QED
      BY <2>1, RefetchKeeps
  <1>4. ASSUME NEW f \in Filters \cup {None}, Type(f) PROVE ListInv'
    <2>1. page = "search" /\ page' = page /\ fetch' = fetch /\ failed' = failed
      BY <1>4 DEF Type
    <2>2. query' \in Queries /\ edits' \in Nat
      BY <1>1, <1>4, ConsoleAssumption DEF Type, ListTypes, Queries
    <2>3. loading' \in BOOLEAN
      BY <1>4, Zenon DEF Type
    <2>4. rows' \in [of : Queries, pages : 0 .. MaxPages]
      BY <1>1, <1>4, Nothings DEF Type, ListTypes
    <2>5. ListTypes'
      BY <1>1, <2>1, <2>2, <2>3, <2>4 DEF ListTypes, Queries
    <2> QED
      BY <2>1, <2>5 DEF ListInv, ListInStep, RowsCurrent, Guarded
  <1>5. ASSUME FireSearch PROVE ListInv'
    <2>1. query \in Queries /\ query' = query /\ edits' \in Nat /\ Refetch(query) /\ UNCHANGED <<page, rows, failed>>
      BY <1>1, <1>5 DEF FireSearch, ListTypes
    <2>2. query' \in Queries
      BY <2>1
    <2> QED
      BY <2>1, <2>2, RefetchKeeps
  <1>6. ASSUME Navigate PROVE ListInv'
    <2>1. page = "search" /\ UNCHANGED <<page, edits, loading, fetch, failed>>
      BY <1>6 DEF Navigate
    <2>2. query' \in Queries /\ rows' = NoRows
      BY <1>6, ConsoleAssumption DEF Navigate, Queries
    <2>3. ListTypes'
      BY <1>1, <2>1, <2>2, Nothings DEF ListTypes, Queries
    <2> QED
      BY <2>1, <2>3 DEF ListInv, ListInStep, RowsCurrent, Guarded
  <1>7. ASSUME NEW i \in Slots, ListAnswer(i) PROVE ListInv'
    <2>1. PICK m \in 0 .. MaxPages : Settle(i, [of |-> fetch[i].q, pages |-> m], FALSE)
      BY <1>7 DEF ListAnswer
    <2>2. [of |-> fetch[i].q, pages |-> m] \in [of : Queries, pages : 0 .. MaxPages]
      BY <1>1 DEF ListTypes
    <2>3. [of |-> fetch[i].q, pages |-> m].of = fetch[i].q
      OBVIOUS
    <2> QED
      BY <2>1, <2>2, <2>3, SettleKeeps
  <1>8. ASSUME NEW i \in Slots, ListFails(i) PROVE ListInv'
    <2>1. Settle(i, rows, TRUE) /\ rows \in [of : Queries, pages : 0 .. MaxPages]
      BY <1>1, <1>8 DEF ListFails, ListTypes
    <2> QED
      BY <2>1, SettleKeeps
  <1> QED
    BY <1>2, <1>3, <1>4, <1>5, <1>6, <1>7, <1>8

(* The steps of the detail panel. *)
LEMMA PanelSteps ==
  ASSUME page \in Pages, PanelInv
  PROVE  /\ \A x \in Ids : OpenViolation(x) \/ ViewDetail(x) => PanelInv'
         /\ CloseViolation => PanelInv'
         /\ \A i \in Slots : DetailAnswer(i) \/ DetailFails(i) => PanelInv'
  <1>1. PanelTypes /\ PanelInStep /\ FindingsCurrent
    BY DEF PanelInv
  <1>2. ASSUME NEW x \in Ids, OpenViolation(x) PROVE PanelInv'
    <2>1. page = "violations" /\ selected = NoDetail /\ selected' = [id |-> x, pending |-> FALSE]
          /\ missed' = FALSE /\ UNCHANGED <<page, detail, detailLoading>>
      BY <1>2, ControlsOfPages DEF OpenViolation
    <2>2. detail = None
      BY <1>1, <2>1, Nothings DEF FindingsCurrent
    <2>3. PICK i \in Slots : look' = [look EXCEPT ![i] = [id |-> x, live |-> TRUE]]
      BY <1>1, <1>2 DEF OpenViolation, Look, Free, PanelTypes
    <2>4. PanelTypes'
      BY <1>1, <2>1, <2>3 DEF PanelTypes
    <2>5. selected'.id = x /\ selected' # NoDetail
      BY <2>1, ConsoleAssumption, Nothings DEF None
    <2>6. \A j \in Slots : j # i => ~look[j].live
      BY <1>1, <2>1 DEF PanelInStep
    <2>7. PanelInStep'
      BY <1>1, <2>3, <2>5, <2>6 DEF PanelInStep, PanelTypes
    <2> QED
      BY <2>1, <2>2, <2>4, <2>7 DEF PanelInv, FindingsCurrent
  <1>3. ASSUME NEW x \in Ids, ViewDetail(x) PROVE PanelInv'
    <2>1. page # "violations" /\ detailLoading' = TRUE /\ UNCHANGED <<page, selected, detail, missed>>
      BY <1>3 DEF ViewDetail
    <2>2. PICK i \in Slots : look' = [look EXCEPT ![i] = [id |-> x, live |-> TRUE]]
      BY <1>1, <1>3 DEF ViewDetail, Look, Free, PanelTypes
    <2>3. PanelTypes'
      BY <1>1, <2>1, <2>2 DEF PanelTypes
    <2> QED
      BY <2>1, <2>3 DEF PanelInv, PanelInStep, FindingsCurrent
  <1>4. ASSUME CloseViolation PROVE PanelInv'
    <2>1. selected' = NoDetail /\ detail' = None /\ look' = [i \in Slots |-> [look[i] EXCEPT !.live = FALSE]]
          /\ missed' = FALSE /\ UNCHANGED <<page, detailLoading>>
      BY <1>4 DEF CloseViolation
    <2>2. PanelTypes'
      BY <1>1, <2>1, Nothings DEF PanelTypes
    <2>3. PanelInStep'
      BY <1>1, <2>1 DEF PanelInStep, PanelTypes
    <2> QED
      BY <2>1, <2>2, <2>3 DEF PanelInv, FindingsCurrent
  <1>5. ASSUME NEW i \in Slots, DetailAnswer(i) \/ DetailFails(i) PROVE PanelInv'
    <2>1. look' = [look EXCEPT ![i] = NoLook] /\ page' = page /\ missed' \in BOOLEAN
      <3>1. missed \in BOOLEAN /\ (missed \/ (page = "violations" /\ look[i].live)) \in BOOLEAN
        BY <1>1, Zenon DEF PanelTypes
      <3>2. look' = [look EXCEPT ![i] = NoLook] /\ page' = page
        BY <1>5 DEF DetailAnswer, DetailFails
      <3>3. missed' = missed \/ missed' = (missed \/ (page = "violations" /\ look[i].live))
        BY <1>5, Zenon DEF DetailAnswer, DetailFails
      <3> QED
        BY <3>1, <3>2, <3>3
    <2>2. look' \in [Slots -> [id : Ids \cup {None}, live : BOOLEAN]] /\ \A j \in Slots : look'[j].live => look[j].live /\ look'[j] = look[j]
      BY <1>1, <2>1, Nothings DEF PanelTypes
    <2>3. CASE DetailAnswer(i) /\ page = "violations"
      <3>1. detail' = (IF look[i].live THEN look[i].id ELSE detail) /\ UNCHANGED <<selected, detailLoading>>
        BY <2>3 DEF DetailAnswer
      <3>2. PanelTypes'
        BY <1>1, <2>1, <2>2, <3>1 DEF PanelTypes
      <3> QED
        BY <1>1, <2>1, <2>2, <3>1, <3>2 DEF PanelInv, PanelInStep, FindingsCurrent
    <2>4. CASE DetailAnswer(i) /\ page # "violations"
      <3>1. selected' \in [id : {look[i].id}, pending : BOOLEAN] /\ detailLoading' = FALSE /\ detail' = detail
        BY <2>4 DEF DetailAnswer
      <3>2. PanelTypes'
        BY <1>1, <2>1, <2>2, <3>1 DEF PanelTypes
      <3> QED
        BY <2>1, <2>4, <3>2 DEF PanelInv, PanelInStep, FindingsCurrent
    <2>5. CASE DetailFails(i)
      <3>1. detail' \in {None, detail} /\ detailLoading' = FALSE /\ selected' = selected
        BY <2>5 DEF DetailFails
      <3>2. PanelTypes'
        BY <1>1, <2>1, <2>2, <3>1 DEF PanelTypes
      <3> QED
        BY <1>1, <2>1, <2>2, <3>1, <3>2 DEF PanelInv, PanelInStep, FindingsCurrent
    <2> QED
      BY <1>5, <2>3, <2>4, <2>5
  <1> QED
    BY <1>2, <1>3, <1>4, <1>5

(* A handler sends a write. *)
LEMMA WriteKeeps ==
  ASSUME CallInv, NEW op \in {"review", "create", "deactivate", "disable", "invite", "save"},
         NEW x \in Ids \cup {None}, NEW q \in Queries, Write(op, x, q), UNCHANGED <<page, told>>,
         q # NoQuery => page \notin Guarded, op = "review" => page = "exceptions"
  PROVE  CallInv'
  <1>1. CallTypes /\ CallsInStep /\ ToldIsDone
    BY DEF CallInv
  <1> DEFINE new == [NoCall EXCEPT !.op = op, !.id = x, !.q = q, !.attempt = 1]
  <1>2. new \in CallRecords /\ new.op = op /\ new.q = q /\ ~new.here
    <2>1. 1 \in 0 .. Attempts
      BY ConsoleAssumption
    <2>2. op \in {None, "review", "create", "deactivate", "disable", "invite", "save"}
      OBVIOUS
    <2> QED
      BY <2>1, <2>2, Nothings DEF CallRecords
  <1>3. PICK i \in Calls : call' = [call EXCEPT ![i] = new]
    BY <1>1 DEF Write, Free, CallTypes
  <1>4. busy' = busy \cup Flag(op)
    BY DEF Write
  <1> HIDE DEF new
  <1>5. CallTypes'
    BY <1>1, <1>2, <1>3, <1>4 DEF CallTypes, CallRecords, Flag, Queries
  <1>6. CallsInStep'
    BY <1>1, <1>2, <1>3 DEF CallsInStep, CallTypes
  <1> QED
    BY <1>1, <1>5, <1>6 DEF CallInv, ToldIsDone

(* The backend applies a write, or an attempt of it is lost. *)
LEMMA AttemptsKeep ==
  ASSUME CallInv, NEW i \in Calls, Apply(i) \/ ApplyLate(i) \/ Retry(i)
  PROVE  CallInv'
  <1>1. CallTypes /\ CallsInStep /\ ToldIsDone
    BY DEF CallInv
  <1>2. UNCHANGED <<page, busy, told>>
    BY DEF Apply, ApplyLate, Retry, forms
  <1>3. call[i] \in CallRecords
    BY <1>1 DEF CallTypes
  <1>4. PICK new \in CallRecords :
          /\ call' = [call EXCEPT ![i] = new]
          /\ new.op = call[i].op /\ new.q = call[i].q /\ (new.here => new.done)
    <2>1. CASE Apply(i)
      <3>1. call' = [call EXCEPT ![i] = [call[i] EXCEPT !.here = TRUE, !.done = TRUE]]
        BY <1>1, <2>1 DEF Apply, CallTypes, CallRecords
      <3>2. [call[i] EXCEPT !.here = TRUE, !.done = TRUE] \in CallRecords
        BY <1>3 DEF CallRecords
      <3> QED
        BY <1>3, <3>1, <3>2 DEF CallRecords
    <2>2. CASE Retry(i)
      <3>1. call' = [call EXCEPT ![i] = [call[i] EXCEPT !.attempt = call[i].attempt + 1, !.here = FALSE]]
        BY <1>1, <2>2 DEF Retry, CallTypes, CallRecords
      <3> DEFINE n == call[i].attempt + 1
      <3>2. n \in 0 .. Attempts
        BY <1>3, <2>2, ConsoleAssumption DEF CallRecords, Retry
      <3>3. ASSUME NEW m \in 0 .. Attempts
            PROVE  [call[i] EXCEPT !.attempt = m, !.here = FALSE] \in CallRecords
        BY <1>3 DEF CallRecords
      <3>4. [call[i] EXCEPT !.attempt = n, !.here = FALSE] \in CallRecords
        BY <3>2, <3>3
      <3> QED
        BY <1>3, <3>1, <3>4 DEF CallRecords
    <2>3. CASE ApplyLate(i)
      <3>1. call' = [call EXCEPT ![i] = [call[i] EXCEPT !.done = TRUE]]
        BY <1>1, <2>3 DEF ApplyLate, CallTypes, CallRecords
      <3>2. [call[i] EXCEPT !.done = TRUE] \in CallRecords
        BY <1>3 DEF CallRecords
      <3> QED
        BY <1>3, <3>1, <3>2 DEF CallRecords
    <2> QED
      BY <2>1, <2>2, <2>3
  <1>5. CallTypes'
    BY <1>1, <1>2, <1>4 DEF CallTypes, CallRecords, Queries
  <1>6. CallsInStep'
    BY <1>1, <1>2, <1>4 DEF CallsInStep, CallTypes
  <1> QED
    BY <1>1, <1>2, <1>5, <1>6 DEF CallInv, ToldIsDone

(* The page hears of a write: if it is told of a success there was one. *)
LEMMA FinishKeeps ==
  ASSUME IndInv, NEW i \in Calls, NEW ok \in BOOLEAN, Finish(i, ok), ok => call[i].here
  PROVE  IndInv'
  <1>1. CallTypes /\ CallsInStep /\ ToldIsDone /\ ListInv /\ PanelInv
    BY DEF IndInv, CallInv
  <1>2. call[i] \in CallRecords
    BY <1>1 DEF CallTypes
  <1>3. /\ UNCHANGED <<page, query, edits, rows, failed, detail, detailLoading, look, missed>>
        /\ call' = [call EXCEPT ![i] = NoCall] /\ busy' = busy \ Flag(call[i].op)
        /\ told' = IF ok THEN told \cup {call[i].done} ELSE told
    BY DEF Finish, Freed
  <1>4. ListInv'
    <2>1. CASE ok /\ call[i].q # NoQuery
      <3>1. Refetch(call[i].q)
        BY <2>1 DEF Finish
      <3>2. page \notin Guarded /\ call[i].q \in Queries
        BY <1>1, <1>2, <2>1 DEF CallsInStep, CallRecords
      <3>3. query' \in Queries /\ edits' \in Nat
        BY <1>1, <1>3 DEF ListInv, ListTypes
      <3> QED
        BY <1>1, <1>3, <3>1, <3>2, <3>3, RefetchKeeps
    <2>2. CASE ~(ok /\ call[i].q # NoQuery)
      <3>1. UNCHANGED <<fetch, loading>>
        BY <2>2 DEF Finish
      <3> QED
        BY <1>1, <1>3, <3>1, ListKept DEF list
    <2> QED
      BY <2>1, <2>2
  <1>5. PanelInv'
    <2>1. CASE ok /\ call[i].op = "review"
      <3>1. selected' \in [id : {call[i].id}, pending : BOOLEAN]
        BY <2>1 DEF Finish
      <3>2. page = "exceptions"
        BY <1>1, <2>1 DEF CallsInStep
      <3>3. PanelTypes'
        BY <1>1, <1>2, <1>3, <3>1 DEF PanelInv, PanelTypes, CallRecords
      <3> QED
        BY <1>3, <3>2, <3>3 DEF PanelInv, PanelInStep, FindingsCurrent
    <2>2. CASE ~(ok /\ call[i].op = "review")
      <3>1. selected' = selected
        BY <2>2 DEF Finish
      <3> QED
        BY <1>1, <1>3, <3>1, PanelKept DEF panel
    <2> QED
      BY <2>1, <2>2
  <1>6. CallInv'
    <2>1. call' \in [Calls -> CallRecords]
      BY <1>1, <1>3, Nothings DEF CallTypes
    <2>2. ok => call[i].done = TRUE
      BY <1>1, <1>2 DEF CallsInStep, CallRecords
    <2>3. told' \subseteq BOOLEAN /\ FALSE \notin told'
      BY <1>1, <1>3, <2>2 DEF CallTypes, ToldIsDone
    <2>4. CallTypes'
      BY <1>1, <1>3, <2>1, <2>3 DEF CallTypes, CallRecords, Queries
    <2>5. CallsInStep'
      BY <1>1, <1>3, Nothings DEF CallsInStep, CallTypes
    <2> QED
      BY <2>3, <2>4, <2>5 DEF CallInv, ToldIsDone
  <1> QED
    BY <1>4, <1>5, <1>6 DEF IndInv

(* Every step keeps the inductive invariant. *)
LEMMA ConsoleStep == IndInv /\ [Next]_vars => IndInv'
  <1> SUFFICES ASSUME IndInv, [Next]_vars PROVE IndInv'
    OBVIOUS
  <1>1. ListInv /\ PanelInv /\ CallInv /\ page \in Pages /\ query \in Queries
    BY DEF IndInv, ListInv, ListTypes
  <1>2. ASSUME UNCHANGED <<page, panel, busy, call, told>>, ListInv' PROVE IndInv'
    BY <1>1, <1>2, PanelKept, CallsKept DEF IndInv
  <1>3. ASSUME UNCHANGED <<page, list, busy, call, told>>, PanelInv' PROVE IndInv'
    BY <1>1, <1>3, ListKept, CallsKept DEF IndInv
  <1>4. ASSUME UNCHANGED <<page, list, panel>>, CallInv' PROVE IndInv'
    BY <1>1, <1>4, ListKept, PanelKept DEF IndInv
  <1>5. ASSUME NEW f \in Filters, ChangeFilter(f) PROVE IndInv'
    BY <1>1, <1>2, <1>5, ListSteps DEF ChangeFilter, forms
  <1>6. ASSUME NEW n \in 1 .. MaxPages, GoTo(n) PROVE IndInv'
    <2>1. UNCHANGED <<page, panel, forms, call, told>>
      BY <1>6 DEF GoTo
    <2> QED
      BY <1>1, <1>2, <1>6, <2>1, ListSteps DEF forms
  <1>7. ASSUME NEW x \in Ids, OpenViolation(x) \/ ViewDetail(x) PROVE IndInv'
    BY <1>1, <1>3, <1>7, PanelSteps DEF OpenViolation, ViewDetail, forms
  <1>8. ASSUME CloseViolation PROVE IndInv'
    BY <1>1, <1>3, <1>8, PanelSteps DEF CloseViolation, forms
  <1>9. ASSUME NEW i \in Slots, DetailAnswer(i) \/ DetailFails(i) PROVE IndInv'
    BY <1>1, <1>3, <1>9, PanelSteps DEF DetailAnswer, DetailFails, forms
  <1>10. ASSUME NEW i \in Slots, ListAnswer(i) \/ ListFails(i) PROVE IndInv'
    BY <1>1, <1>2, <1>10, ListSteps DEF ListAnswer, ListFails, Settle
  <1>11. ASSUME NEW x \in Ids, Deactivate(x) PROVE IndInv'
    <2>1. CallInv'
      BY <1>1, <1>11, WriteKeeps, Nothings DEF Deactivate, Unmoved
    <2> QED
      BY <1>4, <1>11, <2>1 DEF Deactivate, Unmoved
  <1>12. ASSUME NEW x \in Ids, DisableUser(x) PROVE IndInv'
    <2>1. [filter |-> All, page |-> 1] \in Queries
      BY ConsoleAssumption DEF Queries, All
    <2>2. CallInv'
      BY <1>1, <1>12, <2>1, WriteKeeps DEF DisableUser, Unmoved, Guarded
    <2> QED
      BY <1>4, <1>12, <2>2 DEF DisableUser, Unmoved
  <1>13. ASSUME SubmitReview \/ SubmitCreate PROVE IndInv'
    <2>1. page = "exceptions" /\ page \notin Guarded
      BY <1>1, <1>13, ControlsOfPages DEF SubmitReview, SubmitCreate, Guarded
    <2>2. selected.id \in Ids \cup {None}
      BY <1>1 DEF PanelInv, PanelTypes
    <2>3. CallInv'
      BY <1>1, <1>13, <2>1, <2>2, WriteKeeps DEF SubmitReview, SubmitCreate, Unmoved
    <2> QED
      BY <1>4, <1>13, <2>3 DEF SubmitReview, SubmitCreate, Unmoved
  <1>14. ASSUME Invite \/ Save PROVE IndInv'
    <2>1. Invite => page \notin Guarded
      BY <1>1, ControlsOfPages DEF Invite, Guarded
    <2>2. CallInv'
      BY <1>1, <1>14, <2>1, WriteKeeps, Nothings DEF Invite, Save, Unmoved
    <2> QED
      BY <1>4, <1>14, <2>2 DEF Invite, Save, Unmoved
  <1>15. ASSUME NEW d, OpenDialog(d) PROVE IndInv'
    BY <1>1, <1>4, <1>15, CallsKept DEF OpenDialog, Unmoved
  <1>16. ASSUME CancelDialog \/ EditDraft \/ ResetDraft PROVE IndInv'
    BY <1>1, <1>4, <1>16, CallsKept DEF CancelDialog, EditDraft, ResetDraft, Unmoved
  <1>17. ASSUME StartExport \/ Exporting PROVE IndInv'
    <2>1. UNCHANGED <<page, list, panel, call, told>>
      BY <1>17 DEF StartExport, Exporting, ExportPage, ExportFails
    <2>2. busy' \subseteq busy \cup {"export"}
      BY <1>17 DEF StartExport, Exporting, ExportPage, ExportFails
    <2>3. CallInv'
      BY <1>1, <2>1, <2>2 DEF CallInv, CallTypes, CallsInStep, ToldIsDone, CallRecords, Queries
    <2> QED
      BY <1>4, <2>1, <2>3
  <1>18. ASSUME NewEvent \/ OutOfReach \/ ReadBack PROVE IndInv'
    BY <1>1, <1>4, <1>18, CallsKept DEF NewEvent, OutOfReach, ReadBack, forms
  <1>19. ASSUME NEW f \in Filters \cup {None}, Type(f) PROVE IndInv'
    BY <1>1, <1>2, <1>19, ListSteps DEF Type, forms
  <1>20. ASSUME FireSearch \/ Navigate PROVE IndInv'
    BY <1>1, <1>2, <1>20, ListSteps DEF FireSearch, Navigate, forms
  <1>21. ASSUME NEW i \in Calls, Apply(i) \/ ApplyLate(i) \/ Retry(i) PROVE IndInv'
    <2>1. CallInv'
      BY <1>1, <1>21, AttemptsKeep
    <2> QED
      BY <1>4, <1>21, <2>1 DEF Apply, ApplyLate, Retry
  <1>22. ASSUME NEW i \in Calls, Respond(i) \/ GiveUp(i) \/ Refused(i) PROVE IndInv'
    BY <1>22, FinishKeeps DEF Respond, GiveUp, Refused
  <1>23. ASSUME UNCHANGED vars PROVE IndInv'
    BY <1>1, <1>4, <1>23, CallsKept DEF vars, forms
  <1> QED
    BY <1>5, <1>6, <1>7, <1>8, <1>9, <1>10, <1>11, <1>12, <1>13, <1>14, <1>15, <1>16, <1>17, <1>18,
       <1>19, <1>20, <1>21, <1>22, <1>23 DEF Next, User, Listing, Detailing, Calling

(* The inductive invariant holds in every reachable state. *)
LEMMA ConsoleInductive == Spec => []IndInv
  BY ConsoleInit, ConsoleStep, PTL DEF Spec

(* Type correctness of the console's pages. *)
THEOREM ConsoleTypeCorrect == Spec => []TypeOK
  <1>1. IndInv => TypeOK
    BY DEF IndInv, ListInv, PanelInv, CallInv, TypeOK
  <1> QED
    BY <1>1, ConsoleInductive, PTL

(* However many fetches are under way and in whatever order they are       *)
(* answered, a page that guards its fetches shows the rows of the query on *)
(* its screen, and the violation modal the findings of its violation.      *)
THEOREM ShownIsCurrent == Spec => []ShownIsAsked
  <1>1. IndInv => ShownIsAsked
    BY DEF IndInv, ListInv, PanelInv, RowsCurrent, FindingsCurrent, ShownIsAsked
  <1> QED
    BY <1>1, ConsoleInductive, PTL

(* However often backendFetch repeats a write and whatever is lost on the  *)
(* way, no page reports a write as done that the backend did not do.       *)
THEOREM ReportsAreTrue == Spec => []ToldIsDone
  <1>1. IndInv => ToldIsDone
    BY DEF IndInv, CallInv
  <1> QED
    BY <1>1, ConsoleInductive, PTL
-----------------------------------------------------------------------------
(* The export.  While it walks the log it has copied full pages only, so   *)
(* the rows it has are as many as the positions behind it; and an event    *)
(* that it has still to copy lies ahead, as an insertion moves events only *)
(* away from the front - unless a read went back, and events moved up.     *)
ExportTypes ==
  /\ log \in Seq(BOOLEAN)
  /\ export \in [st : {"idle", "walking", "done"}, page : Nat, total : Int, count : Nat,
                 truncated : BOOLEAN, back : BOOLEAN]

WalkInStep ==
  export.st = "walking" =>
    /\ export.page > 0 /\ export.count = (export.page - 1) * PageSize
    /\ export.count < RowCap
    /\ ~export.back => \A k \in 1 .. Len(log) : log[k] => k > export.count

ExportInv == ExportTypes /\ WalkInStep /\ ExportComplete

(* What the log is after every event of it was marked with a truth value.  *)
LEMMA Marked ==
  ASSUME ExportTypes, NEW l, DOMAIN l = DOMAIN log, l = [k \in DOMAIN log |-> l[k]],
         \A k \in DOMAIN log : l[k] \in BOOLEAN
  PROVE  l \in Seq(BOOLEAN) /\ Len(l) = Len(log) /\ DOMAIN l = 1 .. Len(log)
  <1>1. Len(log) \in Nat /\ DOMAIN log = 1 .. Len(log)
    BY LenProperties DEF ExportTypes
  <1>2. l \in [1 .. Len(log) -> BOOLEAN]
    BY <1>1
  <1>3. l \in Seq(BOOLEAN)
    BY <1>1, <1>2
  <1>4. DOMAIN l = 1 .. Len(l) /\ Len(l) \in Nat
    BY <1>3, LenProperties
  <1> QED
    BY <1>1, <1>3, <1>4

(* The rows a page adds: as many as the page holds, the log has left and   *)
(* the cap allows.                                                         *)
LEMMA PageItems ==
  ASSUME NEW from \in Nat, NEW len \in Nat, from <= len, from < RowCap
  PROVE  LET items == {k \in from + 1 .. from + PageSize : k <= len /\ from + k - from <= RowCap}
         IN  /\ Cardinality(items) \in 0 .. PageSize
             /\ items = from + 1 .. from + Cardinality(items)
             /\ from + Cardinality(items) <= len /\ from + Cardinality(items) <= RowCap
             /\ \/ Cardinality(items) = PageSize
                \/ from + Cardinality(items) = len
                \/ from + Cardinality(items) = RowCap
  <1> DEFINE items == {k \in from + 1 .. from + PageSize : k <= len /\ from + k - from <= RowCap}
             Least(m, n) == IF m < n THEN m ELSE n
             last == Least(from + PageSize, Least(len, RowCap))
  <1>1. PageSize \in Nat \ {0} /\ RowCap \in Nat \ {0}
    BY ConsoleAssumption
  <1>2. /\ last \in Nat /\ from <= last /\ last <= from + PageSize /\ last <= len /\ last <= RowCap
        /\ last = from + PageSize \/ last = len \/ last = RowCap
    BY <1>1
  <1>3. items = from + 1 .. last
    <2>1. \A k \in Int : k <= last <=> k <= from + PageSize /\ k <= len /\ k <= RowCap
      BY <1>1
    <2>2. \A k \in Int : from + k - from = k
      OBVIOUS
    <2> HIDE DEF last
    <2>3. ASSUME NEW k \in Int PROVE k \in items <=> k \in from + 1 .. last
      BY <1>1, <1>2, <2>1, <2>2
    <2>4. items \subseteq Int /\ from + 1 .. last \subseteq Int
      BY <1>1, <1>2
    <2> QED
      BY <2>3, <2>4
  <1>4. Cardinality(from + 1 .. last) = last - from
    <2> HIDE DEF last
    <2>1. from + 1 \in Int /\ last \in Int
      BY <1>2
    <2>2. Cardinality(from + 1 .. last) = IF from + 1 > last THEN 0 ELSE last - (from + 1) + 1
      BY <2>1, FS_Interval
    <2> QED
      BY <1>2, <2>2
  <1> HIDE DEF items, last
  <1>5. Cardinality(items) = last - from /\ items = from + 1 .. from + Cardinality(items)
    BY <1>2, <1>3, <1>4
  <1>6. /\ Cardinality(items) \in 0 .. PageSize
        /\ from + Cardinality(items) = last
    BY <1>1, <1>2, <1>5
  <1>7. \/ Cardinality(items) = PageSize
        \/ from + Cardinality(items) = len
        \/ from + Cardinality(items) = RowCap
    BY <1>1, <1>2, <1>5
  <1> QED
    BY <1>2, <1>5, <1>6, <1>7 DEF items

(* An export that ends with nothing left to copy, or says that it does     *)
(* not hold it all.                                                        *)
LEMMA Finished ==
  ASSUME log' \in Seq(BOOLEAN), NEW cut \in BOOLEAN, NEW back \in BOOLEAN,
         export' = [st |-> "done", page |-> 0, total |-> -1, count |-> 0, truncated |-> cut, back |-> back],
         ~back /\ ~cut => \A k \in DOMAIN log' : ~log'[k]
  PROVE  ExportInv'
  <1>1. export'.st = "done" /\ export'.truncated = cut /\ export'.back = back
    OBVIOUS
  <1>2. ExportTypes'
    BY DEF ExportTypes
  <1> QED
    BY <1>1, <1>2 DEF ExportInv, WalkInStep, ExportComplete

(* One turn of the loop: it leaves no event behind it, and when it is the  *)
(* last one and does not say so, none ahead either.                        *)
LEMMA ExportPageKeeps ==
  ASSUME ExportInv, ExportPage, export.count <= Len(log)
  PROVE  ExportInv'
  <1> DEFINE from == export.count
             n == Len(log)
             items == {k \in from + 1 .. from + PageSize : k <= n /\ from + k - from <= RowCap}
             count == from + Cardinality(items)
             more == items # {} /\ count < n /\ count < RowCap
  <1>1. /\ ExportTypes /\ export.page \in Nat \ {0} /\ from = (export.page - 1) * PageSize
        /\ from \in Nat /\ n \in Nat /\ from < RowCap /\ from <= n
        /\ ~export.back => \A k \in 1 .. n : log[k] => k > from
    BY LenProperties DEF ExportInv, ExportTypes, WalkInStep, ExportPage
  <1>2. /\ PageSize \in Nat \ {0} /\ RowCap \in Nat \ {0}
    BY ConsoleAssumption
  <1>3. /\ log' = [k \in DOMAIN log |-> log[k] /\ k \notin items]
        /\ export' = IF more THEN [export EXCEPT !.page = @ + 1, !.count = count, !.total = n]
                     ELSE [NoExport EXCEPT !.st = "done", !.back = export.back,
                                      !.truncated = count >= RowCap /\ n > count]
        /\ export.st = "walking"
    BY <1>1 DEF ExportPage, Total
  <1>4. /\ Cardinality(items) \in 0 .. PageSize /\ items = from + 1 .. count
        /\ count <= n /\ count <= RowCap
        /\ Cardinality(items) = PageSize \/ count = n \/ count = RowCap
    BY <1>1, PageItems
  <1> HIDE DEF items, n, from
  <1>5. /\ count \in Nat /\ from <= count /\ (items = {} => count = from)
        /\ count = from + PageSize \/ count = n \/ count = RowCap
    <2> DEFINE c == Cardinality(items)
    <2>1. c \in Nat /\ (c = PageSize \/ count = n \/ count = RowCap)
      BY <1>2, <1>4
    <2>2. count = from + c
      OBVIOUS
    <2>3. items = {} => c = 0
      BY FS_EmptySet
    <2> HIDE DEF c, count
    <2> QED
      BY <1>1, <2>1, <2>2, <2>3
  <1> HIDE DEF count
  <1>6. DOMAIN log = 1 .. n /\ n \in Nat
    BY <1>1, LenProperties DEF ExportTypes, n
  <1>7. log' \in Seq(BOOLEAN) /\ Len(log') = n /\ DOMAIN log' = 1 .. n
    <2>1. \A k \in DOMAIN log : log'[k] \in BOOLEAN
      BY <1>3, Zenon
    <2> QED
      BY <1>1, <1>3, <1>6, <2>1, Marked DEF n
  <1>8. ASSUME ~export.back, NEW k \in 1 .. n, log'[k] PROVE k > count
    <2>1. log[k] /\ k \notin items
      BY <1>3, <1>6, <1>8, Zenon
    <2>2. k > from /\ k \notin from + 1 .. count
      BY <1>1, <1>4, <1>8, <2>1
    <2> QED
      BY <1>1, <1>5, <2>2
  <1>9. CASE more
    <2>1. export' = [export EXCEPT !.page = export.page + 1, !.count = count, !.total = n]
      BY <1>3, <1>9
    <2>2. count = from + PageSize
      BY <1>1, <1>5, <1>9
    <2>3. (export.page + 1 - 1) * PageSize = count
      BY <1>1, <1>2, <2>2
    <2>4. /\ export'.st = "walking" /\ export'.page = export.page + 1 /\ export'.count = count
          /\ export'.back = export.back
      BY <1>1, <1>3, <2>1 DEF ExportTypes
    <2>5. ExportTypes'
      <3>1. export.page + 1 \in Nat /\ n \in Int /\ count \in Nat
        BY <1>1, <1>6, <1>5
      <3> QED
        BY <1>1, <1>7, <2>1, <3>1 DEF ExportTypes
    <2>6. WalkInStep'
      BY <1>1, <1>7, <1>8, <1>9, <2>2, <2>3, <2>4 DEF WalkInStep
    <2> QED
      BY <2>4, <2>5, <2>6 DEF ExportInv, ExportComplete
  <1>10. CASE ~more
    <2> DEFINE cut == count >= RowCap /\ n > count
    <2>1. cut \in BOOLEAN /\ export.back \in BOOLEAN
      <3>1. cut \in BOOLEAN
        BY Zenon
      <3> QED
        BY <1>1, <3>1 DEF ExportTypes
    <2>2. export' = [NoExport EXCEPT !.st = "done", !.back = export.back, !.truncated = cut]
      BY <1>3, <1>10
    <2>3. ASSUME ~export.back, ~cut, NEW k \in 1 .. n, log'[k] PROVE FALSE
      <3>1. k > count /\ count < n
        BY <1>6, <1>8, <1>5, <2>3
      <3>2. count < RowCap
        BY <1>2, <1>5, <2>3, <3>1
      <3>3. count = from
        BY <1>10, <1>5, <3>1, <3>2
      <3> QED
        BY <1>1, <1>2, <1>5, <3>1, <3>2, <3>3
    <2> HIDE DEF cut
    <2>4. export' = [st |-> "done", page |-> 0, total |-> -1, count |-> 0, truncated |-> cut, back |-> export.back]
      BY <2>2 DEF NoExport
    <2> QED
      BY <1>7, <2>1, <2>3, <2>4, Finished
  <1> QED
    BY <1>9, <1>10

(* A page that starts beyond the last event found is empty and the last.   *)
LEMMA PagePastKeeps ==
  ASSUME ExportInv, ExportPage, ~(export.count <= Len(log))
  PROVE  ExportInv'
  <1> DEFINE from == export.count
             n == Len(log)
             items == {k \in from + 1 .. from + PageSize : k <= n /\ from + k - from <= RowCap}
  <1>1. /\ ExportTypes /\ from = (export.page - 1) * PageSize /\ from \in Nat /\ n \in Nat
        /\ from < RowCap /\ n < from /\ DOMAIN log = 1 .. n /\ export.back \in BOOLEAN
        /\ ~export.back => \A k \in 1 .. n : log[k] => k > from
    BY LenProperties DEF ExportInv, ExportTypes, WalkInStep, ExportPage
  <1>2. /\ PageSize \in Nat /\ RowCap \in Nat
    BY ConsoleAssumption
  <1>3. items = {} /\ Cardinality(items) = 0 /\ from + Cardinality(items) = from
    <2>1. items = {}
      BY <1>1, <1>2
    <2> HIDE DEF items
    <2>2. Cardinality(items) = 0
      BY <2>1, FS_EmptySet, Zenon
    <2>3. from + 0 = from
      BY <1>1
    <2> QED
      BY <2>1, <2>2, <2>3
  <1>4. /\ log' = [k \in DOMAIN log |-> log[k] /\ k \notin items]
        /\ export' = [NoExport EXCEPT !.st = "done", !.back = export.back,
                                  !.truncated = from + Cardinality(items) >= RowCap /\ n > from + Cardinality(items)]
    BY <1>1, <1>3 DEF ExportPage, Total
  <1> DEFINE cut == from >= RowCap /\ n > from
  <1>5. cut \in BOOLEAN
    BY Zenon
  <1> HIDE DEF items
  <1>6. export' = [st |-> "done", page |-> 0, total |-> -1, count |-> 0, truncated |-> cut, back |-> export.back]
    BY <1>3, <1>4 DEF NoExport
  <1>7. log' \in Seq(BOOLEAN) /\ Len(log') = n /\ DOMAIN log' = 1 .. n
    <2>1. \A k \in DOMAIN log : log'[k] \in BOOLEAN
      BY <1>4, Zenon
    <2> QED
      BY <1>1, <1>4, <2>1, Marked
  <1>8. ASSUME ~export.back, NEW k \in 1 .. n, log'[k] PROVE FALSE
    <2>1. log[k]
      BY <1>1, <1>4, <1>8, Zenon
    <2> QED
      BY <1>1, <1>8, <2>1
  <1> HIDE DEF cut
  <1> QED
    BY <1>1, <1>5, <1>6, <1>7, <1>8, Finished

(* An event that is sorted in moves those behind it one place on.          *)
LEMMA Inserted ==
  ASSUME ExportTypes, NEW k \in 0 .. Len(log),
         log' = SubSeq(log, 1, k) \o <<FALSE>> \o SubSeq(log, k + 1, Len(log))
  PROVE  /\ log' \in Seq(BOOLEAN) /\ Len(log') = Len(log) + 1
         /\ \A j \in 1 .. Len(log') : log'[j] =
              IF j <= k THEN log[j] ELSE IF j = k + 1 THEN FALSE ELSE log[j - 1]
  <1> DEFINE n == Len(log)
             before == SubSeq(log, 1, k)
             behind == SubSeq(log, k + 1, n)
             one == <<FALSE>>
             front == before \o one
  <1>1. n \in Nat /\ k \in Nat /\ k <= n /\ \A i \in 1 .. n : log[i] \in BOOLEAN
    BY LenProperties DEF ExportTypes
  <1>2. before \in Seq(BOOLEAN) /\ Len(before) = k /\ \A i \in 1 .. k : before[i] = log[i]
    <2>1. /\ before \in Seq(BOOLEAN) /\ Len(before) = IF 1 <= k THEN k - 1 + 1 ELSE 0
          /\ \A i \in 1 .. k - 1 + 1 : before[i] = log[1 + i - 1]
      <3>1. 1 \in Int /\ k \in Int /\ \A i \in 1 .. k : log[i] \in BOOLEAN
        BY <1>1
      <3> QED
        BY <3>1, SubSeqProperties
    <2> HIDE DEF before
    <2>2. k - 1 + 1 = k /\ \A i \in 1 .. k : 1 + i - 1 = i
      BY <1>1
    <2> QED
      BY <1>1, <2>1, <2>2
  <1>3. behind \in Seq(BOOLEAN) /\ Len(behind) = n - k /\ \A i \in 1 .. n - k : behind[i] = log[k + i]
    <2>1. /\ behind \in Seq(BOOLEAN) /\ Len(behind) = IF k + 1 <= n THEN n - (k + 1) + 1 ELSE 0
          /\ \A i \in 1 .. n - (k + 1) + 1 : behind[i] = log[k + 1 + i - 1]
      <3>1. k + 1 \in Int /\ n \in Int /\ \A i \in k + 1 .. n : log[i] \in BOOLEAN
        BY <1>1
      <3> HIDE DEF n
      <3> QED
        BY <3>1, SubSeqProperties
    <2> HIDE DEF behind, n
    <2>2. n - (k + 1) + 1 = n - k /\ \A i \in 1 .. n - k : k + 1 + i - 1 = k + i
      BY <1>1
    <2> QED
      BY <1>1, <2>1, <2>2
  <1> HIDE DEF before, behind, n
  <1>4. /\ front \in Seq(BOOLEAN) /\ Len(front) = k + 1
        /\ \A i \in 1 .. k + 1 : front[i] = IF i <= k THEN before[i] ELSE one[i - k]
    <2>1. one \in Seq(BOOLEAN) /\ Len(one) = 1
      OBVIOUS
    <2> QED
      BY <1>2, <2>1, ConcatProperties
  <1>5. front[k + 1] = FALSE /\ \A i \in 1 .. k : front[i] = log[i]
    <2>1. one[1] = FALSE
      OBVIOUS
    <2> HIDE DEF one, front
    <2>2. k + 1 \in 1 .. k + 1 /\ ~(k + 1 <= k) /\ \A i \in 1 .. k : i \in 1 .. k + 1 /\ i <= k
      BY <1>1
    <2>3. k + 1 - k = 1
      BY <1>1
    <2>4. ASSUME NEW j \in 1 .. k + 1, ~(j <= k) PROVE front[j] = one[j - k]
      BY <1>4, <2>4, Zenon
    <2>5. \A i \in 1 .. k : front[i] = log[i]
      BY <1>2, <1>4, <2>2, Zenon
    <2> QED
      BY <2>1, <2>2, <2>3, <2>4, <2>5
  <1> HIDE DEF front, one
  <1>6. /\ log' \in Seq(BOOLEAN) /\ Len(log') = n + 1
        /\ \A i \in 1 .. n + 1 : log'[i] = IF i <= k + 1 THEN front[i] ELSE behind[i - (k + 1)]
    <2>1. log' = front \o behind
      BY DEF front, one, before, behind, n
    <2>2. Len(front) + Len(behind) = n + 1
      BY <1>1, <1>3, <1>4
    <2>3. /\ front \o behind \in Seq(BOOLEAN) /\ Len(front \o behind) = Len(front) + Len(behind)
          /\ \A i \in 1 .. Len(front) + Len(behind) : (front \o behind)[i] =
               IF i <= Len(front) THEN front[i] ELSE behind[i - Len(front)]
      BY <1>3, <1>4, ConcatProperties
    <2> QED
      BY <1>4, <2>1, <2>2, <2>3, Zenon
  <1>7. ASSUME NEW j \in 1 .. n + 1
        PROVE  log'[j] = IF j <= k THEN log[j] ELSE IF j = k + 1 THEN FALSE ELSE log[j - 1]
    <2>1. CASE j <= k
      <3>1. j <= k + 1 /\ j \in 1 .. k
        BY <1>1, <2>1
      <3> QED
        BY <1>5, <1>6, <2>1, <3>1, Zenon
    <2>2. CASE j = k + 1
      <3>1. j <= k + 1 /\ ~(j <= k)
        BY <1>1, <2>2
      <3> QED
        BY <1>5, <1>6, <2>2, <3>1, Zenon
    <2>3. CASE j > k + 1
      <3>1. ~(j <= k + 1) /\ ~(j <= k) /\ j # k + 1 /\ j - (k + 1) \in 1 .. n - k /\ k + (j - (k + 1)) = j - 1
        BY <1>1, <2>3
      <3>2. log'[j] = behind[j - (k + 1)]
        BY <1>6, <3>1, Zenon
      <3>3. behind[j - (k + 1)] = log[j - 1]
        BY <1>3, <3>1
      <3> QED
        BY <3>1, <3>2, <3>3, Zenon
    <2>4. j <= k \/ j = k + 1 \/ j > k + 1
      BY <1>1
    <2> QED
      BY <2>1, <2>2, <2>3, <2>4, Zenon
  <1> QED
    BY <1>6, <1>7 DEF n

(* So an event still to be copied stays ahead of the export.               *)
LEMMA NewEventKeeps ==
  ASSUME ExportInv, NewEvent
  PROVE  ExportInv'
  <1> DEFINE n == Len(log)
  <1>1. /\ ExportTypes /\ export.count \in Nat /\ export' = export /\ export.st = "walking"
        /\ export.page > 0 /\ export.count = (export.page - 1) * PageSize
        /\ export.count < RowCap
        /\ ~export.back => \A k \in 1 .. n : log[k] => k > export.count
    BY DEF ExportInv, ExportTypes, WalkInStep, NewEvent, Searching
  <1>2. PICK k \in 0 .. n : log' = SubSeq(log, 1, k) \o <<FALSE>> \o SubSeq(log, k + 1, n)
    BY DEF NewEvent
  <1>3. /\ log' \in Seq(BOOLEAN) /\ Len(log') = n + 1
        /\ \A j \in 1 .. Len(log') : log'[j] =
             IF j <= k THEN log[j] ELSE IF j = k + 1 THEN FALSE ELSE log[j - 1]
    BY <1>1, <1>2, Inserted
  <1>4. n \in Nat
    BY <1>1, LenProperties DEF ExportTypes
  <1> HIDE DEF n
  <1>5. ASSUME ~export.back, NEW j \in 1 .. Len(log'), log'[j] PROVE j > export.count
    <2>1. CASE j <= k
      <3>1. log[j]
        BY <1>3, <1>5, <2>1, Zenon
      <3>2. j \in 1 .. n
        BY <1>3, <1>4, <2>1
      <3> QED
        BY <1>1, <1>5, <3>1, <3>2
    <2>2. CASE ~(j <= k)
      <3>1. j # k + 1 /\ log[j - 1]
        BY <1>3, <1>5, <2>2, Zenon
      <3>2. j - 1 \in 1 .. n
        BY <1>3, <1>4, <2>2, <3>1
      <3>3. j - 1 > export.count
        BY <1>1, <1>5, <3>1, <3>2
      <3> QED
        BY <1>1, <3>2, <3>3
    <2> QED
      BY <2>1, <2>2
  <1>6. ExportTypes'
    BY <1>1, <1>3 DEF ExportTypes
  <1>7. WalkInStep'
    BY <1>1, <1>3, <1>4, <1>5 DEF WalkInStep
  <1> QED
    BY <1>1, <1>6, <1>7 DEF ExportInv, ExportComplete

(* Nor does one that slides out of reach at the far end bring another      *)
(* behind it.                                                              *)
LEMMA OutOfReachKeeps ==
  ASSUME ExportInv, OutOfReach
  PROVE  ExportInv'
  <1>1. ExportTypes /\ export' = export /\ export.st = "walking" /\ Len(log) \in Nat /\ DOMAIN log = 1 .. Len(log)
    BY LenProperties DEF ExportInv, ExportTypes, OutOfReach, Searching
  <1>2. PICK m \in 0 .. Len(log) - 1 : log' = [k \in 1 .. m |-> log[k]]
    BY DEF OutOfReach
  <1>3. m \in Nat /\ \A k \in 1 .. m : k \in 1 .. Len(log) /\ log[k] \in BOOLEAN
    BY <1>1 DEF ExportTypes
  <1>4. log' \in Seq(BOOLEAN) /\ Len(log') = m /\ \A k \in 1 .. m : log'[k] = log[k]
    BY <1>2, <1>3
  <1>5. ExportTypes'
    BY <1>1, <1>4 DEF ExportTypes
  <1>6. WalkInStep'
    BY <1>1, <1>3, <1>4 DEF ExportInv, WalkInStep
  <1> QED
    BY <1>1, <1>5, <1>6 DEF ExportInv, ExportComplete

(* A read that goes back is noted.                                         *)
LEMMA ReadBackKeeps ==
  ASSUME ExportInv, ReadBack
  PROVE  ExportInv'
  <1>1. ExportTypes /\ export' = [export EXCEPT !.back = TRUE] /\ export.st = "walking"
        /\ Len(log) \in Nat /\ \A j \in 1 .. Len(log) : log[j] \in BOOLEAN
    BY LenProperties DEF ExportInv, ExportTypes, ReadBack, Searching
  <1>2. PICK k \in 1 .. Len(log) : log' = [j \in 1 .. Len(log) - 1 |-> IF j < k THEN log[j] ELSE log[j + 1]]
    BY DEF ReadBack
  <1>3. Len(log) - 1 \in Nat /\ \A j \in 1 .. Len(log) - 1 : j \in 1 .. Len(log) /\ j + 1 \in 1 .. Len(log)
    BY <1>1, <1>2
  <1>4. log' \in Seq(BOOLEAN)
    <2>1. \A j \in 1 .. Len(log) - 1 : (IF j < k THEN log[j] ELSE log[j + 1]) \in BOOLEAN
      BY <1>1, <1>3
    <2> QED
      BY <1>2, <1>3, <2>1
  <1>5. ExportTypes' /\ export'.back /\ export'.st = "walking" /\ export'.page = export.page /\ export'.count = export.count
    BY <1>1, <1>4 DEF ExportTypes
  <1> QED
    BY <1>1, <1>5 DEF ExportInv, WalkInStep, ExportComplete

(* The export begins: nothing is behind it yet.  When it fails, nothing is *)
(* left to copy.                                                           *)
LEMMA ExportEndsKeep ==
  ASSUME ExportInv, StartExport \/ ExportFails
  PROVE  ExportInv'
  <1>1. ExportTypes /\ Len(log) \in Nat /\ DOMAIN log = 1 .. Len(log)
    BY LenProperties DEF ExportInv, ExportTypes
  <1>2. RowCap \in Nat \ {0} /\ PageSize \in Nat
    BY ConsoleAssumption
  <1>3. CASE StartExport
    <2>1. log' = [k \in DOMAIN log |-> TRUE]
      BY <1>3 DEF StartExport
    <2>2. log' \in Seq(BOOLEAN) /\ Len(log') = Len(log)
      <3>1. \A k \in DOMAIN log : log'[k] \in BOOLEAN
        BY <2>1, Zenon
      <3> QED
        BY <1>1, <2>1, <3>1, Marked
    <2>3. export' = [st |-> "walking", page |-> 1, total |-> -1, count |-> 0, truncated |-> FALSE, back |-> FALSE]
      BY <1>3 DEF StartExport, NoExport
    <2>4. ExportTypes'
      BY <2>2, <2>3 DEF ExportTypes
    <2>5. WalkInStep'
      <3>1. (1 - 1) * PageSize = 0
        BY <1>2
      <3> QED
        BY <1>1, <1>2, <2>2, <2>3, <3>1 DEF WalkInStep
    <2> QED
      BY <2>3, <2>4, <2>5 DEF ExportInv, ExportComplete
  <1>4. CASE ExportFails
    <2>1. log' = [k \in DOMAIN log |-> FALSE] /\ export' = NoExport
      BY <1>4 DEF ExportFails
    <2>2. log' \in Seq(BOOLEAN)
      <3>1. \A k \in DOMAIN log : log'[k] \in BOOLEAN
        BY <2>1, Zenon
      <3> QED
        BY <1>1, <2>1, <3>1, Marked
    <2> QED
      BY <2>1, <2>2 DEF ExportInv, ExportTypes, WalkInStep, ExportComplete, NoExport
  <1> QED
    BY <1>3, <1>4

(* No other step meets the export or the log.                              *)
LEMMA AuditChanges ==
  ASSUME [Next]_vars
  PROVE  StartExport \/ Exporting \/ NewEvent \/ OutOfReach \/ ReadBack \/ UNCHANGED audit
  <1>1. ASSUME User PROVE StartExport \/ UNCHANGED audit
    BY <1>1 DEF User, ChangeFilter, GoTo, OpenViolation, ViewDetail, Deactivate, DisableUser,
                CloseViolation, OpenDialog, CancelDialog, SubmitReview, SubmitCreate, Invite,
                EditDraft, ResetDraft, Save, Type, Navigate, Unmoved
  <1>2. ASSUME FireSearch \/ Listing \/ Detailing PROVE UNCHANGED audit
    BY <1>2 DEF FireSearch, Listing, ListAnswer, ListFails, Settle, Detailing, DetailAnswer,
                DetailFails
  <1>3. ASSUME Calling PROVE UNCHANGED audit
    BY <1>3 DEF Calling, Apply, ApplyLate, Respond, Retry, GiveUp, Refused, Finish
  <1> QED
    BY <1>1, <1>2, <1>3 DEF Next, vars

(* The export's invariant holds in every reachable state.                  *)
LEMMA ExportInductive == Spec => []ExportInv
  <1>1. ASSUME Init PROVE ExportInv
    <2>1. PICK n \in 0 .. MaxLog : log = [k \in 1 .. n |-> FALSE]
      BY <1>1 DEF Init
    <2>2. n \in Nat
      BY ConsoleAssumption
    <2>3. log \in Seq(BOOLEAN)
      BY <2>1, <2>2
    <2>4. export = NoExport
      BY <1>1 DEF Init
    <2> QED
      BY <2>3, <2>4 DEF ExportInv, ExportTypes, WalkInStep, ExportComplete, NoExport
  <1>2. ASSUME ExportInv, [Next]_vars PROVE ExportInv'
    <2>1. CASE UNCHANGED audit
      BY <1>2, <2>1 DEF audit, ExportInv, ExportTypes, WalkInStep, ExportComplete
    <2> QED
      BY <1>2, <2>1, AuditChanges, ExportPageKeeps, PagePastKeeps, NewEventKeeps, OutOfReachKeeps,
         ReadBackKeeps, ExportEndsKeep DEF Exporting
  <1> QED
    BY <1>1, <1>2, PTL DEF Spec

(* Whatever arrives between two pages of an export, wherever it is sorted  *)
(* in and however many of the oldest events it pushes out of the backend's *)
(* window, and whatever the page size and the row cap are: an export that  *)
(* does not say it was truncated, none of whose reads went back behind an  *)
(* earlier one, holds every event that search_audit found when it began    *)
(* and still finds when it ends.                                           *)
THEOREM ExportsAreComplete == Spec => []ExportComplete
  <1>1. ExportInv => ExportComplete
    BY DEF ExportInv
  <1> QED
    BY <1>1, ExportInductive, PTL
================================================================================
