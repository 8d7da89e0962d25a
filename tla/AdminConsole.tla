----------------------------- MODULE AdminConsole -----------------------------
(***************************************************************************)
(* A page of the dashboard in an administrator's browser: its list and     *)
(* what the list was asked for, the detail panel, the dialogs and forms,   *)
(* the audit export, the search of the top bar; the calls the BFF makes to *)
(* the backend for it, with their retries; and the backend's answers.      *)
(*                                                                         *)
(* Which page is open is chosen at the start.  Answers arrive in any order *)
(* and any of them may be an error.  What the backend's records say is     *)
(* left open (other administrators write to them too, without conditions). *)
(* What a role may see or do is the subject of DashboardRbac; the user     *)
(* here may do everything.                                                 *)
(***************************************************************************)
EXTENDS Integers, FiniteSets, Sequences

CONSTANTS Ids,            \* devices, policies, violations, exceptions or users on the page
          Filters,        \* settings of the search box and the filters, All among them
          MaxPages,       \* longest list, in pages
          Slots,          \* fetches of one kind under way at a time
          Calls,          \* writes under way at a time
          MaxEdits,       \* query changes, on each page
          PageSize,       \* EXPORT_PAGE_SIZE
          RowCap,         \* EXPORT_ROW_CAP
          Attempts,       \* attempts of backendFetch (3 in the code)
          MaxLog          \* audit events that a search finds

ASSUME ConsoleAssumption ==
  /\ MaxPages \in Nat \ {0} /\ PageSize \in Nat \ {0} /\ RowCap \in Nat \ {0}
  /\ Attempts \in Nat \ {0} /\ MaxLog \in Nat /\ IsFiniteSet(Slots) /\ Slots \subseteq Nat /\ 1 \in Slots
  /\ "all" \in Filters /\ "none" \notin Filters /\ "none" \notin Ids

None == "none"
All == "all"
NoQuery == [filter |-> None, page |-> 0]
NoRows == [of |-> NoQuery, pages |-> 0]
NoFetch == [q |-> NoQuery, live |-> FALSE]
NoDetail == [id |-> None, pending |-> FALSE]
NoLook == [id |-> None, live |-> FALSE]
NoCall == [op |-> None, id |-> None, q |-> NoQuery, attempt |-> 0, here |-> FALSE, done |-> FALSE]
NoExport == [st |-> "idle", page |-> 0, total |-> -1, count |-> 0, truncated |-> FALSE, back |-> FALSE]

VARIABLES page,                                  \* the page that is open
          query, edits, rows, loading, fetch,    \* the list, and its fetches under way
          failed,                                \* whether the last fetch heard of was an error
          selected, detail, detailLoading, look, \* the detail panel, and its fetches
          missed,                                \* whether the open violation's findings could not be fetched
          dialog, draft, busy,                   \* the open dialog, the settings form, disabled buttons
          timer,                                 \* the search box's debounce
          call,                                  \* writes under way
          told,                                  \* of the writes reported as done: whether they were
          log,                                   \* what search_audit finds, newest first: of each event,
                                                 \* whether the export began after it and has not copied it
          export                                 \* the export

list == <<query, edits, rows, loading, fetch, failed>>
panel == <<selected, detail, detailLoading, look, missed>>
forms == <<dialog, draft, busy>>
audit == <<log, export>>
vars == <<page, list, panel, forms, timer, call, told, audit>>

(* Pages whose list effect sets `cancelled` when it is run again. *)
Guarded == {"devices", "policies", "violations", "audit", "device", "dashboard", "org"}
(* Pages that take their first search from the URL. *)
Seeded == {"devices", "policies", "violations", "audit"}
Pages == Guarded \cup {"exceptions", "users", "search"}

ASSUME EditsAssumption == MaxEdits \in [Pages -> Nat]

Init ==
  /\ page \in Pages
  /\ query \in [filter : IF page \in Seeded THEN Filters ELSE {All}, page : {1}] /\ edits = 0 /\ rows = NoRows /\ failed = FALSE
  /\ loading = (page # "search")
  /\ fetch = [i \in Slots |-> IF i = 1 /\ page # "search" THEN [q |-> query, live |-> TRUE] ELSE NoFetch]
  /\ selected = NoDetail /\ detail = None /\ detailLoading = FALSE /\ look = [i \in Slots |-> NoLook] /\ missed = FALSE
  /\ dialog = None /\ draft = None /\ busy = {} /\ timer = FALSE
  /\ call = [i \in Calls |-> NoCall] /\ told = {}
  /\ export = NoExport
  /\ \E n \in 0 .. MaxLog : (n = 0 \/ page = "audit") /\ log = [k \in 1 .. n |-> FALSE]
-----------------------------------------------------------------------------
(* The list.                                                               *)
Free(slots, nothing) == {i \in DOMAIN slots : slots[i] = nothing}

(* A fetch for q; the fetches before it are cancelled if the page does so. *)
Refetch(q) ==
  \E i \in Free(fetch, NoFetch) :
    /\ \A j \in Free(fetch, NoFetch) : i <= j
    /\ fetch' = [j \in Slots |-> IF j = i THEN [q |-> q, live |-> TRUE]
                                 ELSE [fetch[j] EXCEPT !.live = fetch[j].live /\ page \notin Guarded]]
    /\ loading' = TRUE

(* Faulty variant: a late answer is applied whatever was asked since. *)
HeardAlways(i) == TRUE

(* if (!cancelled) *)
Heard(i) == page \in Guarded => fetch[i].live

Settle(i, answer, error) ==
  /\ fetch[i] # NoFetch /\ fetch' = [fetch EXCEPT ![i] = NoFetch]
  /\ IF Heard(i) THEN rows' = answer /\ loading' = FALSE /\ failed' = error
                 ELSE UNCHANGED <<rows, loading, failed>>
  /\ draft' = IF page = "org" /\ Heard(i) /\ ~error THEN "clean" ELSE draft
  /\ UNCHANGED <<page, query, edits, panel, dialog, busy, timer, call, told, audit>>

ListAnswer(i) == \E m \in 0 .. MaxPages : Settle(i, [of |-> fetch[i].q, pages |-> m], FALSE)

(* The catch of the page; the groups of the search box answer [] instead. *)
ListFails(i) == page # "search" /\ Settle(i, rows, TRUE)
-----------------------------------------------------------------------------
(* What each page offers, from what it renders.                            *)
NonEmpty == rows # NoRows /\ rows.of.page <= rows.pages
When(condition, controls) == IF condition THEN controls ELSE {}

ListView == {"filter"} \cup When(~loading /\ NonEmpty, {"row", "paging"})

(* The pagination stays while another page loads. *)
DevicesView == {"filter"} \cup When(~loading /\ NonEmpty, {"row"}) \cup When(NonEmpty, {"paging"})

PoliciesView == ListView

(* The modal covers the page. *)
ViolationsView == IF selected # NoDetail THEN {"close"} ELSE ListView

(* A busy dialog cannot be cancelled. *)
ExceptionsView ==
  IF dialog # None THEN When(dialog \notin busy, {"submit", "cancel"})
  ELSE ListView \cup {"new"} \cup When(~detailLoading /\ selected.pending, {"decide"})

AuditView == ListView \cup When("export" \notin busy, {"export"})

UsersView == ListView \cup When("invite" \notin busy, {"invite"})

OrgView == When(~loading /\ draft # None, {"edit", "reset"} \cup When("save" \notin busy, {"save"}))

DeviceView == When(~loading /\ NonEmpty, {"paging"})

View ==
  CASE page = "devices" -> DevicesView [] page = "policies" -> PoliciesView
    [] page = "violations" -> ViolationsView [] page = "exceptions" -> ExceptionsView
    [] page = "audit" -> AuditView [] page = "users" -> UsersView [] page = "org" -> OrgView
    [] page = "device" -> DeviceView [] OTHER -> {}

ChangeFilter(f) ==
  /\ "filter" \in View /\ f # query.filter /\ edits < MaxEdits[page]
  /\ query' = [filter |-> f, page |-> 1] /\ edits' = edits + 1 /\ Refetch(query')
  /\ UNCHANGED <<page, rows, failed, panel, forms, timer, call, told, audit>>

(* Pagination: goTo *)
GoTo(n) ==
  LET totalPages == IF rows.pages = 0 THEN 1 ELSE rows.pages
      safePage == IF rows.of.page > totalPages THEN totalPages ELSE rows.of.page
  IN /\ "paging" \in View /\ n \in 1 .. totalPages /\ n # safePage
     /\ n # query.page /\ edits < MaxEdits[page]
     /\ query' = [query EXCEPT !.page = n] /\ edits' = edits + 1 /\ Refetch(query')
     /\ UNCHANGED <<page, rows, failed, panel, forms, timer, call, told, audit>>
-----------------------------------------------------------------------------
(* The detail of a row.                                                    *)
Look(x) == \E i \in Free(look, NoLook) :
             /\ \A j \in Free(look, NoLook) : i <= j
             /\ look' = [look EXCEPT ![i] = [id |-> x, live |-> TRUE]]

(* Violations: the row opens in a modal at once, its findings follow. *)
OpenViolation(x) ==
  /\ page = "violations" /\ "row" \in View /\ Look(x)
  /\ selected' = [id |-> x, pending |-> FALSE] /\ missed' = FALSE
  /\ UNCHANGED <<page, list, detail, detailLoading, forms, timer, call, told, audit>>

CloseViolation ==
  /\ "close" \in View /\ selected' = NoDetail /\ detail' = None /\ missed' = FALSE
  /\ look' = [i \in Slots |-> [look[i] EXCEPT !.live = FALSE]]
  /\ UNCHANGED <<page, list, detailLoading, forms, timer, call, told, audit>>

(* Policies and exceptions: the panel waits for the answer. *)
ViewDetail(x) ==
  /\ page \in {"policies", "exceptions"} /\ "row" \in View /\ Look(x) /\ detailLoading' = TRUE
  /\ UNCHANGED <<page, list, selected, detail, missed, forms, timer, call, told, audit>>

DetailAnswer(i) ==
  /\ look[i] # NoLook /\ look' = [look EXCEPT ![i] = NoLook]
  /\ IF page = "violations"
       THEN /\ detail' = IF look[i].live THEN look[i].id ELSE detail
            /\ UNCHANGED <<selected, detailLoading>>
       ELSE /\ selected' \in [id : {look[i].id}, pending : BOOLEAN] /\ detailLoading' = FALSE
            /\ UNCHANGED detail
  /\ UNCHANGED <<page, list, missed, forms, timer, call, told, audit>>

DetailFails(i) ==
  /\ look[i] # NoLook /\ look' = [look EXCEPT ![i] = NoLook] /\ detailLoading' = FALSE
  /\ detail' = IF page = "violations" /\ look[i].live THEN None ELSE detail
  /\ missed' = (missed \/ (page = "violations" /\ look[i].live))
  /\ UNCHANGED <<page, list, selected, forms, timer, call, told, audit>>
-----------------------------------------------------------------------------
(* Writes: the page's handler, the BFF's route, backendFetch and the       *)
(* backend.                                                                *)
(* The busy flag of an operation, if it has one. *)
Flag(op) == {op} \cap {"review", "create", "invite", "save"}

(* q: the query of the refresh() that follows, if any. *)
Write(op, x, q) ==
  /\ \E i \in Free(call, NoCall) :
       call' = [call EXCEPT ![i] = [NoCall EXCEPT !.op = op, !.id = x, !.q = q, !.attempt = 1]]
  /\ busy' = busy \cup Flag(op)

Unmoved == UNCHANGED <<page, list, panel, timer, told, audit>>

(* Exceptions: Approve or Reject, New Exception, and the two dialogs.  The *)
(* review is of the exception in the panel when it is confirmed.           *)
OpenDialog(d) ==
  /\ (IF d = "review" THEN "decide" ELSE "new") \in View
  /\ dialog' = d /\ Unmoved /\ UNCHANGED <<draft, busy, call>>

CancelDialog == "cancel" \in View /\ dialog' = None /\ Unmoved /\ UNCHANGED <<draft, busy, call>>

SubmitReview ==
  /\ "submit" \in View /\ dialog = "review" /\ selected # NoDetail
  /\ Write("review", selected.id, query) /\ Unmoved /\ UNCHANGED <<dialog, draft>>

SubmitCreate ==
  /\ "submit" \in View /\ dialog = "create"
  /\ Write("create", None, query) /\ Unmoved /\ UNCHANGED <<dialog, draft>>

(* Devices: the result is not looked at. *)
Deactivate(x) ==
  /\ page = "devices" /\ "row" \in View /\ Write("deactivate", x, NoQuery)
  /\ Unmoved /\ UNCHANGED <<dialog, draft>>

(* Users: the columns keep the refresh of the first render. *)
DisableUser(x) ==
  /\ page = "users" /\ "row" \in View /\ Write("disable", x, [filter |-> All, page |-> 1])
  /\ Unmoved /\ UNCHANGED <<dialog, draft>>
Invite ==
  /\ "invite" \in View /\ Write("invite", None, query) /\ Unmoved /\ UNCHANGED <<dialog, draft>>

(* Organization settings. *)
EditDraft ==
  /\ "edit" \in View /\ draft' = "edited" /\ Unmoved /\ UNCHANGED <<dialog, busy, call>>
ResetDraft ==
  /\ "reset" \in View /\ draft' = "clean" /\ Unmoved /\ UNCHANGED <<dialog, busy, call>>
Save ==
  /\ "save" \in View /\ Write("save", None, NoQuery) /\ Unmoved /\ UNCHANGED <<dialog, draft>>

(* The backend applies the write. *)
Apply(i) ==
  /\ call[i] # NoCall /\ ~call[i].here
  /\ call' = [call EXCEPT ![i].here = TRUE, ![i].done = TRUE]
  /\ UNCHANGED <<page, list, panel, forms, timer, told, audit>>

(* Faulty variant: the flag is reset at the end of the try block. *)
FreedIfOk(op, ok) == IF ok THEN busy \ Flag(op) ELSE busy

(* finally *)
Freed(op, ok) == busy \ Flag(op)

(* The page hears of the write. *)
Finish(i, ok) ==
  LET c == call[i]
  IN /\ call' = [call EXCEPT ![i] = NoCall] /\ busy' = Freed(c.op, ok)
     /\ told' = IF ok THEN told \cup {c.done} ELSE told
     /\ dialog' = IF ok /\ c.op = dialog THEN None ELSE dialog
     /\ draft' = IF ok /\ c.op = "save" THEN "clean" ELSE draft
     /\ IF ok /\ c.op = "review" THEN selected' \in [id : {c.id}, pending : BOOLEAN] ELSE UNCHANGED selected
     /\ IF ok /\ c.q # NoQuery THEN Refetch(c.q) ELSE UNCHANGED <<fetch, loading>>
     /\ UNCHANGED <<page, query, edits, rows, failed, detail, detailLoading, look, missed, timer, audit>>

Respond(i) == call[i].here /\ Finish(i, TRUE)

(* The backend applies an attempt that was given up for the next one.  (It *)
(* may do so after the page gave up too; of the records, which are left    *)
(* open, nothing in this model would change.)                              *)
ApplyLate(i) ==
  /\ call[i].attempt > 1 /\ ~call[i].done /\ call' = [call EXCEPT ![i].done = TRUE]
  /\ UNCHANGED <<page, list, panel, forms, timer, told, audit>>

(* A time-out, a 5xx, a lost or unreadable answer: the next attempt. *)
Retry(i) ==
  /\ call[i] # NoCall /\ call[i].attempt < Attempts
  /\ call' = [call EXCEPT ![i].attempt = @ + 1, ![i].here = FALSE]
  /\ UNCHANGED <<page, list, panel, forms, timer, told, audit>>

(* Faulty variant: nothing is thrown after the last attempt. *)
GiveUpSilently(i) == call[i].attempt = Attempts /\ Finish(i, TRUE)

GiveUp(i) == call[i].attempt = Attempts /\ Finish(i, FALSE)

(* A 4xx, a failure of the route before the write, or of the browser's own request. *)
Refused(i) == call[i] # NoCall /\ Finish(i, FALSE)
-----------------------------------------------------------------------------
(* The audit export.                                                       *)
StartExport ==
  /\ "export" \in View /\ busy' = busy \cup {"export"}
  /\ export' = [NoExport EXCEPT !.st = "walking", !.page = 1] /\ log' = [k \in DOMAIN log |-> TRUE]
  /\ UNCHANGED <<page, list, panel, dialog, draft, timer, call, told>>

(* Faulty variant: the total is read once. *)
TotalOnce(before, now) == IF before = -1 THEN now ELSE before

(* total = result.total *)
Total(before, now) == now

(* One turn of the loop: a page, the rows it adds, and whether it is the last. *)
ExportPage ==
  LET from == (export.page - 1) * PageSize
      items == {k \in from + 1 .. from + PageSize : k <= Len(log) /\ export.count + k - from <= RowCap}
      count == export.count + Cardinality(items)
      total == Total(export.total, Len(log))
      more == items # {} /\ count < total /\ count < RowCap
  IN /\ export.st = "walking" /\ log' = [k \in DOMAIN log |-> log[k] /\ k \notin items]
     /\ export' = IF more THEN [export EXCEPT !.page = @ + 1, !.count = count, !.total = total]
                          ELSE [NoExport EXCEPT !.st = "done", !.back = export.back,
                                           !.truncated = count >= RowCap /\ total > count]
     /\ busy' = IF more THEN busy ELSE busy \ {"export"}
     /\ UNCHANGED <<page, list, panel, dialog, draft, timer, call, told>>

ExportFails ==
  /\ export.st = "walking" /\ export' = NoExport /\ busy' = busy \ {"export"}
  /\ log' = [k \in DOMAIN log |-> FALSE]
  /\ UNCHANGED <<page, list, panel, dialog, draft, timer, call, told>>

(* What search_audit finds changes between two pages.  Of the dates, type  *)
(* and search text the page asks for, the backend knows the last: it sends *)
(* one Query for the current month, newest first, and takes what the first *)
(* megabyte holds; the total is the number of those.                       *)
Searching == page = "audit" /\ export.st = "walking"

(* An event arrives, sorted in by its own time stamp. *)
NewEvent ==
  /\ Searching /\ Len(log) < MaxLog
  /\ \E k \in 0 .. Len(log) :
       log' = SubSeq(log, 1, k) \o <<FALSE>> \o SubSeq(log, k + 1, Len(log))
  /\ UNCHANGED <<page, list, panel, forms, timer, call, told, export>>

(* The oldest no longer fit the megabyte, or the month is over.  (The      *)
(* development store drops its oldest beyond a thousand likewise.)         *)
OutOfReach ==
  /\ Searching
  /\ \E m \in 0 .. Len(log) - 1 : log' = [k \in 1 .. m |-> log[k]]
  /\ UNCHANGED <<page, list, panel, forms, timer, call, told, export>>

(* A read of the index, which is eventually consistent, lacks an event     *)
(* that an earlier one had, or its time to live has passed.                *)
ReadBack ==
  /\ Searching /\ export' = [export EXCEPT !.back = TRUE]
  /\ \E k \in 1 .. Len(log) : log' = [j \in 1 .. Len(log) - 1 |-> IF j < k THEN log[j] ELSE log[j + 1]]
  /\ UNCHANGED <<page, list, panel, forms, timer, call, told>>
-----------------------------------------------------------------------------
(* The search box of the top bar; None stands for less than two letters.   *)
Type(f) ==
  /\ page = "search" /\ edits < MaxEdits[page] /\ edits' = edits + 1
  /\ query' = [filter |-> f, page |-> 1] /\ timer' = (f # None) /\ loading' = (f # None)
  /\ rows' = IF f = None THEN NoRows ELSE rows
  /\ UNCHANGED <<page, fetch, failed, panel, forms, call, told, audit>>

FireSearch ==
  /\ timer /\ timer' = FALSE /\ Refetch(query)
  /\ UNCHANGED <<page, query, edits, rows, failed, panel, forms, call, told, audit>>

(* A result is chosen; the timer and the fetches go on. *)
Navigate ==
  /\ page = "search" /\ ~loading /\ NonEmpty
  /\ query' = [filter |-> None, page |-> 1] /\ rows' = NoRows
  /\ UNCHANGED <<page, edits, loading, fetch, failed, panel, forms, timer, call, told, audit>>
-----------------------------------------------------------------------------
User ==
  \/ \E f \in Filters : ChangeFilter(f)
  \/ \E n \in 1 .. MaxPages : GoTo(n)
  \/ \E x \in Ids : OpenViolation(x) \/ ViewDetail(x) \/ Deactivate(x) \/ DisableUser(x)
  \/ CloseViolation \/ \E d \in {"review", "create"} : OpenDialog(d)
  \/ CancelDialog \/ SubmitReview \/ SubmitCreate
  \/ Invite \/ EditDraft \/ ResetDraft \/ Save \/ StartExport
  \/ \E f \in Filters \cup {None} : Type(f)
  \/ Navigate

Listing == \E i \in Slots : ListAnswer(i) \/ ListFails(i)
Detailing == \E i \in Slots : DetailAnswer(i) \/ DetailFails(i)
Calling == \E i \in Calls : Apply(i) \/ ApplyLate(i) \/ Respond(i) \/ Retry(i) \/ GiveUp(i) \/ Refused(i)
Exporting == ExportPage \/ ExportFails

Next ==
  \/ User \/ FireSearch \/ Exporting \/ NewEvent \/ OutOfReach \/ ReadBack
  \/ Listing \/ Detailing \/ Calling

Spec == Init /\ [][Next]_vars

(* Requests are answered or fail, and timers fire. *)
FairSpec ==
  /\ Spec /\ WF_vars(FireSearch) /\ WF_vars(Exporting)
  /\ WF_vars(Listing) /\ WF_vars(Detailing) /\ WF_vars(Calling)
-----------------------------------------------------------------------------
Queries == [filter : Filters \cup {None}, page : 0 .. MaxPages]

ListTypes ==
  /\ page \in Pages /\ query \in Queries /\ edits \in Nat /\ loading \in BOOLEAN /\ failed \in BOOLEAN
  /\ rows \in [of : Queries, pages : 0 .. MaxPages] /\ fetch \in [Slots -> [q : Queries, live : BOOLEAN]]

PanelTypes ==
  /\ selected \in [id : Ids \cup {None}, pending : BOOLEAN] /\ detail \in Ids \cup {None}
  /\ detailLoading \in BOOLEAN /\ missed \in BOOLEAN /\ look \in [Slots -> [id : Ids \cup {None}, live : BOOLEAN]]

CallRecords ==
  [op : {None, "review", "create", "deactivate", "disable", "invite", "save"}, id : Ids \cup {None},
   q : Queries, attempt : 0 .. Attempts, here : BOOLEAN, done : BOOLEAN]

CallTypes ==
  /\ busy \subseteq {"review", "create", "invite", "save", "export"} /\ told \subseteq BOOLEAN
  /\ call \in [Calls -> CallRecords]

TypeOK == ListTypes /\ PanelTypes /\ CallTypes

(* On the pages that guard their fetches, the rows are those of the query  *)
(* the user sees, unless the fetch for them failed, and the findings in    *)
(* the violation modal are the open violation's: no order of answers puts  *)
(* one request's data under another's heading.                             *)
ShownIsAsked ==
  /\ page \in Guarded /\ ~loading /\ rows # NoRows => rows.of = query \/ failed
  /\ page = "violations" /\ detail # None => detail = selected.id

(* What the user is told was done has been done by the backend.            *)
ToldIsDone == FALSE \notin told

(* An export that does not say it was truncated holds every event that     *)
(* search_audit found when it began and still finds when it ends, whatever *)
(* arrived between two of its pages, sorted in where, and pushed out how   *)
(* many of the oldest - unless a read went back behind an earlier one.     *)
(* What slides out of the backend's window while the export runs, and what *)
(* was never in it, is missing without a word.                             *)
ExportComplete ==
  export.st = "done" /\ ~export.truncated /\ ~export.back => \A k \in DOMAIN log : ~log[k]

(* What is rendered in place of the list, the form or the charts while     *)
(* there is nothing to show, and in place of the findings.                 *)
ListSkeleton ==
  IF page = "search" THEN loading ELSE loading \/ rows = NoRows \/ (page = "org" /\ draft = None)
FindingsSkeleton == page = "violations" /\ selected # NoDetail /\ detail = None

(* Nothing stays busy: each button comes back, whether what it waits for   *)
(* succeeds or fails, and each skeleton goes away unless the fetch behind  *)
(* it failed, when it stays (the catch of the page resets `loading`, but   *)
(* the page goes on without `data`, and the modal without findings).       *)
BusyEnds ==
  /\ ListSkeleton ~> (~ListSkeleton \/ (~loading /\ failed))
  /\ FindingsSkeleton ~> (~FindingsSkeleton \/ missed)
  /\ loading ~> ~loading
  /\ detailLoading ~> ~detailLoading
  /\ busy # {} ~> busy = {}
================================================================================
