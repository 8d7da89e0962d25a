---------------------------- MODULE DashboardProofs ----------------------------
(***************************************************************************)
(* Proofs about the dashboard's roles, and about its session cookies for   *)
(* any number of sign-ins, tabs and requests.                              *)
(***************************************************************************)
EXTENDS DashboardSession, TLAPS

(* A role is allowed every route that a role below it is allowed: the      *)
(* clauses of authorizeRoute and the table of canPerformAction, written    *)
(* role by role, agree with ROLE_HIERARCHY.                                *)
THEOREM RoutesInherit ==
  \A r, s \in Roles, route \in Routes :
    isAtLeast(r, s) /\ authorizeRoute(s, route) => authorizeRoute(r, route)
  BY DEF authorizeRoute, Roles, Routes, Admin, ActionOf, PermissionOf, canPerformAction,
         Unmapped, Resources, isAtLeast, getRoleLevel

(* The sidebar offers exactly the pages a role may view, and the list that *)
(* each of them loads is authorized: getSidebarItems, PAGE_ACCESS and      *)
(* ROUTE_PERMISSIONS, three tables kept by hand, agree.                    *)
THEOREM SidebarAgrees ==
  \A r \in Roles :
    /\ \A p \in Pages : canViewPage(r, p) <=> p \in getSidebarItems(r)
    /\ \A p \in getSidebarItems(r) : authorizeRoute(r, PageLoads(p))
  <1>1. ASSUME NEW r \in Roles, NEW p \in Pages PROVE canViewPage(r, p) <=> p \in getSidebarItems(r)
    BY DEF Roles, Pages, Admin, canViewPage, getSidebarItems
  <1>2. ASSUME NEW r \in Roles, NEW p \in getSidebarItems(r) PROVE authorizeRoute(r, PageLoads(p))
    BY DEF authorizeRoute, Roles, PageLoads, Admin, ActionOf, PermissionOf, canPerformAction,
           Unmapped, getSidebarItems
  <1> QED
    BY <1>1, <1>2

(* What authorizeRoute lets through. *)
LEMMA AuthorizedRoutes ==
  ASSUME NEW r \in Roles, NEW route \in Routes, authorizeRoute(r, route)
  PROVE  /\ ForAdmin(route) => r \in Admin
         /\ route = <<"GET", "audit">> => isAtLeast(r, "auditor")
  <1>1. CASE route \in {<<"GET", "users">>, <<"GET", "settings">>, <<"GET", "audit">>}
    <2>0. /\ <<"GET", "users">> \notin Unmapped /\ <<"GET", "settings">> \notin Unmapped
          /\ <<"GET", "audit">> \notin Unmapped
      BY DEF Unmapped
    <2>1. PermissionOf(<<"GET", "users">>) = "users"
      BY DEF PermissionOf
    <2>2. PermissionOf(<<"GET", "settings">>) = "settings"
      BY DEF PermissionOf
    <2>3. PermissionOf(<<"GET", "audit">>) = "audit"
      BY DEF PermissionOf
    <2>4. r # "viewer" => isAtLeast(r, "auditor")
      BY DEF Roles, isAtLeast, getRoleLevel
    <2>5. ~ForAdmin(<<"GET", "audit">>)
      BY DEF ForAdmin
    <2> QED
      BY <1>1, <2>0, <2>1, <2>2, <2>3, <2>4, <2>5 DEF authorizeRoute, Roles, Admin
  <1>2. CASE route \in {<<"DELETE", "devices">>, <<"POST", "exceptions">>, <<"REVIEW", "exceptions">>,
                        <<"POST", "users">>, <<"DELETE", "users">>, <<"PATCH", "settings">>}
    BY <1>2 DEF authorizeRoute, Roles, Admin, ActionOf, PermissionOf, canPerformAction, Unmapped
  <1>3. CASE route \in ({"GET", "HEAD"} \X Resources)
             \ {<<"GET", "users">>, <<"GET", "settings">>, <<"GET", "audit">>}
    BY <1>3 DEF ForAdmin
  <1> QED
    BY <1>1, <1>2, <1>3 DEF Routes

(* Nobody creates a role above their own. *)
LEMMA CreatesBelow ==
  ASSUME NEW r \in Roles, NEW s \in Roles, canCreateUser(r, s) PROVE isAtLeast(r, s)
  BY DEF canCreateUser, Roles, isAtLeast, getRoleLevel
-----------------------------------------------------------------------------
Cookies == [flow : started \cup {None}, access : started \cup {None}, refresh : started \cup {None}]
SetCookies == [flow : started \cup {None, Keep}, access : started \cup {None, Keep}, refresh : started \cup {None, Keep}]
Ops == Routes \X Roles

Requests ==
  [kind : Kinds \cup {"idle", "callback", "served"}, sent : Cookies, sets : SetCookies,
   code : started \cup {None}, ops : SUBSET Ops, by : started \cup {None}]

(* Every cookie, in the jar or on its way, is of a sign-in that was        *)
(* started, and a response sets the access and the refresh cookie to the   *)
(* same sign-in or leaves both, or sets the first alone for a sign-in      *)
(* without a refresh token.                                                *)
PairedSets(sets, unrefreshed) ==
  sets.access = sets.refresh \/ (sets.access \in unrefreshed /\ sets.refresh = Keep)
Paired == \A q \in Slots : PairedSets(slot[q].sets, short)

IndInv ==
  /\ role \in [Logins -> Roles] /\ jar \in Cookies
  /\ started \subseteq Logins /\ codes \subseteq started /\ live \subseteq started
  /\ loggedOut \subseteq started /\ short \subseteq started /\ slot \in [Slots -> Requests]
  /\ Paired /\ CookiesOfOneLogin /\ OnlyPermitted

(* The initial state satisfies the inductive invariant. *)
LEMMA SessionInit == Init => IndInv
  <1> SUFFICES ASSUME Init PROVE IndInv
    OBVIOUS
  <1>1. role \in [Logins -> Roles] /\ jar \in Cookies
    BY SessionAssumption DEF Init, Cookies, NoCookies
  <1>2. Idle \in Requests
    BY DEF Idle, Requests, NoCookies, Unset, Cookies, SetCookies
  <1>3. slot \in [Slots -> Requests]
    BY <1>2 DEF Init
  <1>4. Paired /\ CookiesOfOneLogin /\ OnlyPermitted
    BY DEF Init, Paired, PairedSets, CookiesOfOneLogin, OnlyPermitted, Idle, Unset, NoCookies
  <1> QED
    BY <1>1, <1>3, <1>4 DEF IndInv, Init

(* A step that changes one request, the jar and the sign-ins, keeping what *)
(* IndInv says of each.                                                    *)
LEMMA StepKeeps ==
  ASSUME IndInv, role' = role, jar' \in Cookies',
         started \subseteq started', started' \subseteq Logins, codes' \subseteq started',
         live' \subseteq started', loggedOut' \subseteq started',
         short \subseteq short', short' \subseteq started',
         NEW q \in Slots, NEW s \in Requests', slot' = [slot EXCEPT ![q] = s],
         PairedSets(s.sets, short'), CookiesOfOneLogin',
         \A x \in s.ops :
           /\ s.by \in started
           /\ ForAdmin(x[1]) => role[s.by] \in Admin
           /\ x[1] = <<"GET", "audit">> => isAtLeast(role[s.by], "auditor")
           /\ x[1] = <<"POST", "users">> => isAtLeast(role[s.by], x[2])
  PROVE  IndInv'
  <1>1. Requests \subseteq Requests'
    BY DEF Requests, Cookies, SetCookies
  <1>2. slot' \in [Slots -> Requests']
    BY <1>1 DEF IndInv
  <1>3. Paired'
    BY DEF IndInv, Paired, PairedSets
  <1>5. OnlyPermitted'
    <2> SUFFICES ASSUME NEW z \in Slots, NEW x \in slot'[z].ops
                 PROVE  /\ slot'[z].by \in started'
                        /\ ForAdmin(x[1]) => role[slot'[z].by] \in Admin
                        /\ x[1] = <<"GET", "audit">> => isAtLeast(role[slot'[z].by], "auditor")
                        /\ x[1] = <<"POST", "users">> => isAtLeast(role[slot'[z].by], x[2])
      BY DEF OnlyPermitted
    <2>1. CASE z = q
      <3>1. slot'[z] = s
        BY <2>1 DEF IndInv
      <3> QED
        BY <3>1
    <2>2. CASE z # q
      <3>1. slot'[z] = slot[z]
        BY <2>2 DEF IndInv
      <3> QED
        BY <3>1 DEF IndInv, OnlyPermitted
    <2> QED
      BY <2>1, <2>2
  <1> QED
    BY <1>2, <1>3, <1>5 DEF IndInv

(* The request that Served leaves is one of the requests. *)
LEMMA ServedRequest ==
  ASSUME NEW sets \in SetCookies', NEW ops \in SUBSET Ops, NEW by \in started' \cup {None}
  PROVE  [Idle EXCEPT !.kind = "served", !.sets = sets, !.ops = ops, !.by = by] \in Requests'
  BY DEF Idle, Requests, NoCookies, Cookies, Unset

(* The responses the handlers make out of a sign-in that was started. *)
LEMMA Responses ==
  ASSUME NEW l \in started
  PROVE  /\ StoredAfterRefresh(l) \in SetCookies
         /\ PairedSets(StoredAfterRefresh(l), short) /\ PairedSets(StoredAfterRefresh(l), short')
  BY DEF SetCookies, Unset, StoredAfterRefresh, PairedSets

(* The same of those that name none. *)
LEMMA PlainResponses ==
  /\ Unset \in SetCookies /\ Cleared \in SetCookies
  /\ PairedSets(Unset, short) /\ PairedSets(Cleared, short) /\ PairedSets(Unset, short') /\ PairedSets(Cleared, short')
  BY DEF SetCookies, Unset, Cleared, PairedSets

(* A handler that changes nothing but its request. *)
LEMMA ServedKeeps ==
  ASSUME IndInv, NEW q \in Slots, NEW sets \in SetCookies, NEW ops \in SUBSET Ops,
         NEW by \in started \cup {None}, Served(q, sets, ops, by), PairedSets(sets, short'),
         UNCHANGED <<role, jar, started>>, short \subseteq short', short' \subseteq started, codes' \subseteq started, live' \subseteq started,
         loggedOut' \subseteq started,
         \A x \in ops :
           /\ by \in started
           /\ ForAdmin(x[1]) => role[by] \in Admin
           /\ x[1] = <<"GET", "audit">> => isAtLeast(role[by], "auditor")
           /\ x[1] = <<"POST", "users">> => isAtLeast(role[by], x[2])
  PROVE  IndInv'
  <1> DEFINE s == [Idle EXCEPT !.kind = "served", !.sets = sets, !.ops = ops, !.by = by]
  <1>1. s \in Requests'
    BY ServedRequest DEF SetCookies
  <1>2. slot' = [slot EXCEPT ![q] = s]
    BY DEF Served
  <1>3. s.sets = sets /\ s.ops = ops /\ s.by = by
    BY DEF Idle
  <1>4. jar' \in Cookies' /\ CookiesOfOneLogin'
    BY DEF IndInv, Cookies, CookiesOfOneLogin
  <1>5. started' \subseteq Logins
    BY DEF IndInv
  <1> HIDE DEF s
  <1> QED
    BY <1>1, <1>2, <1>3, <1>4, <1>5, StepKeeps

(* The same for a handler that asks the backend nothing. *)
LEMMA ServedNothing ==
  ASSUME IndInv, NEW q \in Slots, NEW sets \in SetCookies, NEW by \in started \cup {None},
         Served(q, sets, {}, by), PairedSets(sets, short'),
         UNCHANGED <<role, jar, started>>, short \subseteq short', short' \subseteq started, codes' \subseteq codes, live' \subseteq started,
         loggedOut' \subseteq started
  PROVE  IndInv'
  <1>1. codes' \subseteq started
    BY DEF IndInv
  <1>2. {} \in SUBSET Ops
    OBVIOUS
  <1> QED
    BY <1>1, <1>2, ServedKeeps

(* What a session lookup may find was started, and what it answers. *)
LEMMA LookupFacts ==
  ASSUME IndInv, NEW q \in Slots
  PROVE  LET cookies == slot[q].sent
         IN /\ RefreshResults(cookies) \subseteq started \cup {None}
            /\ OrRefreshResults(cookies) \subseteq started \cup {None}
            /\ \A l \in started \cup {None} :
                 /\ SetsFor(cookies, l) \in SetCookies
                 /\ PairedSets(SetsFor(cookies, l), short')
  <1>1. slot[q].sent.access \in started \cup {None} /\ live \subseteq started
    BY DEF IndInv, Requests, Cookies
  <1>2. \A l \in started \cup {None} :
          SetsFor(slot[q].sent, l) \in {Unset, Cleared} \/ (l \in started /\ SetsFor(slot[q].sent, l) = StoredAfterRefresh(l))
    BY DEF SetsFor
  <1> QED
    BY <1>1, <1>2, Responses, PlainResponses DEF RefreshResults, OrRefreshResults

(* The browser's own steps: requests, responses and expiry. *)
LEMMA BrowserKeeps ==
  ASSUME IndInv,
         \/ CookieExpires
         \/ \E q \in Slots : Arrive(q) \/ GiveUp(q) \/ (\E k \in Kinds : Send(q, k)) \/ \E l \in Logins : Callback(q, l)
  PROVE  IndInv'
  <1>1. CASE CookieExpires
    <2>1. jar' \in Cookies' /\ jar'.access = None
      BY <1>1 DEF CookieExpires, IndInv, Cookies, cognito
    <2> QED
      BY <1>1, <2>1 DEF CookieExpires, IndInv, cognito, Requests, Cookies, SetCookies, Paired, PairedSets, CookiesOfOneLogin, OnlyPermitted
  <1>2. ASSUME NEW q \in Slots, Arrive(q) PROVE IndInv'
    <2>1. Idle \in Requests' /\ PairedSets(Idle.sets, short') /\ Idle.ops = {}
      BY DEF Idle, Requests, NoCookies, Unset, Cookies, SetCookies, PairedSets
    <2>2. /\ slot[q].sets \in SetCookies /\ PairedSets(slot[q].sets, short)
          /\ jar \in Cookies /\ CookiesOfOneLogin
      BY DEF IndInv, Requests, Paired
    <2>3. jar' = [c \in DOMAIN jar |-> IF slot[q].sets[c] = Keep THEN jar[c] ELSE slot[q].sets[c]]
      BY <1>2 DEF Arrive
    <2>4. started' = started /\ short' = short
      BY <1>2 DEF Arrive, cognito
    <2>5. jar' \in Cookies'
      BY <2>2, <2>3, <2>4 DEF Cookies, SetCookies
    <2>6. CookiesOfOneLogin'
      BY <2>2, <2>3, <2>4 DEF Cookies, SetCookies, CookiesOfOneLogin, PairedSets
    <2> QED
      BY <1>2, <2>1, <2>4, <2>5, <2>6, StepKeeps DEF Arrive, cognito, IndInv
  <1>3. ASSUME NEW q \in Slots, NEW s, s \in Requests, s.sets = Unset, s.ops = {},
               slot' = [slot EXCEPT ![q] = s], UNCHANGED <<role, jar, cognito, loggedOut>>
        PROVE  IndInv'
    <2>1. s \in Requests' /\ jar' \in Cookies'
      BY <1>3 DEF IndInv, Requests, Cookies, SetCookies, cognito
    <2> QED
      BY <1>3, <2>1, PlainResponses, StepKeeps DEF IndInv, cognito, CookiesOfOneLogin
  <1>4. ASSUME NEW q \in Slots, NEW k \in Kinds, Send(q, k) PROVE IndInv'
    <2> DEFINE s == [Idle EXCEPT !.kind = k, !.sent = jar]
    <2>1. s \in Requests /\ s.sets = Unset /\ s.ops = {}
      BY DEF IndInv, Idle, Requests, Unset, SetCookies, NoCookies
    <2> HIDE DEF s
    <2> QED
      BY <1>3, <1>4, <2>1 DEF Send, s
  <1>5. ASSUME NEW q \in Slots, NEW l \in Logins, Callback(q, l) PROVE IndInv'
    <2> DEFINE s == [Idle EXCEPT !.kind = "callback", !.sent = jar, !.code = l]
    <2>1. l \in started
      BY <1>5 DEF Callback, IndInv
    <2>2. s \in Requests /\ s.sets = Unset /\ s.ops = {}
      BY <2>1 DEF IndInv, Idle, Requests, Unset, SetCookies, NoCookies
    <2> HIDE DEF s
    <2> QED
      BY <1>3, <1>5, <2>2 DEF Callback, s
  <1>6. ASSUME NEW q \in Slots, GiveUp(q) PROVE IndInv'
    <2>1. Idle \in Requests /\ Idle.sets = Unset /\ Idle.ops = {}
      BY DEF Idle, Requests, NoCookies, Unset, Cookies, SetCookies
    <2> QED
      BY <1>3, <1>6, <2>1 DEF GiveUp
  <1> QED
    BY <1>1, <1>2, <1>4, <1>5, <1>6

(* The handlers. *)
LEMMA ServeKeeps ==
  ASSUME IndInv, NEW q \in Slots, Serve(q) PROVE IndInv'
  <1>0. live \subseteq started /\ loggedOut \subseteq started /\ codes \subseteq started
        /\ short \subseteq started
        /\ None \in started \cup {None}
    BY DEF IndInv
  <1>1. ASSUME NEW l \in Logins, ServeLogin(q, l) PROVE IndInv'
    <2> DEFINE sets == [Unset EXCEPT !.flow = l]
               s == [Idle EXCEPT !.kind = "served", !.sets = sets, !.ops = {}, !.by = None]
    <2>1. started' = started \cup {l} /\ codes' = codes \cup {l} /\ UNCHANGED <<role, jar, live, short, loggedOut>>
      BY <1>1 DEF ServeLogin
    <2>2. sets \in SetCookies' /\ PairedSets(sets, short')
      BY <2>1 DEF Unset, SetCookies, PairedSets
    <2>3. s \in Requests'
      BY <2>2, ServedRequest
    <2>4. slot' = [slot EXCEPT ![q] = s]
      BY <1>1 DEF ServeLogin, Served
    <2>5. s.sets = sets /\ s.ops = {}
      BY DEF Idle
    <2>6. jar' \in Cookies'
      BY <2>1 DEF IndInv, Cookies
    <2> HIDE DEF s, sets
    <2> QED
      BY <2>1, <2>2, <2>3, <2>4, <2>5, <2>6, StepKeeps DEF IndInv, CookiesOfOneLogin
  <1>2. CASE ServeCallback(q)
    <2> DEFINE l == slot[q].code
    <2>1. UNCHANGED <<role, jar, started, loggedOut>> /\ codes' \subseteq codes
      BY <1>2 DEF ServeCallback
    <2>2. CASE live' = live /\ short' = short /\ Served(q, Unset, {}, None)
      BY <1>0, <2>1, <2>2, PlainResponses, ServedNothing
    <2>3. ASSUME l \in codes, NEW given \in BOOLEAN, Served(q, StoredAfterLogin(l, given), {}, None),
                 IF given THEN live' = live \cup {l} /\ short' = short
                          ELSE live' = live /\ short' = short \cup {l}
          PROVE  IndInv'
      <3> DEFINE full == StoredAfterLogin(l, given)
      <3>1. l \in started /\ live' \subseteq started /\ short \subseteq short' /\ short' \subseteq started
        BY <1>0, <2>3 DEF IndInv
      <3>2. full \in SetCookies /\ PairedSets(full, short')
        BY <2>3, <3>1 DEF SetCookies, StoredAfterLogin, PairedSets
      <3> HIDE DEF full
      <3> QED
        BY <1>0, <2>1, <2>3, <3>1, <3>2, ServedNothing DEF full
    <2> QED
      BY <1>2, <2>2, <2>3 DEF ServeCallback
  <1>3. CASE ServeRefresh(q)
    <2>1. PICK l \in RefreshResults(slot[q].sent) :
            Served(q, IF l = None THEN Cleared ELSE StoredAfterRefresh(l), {}, None)
      BY <1>3 DEF ServeRefresh
    <2>2. l \in started \cup {None} /\ UNCHANGED <<role, jar, cognito, loggedOut>>
      BY <1>3, <2>1, LookupFacts DEF ServeRefresh
    <2>3. CASE l = None
      BY <1>0, <2>1, <2>2, <2>3, PlainResponses, ServedNothing DEF cognito
    <2>4. CASE l # None
      BY <1>0, <2>1, <2>2, <2>4, Responses, ServedNothing DEF cognito
    <2> QED
      BY <2>3, <2>4
  <1>4. CASE ServeSession(q)
    <2>1. PICK l \in OrRefreshResults(slot[q].sent) : Served(q, SetsFor(slot[q].sent, l), {}, None)
      BY <1>4 DEF ServeSession
    <2> QED
      BY <1>0, <1>4, <2>1, LookupFacts, ServedNothing DEF ServeSession, cognito
  <1>5. CASE ServeLogout(q)
    <2>1. slot[q].sent.refresh \in started \cup {None}
      BY DEF IndInv, Requests, Cookies
    <2>2. live' \subseteq live /\ loggedOut' \subseteq started
      BY <1>5, <2>1 DEF ServeLogout, IndInv
    <2> QED
      BY <1>0, <1>5, <2>2, PlainResponses, ServedNothing DEF ServeLogout
  <1>6. CASE ServePage(q)
    <2>1. slot[q].sent.access \in started \cup {None}
      BY DEF IndInv, Requests, Cookies
    <2> QED
      BY <1>0, <1>6, <2>1, PlainResponses, ServedNothing DEF ServePage, cognito
  <1>7. ASSUME NEW route \in Asked, NEW target \in Targets(route), ServeBff(q, route, target) PROVE IndInv'
    <2> DEFINE cookies == slot[q].sent
    <2>1. UNCHANGED <<role, jar, started, codes, live, short, loggedOut>>
      BY <1>7 DEF ServeBff, cognito
    <2>2. CASE Served(q, Unset, {}, None) \/ Served(q, Cleared, {}, None)
      BY <1>0, <2>1, <2>2, PlainResponses, ServedNothing
    <2>3. ASSUME NEW l \in OrRefreshResults(cookies), Served(q, SetsFor(cookies, l), {}, None) PROVE IndInv'
      BY <1>0, <2>1, <2>3, LookupFacts, ServedNothing
    <2>4. ASSUME NEW l \in OrRefreshResults(cookies), l # None, authorizeRoute(role[l], route),
                 route = <<"POST", "users">> => canCreateUser(role[l], target),
                 Served(q, SetsFor(cookies, l), {<<route, target>>}, l)
          PROVE  IndInv'
      <3>1. l \in started /\ role[l] \in Roles /\ target \in Roles
        BY <2>4, LookupFacts DEF IndInv, Targets, Roles
      <3>0. route \in Routes
        BY SessionAssumption DEF SessionAssumption
      <3>2. /\ ForAdmin(route) => role[l] \in Admin
            /\ route = <<"GET", "audit">> => isAtLeast(role[l], "auditor")
        BY <2>4, <3>0, <3>1, AuthorizedRoutes
      <3>3. route = <<"POST", "users">> => isAtLeast(role[l], target)
        BY <2>4, <3>1, CreatesBelow
      <3>4. {<<route, target>>} \in SUBSET Ops
        BY <3>0, <3>1 DEF Ops
      <3>5. \A x \in {<<route, target>>} : x[1] = route /\ x[2] = target
        OBVIOUS
      <3>6. SetsFor(cookies, l) \in SetCookies /\ PairedSets(SetsFor(cookies, l), short')
        BY <3>1, LookupFacts
      <3> QED
        BY <2>1, <2>4, <3>1, <3>2, <3>3, <3>4, <3>5, <3>6, ServedKeeps DEF IndInv
    <2> QED
      BY <1>7, <2>2, <2>3, <2>4 DEF ServeBff
  <1> QED
    BY <1>1, <1>2, <1>3, <1>4, <1>5, <1>6, <1>7 DEF Serve

(* The inductive invariant holds of every behaviour. *)
LEMMA SessionInvariant == Spec => []IndInv
  <1>1. IndInv /\ [Next]_vars => IndInv'
    <2> SUFFICES ASSUME IndInv, [Next]_vars PROVE IndInv'
      OBVIOUS
    <2>1. CASE UNCHANGED vars
      BY <2>1 DEF vars, cognito, IndInv, Requests, Cookies, SetCookies, Paired, PairedSets, CookiesOfOneLogin, OnlyPermitted
    <2> QED
      BY <2>1, BrowserKeeps, ServeKeeps DEF Next
  <1> QED
    BY <1>1, SessionInit, PTL DEF Spec

(* The access and the refresh cookie in the jar are of one sign-in, in     *)
(* whatever order the responses of setStoredSession, clearStoredSession    *)
(* and the callback arrive, unless Cognito gave no refresh token.          *)
THEOREM JarOfOneLogin == Spec => []CookiesOfOneLogin
  <1>1. IndInv => CookiesOfOneLogin
    BY DEF IndInv
  <1> QED
    BY <1>1, SessionInvariant, PTL

(* withBff asks the backend only for what authorizeRoute and               *)
(* assertCanCreateRole permit to the role of a sign-in that was started;   *)
(* HEAD requests, which authorizeRoute lets through, are outside it.       *)
THEOREM BackendAskedIfPermitted == Spec => []OnlyPermitted
  <1>1. IndInv => OnlyPermitted
    BY DEF IndInv
  <1> QED
    BY <1>1, SessionInvariant, PTL
================================================================================
