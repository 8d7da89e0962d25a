--------------------------- MODULE DashboardSession ---------------------------
(***************************************************************************)
(* Sign-in and authorization of the dashboard: one browser, its cookie jar *)
(* and the requests it has under way; the route handlers, which work on    *)
(* the cookies the request carried and answer with Set-Cookie; Cognito.    *)
(*                                                                         *)
(* Requests are served and their responses arrive in any order (several    *)
(* tabs, the session poll); cookies expire; every call to Cognito may      *)
(* fail.                                                                   *)
(***************************************************************************)
EXTENDS DashboardRbac, FiniteSets

CONSTANTS Logins,       \* sign-ins the user starts: state, verifier, code and tokens of each
          Slots,        \* requests under way at a time
          Asked,        \* the BFF routes the browser asks for
          Assignments   \* the roles the sign-ins may turn out to have

None == "none"
Keep == "keep"

ASSUME SessionAssumption ==
  IsFiniteSet(Logins) /\ IsFiniteSet(Slots) /\ Assignments \subseteq [Logins -> Roles]
  /\ Asked \subseteq Routes /\ None \notin Logins /\ Keep \notin Logins

VARIABLES role,       \* the role in each sign-in's ID token
          jar,        \* cookies: flow (state and verifier), access (with ID and session), refresh
          started,    \* sign-ins /api/auth/login began
          codes,      \* sign-ins whose authorization code waits to be used
          live,       \* sign-ins whose refresh token Cognito accepts
          short,      \* sign-ins that Cognito gave no refresh token
          slot,       \* the requests
          loggedOut   \* sign-ins whose refresh token a logout revoked

cognito == <<started, codes, live, short>>
vars == <<role, jar, cognito, slot, loggedOut>>

NoCookies == [flow |-> None, access |-> None, refresh |-> None]
Unset == [flow |-> Keep, access |-> Keep, refresh |-> Keep]
Idle == [kind |-> "idle", sent |-> NoCookies, sets |-> Unset, code |-> None, ops |-> {}, by |-> None]

Init ==
  /\ role \in Assignments /\ jar = NoCookies
  /\ started = {} /\ codes = {} /\ live = {} /\ short = {}
  /\ slot = [q \in Slots |-> Idle] /\ loggedOut = {}
-----------------------------------------------------------------------------
(* The browser. *)
Kinds == {"login", "refresh", "session", "logout", "page", "bff"}

Send(q, kind) ==
  /\ slot[q].kind = "idle"
  /\ slot' = [slot EXCEPT ![q] = [Idle EXCEPT !.kind = kind, !.sent = jar]]
  /\ UNCHANGED <<role, jar, cognito, loggedOut>>

(* Cognito's page sends the browser back to the callback with a code. *)
Callback(q, l) ==
  /\ slot[q].kind = "idle" /\ l \in codes
  /\ slot' = [slot EXCEPT ![q] = [Idle EXCEPT !.kind = "callback", !.sent = jar, !.code = l]]
  /\ UNCHANGED <<role, jar, cognito, loggedOut>>

(* A response arrives and its Set-Cookie headers are applied. *)
Arrive(q) ==
  /\ slot[q].kind = "served"
  /\ jar' = [c \in DOMAIN jar |-> IF slot[q].sets[c] = Keep THEN jar[c] ELSE slot[q].sets[c]]
  /\ slot' = [slot EXCEPT ![q] = Idle]
  /\ UNCHANGED <<role, cognito, loggedOut>>

(* ACCESS_MAX_AGE_SECONDS, shorter than the tokens' life. *)
CookieExpires ==
  /\ jar.access # None /\ jar' = [jar EXCEPT !.access = None]
  /\ UNCHANGED <<role, cognito, slot, loggedOut>>
-----------------------------------------------------------------------------
(* The handlers, each with the cookies its request carried.                *)
Served(q, sets, ops, by) ==
  slot' = [slot EXCEPT ![q] = [Idle EXCEPT !.kind = "served", !.sets = sets, !.ops = ops, !.by = by]]

(* clearStoredSession *)
Cleared == [Unset EXCEPT !.access = None, !.refresh = None]

(* Faulty variant: without a rotated token no refresh cookie is set. *)
StoredAfterRefreshOnlyNew(l) == [Unset EXCEPT !.access = l]

(* setStoredSession after a refresh: tokens.refresh_token ?? refreshToken. *)
StoredAfterRefresh(l) == [Unset EXCEPT !.access = l, !.refresh = l]

(* GET /api/auth/login *)
ServeLogin(q, l) ==
  /\ slot[q].kind = "login" /\ l \notin started
  /\ started' = started \cup {l} /\ codes' = codes \cup {l}
  /\ Served(q, [Unset EXCEPT !.flow = l], {}, None)
  /\ UNCHANGED <<role, jar, live, short, loggedOut>>

(* state === expectedState, and the verifier is there *)
StateMatches(code, cookies) == cookies.flow = code

(* setStoredSession after a sign-in: without a refresh token that cookie   *)
(* is left as it is.                                                       *)
StoredAfterLogin(l, refreshToken) ==
  [flow |-> None, access |-> l, refresh |-> IF refreshToken THEN l ELSE Keep]

(* GET /api/auth/callback/cognito: the code is exchanged with the verifier *)
(* of the cookie.                                                          *)
ServeCallback(q) ==
  LET l == slot[q].code  v == slot[q].sent.flow
  IN /\ slot[q].kind = "callback"
     /\ \/ /\ ~StateMatches(l, slot[q].sent)
           /\ Served(q, Unset, {}, None) /\ UNCHANGED <<codes, live, short>>
        \/ /\ StateMatches(l, slot[q].sent)
           /\ codes' = codes \ {l}
           /\ \/ /\ l \in codes /\ v = l          \* Cognito checks the verifier; the code is used up
                 /\ \/ /\ live' = live \cup {l} /\ UNCHANGED short
                       /\ Served(q, StoredAfterLogin(l, TRUE), {}, None)
                    \/ /\ short' = short \cup {l} /\ UNCHANGED live
                       /\ Served(q, StoredAfterLogin(l, FALSE), {}, None)
              \/ Served(q, Unset, {}, None) /\ UNCHANGED <<live, short>>   \* the exchange or the verification fails
     /\ UNCHANGED <<role, jar, started, loggedOut>>

(* refreshStoredSession: a sign-in on success, None when there is no       *)
(* token, when Cognito declines it or cannot be reached, or when the new   *)
(* ID token cannot be verified.                                            *)
RefreshResults(cookies) == ({cookies.refresh} \cap live) \cup {None}

(* getStoredSession, then refreshStoredSession if there is none.  A token  *)
(* that cannot be verified clears the cookies, the refresh token's too.    *)
OrRefreshResults(cookies) == IF cookies.access # None THEN {cookies.access, None} ELSE RefreshResults(cookies)

SetsFor(cookies, l) ==
  IF l = None THEN Cleared ELSE IF l = cookies.access THEN Unset ELSE StoredAfterRefresh(l)

(* POST /api/auth/refresh, and GET /api/auth/session. *)
ServeRefresh(q) ==
  /\ slot[q].kind = "refresh"
  /\ \E l \in RefreshResults(slot[q].sent) :
       Served(q, IF l = None THEN Cleared ELSE StoredAfterRefresh(l), {}, None)
  /\ UNCHANGED <<role, jar, cognito, loggedOut>>

ServeSession(q) ==
  /\ slot[q].kind = "session"
  /\ \E l \in OrRefreshResults(slot[q].sent) : Served(q, SetsFor(slot[q].sent, l), {}, None)
  /\ UNCHANGED <<role, jar, cognito, loggedOut>>

(* Faulty variant: the cookie is read once it has been deleted. *)
ServeLogoutUnrevoked(q) ==
  LET l == slot[q].sent.refresh
  IN /\ slot[q].kind = "logout" /\ Served(q, Cleared, {}, None)
     /\ loggedOut' = loggedOut \cup ({l} \ {None})
     /\ UNCHANGED <<role, jar, started, codes, live, short>>

(* /api/auth/logout: the refresh token is revoked if Cognito answers. *)
ServeLogout(q) ==
  LET l == slot[q].sent.refresh
  IN /\ slot[q].kind = "logout" /\ Served(q, Cleared, {}, None)
     /\ \/ live' = live \ {l} /\ loggedOut' = loggedOut \cup ({l} \ {None})
        \/ UNCHANGED <<live, loggedOut>>
     /\ UNCHANGED <<role, jar, started, codes, short>>

(* The middleware on a page: without an access cookie, to /login.  (The    *)
(* cookie is gone before the token's last minute, when the middleware      *)
(* would redirect to the refresh route or delete the cookies.)             *)
ServePage(q) ==
  /\ slot[q].kind = "page" /\ Served(q, Unset, {}, slot[q].sent.access)
  /\ UNCHANGED <<role, jar, cognito, loggedOut>>

(* A BFF route: the middleware, extractRequestContext, authorizeRoute,     *)
(* assertCanCreateRole in the invite handler, and the backend, which does  *)
(* nothing without the token withBff reads again.                          *)
ServeBff(q, route, target) ==
  LET cookies == slot[q].sent
  IN /\ slot[q].kind = "bff"
     /\ \/ cookies.access = None /\ Served(q, Unset, {}, None)
        \/ /\ cookies.access # None
           /\ \E l \in OrRefreshResults(cookies) :
                IF l # None /\ authorizeRoute(role[l], route)
                  THEN \/ /\ route = <<"POST", "users">> => canCreateUser(role[l], target)
                          /\ Served(q, SetsFor(cookies, l), {<<route, target>>}, l)
                       \/ Served(q, Cleared, {}, None)      \* the second verification failed
                  ELSE Served(q, SetsFor(cookies, l), {}, None)
     /\ UNCHANGED <<role, jar, cognito, loggedOut>>

Targets(route) == IF route = <<"POST", "users">> THEN Roles ELSE {"viewer"}

Serve(q) ==
  \/ \E l \in Logins : ServeLogin(q, l)
  \/ ServeCallback(q) \/ ServeRefresh(q) \/ ServeSession(q) \/ ServeLogout(q) \/ ServePage(q)
  \/ \E route \in Asked : \E target \in Targets(route) : ServeBff(q, route, target)

(* A request that cannot be served (no sign-in left to start) is given up. *)
GiveUp(q) ==
  /\ slot[q].kind = "login" /\ started = Logins /\ slot' = [slot EXCEPT ![q] = Idle]
  /\ UNCHANGED <<role, jar, cognito, loggedOut>>

Next ==
  \/ CookieExpires
  \/ \E q \in Slots :
       \/ Arrive(q) \/ Serve(q) \/ GiveUp(q)
       \/ \E k \in Kinds : Send(q, k)
       \/ \E l \in Logins : Callback(q, l)

Spec == Init /\ [][Next]_vars

(* Requests are served and answered, and cookies expire. *)
FairSpec ==
  /\ Spec /\ WF_vars(CookieExpires)
  /\ \A q \in Slots : WF_vars(Serve(q)) /\ WF_vars(Arrive(q))
-----------------------------------------------------------------------------
TypeOK ==
  /\ role \in [Logins -> Roles]
  /\ jar \in [{"flow", "access", "refresh"} -> Logins \cup {None}]
  /\ started \subseteq Logins /\ codes \subseteq started /\ live \subseteq started
  /\ short \subseteq started /\ loggedOut \subseteq started

(* The cookies the jar holds are of one sign-in: no order in which the     *)
(* responses of overlapping refreshes, sign-ins and logouts arrive leaves  *)
(* one user's access token beside another's refresh token, except when     *)
(* Cognito gave the sign-in no refresh token: setStoredSession then leaves *)
(* the cookie of an earlier one in place.                                  *)
CookiesOfOneLogin ==
  jar.access # None /\ jar.refresh # None => jar.access = jar.refresh \/ jar.access \in short

(* What changes something, and what names users or settings. *)
ForAdmin(route) ==
  route[1] \notin {"GET", "HEAD"} \/ route \in {<<"GET", "users">>, <<"GET", "settings">>}

(* What the backend is asked for was permitted to the role of a sign-in    *)
(* that Cognito confirmed: only administrators change anything or are      *)
(* given users and settings, nobody below an auditor is given the audit    *)
(* log, and no role creates one above itself.  HEAD requests are outside   *)
(* it: authorizeRoute has no entry for them and lets every role through,   *)
(* the backend is asked for the data, and the answer has no body.          *)
OnlyPermitted ==
  \A q \in Slots : \A x \in slot[q].ops :
    LET route == x[1]  r == role[slot[q].by]
    IN /\ slot[q].by \in started
       /\ ForAdmin(route) => r \in Admin
       /\ route = <<"GET", "audit">> => isAtLeast(r, "auditor")
       /\ route = <<"POST", "users">> => isAtLeast(r, x[2])

(* Once a logout has revoked a sign-in, the browser loses it for good: a   *)
(* response on its way may bring the cookies back, but not for longer than *)
(* the access cookie lives.                                                *)
LogoutSticks == \A l \in Logins : l \in loggedOut ~> [](jar.access # l)
================================================================================
