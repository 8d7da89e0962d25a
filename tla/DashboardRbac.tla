---------------------------- MODULE DashboardRbac ----------------------------
(***************************************************************************)
(* What each role of the dashboard may do: the table of the BFF's routes   *)
(* and authorizeRoute, canPerformAction and canCreateUser behind it, the   *)
(* pages and the sidebar.                                                  *)
(***************************************************************************)
EXTENDS Naturals

Roles == {"super_admin", "org_admin", "auditor", "viewer"}
Admin == {"super_admin", "org_admin"}

getRoleLevel(role) ==
  CASE role = "super_admin" -> 100 [] role = "org_admin" -> 80
    [] role = "auditor" -> 50 [] OTHER -> 20

isAtLeast(role, required) == getRoleLevel(role) >= getRoleLevel(required)

(* ALLOWED_CREATION_TARGETS *)
canCreateUser(caller, target) ==
  \/ caller = "super_admin"
  \/ caller = "org_admin" /\ target \in {"auditor", "viewer"}

canPerformAction(role, action) ==
  CASE action \in {"create:policy", "update:policy", "delete:policy", "publish:policy",
                   "create:exception", "approve:exception", "deactivate:device",
                   "manage:settings", "manage:enrollment"} -> role \in Admin
    [] action = "create:super_admin" -> role = "super_admin"
    [] action \in {"view:audit", "export:audit"} -> role \in Admin \cup {"auditor"}
    [] action = "view:violations" -> TRUE
    [] OTHER -> FALSE
-----------------------------------------------------------------------------
(* The handlers the BFF exports, and the HEAD handlers that Next derives   *)
(* from the GET ones: the same code, its answer sent without the body.     *)
Resources ==
  {"dashboard", "devices", "device-inventory", "device-events", "violations", "policies",
   "exceptions", "audit", "users", "settings"}

Routes ==
  ({"GET", "HEAD"} \X Resources)
  \cup {<<"DELETE", "devices">>, <<"POST", "exceptions">>, <<"REVIEW", "exceptions">>,
        <<"POST", "users">>, <<"DELETE", "users">>, <<"PATCH", "settings">>}

(* ROUTE_PERMISSIONS.  The two device subresources match no entry, and no  *)
(* entry has the method HEAD.                                              *)
Unmapped ==
  {<<"GET", "device-inventory">>, <<"GET", "device-events">>} \cup ({"HEAD"} \X Resources)

PermissionOf(route) ==
  CASE route \in {<<"GET", "users">>, <<"POST", "users">>} -> "users"
    [] route = <<"DELETE", "users">> \/ route[2] = "settings" -> "settings"
    [] route = <<"GET", "audit">> -> "audit"
    [] route[1] = "GET" /\ route[2] \notin {"users", "settings", "audit"} -> "read"
    [] OTHER -> "write"

ActionOf(route) ==
  CASE route = <<"DELETE", "devices">> -> "deactivate:device"
    [] route = <<"GET", "violations">> -> "view:violations"
    [] route = <<"POST", "exceptions">> -> "create:exception"
    [] route = <<"REVIEW", "exceptions">> -> "approve:exception"
    [] route = <<"GET", "audit">> -> "view:audit"
    [] route \in {<<"DELETE", "users">>, <<"PATCH", "settings">>} -> "manage:settings"
    [] OTHER -> "none"

(* Faulty variant: the auditor's clause is missing. *)
authorizeRouteAuditor(role, route) ==
  \/ route \in Unmapped
  \/ role = "super_admin"
  \/ /\ ActionOf(route) # "none" => canPerformAction(role, ActionOf(route))
     /\ role = "viewer" => PermissionOf(route) = "read"

authorizeRoute(role, route) ==
  \/ route \in Unmapped
  \/ role = "super_admin"
  \/ /\ ActionOf(route) # "none" => canPerformAction(role, ActionOf(route))
     /\ role = "viewer" => PermissionOf(route) = "read"
     /\ role = "auditor" => PermissionOf(route) \in {"read", "audit"}
-----------------------------------------------------------------------------
Pages == {"/dashboard", "/devices", "/policies", "/violations", "/exceptions", "/audit", "/settings"}

(* PAGE_ACCESS *)
canViewPage(role, page) ==
  CASE page \in {"/dashboard", "/devices", "/violations"} -> TRUE
    [] page \in {"/policies", "/exceptions", "/audit"} -> role # "viewer"
    [] OTHER -> role \in Admin

getSidebarItems(role) ==
  {"/dashboard", "/devices", "/violations"}
  \cup (IF role # "viewer" THEN {"/policies", "/exceptions"} ELSE {})
  \cup (IF role \in Admin \cup {"auditor"} THEN {"/audit"} ELSE {})
  \cup (IF role \in Admin THEN {"/settings"} ELSE {})

(* The list each page of the sidebar loads when it opens. *)
PageLoads(page) ==
  <<"GET", CASE page = "/dashboard" -> "dashboard" [] page = "/devices" -> "devices"
             [] page = "/policies" -> "policies" [] page = "/violations" -> "violations"
             [] page = "/exceptions" -> "exceptions" [] page = "/audit" -> "audit"
             [] OTHER -> "settings">>
================================================================================
