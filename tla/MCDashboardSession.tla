-------------------------- MODULE MCDashboardSession --------------------------
(* Two sign-ins and two requests at a time; between them the sign-ins have  *)
(* every role.  Of the routes that authorizeRoute treats alike one is asked *)
(* for.                                                                     *)
EXTENDS DashboardSession
CONSTANTS l1, l2
Pair(r, s) == [l \in {l1, l2} |-> IF l = l1 THEN r ELSE s]
RolesTried == {Pair("super_admin", "auditor"), Pair("viewer", "org_admin")}
RoutesTried ==
  {x \in Routes : x[1] = "GET" => x[2] \in {"device-events", "violations", "audit", "users", "settings"}}
    \ ({"HEAD"} \X (Resources \ {"audit", "settings"}))
================================================================================
