---------------------------- MODULE MCWorkClaims ----------------------------
(* Two processes and two claims: one on src, the other on a path below it, *)
(* or as a reader of the same path.  A lease granted until 1 is stale at   *)
(* 2, before the clock stops.                                              *)
EXTENDS WorkClaims

Scope(routes, paths, resources) ==
  [routes |-> routes, paths |-> paths, resources |-> resources]

All == Scope({}, {<<"src">>}, {})
Part == Scope({}, {<<"src", "a">>}, {"port"})
MCScopes == {All, Part}

Request(action, id, kind, scope, ttl, at) ==
  [action |-> action, id |-> id, kind |-> kind, scope |-> scope,
   ttl |-> ttl, at |-> at]

MCRequests ==
  {Request("create", "a", "write", All, 0, 1),
   Request("create", "b", "path", Part, 0, 0),
   Request("create", "b", "read", All, 0, 0),
   Request("extend", "a", "write", All, 1, 0),
   Request("release", "a", "write", All, 0, 0)}
=============================================================================
