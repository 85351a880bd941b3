--------------------------- MODULE MCClaimRewrites ---------------------------
(* One claim process and one rewriter: two claims that do not overlap.     *)
EXTENDS ClaimRewrites

Scope(paths) == [routes |-> {}, paths |-> paths, resources |-> {}]
Left == Scope({<<"a">>})
Right == Scope({<<"b">>})
MCScopes == {Left, Right}
MCPaths == {<<"a">>, <<"b">>}

Request(action, id, scope) ==
  [action |-> action, id |-> id, kind |-> "write", scope |-> scope,
   ttl |-> 0, at |-> 0]

MCRequests ==
  {Request("create", "a", Left), Request("create", "b", Right),
   Request("release", "a", Left)}
=============================================================================
