-------------------------------- MODULE MCS3 --------------------------------
(* TLC instance of S3Store: two tenants that use the same keys.              *)
EXTENDS S3Store, TLC

CONSTANTS c1, c2, c3, ta, tb, x, y

MCPrefix == (ta :> <<"s", "/">>) @@ (tb :> <<"t", "/">>)

MCKey == {<<"a", "b">>, <<"a", "c">>}

\* All keys, and one.
MCSought == {<<>>, <<"a", "c">>}

\* Two clients of one tenant, one of the other.
MCOf == (c1 :> ta) @@ (c2 :> ta) @@ (c3 :> tb)

\* The last two are the names of the keys without a prefix.
MCOrder == << <<"s", "/", "a", "b">>, <<"s", "/", "a", "c">>,
              <<"t", "/", "a", "b">>, <<"t", "/", "a", "c">>,
              <<"a", "b">>, <<"a", "c">> >>

MCPuts(keys, raws) == [op : {"put"}, key : keys, raw : raws]
MCCalls(ops, keys) == [op : ops, key : keys, raw : {None}]

\* One client makes every call, the second and the other tenant get in its way.
MCRequests ==
  (c1 :> MCPuts(Key, Raw) \cup MCCalls({"get", "exists", "delete"}, Key)
           \cup MCCalls({"list"}, Sought))
    @@ (c2 :> MCPuts(Key, {y}) \cup MCCalls({"delete"}, Key))
    @@ (c3 :> MCPuts({<<"a", "b">>}, {x}) \cup MCCalls({"list"}, {<<>>}))

MCFaults == {"before", "after"}
=============================================================================
