------------------------------- MODULE MCBox --------------------------------
(* TLC instances of BoxStore: two keys that share their outer folder, as all *)
(* sha256/<h[:2]>/<hash> keys do.                                            *)
EXTENDS BoxStore, TLC

CONSTANTS w1, w2, p1, p2, k1, k2, x, y

MCFolder == [i \in Key |-> IF i = k1 THEN <<"sha256", "ab">> ELSE <<"sha256", "cd">>]

\* One key inside a folder that also holds the other key's file.
MCNested == [i \in Key |-> IF i = k1 THEN <<"sha256", "ab">> ELSE <<"sha256">>]

\* Keys may differ in their folders alone.
MCName == [i \in Key |-> "01"]

MCSpell == ("sha256" :> <<"s">>) @@ ("ab" :> <<"a", "b">>) @@ ("cd" :> <<"c", "d">>)
             @@ ("01" :> <<"0">>)

\* All keys, those below a folder that is cut off in its name, and one key.
MCSought == {<<>>, <<"s", "/", "a">>, <<"s", "/", "0">>}
MCNoList == {}

MCOneProcess == [w \in Worker |-> p1]

MCTwoProcesses == (w1 :> p1) @@ (w2 :> p2)

MCReads(keys) == [op : {"get", "exists"}, key : keys, raw : {None}]

MCDeletes(keys) == [op : {"delete"}, key : keys, raw : {None}]

MCPuts(keys, raws) == [op : {"put"}, key : keys, raw : raws]

\* Everything one thread can ask.
MCAll == [w \in Worker |-> MCReads(Key) \cup MCDeletes(Key) \cup MCPuts(Key, Raw)]

\* A second thread lists meanwhile.
MCAllAndList ==
  [w \in Worker |-> IF w = w1 THEN MCAll[w]
                    ELSE [op : {"list"}, key : Sought, raw : {None}]]

\* What OffloadingBackend asks of a store: one content per key, no deletes.
MCOffloading ==
  [w \in Worker |-> MCReads({k1}) \cup MCPuts({k1}, {x}) \cup MCPuts({k2}, {y})]

\* The calls by which OffloadingBackend skips uploads, and a sweeper.
MCExistsWithSweeper ==
  [w \in Worker |-> IF w = w2 THEN MCDeletes({k1})
                    ELSE [op : {"exists"}, key : {k1}, raw : {None}] \cup MCPuts({k1}, {x})]

MCNoFaults == {}
MCFaults == {"before", "after"}
=============================================================================
