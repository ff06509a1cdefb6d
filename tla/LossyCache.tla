----------------------------- MODULE LossyCache -----------------------------
(***************************************************************************)
(* What a byte cache promises its caller: a lookup returns nothing, or the *)
(* bytes last stored under that hash.  It may forget any entry whenever it *)
(* stores one or in between.  ByteCache implements this specification, and *)
(* OffloadingBackend relies on nothing more.                               *)
(***************************************************************************)
CONSTANTS
  Hash,   \* the sha256 digests that serve as cache keys
  Raw,    \* the byte strings that can be cached
  None    \* no entry

VARIABLES
  held,    \* held[h]: the bytes a lookup of h returns, or None
  latest   \* latest[h]: the bytes last stored under h

Cache == [Hash -> Raw \cup {None}]

\* A cache that has forgotten the hashes in lost.
Forget(c, lost) == [h \in Hash |-> IF h \in lost THEN None ELSE c[h]]

\* The caches that storing raw under h can leave behind.
AfterPut(c, h, raw) ==
  {Forget([c EXCEPT ![h] = raw], lost) : lost \in SUBSET Hash}

Init ==
  /\ held = [h \in Hash |-> None]
  /\ latest = [h \in Hash |-> None]

Put(h, raw) ==
  /\ held' \in AfterPut(held, h, raw)
  /\ latest' = [latest EXCEPT ![h] = raw]

Lose(lost) ==
  /\ held' = Forget(held, lost)
  /\ UNCHANGED latest

Next ==
  \/ \E h \in Hash, raw \in Raw : Put(h, raw)
  \/ \E lost \in SUBSET Hash : Lose(lost)

vars == <<held, latest>>

Spec == Init /\ [][Next]_vars

=============================================================================
