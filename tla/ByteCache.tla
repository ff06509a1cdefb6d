----------------------------- MODULE ByteCache ------------------------------
(***************************************************************************)
(* _ByteCache, the LRU of OffloadingBackend that is keyed by sha256 and    *)
(* bounded by total bytes, used by one caller at a time.  The while loop   *)
(* of put is one action per iteration, so that every intermediate value of *)
(* the byte counter is a state.                                            *)
(***************************************************************************)
EXTENDS Naturals, Sequences, FiniteSets

CONSTANTS
  Hash,      \* the sha256 digests
  Raw,       \* the byte strings
  Size,      \* Size[raw] = len(raw)
  MaxBytes,  \* the max_bytes of __init__
  Puts,      \* the pairs <<hash, bytes>> that callers hand to put
  None

ASSUME CacheAssumption ==
  /\ IsFiniteSet(Hash)
  /\ Size \in [Raw -> Nat]
  /\ MaxBytes \in Nat
  /\ Puts \subseteq Hash \X Raw
  /\ None \notin Raw

VARIABLES
  data,    \* _data as a mapping: data[h] is the bytes, or None
  order,   \* _data as an order: its keys, the least recently used first
  used,    \* _used
  pc,      \* "idle", or "evict" inside the while loop of put
  latest,  \* history: the bytes last accepted by put for each hash
  older,   \* history: the pairs <<g, h>> where g was not used since h was
  reput    \* history: TRUE once put was called for a resident hash

vars == <<data, order, used, pc, latest, older, reput>>

\* The hashes that have an entry.
Resident == {h \in Hash : data[h] # None}

\* The bytes in a mapping d, one element for each byte of each entry.
BytesIn(d) ==
  {b \in Hash \X (1 .. MaxBytes) : /\ d[b[1]] # None
                                   /\ b[2] <= Size[d[b[1]]]}

TotalBytes == Cardinality(BytesIn(data))

\* OrderedDict.move_to_end of the key at index i.
MoveToEnd(s, i) ==
  [j \in 1 .. Len(s) |-> CASE j < i      -> s[j]
                           [] j = Len(s) -> s[i]
                           [] OTHER      -> s[j + 1]]

\* The usage history after one more use of h.
Used(h) == {p \in older : p[1] # h} \cup {<<g, h>> : g \in Hash \ {h}}

Init ==
  /\ data = [h \in Hash |-> None]
  /\ order = <<>>
  /\ used = 0
  /\ pc = "idle"
  /\ latest = [h \in Hash |-> None]
  /\ older = {}
  /\ reput = FALSE

Get_NoMove(h) ==
  /\ pc = "idle"
  /\ data[h] # None
  /\ older' = Used(h)
  /\ UNCHANGED <<data, order, used, pc, latest, reput>>

\* get of a resident hash.  A miss returns None and changes nothing.
Get(h) ==
  /\ pc = "idle"
  /\ data[h] # None
  /\ \E i \in DOMAIN order : order[i] = h /\ order' = MoveToEnd(order, i)
  /\ older' = Used(h)
  /\ UNCHANGED <<data, used, pc, latest, reput>>

\* The while loop runs exactly as long as the counter exceeds the budget.
LoopTest(total) == IF total > MaxBytes THEN "evict" ELSE "idle"

Put_SetDefault(h, raw) ==
  /\ pc = "idle"
  /\ Size[raw] <= MaxBytes
  /\ data' = IF data[h] = None THEN [data EXCEPT ![h] = raw] ELSE data
  /\ order' = IF data[h] = None THEN Append(order, h) ELSE order
  /\ used' = used + Size[raw]
  /\ pc' = LoopTest(used')
  /\ latest' = [latest EXCEPT ![h] = raw]
  /\ older' = Used(h)
  /\ reput' = (reput \/ data[h] # None)

Put_CountedTwice(h, raw) ==
  /\ pc = "idle"
  /\ Size[raw] <= MaxBytes
  /\ data' = [data EXCEPT ![h] = raw]
  /\ order' = IF data[h] = None THEN Append(order, h) ELSE order
  /\ used' = used + 2 * Size[raw]
  /\ pc' = LoopTest(used')
  /\ latest' = [latest EXCEPT ![h] = raw]
  /\ older' = Used(h)
  /\ reput' = (reput \/ data[h] # None)

\* put up to the first test of its loop.  Bytes above the whole budget are
\* refused by the early return.  Assigning to a key that is present keeps its
\* place in the order, and its length is added to the counter once more.
Put(h, raw) ==
  /\ pc = "idle"
  /\ Size[raw] <= MaxBytes
  /\ data' = [data EXCEPT ![h] = raw]
  /\ order' = IF data[h] = None THEN Append(order, h) ELSE order
  /\ used' = used + Size[raw]
  /\ pc' = LoopTest(used')
  /\ latest' = [latest EXCEPT ![h] = raw]
  /\ older' = Used(h)
  /\ reput' = (reput \/ data[h] # None)

Evict_Once ==
  /\ pc = "evict"
  /\ order # <<>>
  /\ LET victim == Head(order) IN
       /\ data' = [data EXCEPT ![victim] = None]
       /\ order' = Tail(order)
       /\ used' = used - Size[data[victim]]
       /\ pc' = "idle"
  /\ UNCHANGED <<latest, older, reput>>

Evict_DoubleCredit ==
  /\ pc = "evict"
  /\ order # <<>>
  /\ LET victim == Head(order) IN
       /\ data' = [data EXCEPT ![victim] = None]
       /\ order' = Tail(order)
       /\ used' = used - 2 * Size[data[victim]]
       /\ pc' = LoopTest(used')
  /\ UNCHANGED <<latest, older, reput>>

Evict_NoCredit ==
  /\ pc = "evict"
  /\ order # <<>>
  /\ LET victim == Head(order) IN
       /\ data' = [data EXCEPT ![victim] = None]
       /\ order' = Tail(order)
       /\ used' = used
       /\ pc' = LoopTest(used')
  /\ UNCHANGED <<latest, older, reput>>

\* One iteration of the loop: popitem(last=False) and the subtraction.  On an
\* empty OrderedDict popitem raises; EvictFindsEntry says that cannot happen.
Evict ==
  /\ pc = "evict"
  /\ order # <<>>
  /\ LET victim == Head(order) IN
       /\ data' = [data EXCEPT ![victim] = None]
       /\ order' = Tail(order)
       /\ used' = used - Size[data[victim]]
       /\ pc' = LoopTest(used')
  /\ UNCHANGED <<latest, older, reput>>

\* _fetch calls put only after a miss of get; _offload calls it always.
Next ==
  \/ \E h \in Hash : Get(h)
  \/ \E p \in Puts : Put(p[1], p[2])
  \/ Evict

Spec == Init /\ [][Next]_vars

FairSpec == Spec /\ WF_vars(Evict)

-----------------------------------------------------------------------------
(* Correctness *)

TypeOK ==
  /\ data \in [Hash -> Raw \cup {None}]
  /\ order \in Seq(Hash)
  /\ used \in Nat
  /\ pc \in {"idle", "evict"}
  /\ latest \in [Hash -> Raw \cup {None}]
  /\ reput \in BOOLEAN

\* The order lists the resident hashes, each once.
OrderListsResident ==
  /\ {order[i] : i \in DOMAIN order} = Resident
  /\ \A i, j \in DOMAIN order : order[i] = order[j] => i = j

\* The loop of put never reaches popitem on an empty dict (which would raise
\* KeyError out of a write or a read), although the counter may exceed the
\* bytes really held.
EvictFindsEntry == pc = "evict" => order # <<>>

\* "bounded by total bytes": between calls the entries fit in max_bytes.
BoundedBytes == pc = "idle" => TotalBytes <= MaxBytes

\* The counter is never below the bytes held, and what it exceeds them by is
\* itself within the budget: why the loop of put ends before the dict is empty.
CounterCoversBytes ==
  /\ TotalBytes <= used
  /\ used - TotalBytes <= MaxBytes
  /\ pc = LoopTest(used)

\* No entry is longer than the whole budget.
EntriesFit == \A h \in Hash : data[h] # None => Size[data[h]] <= MaxBytes

\* What an entry holds is what was last stored under its hash.
HeldIsLatest == \A h \in Hash : data[h] \in {None, latest[h]}

\* The inductive invariant of the proofs.
IInv ==
  TypeOK /\ OrderListsResident /\ EntriesFit /\ HeldIsLatest /\ CounterCoversBytes

\* As long as put follows only a miss, as in _fetch, _used is the number of
\* bytes held and the budget is the real one.  _offload, which stores what may
\* be resident, ends that for good.
CounterExact == ~reput => used = TotalBytes

\* Until then the eviction order is the order of last use, a put being a use.
LruOrder ==
  ~reput => \A i, j \in DOMAIN order : i < j => <<order[i], order[j]>> \in older

\* And until then an entry leaves only while the entries exceed max_bytes.
EvictOnlyOverBudget ==
  [][\A h \in Hash : ~reput /\ data[h] # None /\ data'[h] = None
                       => TotalBytes > MaxBytes]_vars

\* A call of put that started to evict ends.
EvictionEnds == pc = "evict" ~> pc = "idle"

\* The cache as its callers see it.
Lossy == INSTANCE LossyCache WITH held <- data

\* A lookup returns nothing or the bytes last accepted for that hash, and an
\* entry that was dropped does not come back by itself.
ImplementsLossyCache == Lossy!Spec

=============================================================================
