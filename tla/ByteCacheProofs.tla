-------------------------- MODULE ByteCacheProofs ---------------------------
(***************************************************************************)
(* The byte budget of ByteCache holds for every max_bytes, every set of    *)
(* hashes and every sequence of calls.  IInv is inductive: the counter may *)
(* drift above the bytes held, but never by more than max_bytes, so the    *)
(* loop of put always stops before the dict is empty.                      *)
(***************************************************************************)
EXTENDS ByteCache, FiniteSetTheorems, SequenceTheorems, TLAPS

Mapping == [Hash -> Raw \cup {None}]

-----------------------------------------------------------------------------
(* Counting bytes *)

(* The bytes of one entry, as they occur in BytesIn. *)
BytesOf(h, n) == {h} \X (1 .. n)

(* A byte string of length n contributes n bytes. *)
LEMMA BytesOfCardinality ==
  ASSUME NEW h, NEW n \in Nat
  PROVE  /\ IsFiniteSet(BytesOf(h, n))
         /\ Cardinality(BytesOf(h, n)) = n
<1>1. IsFiniteSet({h}) /\ Cardinality({h}) = 1
  BY FS_Singleton
<1>2. IsFiniteSet(1 .. n) /\ Cardinality(1 .. n) = n
  BY FS_Interval
<1>3. /\ IsFiniteSet({h} \X (1 .. n))
      /\ Cardinality({h} \X (1 .. n)) = 1 * n
  BY <1>1, <1>2, FS_Product
<1>4. QED
  BY <1>3 DEF BytesOf

(* The bytes in a mapping are finitely many. *)
LEMMA BytesInFinite ==
  ASSUME NEW d
  PROVE  IsFiniteSet(BytesIn(d)) /\ Cardinality(BytesIn(d)) \in Nat
<1>1. IsFiniteSet(Hash) /\ MaxBytes \in Nat
  BY CacheAssumption
<1>2. IsFiniteSet(1 .. MaxBytes)
  BY <1>1, FS_Interval
<1>3. IsFiniteSet(Hash \X (1 .. MaxBytes))
  BY <1>1, <1>2, FS_Product
<1>4. BytesIn(d) \in SUBSET (Hash \X (1 .. MaxBytes))
  BY DEF BytesIn
<1>5. IsFiniteSet(BytesIn(d))
  BY <1>3, <1>4, FS_Subset
<1>6. QED
  BY <1>5, FS_CardinalityType

(* An empty mapping holds no byte. *)
LEMMA NoEntryNoByte ==
  ASSUME NEW d, \A h \in Hash : d[h] = None
  PROVE  Cardinality(BytesIn(d)) = 0
<1>1. BytesIn(d) = {}
  BY DEF BytesIn
<1>2. QED
  BY <1>1, FS_EmptySet

(* Storing an entry that fits under a free hash adds exactly its bytes. *)
LEMMA AddEntry ==
  ASSUME NEW d \in Mapping, NEW h \in Hash, d[h] = None,
         NEW raw \in Raw, Size[raw] <= MaxBytes
  PROVE  Cardinality(BytesIn([d EXCEPT ![h] = raw]))
           = Cardinality(BytesIn(d)) + Size[raw]
<1> DEFINE new == BytesOf(h, Size[raw])
           old == BytesIn(d)
<1>1. Size[raw] \in Nat /\ MaxBytes \in Nat /\ raw # None
  BY CacheAssumption
<1>2. IsFiniteSet(new) /\ Cardinality(new) = Size[raw]
  BY <1>1, BytesOfCardinality
<1>3. BytesIn([d EXCEPT ![h] = raw]) = old \cup new
  BY <1>1 DEF BytesIn, BytesOf, Mapping
<1>4. old \cap new = {}
  BY DEF BytesIn, BytesOf
<1>5. IsFiniteSet(old) /\ Cardinality(old) \in Nat
  BY BytesInFinite
<1>6. Cardinality(old \cup new)
        = Cardinality(old) + Cardinality(new) - Cardinality(old \cap new)
  BY <1>2, <1>5, FS_Union
<1>7. Cardinality(old \cap new) = 0
  BY <1>4, FS_EmptySet
<1>8. Cardinality(old \cup new) = Cardinality(old) + Size[raw]
  <2> HIDE DEF new, old
  <2>1. QED
    BY <1>1, <1>2, <1>5, <1>6, <1>7
<1>9. QED
  BY <1>3, <1>8

(* Dropping an entry that fits removes exactly its bytes. *)
LEMMA DropEntry ==
  ASSUME NEW d \in Mapping, NEW h \in Hash, d[h] # None, Size[d[h]] <= MaxBytes
  PROVE  /\ [d EXCEPT ![h] = None] \in Mapping
         /\ Cardinality(BytesIn(d))
              = Cardinality(BytesIn([d EXCEPT ![h] = None])) + Size[d[h]]
<1> DEFINE e == [d EXCEPT ![h] = None]
<1>1. e \in Mapping /\ e[h] = None /\ d[h] \in Raw
  BY DEF Mapping
<1>2. [e EXCEPT ![h] = d[h]] = d
  BY DEF Mapping
<1>3. Cardinality(BytesIn([e EXCEPT ![h] = d[h]]))
        = Cardinality(BytesIn(e)) + Size[d[h]]
  <2> HIDE DEF e
  <2>1. QED
    BY <1>1, AddEntry
<1>4. QED
  BY <1>1, <1>2, <1>3

-----------------------------------------------------------------------------
(* The order of the dict *)

(* Moving a key to the end keeps the keys, each once. *)
LEMMA MoveToEndKeeps ==
  ASSUME NEW s \in Seq(Hash), NEW i \in DOMAIN s,
         \A j, k \in DOMAIN s : s[j] = s[k] => j = k
  PROVE  /\ MoveToEnd(s, i) \in Seq(Hash)
         /\ DOMAIN MoveToEnd(s, i) = DOMAIN s
         /\ {MoveToEnd(s, i)[j] : j \in DOMAIN s} = {s[j] : j \in DOMAIN s}
         /\ \A j, k \in DOMAIN s : MoveToEnd(s, i)[j] = MoveToEnd(s, i)[k] => j = k
<1> DEFINE n == Len(s)
           m == MoveToEnd(s, i)
           from(x) == IF x < i THEN x ELSE IF x = n THEN i ELSE x + 1
<1>1. n \in Nat /\ DOMAIN s = 1 .. n /\ s \in [1 .. n -> Hash]
  BY LenProperties
<1>2. i \in 1 .. n
  BY <1>1
<1>3. m = [j \in 1 .. n |-> CASE j < i -> s[j]
                              [] j = n -> s[i]
                              [] OTHER -> s[j + 1]]
  BY DEF MoveToEnd
<1> HIDE DEF n, m
<1>4. ASSUME NEW j \in 1 .. n
      PROVE  from(j) \in 1 .. n /\ m[j] = s[from(j)]
  <2>1. CASE j < i
    BY <1>1, <1>2, <1>3, <2>1
  <2>2. CASE j >= i /\ j = n
    BY <1>1, <1>2, <1>3, <2>2
  <2>3. CASE j >= i /\ j # n
    BY <1>1, <1>2, <1>3, <2>3
  <2>4. QED
    BY <1>1, <1>2, <2>1, <2>2, <2>3
<1>5. DOMAIN m = 1 .. n /\ \A j \in 1 .. n : m[j] \in Hash
  BY <1>1, <1>3, <1>4
<1>6. m \in Seq(Hash)
  <2>1. m \in [1 .. n -> Hash]
    BY <1>3, <1>5
  <2>2. QED
    BY <1>1, <2>1, SeqDef
<1>7. ASSUME NEW k \in 1 .. n
      PROVE  \E j \in 1 .. n : from(j) = k
  <2> DEFINE j == IF k < i THEN k ELSE IF k = i THEN n ELSE k - 1
  <2>1. j \in 1 .. n /\ from(j) = k
    BY <1>1, <1>2
  <2>2. QED
    BY <2>1
<1>8. ASSUME NEW j \in 1 .. n, NEW k \in 1 .. n, from(j) = from(k)
      PROVE  j = k
  BY <1>1, <1>2, <1>8
<1> HIDE DEF from
<1>9. {m[j] : j \in 1 .. n} = {s[j] : j \in 1 .. n}
  <2>1. ASSUME NEW x \in {m[j] : j \in 1 .. n}
        PROVE  x \in {s[j] : j \in 1 .. n}
    BY <1>4
  <2>2. ASSUME NEW x \in {s[j] : j \in 1 .. n}
        PROVE  x \in {m[j] : j \in 1 .. n}
    <3>1. PICK k \in 1 .. n : x = s[k]
      OBVIOUS
    <3>2. PICK j \in 1 .. n : from(j) = k
      BY <1>7
    <3>3. x = m[j]
      BY <1>4, <3>1, <3>2
    <3>4. QED
      BY <3>3
  <2>3. QED
    BY <2>1, <2>2
<1>10. ASSUME NEW j \in 1 .. n, NEW k \in 1 .. n, m[j] = m[k]
       PROVE  j = k
  BY <1>1, <1>4, <1>8, <1>10
<1>11. QED
  BY <1>1, <1>5, <1>6, <1>9, <1>10 DEF m

(* Where the key at place x lay before the one at place i moved to the end. *)
Before(i, x) == IF x < i THEN x ELSE x + 1

(* Moving a key to the end keeps the order of the others: the end holds the key
   that moved, and the places before it hold the others, in the order they had. *)
LEMMA MoveToEndOrder ==
  ASSUME NEW s \in Seq(Hash), NEW i \in 1 .. Len(s), NEW x \in 1 .. Len(s)
  PROVE  IF x = Len(s)
         THEN MoveToEnd(s, i)[x] = s[i]
         ELSE /\ Before(i, x) \in 1 .. Len(s) /\ Before(i, x) # i
              /\ MoveToEnd(s, i)[x] = s[Before(i, x)]
<1> DEFINE n == Len(s)
           m == MoveToEnd(s, i)
<1>1. n \in Nat /\ DOMAIN s = 1 .. n
  BY LenProperties
<1>2. i \in 1 .. n /\ x \in 1 .. n
  BY <1>1
<1>3. m = [y \in 1 .. n |-> CASE y < i -> s[y]
                              [] y = n -> s[i]
                              [] OTHER -> s[y + 1]]
  BY DEF MoveToEnd
<1> HIDE DEF n, m
<1>4. CASE x = n
  <2>1. m[x] = s[i]
    BY <1>1, <1>2, <1>3, <1>4
  <2>2. QED
    BY <1>4, <2>1 DEF n, m
<1>5. CASE x # n
  <2>1. /\ Before(i, x) \in 1 .. n /\ Before(i, x) # i
        /\ m[x] = s[Before(i, x)]
    <3>1. CASE x < i
      BY <1>1, <1>2, <1>3, <1>5, <3>1 DEF Before
    <3>2. CASE ~ x < i
      BY <1>1, <1>2, <1>3, <1>5, <3>2 DEF Before
    <3>3. QED
      BY <3>1, <3>2
  <2>2. QED
    BY <1>5, <2>1 DEF n, m
<1>6. QED
  BY <1>4, <1>5

-----------------------------------------------------------------------------
(* The inductive invariant *)

(* The invariant holds at the start. *)
LEMMA InitIInv == Init => IInv
<1> SUFFICES ASSUME Init PROVE IInv
  OBVIOUS
<1>1. TotalBytes = 0
  BY NoEntryNoByte DEF Init, TotalBytes
<1>2. TypeOK /\ OrderListsResident /\ EntriesFit /\ HeldIsLatest
  <2>1. reput \in BOOLEAN
    BY DEF Init
  <2>2. OrderListsResident /\ EntriesFit /\ HeldIsLatest
    BY EmptySeq DEF Init, OrderListsResident, Resident, EntriesFit, HeldIsLatest
  <2>3. TypeOK
    BY <2>1, EmptySeq DEF Init, TypeOK
  <2>4. QED
    BY <2>2, <2>3
<1>3. CounterCoversBytes
  BY <1>1, CacheAssumption DEF Init, CounterCoversBytes, LoopTest
<1>4. QED
  BY <1>2, <1>3 DEF IInv

(* A lookup only reorders. *)
LEMMA GetKeepsIInv ==
  ASSUME IInv, NEW h \in Hash, Get(h)
  PROVE  IInv'
<1>1. PICK i \in DOMAIN order : order[i] = h /\ order' = MoveToEnd(order, i)
  BY DEF Get
<1>2. order \in Seq(Hash) /\ \A j, k \in DOMAIN order : order[j] = order[k] => j = k
  BY DEF IInv, TypeOK, OrderListsResident
<1>3. /\ order' \in Seq(Hash)
      /\ DOMAIN order' = DOMAIN order
      /\ {order'[j] : j \in DOMAIN order} = {order[j] : j \in DOMAIN order}
      /\ \A j, k \in DOMAIN order : order'[j] = order'[k] => j = k
  <2> DEFINE m == MoveToEnd(order, i)
  <2>1. /\ m \in Seq(Hash)
        /\ DOMAIN m = DOMAIN order
        /\ {m[j] : j \in DOMAIN order} = {order[j] : j \in DOMAIN order}
        /\ \A j, k \in DOMAIN order : m[j] = m[k] => j = k
    BY <1>2, MoveToEndKeeps
  <2>2. order' = m
    BY <1>1
  <2> HIDE DEF m
  <2>3. QED
    BY <2>1, <2>2
<1>4. UNCHANGED <<data, used, pc, latest>>
  BY DEF Get
<1>5. OrderListsResident'
  BY <1>3, <1>4 DEF IInv, OrderListsResident, Resident
<1>6. TypeOK' /\ EntriesFit' /\ HeldIsLatest'
  BY <1>3, <1>4 DEF Get, IInv, TypeOK, EntriesFit, HeldIsLatest
<1>7. CounterCoversBytes'
  BY <1>4 DEF IInv, CounterCoversBytes, TotalBytes, BytesIn
<1>8. QED
  BY <1>5, <1>6, <1>7 DEF IInv

(* What a put does to the bytes held: a first put adds its own bytes, a second
   one also gives back those of the bytes it replaces. *)
LEMMA PutBytes ==
  ASSUME NEW d \in Mapping, NEW h \in Hash, NEW raw \in Raw,
         Size[raw] <= MaxBytes,
         d[h] # None => Size[d[h]] <= MaxBytes
  PROVE  LET total == Cardinality(BytesIn(d))
             after == Cardinality(BytesIn([d EXCEPT ![h] = raw]))
         IN  IF d[h] = None THEN after = total + Size[raw]
             ELSE after + Size[d[h]] = total + Size[raw]
<1>1. CASE d[h] = None
  BY <1>1, AddEntry
<1>2. CASE d[h] # None
  <2> DEFINE e == [d EXCEPT ![h] = None]
  <2>1. e \in Mapping /\ e[h] = None /\ [e EXCEPT ![h] = raw] = [d EXCEPT ![h] = raw]
    BY DEF Mapping
  <2>2. Cardinality(BytesIn(d)) = Cardinality(BytesIn(e)) + Size[d[h]]
    BY <1>2, DropEntry
  <2>3. Cardinality(BytesIn([e EXCEPT ![h] = raw])) = Cardinality(BytesIn(e)) + Size[raw]
    <3> HIDE DEF e
    <3>1. QED
      BY <2>1, AddEntry
  <2>4. Size[raw] \in Nat /\ Size[d[h]] \in Nat /\ Cardinality(BytesIn(e)) \in Nat
    BY <1>2, CacheAssumption, BytesInFinite DEF Mapping
  <2>5. Cardinality(BytesIn([d EXCEPT ![h] = raw])) + Size[d[h]]
          = Cardinality(BytesIn(d)) + Size[raw]
    <3> DEFINE p == [d EXCEPT ![h] = raw]
               q == [e EXCEPT ![h] = raw]
    <3>1. q = p
      BY <2>1
    <3>2. Cardinality(BytesIn(q)) = Cardinality(BytesIn(e)) + Size[raw]
      BY <2>3
    <3> HIDE DEF e, p, q
    <3>3. Cardinality(BytesIn(p)) + Size[d[h]] = Cardinality(BytesIn(d)) + Size[raw]
      BY <2>2, <2>4, <3>1, <3>2
    <3>4. QED
      BY <3>3 DEF p
  <2>6. QED
    BY <1>2, <2>5
<1>3. QED
  BY <1>1, <1>2

(* Storing keeps the counter within max_bytes above the bytes held, because it
   is only called while the counter is within max_bytes. *)
LEMMA PutKeepsIInv ==
  ASSUME IInv, NEW h \in Hash, NEW raw \in Raw, Put(h, raw)
  PROVE  IInv'
<1>1. /\ data \in Mapping
      /\ Size[raw] \in Nat /\ Size[raw] <= MaxBytes /\ MaxBytes \in Nat
      /\ raw # None
  BY CacheAssumption DEF IInv, TypeOK, Put, Mapping
<1>2. TypeOK'
  <2>1. used' \in Nat /\ pc' \in {"idle", "evict"}
    BY <1>1 DEF IInv, TypeOK, Put, LoopTest
  <2>2. order' \in Seq(Hash)
    BY AppendProperties DEF IInv, TypeOK, Put
  <2>3. QED
    BY <2>1, <2>2 DEF IInv, TypeOK, Put
<1>3. OrderListsResident'
  <2>1. CASE data[h] # None
    <3>1. Resident' = Resident
      BY <1>1, <2>1 DEF Put, Resident, Mapping
    <3>2. QED
      BY <2>1, <3>1 DEF IInv, OrderListsResident, Put
  <2>2. CASE data[h] = None
    <3>1. Resident' = Resident \cup {h} /\ h \notin Resident
      BY <1>1, <2>2 DEF Put, Resident, Mapping
    <3>2. /\ Len(order) \in Nat
          /\ DOMAIN order = 1 .. Len(order)
          /\ order' = Append(order, h)
      BY <2>2, LenProperties DEF IInv, TypeOK, Put
    <3>3. /\ DOMAIN order' = 1 .. Len(order) + 1
          /\ \A i \in 1 .. Len(order) : order'[i] = order[i]
          /\ order'[Len(order) + 1] = h
      BY <3>2, AppendProperties DEF IInv, TypeOK
    <3>4. {order'[i] : i \in DOMAIN order'} = {order[i] : i \in DOMAIN order} \cup {h}
      BY <3>2, <3>3
    <3>5. \A i \in DOMAIN order : order[i] # h
      BY <3>1 DEF IInv, OrderListsResident
    <3>6. \A i, j \in DOMAIN order' : order'[i] = order'[j] => i = j
      BY <3>2, <3>3, <3>5 DEF IInv, OrderListsResident
    <3>7. QED
      BY <3>1, <3>4, <3>6 DEF IInv, OrderListsResident
  <2>3. QED
    BY <2>1, <2>2
<1>4. EntriesFit' /\ HeldIsLatest'
  BY <1>1 DEF IInv, TypeOK, EntriesFit, HeldIsLatest, Put, Mapping
<1>5. CounterCoversBytes'
  <2> DEFINE before == Cardinality(BytesIn(data))
             after == Cardinality(BytesIn([data EXCEPT ![h] = raw]))
             old == Size[data[h]]
  <2>1. /\ used \in Nat /\ before \in Nat /\ after \in Nat
        /\ before <= used /\ used <= MaxBytes
        /\ used' = used + Size[raw] /\ pc' = LoopTest(used')
    BY BytesInFinite, CacheAssumption
       DEF IInv, TypeOK, CounterCoversBytes, TotalBytes, LoopTest, Put
  <2>2. TotalBytes' = after
    BY DEF TotalBytes, Put, BytesIn
  <2>3. CASE data[h] = None
    <3>1. after = before + Size[raw]
      BY <1>1, <2>3, PutBytes
    <3> HIDE DEF before, after
    <3>2. QED
      BY <1>1, <2>1, <2>2, <3>1 DEF CounterCoversBytes
  <2>4. CASE data[h] # None
    <3>1. old \in Nat /\ old <= MaxBytes
      BY <2>4, CacheAssumption DEF IInv, TypeOK, EntriesFit
    <3>2. after + old = before + Size[raw]
      BY <1>1, <2>4, <3>1, PutBytes
    <3>3. old <= before
      <4> DEFINE rest == Cardinality(BytesIn([data EXCEPT ![h] = None]))
      <4>1. before = rest + old /\ rest \in Nat
        BY <1>1, <2>4, <3>1, DropEntry, BytesInFinite
      <4> HIDE DEF before, rest, old
      <4>2. QED
        BY <2>1, <3>1, <4>1
    <3> HIDE DEF before, after, old
    <3>4. QED
      BY <1>1, <2>1, <2>2, <3>1, <3>2, <3>3 DEF CounterCoversBytes
  <2>5. QED
    BY <2>3, <2>4
<1>6. QED
  BY <1>2, <1>3, <1>4, <1>5 DEF IInv

(* One eviction gives back exactly the bytes of the entry it drops. *)
LEMMA EvictKeepsIInv ==
  ASSUME IInv, Evict
  PROVE  IInv'
<1> DEFINE victim == Head(order)
           rest == [data EXCEPT ![victim] = None]
<1>1. /\ order \in Seq(Hash) /\ order # <<>>
      /\ data \in Mapping /\ used \in Nat /\ MaxBytes \in Nat
      /\ data' = rest /\ order' = Tail(order)
      /\ used' = used - Size[data[victim]] /\ pc' = LoopTest(used')
      /\ UNCHANGED latest
  BY CacheAssumption DEF IInv, TypeOK, Evict, Mapping
<1>2. /\ Len(order) \in Nat /\ Len(order) # 0
      /\ DOMAIN order = 1 .. Len(order)
      /\ victim = order[1]
  BY <1>1, LenProperties, EmptySeq
<1>3. /\ order' \in Seq(Hash)
      /\ DOMAIN order' = 1 .. (Len(order) - 1)
      /\ \A i \in 1 .. (Len(order) - 1) : order'[i] = order[i + 1]
  <2>1. /\ order' \in Seq(Hash)
        /\ Len(order') = Len(order) - 1
        /\ \A i \in 1 .. Len(order') : order'[i] = order[i + 1]
    BY <1>1, HeadTailProperties
  <2>2. DOMAIN order' = 1 .. Len(order')
    BY <2>1, LenProperties
  <2>3. QED
    BY <2>1, <2>2
<1>4. victim \in Resident
  BY <1>2 DEF IInv, OrderListsResident
<1>5. /\ victim \in Hash /\ data[victim] # None
      /\ Size[data[victim]] \in Nat /\ Size[data[victim]] <= MaxBytes
  <2>1. victim \in Hash /\ data[victim] # None /\ Size[data[victim]] <= MaxBytes
    BY <1>4 DEF Resident, IInv, EntriesFit
  <2>2. data[victim] \in Raw
    BY <1>1, <2>1 DEF Mapping
  <2>3. QED
    BY <2>1, <2>2, CacheAssumption
<1> DEFINE before == Cardinality(BytesIn(data))
           after == Cardinality(BytesIn(rest))
           freed == Size[data[victim]]
<1>6. /\ rest \in Mapping /\ before = after + freed
      /\ before \in Nat /\ after \in Nat
  <2> HIDE DEF victim
  <2>1. QED
    BY <1>1, <1>5, DropEntry, BytesInFinite
<1>7. before <= used /\ used - before <= MaxBytes
  BY DEF IInv, CounterCoversBytes, TotalBytes
<1>8. TotalBytes' = after
  BY <1>1 DEF TotalBytes, BytesIn
<1>9. CounterCoversBytes' /\ used' \in Nat
  <2>1. used' = used - freed /\ pc' = LoopTest(used') /\ freed \in Nat
    BY <1>1, <1>5
  <2> HIDE DEF before, after, freed
  <2>2. used' \in Nat /\ after <= used' /\ used' - after <= MaxBytes
    BY <1>1, <1>6, <1>7, <2>1
  <2>3. QED
    BY <1>8, <2>1, <2>2 DEF CounterCoversBytes
<1>10. TypeOK'
  <2>1. latest \in [Hash -> Raw \cup {None}] /\ reput' \in BOOLEAN
    BY DEF Evict, IInv, TypeOK
  <2>2. QED
    BY <1>1, <1>3, <1>6, <1>9, <2>1 DEF TypeOK, Mapping, LoopTest
<1>11. OrderListsResident'
  <2>1. \A h \in Hash : data'[h] = IF h = victim THEN None ELSE data[h]
    BY <1>1 DEF Mapping
  <2>2. Resident' = Resident \ {victim}
    BY <2>1 DEF Resident
  <2>3. \A i \in DOMAIN order : order[i] = victim => i = 1
    BY <1>2 DEF IInv, OrderListsResident
  <2>4. \A i \in DOMAIN order' : order'[i] \in Resident \ {victim}
    BY <1>2, <1>3, <2>3 DEF IInv, OrderListsResident
  <2>5. ASSUME NEW h \in Resident \ {victim}
        PROVE  \E i \in DOMAIN order' : order'[i] = h
    <3>1. PICK i \in DOMAIN order : order[i] = h
      BY <2>5 DEF IInv, OrderListsResident
    <3>2. i # 1
      BY <1>2, <2>5, <3>1
    <3>3. i - 1 \in DOMAIN order' /\ order'[i - 1] = order[i]
      BY <1>2, <1>3, <3>2
    <3>4. QED
      BY <3>1, <3>3
  <2>6. {order'[i] : i \in DOMAIN order'} = Resident \ {victim}
    BY <2>4, <2>5
  <2>7. \A i, j \in DOMAIN order' : order'[i] = order'[j] => i = j
    BY <1>2, <1>3 DEF IInv, OrderListsResident
  <2>8. QED
    BY <2>2, <2>6, <2>7 DEF OrderListsResident
<1>12. EntriesFit' /\ HeldIsLatest'
  BY <1>1 DEF IInv, EntriesFit, HeldIsLatest, Mapping
<1>13. QED
  BY <1>9, <1>10, <1>11, <1>12 DEF IInv

(* Every step preserves it. *)
LEMMA NextIInv == IInv /\ [Next]_vars => IInv'
<1> SUFFICES ASSUME IInv, [Next]_vars PROVE IInv'
  OBVIOUS
<1>1. CASE \E h \in Hash : Get(h)
  BY <1>1, GetKeepsIInv
<1>2. ASSUME NEW p \in Puts, Put(p[1], p[2])
      PROVE  IInv'
  <2>1. p[1] \in Hash /\ p[2] \in Raw
    BY CacheAssumption
  <2>2. QED
    BY <1>2, <2>1, PutKeepsIInv
<1>3. CASE Evict
  BY <1>3, EvictKeepsIInv
<1>4. CASE UNCHANGED vars
  BY <1>4 DEF vars, IInv, TypeOK, OrderListsResident, Resident, EntriesFit,
              HeldIsLatest, CounterCoversBytes, TotalBytes, BytesIn
<1>5. QED
  BY <1>1, <1>2, <1>3, <1>4 DEF Next

-----------------------------------------------------------------------------
(* Theorems *)

(* In every reachable state of _ByteCache the order lists the entries, every
   entry is what was last stored under its hash, and the counter _used is above
   the bytes held by at most max_bytes. *)
THEOREM Invariance == Spec => []IInv
BY InitIInv, NextIInv, PTL DEF Spec

(* The variables of the cache keep their types: the counter never becomes
   negative, whatever is evicted. *)
THEOREM TypeCorrect == Spec => []TypeOK
<1>1. IInv => TypeOK
  BY DEF IInv
<1>2. QED
  BY <1>1, Invariance, PTL

(* popitem of the loop in put never meets an empty dict: an empty dict holds no
   byte, so the counter is at most max_bytes and the loop has ended. *)
THEOREM NoEmptyPop == Spec => []EvictFindsEntry
<1>1. IInv => EvictFindsEntry
  <2> SUFFICES ASSUME IInv, pc = "evict", order = <<>> PROVE FALSE
    BY DEF EvictFindsEntry
  <2>1. Resident = {}
    BY EmptySeq DEF IInv, OrderListsResident
  <2>2. TotalBytes = 0
    BY <2>1, NoEntryNoByte DEF Resident, TotalBytes
  <2>3. used <= MaxBytes /\ used \in Nat /\ MaxBytes \in Nat
    BY <2>2, CacheAssumption DEF IInv, TypeOK, CounterCoversBytes
  <2>4. pc # "evict"
    BY <2>3 DEF IInv, CounterCoversBytes, LoopTest
  <2>5. QED
    BY <2>4
<1>2. QED
  BY <1>1, Invariance, PTL

(* "bounded by total bytes": when put has returned the entries fit in
   max_bytes, for any byte strings, any hashes and any order of the calls. *)
THEOREM Bounded == Spec => []BoundedBytes
<1>1. IInv => BoundedBytes
  <2> SUFFICES ASSUME IInv, pc = "idle" PROVE TotalBytes <= MaxBytes
    BY DEF BoundedBytes
  <2>1. TotalBytes \in Nat /\ used \in Nat /\ MaxBytes \in Nat
    BY BytesInFinite, CacheAssumption DEF IInv, TypeOK, TotalBytes
  <2>2. TotalBytes <= used /\ used <= MaxBytes
    BY <2>1 DEF IInv, CounterCoversBytes, LoopTest
  <2>3. QED
    BY <2>1, <2>2
<1>2. QED
  BY <1>1, Invariance, PTL

(* As long as every put follows a miss, as in _fetch, the counter is exactly
   the number of bytes held: the first put of an entry counts its bytes once,
   its eviction gives the same bytes back. *)
THEOREM ExactUntilReput == Spec => []CounterExact
<1>1. Init => CounterExact
  <2>1. ASSUME Init PROVE TotalBytes = 0
    BY <2>1, NoEntryNoByte DEF Init, TotalBytes
  <2>2. QED
    BY <2>1 DEF Init, CounterExact
<1>2. ASSUME IInv, CounterExact, [Next]_vars
      PROVE  CounterExact'
  <2>1. data \in Mapping /\ used \in Nat
    BY <1>2 DEF IInv, TypeOK, Mapping
  <2>2. ASSUME NEW h \in Hash, Get(h)
        PROVE  CounterExact'
    BY <1>2, <2>2 DEF Get, CounterExact, TotalBytes, BytesIn
  <2>3. ASSUME NEW p \in Puts, Put(p[1], p[2])
        PROVE  CounterExact'
    <3> DEFINE h == p[1]
               raw == p[2]
               after == [data EXCEPT ![h] = raw]
    <3> SUFFICES ASSUME ~reput' PROVE used' = TotalBytes'
      BY DEF CounterExact
    <3>1. h \in Hash /\ raw \in Raw /\ Size[raw] <= MaxBytes
      BY <2>3, CacheAssumption DEF Put
    <3>2. data[h] = None /\ ~reput /\ used' = used + Size[raw] /\ data' = after
      BY <2>3 DEF Put
    <3>3. Cardinality(BytesIn(after)) = Cardinality(BytesIn(data)) + Size[raw]
      <4> HIDE DEF h, raw
      <4>1. QED
        BY <2>1, <3>1, <3>2, AddEntry
    <3>4. TotalBytes' = Cardinality(BytesIn(after))
      BY <3>2 DEF TotalBytes, BytesIn
    <3>5. used = Cardinality(BytesIn(data))
      BY <1>2, <3>2 DEF CounterExact, TotalBytes
    <3>6. QED
      BY <3>2, <3>3, <3>4, <3>5
  <2>4. ASSUME Evict
        PROVE  CounterExact'
    <3> DEFINE victim == Head(order)
               rest == [data EXCEPT ![victim] = None]
    <3> SUFFICES ASSUME ~reput' PROVE used' = TotalBytes'
      BY DEF CounterExact
    <3>1. ~reput /\ used' = used - Size[data[victim]] /\ data' = rest
      BY <2>4 DEF Evict
    <3>2. victim \in Hash /\ data[victim] # None
      <4>1. order \in Seq(Hash) /\ order # <<>>
        BY <1>2, <2>4 DEF IInv, TypeOK, Evict
      <4>2. 1 \in DOMAIN order /\ victim = order[1]
        BY <4>1, LenProperties, EmptySeq
      <4>3. victim \in Resident
        BY <1>2, <4>2 DEF IInv, OrderListsResident
      <4>4. QED
        BY <4>3 DEF Resident
    <3>3. /\ Size[data[victim]] \in Nat /\ Size[data[victim]] <= MaxBytes
      BY <1>2, <2>1, <3>2, CacheAssumption DEF IInv, EntriesFit, Mapping
    <3>4. /\ Cardinality(BytesIn(data)) = Cardinality(BytesIn(rest)) + Size[data[victim]]
          /\ Cardinality(BytesIn(rest)) \in Nat
      <4> HIDE DEF victim
      <4>1. QED
        BY <2>1, <3>2, <3>3, DropEntry, BytesInFinite
    <3>5. TotalBytes' = Cardinality(BytesIn(rest))
      BY <3>1 DEF TotalBytes, BytesIn
    <3>6. used = Cardinality(BytesIn(data))
      BY <1>2, <3>1 DEF CounterExact, TotalBytes
    <3> HIDE DEF victim, rest
    <3>7. QED
      BY <3>1, <3>3, <3>4, <3>5, <3>6
  <2>5. CASE UNCHANGED vars
    BY <1>2, <2>5 DEF vars, CounterExact, TotalBytes, BytesIn
  <2>6. QED
    BY <1>2, <2>2, <2>3, <2>4, <2>5 DEF Next
<1>3. QED
  BY <1>1, <1>2, Invariance, PTL DEF Spec

(* As long as every put follows a miss, as in _fetch, the dict lists its entries
   in the order of their last use: a hit moves its entry to the end, a first put
   begins there, and an eviction takes the first. *)
THEOREM LeastRecentlyUsed == Spec => []LruOrder
<1>1. Init => LruOrder
  BY EmptySeq DEF Init, LruOrder
<1>2. ASSUME IInv, LruOrder, [Next]_vars
      PROVE  LruOrder'
  <2> SUFFICES ASSUME ~reput', NEW j \in DOMAIN order', NEW k \in DOMAIN order', j < k
               PROVE  <<order'[j], order'[k]>> \in older'
    BY DEF LruOrder
  <2>1. /\ order \in Seq(Hash) /\ Len(order) \in Nat /\ DOMAIN order = 1 .. Len(order)
        /\ \A a, b \in DOMAIN order : order[a] = order[b] => a = b
        /\ \A a \in DOMAIN order : order[a] \in Hash
    BY <1>2, LenProperties, ElementOfSeq DEF IInv, TypeOK, OrderListsResident
  <2>2. ~reput => \A a, b \in DOMAIN order : a < b => <<order[a], order[b]>> \in older
    BY <1>2 DEF LruOrder
  <2>3. ASSUME NEW h \in Hash, Get(h)
        PROVE  <<order'[j], order'[k]>> \in older'
    <3>1. ~reput /\ older' = Used(h)
      BY <2>3 DEF Get
    <3>2. PICK i, m : /\ i \in DOMAIN order /\ order[i] = h
                     /\ m = MoveToEnd(order, i) /\ order' = m
      BY <2>3 DEF Get
    <3>3. DOMAIN m = DOMAIN order /\ \A a, b \in DOMAIN order : m[a] = m[b] => a = b
      BY <2>1, <3>2, MoveToEndKeeps
    <3>4. \A a \in DOMAIN order : m[a] \in Hash
      <4>1. m \in Seq(Hash)
        BY <2>1, <3>2, MoveToEndKeeps
      <4>2. QED
        BY <3>3, <4>1, ElementOfSeq, LenProperties
    <3>5. j \in DOMAIN order /\ k \in DOMAIN order
      BY <3>2, <3>3
    <3> /\ order \in Seq(Hash) /\ i \in 1 .. Len(order)
        /\ j \in 1 .. Len(order) /\ k \in 1 .. Len(order) /\ j < k
      BY <2>1, <3>2, <3>5
    <3>6. CASE k = Len(order)
      <4>1. m[k] = h
        <5>1. MoveToEnd(order, i)[k] = order[i]
          BY <3>6, MoveToEndOrder
        <5>2. QED
          BY <3>2, <5>1
      <4>2. m[j] \in Hash \ {h}
        BY <2>1, <3>3, <3>4, <3>5, <4>1
      <4>3. QED
        BY <3>1, <3>2, <4>1, <4>2 DEF Used
    <3>7. CASE k # Len(order)
      <4>1. PICK a, b \in 1 .. Len(order) :
              a < b /\ a # i /\ b # i /\ m[j] = order[a] /\ m[k] = order[b]
        <5>1. /\ Before(i, k) \in 1 .. Len(order) /\ Before(i, k) # i
              /\ MoveToEnd(order, i)[k] = order[Before(i, k)]
          BY <3>7, MoveToEndOrder
        <5>2. j # Len(order)
          BY <2>1
        <5>3. /\ Before(i, j) \in 1 .. Len(order) /\ Before(i, j) # i
              /\ MoveToEnd(order, i)[j] = order[Before(i, j)]
          BY <5>2, MoveToEndOrder
        <5>4. Before(i, j) < Before(i, k)
          BY <2>1 DEF Before
        <5>5. QED
          BY <3>2, <5>1, <5>3, <5>4
      <4>2. <<order[a], order[b]>> \in older /\ order[a] # h
        BY <2>1, <2>2, <3>1, <3>2, <4>1
      <4>3. QED
        BY <3>1, <3>2, <4>1, <4>2 DEF Used
    <3>8. QED
      BY <3>6, <3>7
  <2>4. ASSUME NEW p \in Puts, Put(p[1], p[2])
        PROVE  <<order'[j], order'[k]>> \in older'
    <3>1. PICK h \in Hash : h = p[1]
      BY CacheAssumption
    <3>2. ~reput /\ older' = Used(h) /\ order' = Append(order, h) /\ h \notin Resident
      BY <2>4, <3>1 DEF Put, Resident
    <3>3. /\ DOMAIN order' = 1 .. Len(order) + 1 /\ order'[Len(order) + 1] = h
          /\ \A a \in 1 .. Len(order) : order'[a] = order[a]
      BY <2>1, <3>2, AppendProperties
    <3>4. \A a \in DOMAIN order : order[a] # h
      BY <1>2, <3>2 DEF IInv, OrderListsResident
    <3>5. j \in DOMAIN order /\ order'[j] = order[j]
      BY <2>1, <3>3
    <3>6. CASE k = Len(order) + 1
      <4>1. order[j] \in Hash \ {h}
        BY <2>1, <3>4, <3>5
      <4>2. QED
        BY <3>2, <3>3, <3>5, <3>6, <4>1 DEF Used
    <3>7. CASE k # Len(order) + 1
      <4>1. k \in DOMAIN order /\ order'[k] = order[k]
        BY <2>1, <3>3, <3>7
      <4>2. <<order[j], order[k]>> \in older
        BY <2>2, <3>2, <3>5, <4>1
      <4>3. QED
        BY <3>2, <3>4, <3>5, <4>1, <4>2 DEF Used
    <3>8. QED
      BY <3>6, <3>7
  <2>5. CASE Evict
    <3>1. ~reput /\ older' = older /\ order' = Tail(order) /\ order # <<>>
      BY <2>5 DEF Evict
    <3>2. /\ Len(order') = Len(order) - 1 /\ order' \in Seq(Hash)
          /\ \A a \in 1 .. Len(order') : order'[a] = order[a + 1]
      BY <2>1, <3>1, HeadTailProperties
    <3>3. j \in 1 .. Len(order') /\ k \in 1 .. Len(order')
      BY <3>2, LenProperties
    <3>4. j + 1 \in DOMAIN order /\ k + 1 \in DOMAIN order /\ j + 1 < k + 1
      BY <2>1, <3>2, <3>3
    <3>5. <<order[j + 1], order[k + 1]>> \in older
      BY <2>2, <3>1, <3>4
    <3>6. QED
      BY <3>1, <3>2, <3>3, <3>5
  <2>6. CASE UNCHANGED vars
    BY <2>2, <2>6 DEF vars
  <2>7. QED
    BY <1>2, <2>3, <2>4, <2>5, <2>6 DEF Next
<1>3. QED
  BY <1>1, <1>2, Invariance, PTL DEF Spec

(* And until then an entry is dropped only while the entries really exceed
   max_bytes: the counter that the loop tests is exact. *)
THEOREM EvictsOnlyOverBudget == Spec => EvictOnlyOverBudget
<1> DEFINE Over == \A h \in Hash : ~reput /\ data[h] # None /\ data'[h] = None
                                     => TotalBytes > MaxBytes
<1>1. IInv /\ CounterExact /\ [Next]_vars => [Over]_vars
  <2> SUFFICES ASSUME IInv, CounterExact, Next,
                      NEW h \in Hash, ~reput, data[h] # None, data'[h] = None
               PROVE  TotalBytes > MaxBytes
    BY DEF vars
  <2>1. Evict
    <3>1. ASSUME NEW g \in Hash, Get(g) PROVE FALSE
      BY <3>1 DEF Get
    <3>2. ASSUME NEW p \in Puts, Put(p[1], p[2]) PROVE FALSE
      <4>1. p[2] # None /\ p[1] \in Hash
        BY CacheAssumption
      <4>2. data' = [data EXCEPT ![p[1]] = p[2]] /\ data \in Mapping
        BY <3>2 DEF Put, IInv, TypeOK, Mapping
      <4>3. QED
        BY <4>1, <4>2 DEF Mapping
    <3>3. QED
      BY <3>1, <3>2 DEF Next
  <2>2. used > MaxBytes
    BY <2>1 DEF Evict, IInv, CounterCoversBytes, LoopTest
  <2>3. QED
    BY <2>2 DEF CounterExact
<1>2. QED
  BY <1>1, Invariance, ExactUntilReput, PTL DEF Spec, EvictOnlyOverBudget

(* _ByteCache implements LossyCache: a put stores and forgets nothing yet, an
   eviction loses one entry, a lookup is invisible. *)
THEOREM Implementation == Spec => ImplementsLossyCache
<1>1. Init => Lossy!Init
  BY DEF Init, Lossy!Init
<1>2. ASSUME IInv, [Next]_vars
      PROVE  [Lossy!Next]_(Lossy!vars)
  <2>1. data \in Mapping
    BY <1>2 DEF IInv, TypeOK, Mapping
  <2>2. ASSUME NEW h \in Hash, Get(h)
        PROVE  UNCHANGED Lossy!vars
    BY <2>2 DEF Get, Lossy!vars
  <2>3. ASSUME NEW p \in Puts, Put(p[1], p[2])
        PROVE  Lossy!Next
    <3>1. p[1] \in Hash /\ p[2] \in Raw
      BY CacheAssumption
    <3> DEFINE new == [data EXCEPT ![p[1]] = p[2]]
    <3>2. Lossy!Forget(new, {}) = new
      BY <2>1 DEF Lossy!Forget, Mapping
    <3>3. new \in Lossy!AfterPut(data, p[1], p[2])
      BY <3>2 DEF Lossy!AfterPut
    <3>4. Lossy!Put(p[1], p[2])
      BY <2>3, <3>3 DEF Put, Lossy!Put
    <3>5. QED
      BY <3>1, <3>4 DEF Lossy!Next
  <2>4. ASSUME Evict
        PROVE  Lossy!Next
    <3> DEFINE victim == Head(order)
    <3>1. data' = [data EXCEPT ![victim] = None] /\ UNCHANGED latest
      BY <2>4 DEF Evict
    <3>2. victim \in Hash
      BY <1>2, <2>4, HeadTailProperties DEF IInv, TypeOK, Evict
    <3>3. data' = Lossy!Forget(data, {victim})
      BY <2>1, <3>1 DEF Lossy!Forget, Mapping
    <3>4. QED
      BY <3>1, <3>2, <3>3 DEF Lossy!Next, Lossy!Lose
  <2>5. CASE UNCHANGED vars
    BY <2>5 DEF vars, Lossy!vars
  <2>6. QED
    BY <1>2, <2>2, <2>3, <2>4, <2>5 DEF Next
<1>3. QED
  BY <1>1, <1>2, Invariance, PTL DEF Spec, ImplementsLossyCache, Lossy!Spec

=============================================================================
