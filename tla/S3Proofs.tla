------------------------------ MODULE S3Proofs ------------------------------
(***************************************************************************)
(* Tenants that share a bucket stay apart, for any number of tenants,      *)
(* clients and keys, when no key_prefix begins another: no object name     *)
(* belongs to two of them, no call of one changes an object of another,    *)
(* and what each sees of its store is a BlobStore.                         *)
(***************************************************************************)
EXTENDS S3Store, SequenceTheorems, TLAPS

-----------------------------------------------------------------------------
(* Names *)

\* A prefix, position by position.
LEMMA PrefixPointwise ==
  ASSUME NEW S, NEW s \in Seq(S), NEW t \in Seq(S)
  PROVE  IsPrefix(s, t) <=> Len(s) <= Len(t) /\ \A i \in 1 .. Len(s) : s[i] = t[i]
  <1>1. Len(s) \in Nat /\ Len(t) \in Nat
    BY LenProperties
  <1>2. Len(s) <= Len(t) => SubSeq(s, 1, Len(s)) = [i \in 1 .. Len(s) |-> s[i]]
    BY <1>1
  <1>3. Len(s) <= Len(t) => SubSeq(t, 1, Len(s)) = [i \in 1 .. Len(s) |-> t[i]]
    BY <1>1
  <1>4. QED
    BY <1>1, <1>2, <1>3 DEF IsPrefix

\* n is a and then j.
Joins(n, a, j) ==
  /\ Len(n) = Len(a) + Len(j)
  /\ \A i \in 1 .. Len(a) : n[i] = a[i]
  /\ \A i \in 1 .. Len(j) : n[Len(a) + i] = j[i]

\* A concatenation, position by position.
LEMMA ConcatAt ==
  ASSUME NEW S, NEW a \in Seq(S), NEW j \in Seq(S), NEW n, n = a \o j
  PROVE  n \in Seq(S) /\ Joins(n, a, j)
  <1>1. Len(a) \in Nat /\ Len(j) \in Nat
    BY LenProperties
  <1>2. n \in Seq(S) /\ Len(n) = Len(a) + Len(j)
    BY ConcatProperties
  <1>3. \A i \in 1 .. Len(a) : n[i] = a[i]
    BY <1>1, ConcatProperties
  <1>4. ASSUME NEW i \in 1 .. Len(j) PROVE n[Len(a) + i] = j[i]
    <2>1. Len(a) + i \in 1 .. Len(a) + Len(j) /\ ~ Len(a) + i <= Len(a)
          /\ (Len(a) + i) - Len(a) = i
      BY <1>1
    <2>2. QED
      BY <2>1, ConcatProperties
  <1>5. QED
    BY <1>2, <1>3, <1>4 DEF Joins

\* Of two prefixes of which one's sequence begins the other's, one begins the
\* other.
LEMMA OverlappingPrefixes ==
  ASSUME NEW S, NEW a \in Seq(S), NEW b \in Seq(S), NEW n \in Seq(S), NEW m \in Seq(S),
         IsPrefix(a, n), IsPrefix(b, m), IsPrefix(n, m)
  PROVE  IsPrefix(a, b) \/ IsPrefix(b, a)
  <1>1. Len(a) \in Nat /\ Len(b) \in Nat /\ Len(n) \in Nat /\ Len(m) \in Nat
    BY LenProperties
  <1>2. /\ Len(a) <= Len(n) /\ \A i \in 1 .. Len(a) : n[i] = a[i]
        /\ Len(b) <= Len(m) /\ \A i \in 1 .. Len(b) : m[i] = b[i]
        /\ Len(n) <= Len(m) /\ \A i \in 1 .. Len(n) : n[i] = m[i]
    BY PrefixPointwise
  <1>3. CASE Len(a) <= Len(b)
    <2>1. \A i \in 1 .. Len(a) : i \in 1 .. Len(b) /\ i \in 1 .. Len(n)
      BY <1>1, <1>2, <1>3
    <2>2. \A i \in 1 .. Len(a) : a[i] = b[i]
      BY <1>2, <2>1
    <2>3. QED
      BY <1>3, <2>2, PrefixPointwise
  <1>4. CASE Len(b) <= Len(a)
    <2>1. \A i \in 1 .. Len(b) : i \in 1 .. Len(a) /\ i \in 1 .. Len(n)
      BY <1>1, <1>2, <1>4
    <2>2. \A i \in 1 .. Len(b) : b[i] = a[i]
      BY <1>2, <2>1
    <2>3. QED
      BY <1>4, <2>2, PrefixPointwise
  <1>5. QED
    BY <1>1, <1>3, <1>4

\* The same first part does not matter.
LEMMA CommonPrefix ==
  ASSUME NEW S, NEW a \in Seq(S), NEW j \in Seq(S), NEW k \in Seq(S),
         NEW n \in Seq(S), NEW m \in Seq(S), Joins(n, a, j), Joins(m, a, k)
  PROVE  IsPrefix(n, m) <=> IsPrefix(j, k)
  <1>1. Len(a) \in Nat /\ Len(j) \in Nat /\ Len(k) \in Nat
    BY LenProperties
  <1>2. ASSUME IsPrefix(n, m) PROVE IsPrefix(j, k)
    <2>1. Len(n) <= Len(m) /\ \A i \in 1 .. Len(n) : n[i] = m[i]
      BY <1>2, PrefixPointwise
    <2>2. Len(j) <= Len(k)
      BY <1>1, <2>1 DEF Joins
    <2>3. \A i \in 1 .. Len(j) : Len(a) + i \in 1 .. Len(n) /\ i \in 1 .. Len(k)
      BY <1>1, <2>2 DEF Joins
    <2>4. \A i \in 1 .. Len(j) : j[i] = k[i]
      BY <2>1, <2>3 DEF Joins
    <2>5. QED
      BY <2>2, <2>4, PrefixPointwise
  <1>3. ASSUME IsPrefix(j, k) PROVE IsPrefix(n, m)
    <2>1. Len(j) <= Len(k) /\ \A i \in 1 .. Len(j) : j[i] = k[i]
      BY <1>3, PrefixPointwise
    <2>2. Len(n) <= Len(m)
      BY <1>1, <2>1 DEF Joins
    <2>3. \A i \in 1 .. Len(n) : n[i] = m[i]
      <3> SUFFICES ASSUME NEW i \in 1 .. Len(n) PROVE n[i] = m[i]
        OBVIOUS
      <3>1. CASE i \in 1 .. Len(a)
        BY <3>1 DEF Joins
      <3>2. CASE i \notin 1 .. Len(a)
        <4>1. PICK h \in 1 .. Len(j) : i = Len(a) + h
          <5>1. i - Len(a) \in 1 .. Len(j) /\ i = Len(a) + (i - Len(a))
            BY <1>1, <3>2 DEF Joins
          <5>2. QED
            BY <5>1
        <4>2. h \in 1 .. Len(k)
          BY <1>1, <2>1
        <4>3. QED
          BY <2>1, <4>1, <4>2 DEF Joins
      <3>3. QED
        BY <3>1, <3>2
    <2>4. QED
      BY <2>2, <2>3, PrefixPointwise
  <1>4. QED
    BY <1>2, <1>3

\* The types of the constants.
LEMMA Constants ==
  /\ Key \subseteq Seq(STRING) /\ Sought \subseteq Seq(STRING)
  /\ \A t \in Tenant : key_prefix[t] \in Seq(STRING)
  /\ \A t \in Tenant, k \in Key : _k(t, k) \in Names
  /\ \A c \in Client : Of[c] \in Tenant /\ Requests[c] \subseteq Request
  BY S3Assumption

\* An object name is a key_prefix and then a key.
LEMMA Prefixed ==
  ASSUME NEW t \in Tenant, NEW k \in Key \cup Sought
  PROVE  _k(t, k) \in Seq(STRING) /\ Joins(_k(t, k), key_prefix[t], k)
  <1>1. key_prefix[t] \in Seq(STRING) /\ k \in Seq(STRING)
    BY Constants
  <1>2. _k(t, k) = key_prefix[t] \o k
    BY DEF _k
  <1>3. QED
    BY <1>1, <1>2, ConcatAt

\* It begins with the key_prefix.
LEMMA BeginsWithPrefix ==
  ASSUME NEW t \in Tenant, NEW k \in Key \cup Sought
  PROVE  IsPrefix(key_prefix[t], _k(t, k))
  <1>1. key_prefix[t] \in Seq(STRING) /\ k \in Seq(STRING)
    BY Constants
  <1>2. Len(key_prefix[t]) \in Nat /\ Len(k) \in Nat
    BY <1>1, LenProperties
  <1>3. QED
    BY <1>1, <1>2, Prefixed, PrefixPointwise DEF Joins

\* The names that a tenant's listing under a prefix matches are those of the
\* tenant's own keys under it.
LEMMA ListedName ==
  ASSUME NEW t \in Tenant, NEW u \in Tenant, NEW p \in Key \cup Sought, NEW k \in Key
  PROVE  IsPrefix(_k(t, p), _k(u, k)) <=> t = u /\ IsPrefix(p, k)
  <1>1. /\ key_prefix[t] \in Seq(STRING) /\ key_prefix[u] \in Seq(STRING)
        /\ p \in Seq(STRING) /\ k \in Seq(STRING)
    BY Constants
  <1>2. _k(t, p) \in Seq(STRING) /\ _k(u, k) \in Seq(STRING)
    BY Prefixed
  <1>3. ASSUME IsPrefix(_k(t, p), _k(u, k)) PROVE t = u
    <2>1. IsPrefix(key_prefix[t], _k(t, p)) /\ IsPrefix(key_prefix[u], _k(u, k))
      BY BeginsWithPrefix
    <2>2. IsPrefix(key_prefix[t], key_prefix[u]) \/ IsPrefix(key_prefix[u], key_prefix[t])
      BY <1>1, <1>2, <1>3, <2>1, OverlappingPrefixes
    <2>3. QED
      BY <2>2, PrefixesApart
  <1>4. IsPrefix(_k(t, p), _k(t, k)) <=> IsPrefix(p, k)
    BY <1>1, <1>2, Prefixed, CommonPrefix
  <1>5. QED
    BY <1>3, <1>4

\* An object name tells its tenant and its key.
THEOREM NamesApart ==
  ASSUME NEW t \in Tenant, NEW u \in Tenant, NEW j \in Key, NEW k \in Key,
         _k(t, j) = _k(u, k)
  PROVE  t = u /\ j = k
  <1>1. _k(t, j) \in Seq(STRING)
    BY Prefixed
  <1>2. IsPrefix(_k(t, j), _k(u, k))
    BY <1>1, PrefixPointwise, LenProperties
  <1>3. t = u
    BY <1>2, ListedName
  <1>4. j = k
    <2>1. \A p, x, y \in Seq(STRING) : p \o x = p \o y => x = y
      BY ConcatSimplifications
    <2>2. QED
      BY <1>3, <2>1, Constants DEF _k
  <1>5. QED
    BY <1>3, <1>4

\* What a listing cuts off an object name is what _k put in front of the key.
LEMMA StrippedKey ==
  ASSUME NEW c \in Client, NEW k \in Key
  PROVE  Stripped(c, _k(Of[c], k)) = k
  <1>1. PICK a, n : a = key_prefix[Of[c]] /\ n = _k(Of[c], k)
    OBVIOUS
  <1>2. a \in Seq(STRING) /\ k \in Seq(STRING)
    BY <1>1, Constants
  <1>3. Len(a) \in Nat /\ Len(k) \in Nat
    BY <1>2, LenProperties
  <1>4. /\ n \in Seq(STRING) /\ Len(n) = Len(a) + Len(k)
        /\ \A i \in 1 .. Len(k) : n[Len(a) + i] = k[i]
    BY <1>1, Constants, Prefixed DEF Joins
  <1>5. SubSeq(n, Len(a) + 1, Len(n)) = [i \in 1 .. Len(k) |-> n[Len(a) + i]]
    BY <1>3, <1>4
  <1>6. k = [i \in 1 .. Len(k) |-> k[i]]
    BY <1>2
  <1>7. QED
    BY <1>1, <1>4, <1>5, <1>6 DEF Stripped

-----------------------------------------------------------------------------
(* The inductive invariant *)

\* The local variables of a call go with the request it was made for.
CallOK(c, l) ==
  /\ l \in Local
  /\ l.pc = "idle" <=> l.req = None
  /\ l.pc = "done" <=> l.reply # None
  /\ l.req # None => l.req \in Requests[c]
  /\ l.pc \in {"put", "get", "exists", "delete", "list"} => l.req.op = l.pc
  /\ l.pc = "head" => l.req.op = "put"
  /\ l.pc = "done" /\ l.reply.kind = "keys" => l.reply.bytes \subseteq Key

\* Every object has its name from a key of a tenant.
BucketOK ==
  /\ bucket \in [Names -> Raw \cup {None}]
  /\ \A n \in Names : bucket[n] # None => \E o \in Owned : n = _k(o[1], o[2])

\* What the listing of c is about.
Now(c) ==
  {o \in Owned : /\ o[1] = Of[c] /\ IsPrefix(call[c].req.key, o[2])
                 /\ bucket[_k(o[1], o[2])] # None}

\* The object o is still to come in the listing of c.
Ahead(c, o) == \E i \in DOMAIN Order : i > call[c].seen /\ Order[i] = _k(o[1], o[2])

\* A listing has found nothing that was never there, and what has been there
\* all the time it has found or will.
ListOK(c) ==
  /\ during[c] \in [always : SUBSET Owned, ever : SUBSET Owned]
  /\ during[c].always \subseteq Now(c)
  /\ Now(c) \subseteq during[c].ever
  /\ \A k \in call[c].found : <<Of[c], k>> \in during[c].ever
  /\ \A o \in during[c].always : o[2] \in call[c].found \/ Ahead(c, o)

IInv ==
  /\ BucketOK
  /\ call \in [Client -> Local]
  /\ \A c \in Client : CallOK(c, call[c])
  /\ during = [c \in Client |-> during[c]]
  /\ \A c \in Client : IF call[c].pc = "list" THEN ListOK(c) ELSE during[c] = None

-----------------------------------------------------------------------------
(* What a caller sees *)

\* Before a call and after it nothing is asked and nothing answered.
LEMMA NothingAsked ==
  ASSUME NEW c \in Client, NEW l, CallOK(c, l), l.pc = "idle"
  PROVE  Asked(c, l) = None /\ Shown(c, l) = None
  BY DEF CallOK, Asked, Shown

\* A call under way asks for its request.
LEMMA AskedRequest ==
  ASSUME NEW c \in Client, NEW l, CallOK(c, l), l.pc # "idle"
  PROVE  /\ l.req \in Request /\ l.req \in Requests[c]
         /\ Asked(c, l) = Owning(c, l.req)
         /\ Asked(c, l) # None
         /\ Asked(c, l).op = l.req.op /\ Asked(c, l).raw = l.req.raw
         /\ Asked(c, l).key = <<Of[c], l.req.key>>
  <1>1. l.req \in Request /\ l.req \in Requests[c] /\ l.req # None
    BY Constants DEF CallOK
  <1>2. Asked(c, l) = Owning(c, l.req)
    BY <1>1 DEF Asked
  <1>3. /\ l.req.op \in {"put", "get", "exists", "delete", "list"} /\ l.req.key \in Key \cup Sought
        /\ l.req.raw \in Raw \cup {None}
        /\ l.req = [op |-> l.req.op, key |-> l.req.key, raw |-> l.req.raw]
    <2>1. CASE l.req \in [op : {"list"}, key : Sought, raw : {None}]
      BY <2>1
    <2>2. CASE l.req \in [op : {"put", "get", "exists", "delete"}, key : Key,
                          raw : Raw \cup {None}]
      BY <2>2
    <2>3. QED
      BY <1>1, <2>1, <2>2 DEF Request
  <1>4. Owning(c, l.req) = [op |-> l.req.op, key |-> <<Of[c], l.req.key>>, raw |-> l.req.raw]
    BY <1>3 DEF Owning
  <1>5. Owning(c, l.req) \in [op : {"put", "get", "exists", "delete", "list"},
                              key : Tenant \X Seq(STRING), raw : Raw \cup {None}]
    BY <1>3, <1>4, Constants
  <1>6. QED
    BY <1>1, <1>2, <1>4, <1>5, NoneAssumption

\* A call that has not come to an answer shows none; once the upload is
\* complete it shows the answer of put.
LEMMA ShownWhile ==
  ASSUME NEW c \in Client, NEW l, CallOK(c, l), l.pc # "done"
  PROVE  Shown(c, l) = IF l.pc = "head" THEN [kind |-> "ok", bytes |-> None] ELSE None
  BY DEF CallOK, Shown

\* A call that has its answer shows it, a listing the keys of its own tenant.
LEMMA ShownReply ==
  ASSUME NEW c \in Client, NEW l \in Local, NEW kind, NEW bytes
  PROVE  Shown(c, Reply(l, kind, bytes)) =
           [kind |-> kind,
            bytes |-> IF l.req.op = "list" /\ kind = "keys" THEN {Of[c]} \X bytes ELSE bytes]
  BY DEF Shown, Reply, Local

\* An answer is an answer.
LEMMA ShownDone ==
  ASSUME NEW c \in Client, NEW l, CallOK(c, l), l.pc = "done"
  PROVE  Shown(c, l) # None
  <1>1. l.reply \in Answer
    BY DEF CallOK, Local
  <1>2. CASE l.req.op = "list" /\ l.reply.kind = "keys"
    <2>1. Shown(c, l) = [kind |-> "keys", bytes |-> {Of[c]} \X l.reply.bytes]
      BY <1>2 DEF Shown
    <2>2. {Of[c]} \X l.reply.bytes \in SUBSET Owned
      BY <1>2, Constants DEF CallOK, Owned
    <2>3. Shown(c, l) \in [kind : {"keys"}, bytes : SUBSET Owned]
      BY <2>1, <2>2
    <2>4. QED
      BY <2>3, NoneAssumption
  <1>3. CASE ~ (l.req.op = "list" /\ l.reply.kind = "keys")
    BY <1>1, <1>3, NoneAssumption DEF Shown
  <1>4. QED
    BY <1>2, <1>3

\* A step of c changes what the clients see in nothing but the call of c.
LEMMA SeesStep ==
  ASSUME call \in [Client -> Local], NEW c \in Client, NEW m, call' = [call EXCEPT ![c] = m]
  PROVE  /\ Asks' = [Asks EXCEPT ![c] = Asked(c, m)]
         /\ Shows' = [Shows EXCEPT ![c] = Shown(c, m)]
  <1>1. \A d \in Client : call'[d] = IF d = c THEN m ELSE call[d]
    OBVIOUS
  <1>2. Asks' = [d \in Client |-> Asked(d, call'[d])]
    BY DEF Asks
  <1>3. Shows' = [d \in Client |-> Shown(d, call'[d])]
    BY DEF Shows
  <1>4. QED
    BY <1>1, <1>2, <1>3 DEF Asks, Shows

\* What they see of the bucket, an object at a time.
LEMMA SeenStep ==
  ASSUME BucketOK, NEW t \in Tenant, NEW k \in Key, NEW raw,
         bucket' = [bucket EXCEPT ![_k(t, k)] = raw]
  PROVE  Seen' = [Seen EXCEPT ![<<t, k>>] = raw]
  <1>1. \A o \in Owned : /\ o[1] \in Tenant /\ o[2] \in Key /\ o = <<o[1], o[2]>>
                         /\ _k(o[1], o[2]) \in Names
    BY Constants DEF Owned
  <1>2. \A o \in Owned : _k(o[1], o[2]) = _k(t, k) <=> o = <<t, k>>
    BY <1>1, NamesApart
  <1>3. \A o \in Owned : bucket'[_k(o[1], o[2])] =
                           IF o = <<t, k>> THEN raw ELSE bucket[_k(o[1], o[2])]
    BY <1>1, <1>2 DEF BucketOK
  <1>4. QED
    BY <1>3 DEF Seen

\* A listing sees its objects come and go; no other call looks.
LEMMA WatchStep ==
  ASSUME Store!Watch, NEW c \in Client, NEW m, m = call'[c], CallOK(c, m)
  PROVE  during'[c] =
           IF m.pc = "list"
           THEN [always |-> IF during[c] = None THEN Now(c)' ELSE during[c].always \cap Now(c)',
                 ever   |-> IF during[c] = None THEN Now(c)' ELSE during[c].ever \cup Now(c)']
           ELSE None
  <1>1. Asks'[c] = Asked(c, m) /\ Shows'[c] = Shown(c, m)
    BY DEF Asks, Shows
  <1>2. CASE m.pc = "list"
    <2>1. /\ Asked(c, m) # None /\ Asked(c, m).op = "list" /\ Shown(c, m) = None
          /\ Asked(c, m).key = <<Of[c], m.req.key>> /\ m.req \in Request /\ m.req.op = "list"
      BY <1>2, AskedRequest, ShownWhile DEF CallOK
    <2>2. m.req.key \in Sought
      BY <2>1 DEF Request
    <2>3. {o \in Owned : o[1] = Of[c] /\ IsPrefix(m.req.key, o[2])} =
            [p \in Tenant \X Sought |->
               {o \in Owned : o[1] = p[1] /\ IsPrefix(p[2], o[2])}][<<Of[c], m.req.key>>]
      BY <2>2, Constants
    <2>4. Now(c)' = {o \in {o \in Owned : o[1] = Of[c] /\ IsPrefix(m.req.key, o[2])} :
                       Seen'[o] # None}
      BY DEF Now, Seen
    <2>5. QED
      BY <1>1, <1>2, <2>1, <2>3, <2>4 DEF Store!Watch
  <1>3. CASE m.pc # "list"
    <2>1. Asked(c, m) = None \/ Shown(c, m) # None \/ Asked(c, m).op # "list"
      <3>1. CASE m.pc = "idle"
        BY <3>1, NothingAsked
      <3>2. CASE m.pc = "head"
        <4>1. Asked(c, m).op = m.req.op
          BY <3>2, AskedRequest
        <4>2. QED
          BY <3>2, <4>1 DEF CallOK
      <3>3. CASE m.pc = "done"
        BY <3>3, ShownDone
      <3>4. CASE m.pc \in {"put", "get", "exists", "delete"}
        <4>1. Asked(c, m).op = m.req.op
          BY <3>4, AskedRequest
        <4>2. QED
          BY <3>4, <4>1 DEF CallOK
      <3>5. QED
        BY <1>3, <3>1, <3>2, <3>3, <3>4 DEF CallOK, Local
    <2>2. QED
      BY <1>1, <1>3, <2>1 DEF Store!Watch
  <1>4. QED
    BY <1>2, <1>3

-----------------------------------------------------------------------------
(* Steps *)

\* The local variables of a call that has its answer.
LEMMA ReplyOK ==
  ASSUME NEW c \in Client, NEW l, CallOK(c, l), l.pc # "idle", NEW kind, NEW bytes,
         [kind |-> kind, bytes |-> bytes] \in Answer, kind = "keys" => bytes \subseteq Key
  PROVE  /\ CallOK(c, Reply(l, kind, bytes))
         /\ Reply(l, kind, bytes).pc = "done" /\ Reply(l, kind, bytes).req = l.req
  <1>1. [kind |-> kind, bytes |-> bytes] # None
    BY NoneAssumption
  <1>2. l \in Local /\ l.req # None /\ l.req \in Requests[c]
    BY DEF CallOK
  <1>3. /\ Reply(l, kind, bytes).pc = "done" /\ Reply(l, kind, bytes).req = l.req
        /\ Reply(l, kind, bytes).reply = [kind |-> kind, bytes |-> bytes]
    BY <1>2 DEF Reply, Local
  <1>4. Reply(l, kind, bytes) \in Local
    BY <1>2 DEF Reply, Local
  <1>5. QED
    BY <1>1, <1>2, <1>3, <1>4 DEF CallOK

\* A listing that goes on sees its objects come and go.
LEMMA ListKept ==
  ASSUME Store!Watch, NEW c \in Client, ListOK(c), NEW m, m = call'[c], m = call[c],
         CallOK(c, m), m.pc = "list"
  PROVE  ListOK(c)'
  <1>1. during[c] # None
    BY NoneAssumption DEF ListOK
  <1>2. during'[c] = [always |-> during[c].always \cap Now(c)',
                      ever |-> during[c].ever \cup Now(c)']
    BY <1>1, WatchStep
  <1>3. Now(c)' \subseteq Owned
    BY DEF Now
  <1>4. \A o : Ahead(c, o)' <=> Ahead(c, o)
    BY DEF Ahead
  <1>5. QED
    BY <1>2, <1>3, <1>4 DEF ListOK

\* At its start a listing has all objects of the moment ahead.
LEMMA ListBegins ==
  ASSUME Store!Watch, NEW c \in Client, during[c] = None, NEW m, m = call'[c],
         CallOK(c, m), m.pc = "list", m.seen = 0, m.found = {}
  PROVE  ListOK(c)'
  <1>1. during'[c] = [always |-> Now(c)', ever |-> Now(c)']
    BY WatchStep
  <1>2. Now(c)' \subseteq Owned
    BY DEF Now
  <1>3. ASSUME NEW o \in Owned PROVE Ahead(c, o)'
    <2>1. _k(o[1], o[2]) \in Names
      BY Constants DEF Owned
    <2>2. PICK i \in DOMAIN Order : Order[i] = _k(o[1], o[2])
      BY <2>1 DEF Names, ToSet
    <2>3. i > 0
      BY S3Assumption
    <2>4. QED
      BY <2>2, <2>3 DEF Ahead
  <1>4. QED
    BY <1>1, <1>2, <1>3 DEF ListOK

\* A step of c keeps the invariant when it leaves the bucket and the call of c
\* in order.
LEMMA Kept ==
  ASSUME IInv, Store!Watch, NEW c \in Client, NEW m, call' = [call EXCEPT ![c] = m],
         CallOK(c, m), BucketOK', m.pc = "list" => ListOK(c)'
  PROVE  IInv'
  <1>1. call' \in [Client -> Local] /\ call'[c] = m
    BY DEF IInv, CallOK
  <1>2. \A d \in Client : d # c => call'[d] = call[d] /\ CallOK(d, call[d])
    BY DEF IInv
  <1>3. during' = [d \in Client |-> during'[d]]
    BY DEF Store!Watch
  <1>4. ASSUME NEW d \in Client, d # c
        PROVE  IF call[d].pc = "list" THEN ListOK(d)' ELSE during'[d] = None
    <2>1. PICK l : l = call'[d] /\ l = call[d] /\ CallOK(d, l)
      BY <1>2, <1>4
    <2>2. CASE l.pc = "list"
      <3>1. ListOK(d)
        BY <2>1, <2>2 DEF IInv
      <3>2. QED
        BY <2>1, <2>2, <3>1, ListKept
    <2>3. CASE l.pc # "list"
      BY <2>1, <2>3, WatchStep
    <2>4. QED
      BY <2>1, <2>2, <2>3
  <1>5. m.pc # "list" => during'[c] = None
    BY <1>1, WatchStep
  <1>6. \A d \in Client : CallOK(d, call'[d])
    BY <1>1, <1>2 DEF IInv
  <1>7. \A d \in Client : IF call'[d].pc = "list" THEN ListOK(d)' ELSE during'[d] = None
    BY <1>1, <1>2, <1>4, <1>5
  <1>8. QED
    BY <1>1, <1>3, <1>6, <1>7 DEF IInv

\* What a call shows that has not come to an answer.
LEMMA Opened ==
  ASSUME IInv, NEW c \in Client, NEW l, l = call[c],
         l.pc \in {"put", "get", "exists", "delete", "list"}
  PROVE  /\ CallOK(c, l) /\ l.req \in Request /\ l.req.op = l.pc
         /\ Asks[c] # None /\ Shows[c] = None
         /\ Asks[c].op = l.pc /\ Asks[c].key = <<Of[c], l.req.key>> /\ Asks[c].raw = l.req.raw
  <1>1. CallOK(c, l) /\ Asks[c] = Asked(c, l) /\ Shows[c] = Shown(c, l)
    BY DEF IInv, Asks, Shows
  <1>2. l.pc # "idle" /\ l.pc # "head" /\ l.pc # "done" /\ l.req.op = l.pc
    BY <1>1 DEF CallOK
  <1>3. QED
    BY <1>1, <1>2, AskedRequest, ShownWhile

\* The object that a call is about, as its caller sees it.
LEMMA OwnObject ==
  ASSUME NEW c \in Client, call[c].req \in Request, call[c].req.op # "list"
  PROVE  /\ call[c].req.key \in Key /\ call[c].req.raw \in Raw \cup {None}
         /\ Name(c) = _k(Of[c], call[c].req.key) /\ Name(c) \in Names
         /\ Seen[<<Of[c], call[c].req.key>>] = bucket[Name(c)]
  <1>1. call[c].req.key \in Key /\ call[c].req.raw \in Raw \cup {None}
    BY DEF Request
  <1>2. <<Of[c], call[c].req.key>> \in Owned
    BY <1>1, Constants DEF Owned
  <1>3. QED
    BY <1>1, <1>2, Constants DEF Seen, Name

\* A step that replies.
LEMMA Replies ==
  ASSUME IInv, Store!Watch, NEW c \in Client, NEW l, l = call[c], l.pc # "idle",
         NEW kind \in {"ok", "error", "bytes", "BlobNotFoundError", "yes", "no"},
         NEW bytes \in Raw \cup {None}, NEW m, m = Reply(l, kind, bytes),
         call' = [call EXCEPT ![c] = m], BucketOK'
  PROVE  /\ IInv'
         /\ Shows' = [Shows EXCEPT ![c] = [kind |-> kind, bytes |-> bytes]]
         /\ Asks' = Asks
  <1>1. CallOK(c, l) /\ l \in Local
    BY DEF IInv, CallOK
  <1>2. [kind |-> kind, bytes |-> bytes] \in Answer
    BY DEF Answer
  <1>3. CallOK(c, m) /\ m.pc = "done" /\ m.req = l.req
    BY <1>1, <1>2, ReplyOK
  <1>4. IInv'
    BY <1>3, Kept
  <1>5. call \in [Client -> Local]
    BY DEF IInv
  <1>6. /\ Asks' = [Asks EXCEPT ![c] = Asked(c, m)]
        /\ Shows' = [Shows EXCEPT ![c] = Shown(c, m)]
    BY <1>5, SeesStep
  <1>7. Shown(c, m) = [kind |-> kind, bytes |-> bytes]
    BY <1>1, ShownReply
  <1>8. Asked(c, m) = Asks[c] /\ Asks = [d \in Client |-> Asks[d]]
    BY <1>3 DEF Asked, Asks
  <1>9. Asks' = Asks
    BY <1>6, <1>8
  <1>10. QED
    BY <1>4, <1>6, <1>7, <1>9

\* A step that leaves the bucket alone.
LEMMA BucketAlone ==
  ASSUME BucketOK, UNCHANGED bucket
  PROVE  BucketOK' /\ Seen' = Seen
  BY DEF BucketOK, Seen

\* A step that puts or deletes the object of a call.
LEMMA BucketSet ==
  ASSUME BucketOK, NEW c \in Client, call[c].req \in Request, call[c].req.op # "list",
         NEW raw \in Raw \cup {None}, bucket' = [bucket EXCEPT ![Name(c)] = raw]
  PROVE  BucketOK' /\ Seen' = [Seen EXCEPT ![<<Of[c], call[c].req.key>>] = raw]
  <1>1. PICK k : k = call[c].req.key /\ k \in Key /\ Name(c) = _k(Of[c], k) /\ Name(c) \in Names
    BY OwnObject
  <1>2. Of[c] \in Tenant /\ <<Of[c], k>> \in Owned
    BY <1>1, Constants DEF Owned
  <1>3. Seen' = [Seen EXCEPT ![<<Of[c], k>>] = raw]
    BY <1>1, <1>2, SeenStep
  <1>4. /\ bucket' \in [Names -> Raw \cup {None}]
        /\ \A n \in Names : bucket'[n] # None => bucket[n] # None \/ n = Name(c)
    BY <1>1 DEF BucketOK
  <1>5. \A n \in Names : bucket'[n] # None => \E o \in Owned : n = _k(o[1], o[2])
    <2> SUFFICES ASSUME NEW n \in Names, bucket'[n] # None
                 PROVE  \E o \in Owned : n = _k(o[1], o[2])
      OBVIOUS
    <2>1. CASE bucket[n] # None
      BY <2>1 DEF BucketOK
    <2>2. CASE n = Name(c)
      <3>1. <<Of[c], k>>[1] = Of[c] /\ <<Of[c], k>>[2] = k
        OBVIOUS
      <3>2. QED
        BY <1>1, <1>2, <2>2, <3>1
    <2>3. QED
      BY <1>4, <2>1, <2>2
  <1>6. QED
    BY <1>1, <1>3, <1>4, <1>5 DEF BucketOK

\* At the start every tenant has an empty store and no call is under way.
LEMMA InitStep == Init => IInv /\ Store!Init
  <1> SUFFICES ASSUME Init PROVE IInv /\ Store!Init
    OBVIOUS
  <1>1. /\ Idle \in Local /\ Idle.pc = "idle" /\ Idle.req = None /\ Idle.reply = None
    BY S3Assumption DEF Idle, Local
  <1>2. \A c \in Client : CallOK(c, Idle) /\ call[c] = Idle
    BY <1>1 DEF CallOK, Init
  <1>3. IInv
    BY <1>1, <1>2 DEF Init, IInv, BucketOK
  <1>4. Seen = [o \in Owned |-> None]
    BY Constants DEF Init, Seen, Owned
  <1>5. \A c \in Client : Asked(c, call[c]) = None /\ Shown(c, call[c]) = None
    BY <1>1, <1>2 DEF Asked, Shown
  <1>6. Asks = [c \in Client |-> None] /\ Shows = [c \in Client |-> None]
    BY <1>5 DEF Asks, Shows
  <1>7. QED
    BY <1>3, <1>4, <1>6 DEF Init, Store!Init

\* A call that begins is one the contract allows.
LEMMA CallStep ==
  ASSUME IInv, Store!Watch, NEW c \in Client, NEW r \in Requests[c], Call(c, r)
  PROVE  IInv' /\ Store!Next
  <1>1. r \in Request /\ r # None
    BY Constants, NoneAssumption
  <1>2. r.op \in {"put", "get", "exists", "delete", "list"}
    BY <1>1 DEF Request
  <1>3. PICK m : m = [Idle EXCEPT !.req = r, !.pc = r.op] /\ call' = [call EXCEPT ![c] = m]
    BY DEF Call, Run
  <1>4. m = [pc |-> r.op, req |-> r, seen |-> 0, found |-> {}, reply |-> None]
    BY <1>3 DEF Idle
  <1>5. m \in Local
    BY <1>1, <1>2, <1>4, S3Assumption DEF Local
  <1>6. CallOK(c, m)
    BY <1>1, <1>2, <1>4, <1>5 DEF CallOK
  <1>7. call[c].pc = "idle" /\ CallOK(c, call[c]) /\ during[c] = None
        /\ call \in [Client -> Local] /\ BucketOK
    BY DEF IInv, Call
  <1>8. BucketOK' /\ Seen' = Seen
    BY <1>7, BucketAlone DEF Call
  <1>9. call'[c] = m
    BY <1>3, <1>7
  <1>10. m.pc = "list" => ListOK(c)'
    BY <1>4, <1>6, <1>7, <1>9, ListBegins
  <1>11. IInv'
    BY <1>3, <1>6, <1>8, <1>10, Kept
  <1>12. PICK l : l = call[c] /\ Asks[c] = Asked(c, l) /\ Shows[c] = Shown(c, l)
    BY DEF Asks, Shows
  <1>13. Asks[c] = None /\ Shows[c] = None
    BY <1>7, <1>12, NothingAsked
  <1>14. Asked(c, m) = Owning(c, r) /\ Shown(c, m) = None
    BY <1>1, <1>2, <1>4, <1>6, AskedRequest, ShownWhile
  <1>15. Asks' = [Asks EXCEPT ![c] = Owning(c, r)] /\ Shows' = Shows
    <2>1. Asks' = [Asks EXCEPT ![c] = Owning(c, r)] /\ Shows' = [Shows EXCEPT ![c] = None]
      <3>1. /\ Asks' = [Asks EXCEPT ![c] = Asked(c, m)]
            /\ Shows' = [Shows EXCEPT ![c] = Shown(c, m)]
        BY <1>3, <1>7, SeesStep
      <3>2. QED
        BY <1>14, <3>1
    <2>2. Shows = [d \in Client |-> Shows[d]]
      BY DEF Shows
    <2>3. QED
      BY <1>13, <2>1, <2>2
  <1>16. Store!Ask(c, Owning(c, r))
    BY <1>8, <1>13, <1>15 DEF Store!Ask
  <1>17. QED
    BY <1>11, <1>16 DEF Store!Next, Store!Step

\* A call that returns has an answer.
LEMMA ReturnStep ==
  ASSUME IInv, Store!Watch, NEW c \in Client, Return(c)
  PROVE  IInv' /\ Store!Next
  <1>1. PICK m : m = Idle /\ call' = [call EXCEPT ![c] = m]
    BY DEF Return, Run
  <1>2. m \in Local /\ m.pc = "idle" /\ m.req = None /\ m.reply = None
    BY <1>1, S3Assumption DEF Idle, Local
  <1>3. CallOK(c, m)
    BY <1>2 DEF CallOK
  <1>4. PICK l : l = call[c] /\ Asks[c] = Asked(c, l) /\ Shows[c] = Shown(c, l)
    BY DEF Asks, Shows
  <1>5. l.pc = "done" /\ CallOK(c, l) /\ call \in [Client -> Local] /\ BucketOK
    BY <1>4 DEF IInv, Return
  <1>6. BucketOK' /\ Seen' = Seen
    BY <1>5, BucketAlone DEF Return
  <1>7. IInv'
    BY <1>1, <1>2, <1>3, <1>6, Kept
  <1>8. Shows[c] # None
    BY <1>4, <1>5, ShownDone
  <1>9. Asks' = [Asks EXCEPT ![c] = None] /\ Shows' = [Shows EXCEPT ![c] = None]
    <2>1. /\ Asks' = [Asks EXCEPT ![c] = Asked(c, m)]
          /\ Shows' = [Shows EXCEPT ![c] = Shown(c, m)]
      BY <1>1, <1>5, SeesStep
    <2>2. Asked(c, m) = None /\ Shown(c, m) = None
      BY <1>2, <1>3, NothingAsked
    <2>3. QED
      BY <2>1, <2>2
  <1>10. Store!Return(c)
    BY <1>6, <1>8, <1>9 DEF Store!Return
  <1>11. QED
    BY <1>7, <1>10 DEF Store!Next, Store!Step

\* A call fails by itself when its request does, exists by not finding its key.
LEMMA RaisesStep ==
  ASSUME IInv, Store!Watch, NEW c \in Client, Raises(c)
  PROVE  IInv' /\ Store!Next
  <1>1. PICK l : l = call[c] /\ Asks[c] = Asked(c, l) /\ Shows[c] = Shown(c, l)
    BY DEF Asks, Shows
  <1>2. CallOK(c, l) /\ l.pc # "idle" /\ l.pc # "done" /\ BucketOK
    BY <1>1 DEF IInv, Raises
  <1>3. BucketOK' /\ Seen' = Seen
    BY <1>2, BucketAlone DEF Raises
  <1>4. CASE \E m : m = Reply(l, "error", None) /\ call' = [call EXCEPT ![c] = m]
    <2>1. PICK m : m = Reply(l, "error", None) /\ call' = [call EXCEPT ![c] = m]
      BY <1>4
    <2>2. IInv' /\ Shows' = [Shows EXCEPT ![c] = [kind |-> "error", bytes |-> None]]
          /\ Asks' = Asks
      BY <1>1, <1>2, <1>3, <2>1, Replies
    <2>3. Asks[c] # None /\ (Shows[c] = None \/ Shows[c].kind = "ok")
      BY <1>1, <1>2, AskedRequest, ShownWhile
    <2>4. Store!Fail(c)
      BY <1>3, <2>2, <2>3 DEF Store!Fail, Store!Answer
    <2>5. QED
      BY <2>2, <2>4 DEF Store!Next, Store!Step
  <1>5. CASE \E m : l.pc = "exists" /\ m = Reply(l, "no", None) /\ call' = [call EXCEPT ![c] = m]
    <2>1. PICK m : m = Reply(l, "no", None) /\ call' = [call EXCEPT ![c] = m]
      BY <1>5
    <2>2. IInv' /\ Shows' = [Shows EXCEPT ![c] = [kind |-> "no", bytes |-> None]]
          /\ Asks' = Asks
      BY <1>1, <1>2, <1>3, <2>1, Replies
    <2>3. Asks[c] # None /\ Shows[c] = None /\ Asks[c].op = "exists"
      BY <1>1, <1>5, Opened
    <2>4. ApiFaults # {}
      BY DEF Raises
    <2>5. Store!exists(c)
      BY <1>3, <2>2, <2>3, <2>4 DEF Store!exists, Store!Open, Store!Answer
    <2>6. QED
      BY <2>2, <2>5 DEF Store!Next, Store!Step
  <1>6. QED
    BY <1>1, <1>4, <1>5 DEF Raises, Run

\* A put takes effect with its request; what is raised afterwards is a failure
\* that had its effect.
LEMMA PutStep ==
  ASSUME IInv, Store!Watch, NEW c \in Client, put(c)
  PROVE  IInv' /\ Store!Next
  <1>1. PICK l : l = call[c]
    OBVIOUS
  <1>2. /\ l.pc = "put" /\ CallOK(c, l) /\ l.req \in Request /\ l.req.op = "put"
        /\ Asks[c] # None /\ Shows[c] = None /\ Asks[c].op = "put"
        /\ Asks[c].key = <<Of[c], l.req.key>> /\ Asks[c].raw = l.req.raw
        /\ call \in [Client -> Local] /\ BucketOK
    BY <1>1, Opened DEF put, IInv
  <1>3. PICK raw \in Raw \cup {None} :
          raw = l.req.raw /\ bucket' = [bucket EXCEPT ![Name(c)] = raw]
    BY <1>1, <1>2, OwnObject DEF put
  <1>4. BucketOK' /\ Seen' = [Seen EXCEPT ![Asks[c].key] = Asks[c].raw]
    BY <1>1, <1>2, <1>3, BucketSet
  <1> l.pc # "idle" /\ BucketOK'
    BY <1>2, <1>4
  <1>5. CASE \E m : m = Reply(l, "ok", None) /\ call' = [call EXCEPT ![c] = m]
    <2>1. PICK m : m = Reply(l, "ok", None) /\ call' = [call EXCEPT ![c] = m]
      BY <1>5
    <2>2. IInv' /\ Shows' = [Shows EXCEPT ![c] = [kind |-> "ok", bytes |-> None]]
          /\ Asks' = Asks
      BY <1>1, <2>1, Replies
    <2>3. Store!put(c)
      BY <1>2, <1>4, <2>2 DEF Store!put, Store!Open, Store!Answer
    <2>4. QED
      BY <2>2, <2>3 DEF Store!Next, Store!Step
  <1>6. CASE \E m : m = Reply(l, "error", None) /\ call' = [call EXCEPT ![c] = m]
    <2>1. PICK m : m = Reply(l, "error", None) /\ call' = [call EXCEPT ![c] = m]
      BY <1>6
    <2>2. IInv' /\ Shows' = [Shows EXCEPT ![c] = [kind |-> "error", bytes |-> None]]
          /\ Asks' = Asks
      BY <1>1, <2>1, Replies
    <2>3. Store!Fail(c)
      BY <1>2, <1>4, <2>2 DEF Store!Fail, Store!Answer
    <2>4. QED
      BY <2>2, <2>3 DEF Store!Next, Store!Step
  <1>7. CASE \E m : m = [l EXCEPT !.pc = "head"] /\ call' = [call EXCEPT ![c] = m]
    <2>1. PICK m : m = [l EXCEPT !.pc = "head"] /\ call' = [call EXCEPT ![c] = m]
      BY <1>7
    <2>2. m \in Local /\ m.pc = "head" /\ m.req = l.req /\ m.reply = l.reply
      BY <1>2, <2>1 DEF CallOK, Local
    <2>3. CallOK(c, m)
      BY <1>2, <2>2 DEF CallOK
    <2>4. IInv'
      BY <1>4, <2>1, <2>2, <2>3, Kept
    <2>5. /\ Asks' = [Asks EXCEPT ![c] = Asked(c, m)]
          /\ Shows' = [Shows EXCEPT ![c] = Shown(c, m)]
      BY <1>2, <2>1, SeesStep
    <2>6. Asked(c, m) = Asks[c] /\ Asks = [d \in Client |-> Asks[d]]
      BY <1>1, <2>2 DEF Asked, Asks
    <2>7. Asks' = Asks
      BY <2>5, <2>6
    <2>8. Shown(c, m) = [kind |-> "ok", bytes |-> None]
      BY <2>2, <2>3, ShownWhile
    <2>9. Store!put(c)
      BY <1>2, <1>4, <2>5, <2>7, <2>8 DEF Store!put, Store!Open, Store!Answer
    <2>10. QED
      BY <2>4, <2>9 DEF Store!Next, Store!Step
  <1>8. Reply([l EXCEPT !.pc = "head"], "error", None) = Reply(l, "error", None)
        /\ Reply(Reply(l, "ok", None), "error", None) = Reply(l, "error", None)
    <2>1. l \in Local
      BY <1>2 DEF CallOK
    <2>2. QED
      BY <2>1 DEF Reply, Local
  <1>9. PICK m : /\ m \in Outcomes(IF l.req.raw \in Stream THEN [l EXCEPT !.pc = "head"]
                                   ELSE Reply(l, "ok", None))
                 /\ call' = [call EXCEPT ![c] = m]
    BY <1>1 DEF put, Run
  <1>10. m \in {[l EXCEPT !.pc = "head"], Reply(l, "ok", None), Reply(l, "error", None)}
    BY <1>8, <1>9 DEF Outcomes
  <1>11. QED
    BY <1>5, <1>6, <1>7, <1>9, <1>10

\* So does a delete.
LEMMA DeleteStep ==
  ASSUME IInv, Store!Watch, NEW c \in Client, delete(c)
  PROVE  IInv' /\ Store!Next
  <1>1. PICK l : l = call[c]
    OBVIOUS
  <1>2. /\ l.pc = "delete" /\ CallOK(c, l) /\ l.req \in Request /\ l.req.op = "delete"
        /\ Asks[c] # None /\ Shows[c] = None /\ Asks[c].op = "delete"
        /\ Asks[c].key = <<Of[c], l.req.key>> /\ BucketOK
    BY <1>1, Opened DEF delete, IInv
  <1>3. bucket' = [bucket EXCEPT ![Name(c)] = None]
    BY DEF delete
  <1>4. BucketOK' /\ Seen' = [Seen EXCEPT ![Asks[c].key] = None]
    <2>1. BucketOK /\ call[c].req \in Request /\ call[c].req.op # "list"
          /\ None \in Raw \cup {None}
      BY <1>1, <1>2
    <2>2. BucketOK' /\ Seen' = [Seen EXCEPT ![<<Of[c], call[c].req.key>>] = None]
      BY <1>3, <2>1, BucketSet
    <2>3. QED
      BY <1>1, <1>2, <2>2
  <1> l.pc # "idle" /\ BucketOK'
    BY <1>2, <1>4
  <1>5. CASE \E m : m = Reply(l, "ok", None) /\ call' = [call EXCEPT ![c] = m]
    <2>1. PICK m : m = Reply(l, "ok", None) /\ call' = [call EXCEPT ![c] = m]
      BY <1>5
    <2>2. IInv' /\ Shows' = [Shows EXCEPT ![c] = [kind |-> "ok", bytes |-> None]]
          /\ Asks' = Asks
      BY <1>1, <2>1, Replies
    <2>3. Store!delete(c)
      BY <1>2, <1>4, <2>2 DEF Store!delete, Store!Open, Store!Answer
    <2>4. QED
      BY <2>2, <2>3 DEF Store!Next, Store!Step
  <1>6. CASE \E m : m = Reply(l, "error", None) /\ call' = [call EXCEPT ![c] = m]
    <2>1. PICK m : m = Reply(l, "error", None) /\ call' = [call EXCEPT ![c] = m]
      BY <1>6
    <2>2. IInv' /\ Shows' = [Shows EXCEPT ![c] = [kind |-> "error", bytes |-> None]]
          /\ Asks' = Asks
      BY <1>1, <2>1, Replies
    <2>3. Store!Fail(c)
      BY <1>2, <1>4, <2>2 DEF Store!Fail, Store!Answer
    <2>4. QED
      BY <2>2, <2>3 DEF Store!Next, Store!Step
  <1>7. Reply(Reply(l, "ok", None), "error", None) = Reply(l, "error", None)
    <2>1. l \in Local
      BY <1>2 DEF CallOK
    <2>2. QED
      BY <2>1 DEF Reply, Local
  <1>8. PICK m : m \in Outcomes(Reply(l, "ok", None)) /\ call' = [call EXCEPT ![c] = m]
    BY <1>1 DEF delete, Run
  <1>9. m \in {Reply(l, "ok", None), Reply(l, "error", None)}
    BY <1>7, <1>8 DEF Outcomes
  <1>10. QED
    BY <1>5, <1>6, <1>8, <1>9

\* get answers with what is there at the moment of its request.
LEMMA GetStep ==
  ASSUME IInv, Store!Watch, NEW c \in Client, get(c)
  PROVE  IInv' /\ Store!Next
  <1>1. PICK l : l = call[c]
    OBVIOUS
  <1>2. /\ l.pc = "get" /\ l.req \in Request /\ l.req.op = "get"
        /\ Asks[c] # None /\ Shows[c] = None /\ Asks[c].op = "get"
        /\ Asks[c].key = <<Of[c], l.req.key>> /\ BucketOK
    BY <1>1, Opened DEF get, IInv
  <1>3. PICK raw \in Raw \cup {None} : raw = bucket[Name(c)] /\ raw = Seen[Asks[c].key]
    BY <1>1, <1>2, OwnObject DEF BucketOK
  <1>4. Seen' = Seen
    BY <1>2, BucketAlone DEF get
  <1> l.pc # "idle" /\ BucketOK'
    BY <1>2, BucketAlone DEF get
  <1>5. CASE raw = None
    <2>1. PICK m : m = Reply(l, "BlobNotFoundError", None) /\ call' = [call EXCEPT ![c] = m]
      BY <1>1, <1>3, <1>5 DEF get, Run
    <2>2. IInv' /\ Shows' = [Shows EXCEPT ![c] = [kind |-> "BlobNotFoundError", bytes |-> None]]
          /\ Asks' = Asks
      BY <1>1, <2>1, Replies
    <2>3. Store!get(c)
      BY <1>2, <1>3, <1>4, <1>5, <2>2 DEF Store!get, Store!Open, Store!Answer
    <2>4. QED
      BY <2>2, <2>3 DEF Store!Next, Store!Step
  <1>6. CASE raw # None
    <2>1. PICK m : m = Reply(l, "bytes", raw) /\ call' = [call EXCEPT ![c] = m]
      BY <1>1, <1>3, <1>6 DEF get, Run
    <2>2. IInv' /\ Shows' = [Shows EXCEPT ![c] = [kind |-> "bytes", bytes |-> raw]]
          /\ Asks' = Asks
      BY <1>1, <2>1, Replies
    <2>3. Store!get(c)
      BY <1>2, <1>3, <1>4, <1>6, <2>2 DEF Store!get, Store!Open, Store!Answer
    <2>4. QED
      BY <2>2, <2>3 DEF Store!Next, Store!Step
  <1>7. QED
    BY <1>5, <1>6

\* exists tells whether it is there.
LEMMA ExistsStep ==
  ASSUME IInv, Store!Watch, NEW c \in Client, exists(c)
  PROVE  IInv' /\ Store!Next
  <1>1. PICK l : l = call[c]
    OBVIOUS
  <1>2. /\ l.pc = "exists" /\ l.req \in Request /\ l.req.op = "exists"
        /\ Asks[c] # None /\ Shows[c] = None /\ Asks[c].op = "exists"
        /\ Asks[c].key = <<Of[c], l.req.key>> /\ BucketOK
    BY <1>1, Opened DEF exists, IInv
  <1>3. bucket[Name(c)] = Seen[Asks[c].key]
    BY <1>1, <1>2, OwnObject
  <1>4. Seen' = Seen
    BY <1>2, BucketAlone DEF exists
  <1> l.pc # "idle" /\ BucketOK'
    BY <1>2, BucketAlone DEF exists
  <1>5. PICK kind \in {"yes", "no"} : kind = IF bucket[Name(c)] = None THEN "no" ELSE "yes"
    OBVIOUS
  <1>6. PICK m : m = Reply(l, kind, None) /\ call' = [call EXCEPT ![c] = m]
    BY <1>1, <1>5 DEF exists, Run
  <1>7. IInv' /\ Shows' = [Shows EXCEPT ![c] = [kind |-> kind, bytes |-> None]] /\ Asks' = Asks
    BY <1>1, <1>6, Replies
  <1>8. Store!exists(c)
    BY <1>2, <1>3, <1>4, <1>5, <1>7 DEF Store!exists, Store!Open, Store!Answer
  <1>9. QED
    BY <1>7, <1>8 DEF Store!Next, Store!Step

\* A step that changes nothing that a caller sees changes no listing either.
LEMMA NothingSeen ==
  ASSUME IInv, Store!Watch, Seen' = Seen, Asks' = Asks, Shows' = Shows, UNCHANGED bucket,
         \A d \in Client : CallOK(d, call'[d]),
         \A d \in Client : (call'[d].pc = "list" <=> call[d].pc = "list")
                           /\ (call[d].pc = "list" => call'[d].req = call[d].req)
  PROVE  UNCHANGED Store!vars
  <1>1. ASSUME NEW d \in Client PROVE during'[d] = during[d]
    <2>1. PICK m : m = call'[d] /\ CallOK(d, m)
      OBVIOUS
    <2>2. CASE m.pc = "list"
      <3>1. ListOK(d)
        BY <2>1, <2>2 DEF IInv
      <3>2. during[d] # None
        BY <3>1, NoneAssumption DEF ListOK
      <3>3. Now(d)' = Now(d)
        BY <2>1, <2>2 DEF Now
      <3>4. during'[d] = [always |-> during[d].always \cap Now(d),
                          ever |-> during[d].ever \cup Now(d)]
        BY <2>1, <2>2, <3>2, <3>3, WatchStep
      <3>5. during[d].always \cap Now(d) = during[d].always
            /\ during[d].ever \cup Now(d) = during[d].ever
        BY <3>1 DEF ListOK
      <3>6. during[d] = [always |-> during[d].always, ever |-> during[d].ever]
        BY <3>1 DEF ListOK
      <3>7. QED
        BY <3>4, <3>5, <3>6
    <2>3. CASE m.pc # "list"
      BY <2>1, <2>3, WatchStep DEF IInv
    <2>4. QED
      BY <2>2, <2>3
  <1>2. during' = [d \in Client |-> during'[d]] /\ during = [d \in Client |-> during[d]]
    BY DEF Store!Watch, IInv
  <1>3. during' = during
    BY <1>1, <1>2
  <1>4. QED
    BY <1>3 DEF Store!vars

\* The lookup of an uploaded object can only turn the answer into an error.
LEMMA HeadStep ==
  ASSUME IInv, Store!Watch, NEW c \in Client, head_object(c)
  PROVE  IInv' /\ [Store!Next]_(Store!vars)
  <1>1. PICK l : l = call[c] /\ Asks[c] = Asked(c, l) /\ Shows[c] = Shown(c, l)
    BY DEF Asks, Shows
  <1>2. CallOK(c, l) /\ l.pc = "head" /\ BucketOK
    BY <1>1 DEF IInv, head_object
  <1>3. Asks[c] # None /\ Shows[c] = [kind |-> "ok", bytes |-> None]
    BY <1>1, <1>2, AskedRequest, ShownWhile
  <1>4. Seen' = Seen
    BY <1>2, BucketAlone DEF head_object
  <1> l.pc # "idle" /\ BucketOK'
    BY <1>2, BucketAlone DEF head_object
  <1>5. CASE bucket[Name(c)] = None
    <2>1. PICK m : m = Reply(l, "error", None) /\ call' = [call EXCEPT ![c] = m]
      BY <1>1, <1>5 DEF head_object, Run
    <2>2. IInv' /\ Shows' = [Shows EXCEPT ![c] = [kind |-> "error", bytes |-> None]]
          /\ Asks' = Asks
      BY <1>1, <2>1, Replies
    <2>3. Store!Fail(c)
      BY <1>3, <1>4, <2>2 DEF Store!Fail, Store!Answer
    <2>4. QED
      BY <2>2, <2>3 DEF Store!Next, Store!Step
  <1>6. CASE bucket[Name(c)] # None
    <2>1. PICK m : m = Reply(l, "ok", None) /\ call' = [call EXCEPT ![c] = m]
      BY <1>1, <1>6 DEF head_object, Run
    <2>2. IInv' /\ Shows' = [Shows EXCEPT ![c] = [kind |-> "ok", bytes |-> None]]
          /\ Asks' = Asks
      BY <1>1, <2>1, Replies
    <2>3. Shows' = Shows
      <3>1. Shows = [d \in Client |-> Shows[d]]
        BY DEF Shows
      <3>2. QED
        BY <1>3, <2>2, <3>1
    <2>4. \A d \in Client : CallOK(d, call'[d])
      BY <2>2 DEF IInv
    <2>5. \A d \in Client : call'[d] = IF d = c THEN m ELSE call[d]
      BY <2>1 DEF IInv
    <2>6. m.pc = "done"
      BY <1>2, <2>1 DEF Reply, CallOK, Local
    <2>7. UNCHANGED Store!vars
      BY <1>1, <1>2, <1>4, <2>2, <2>3, <2>4, <2>5, <2>6, NothingSeen DEF head_object
    <2>8. QED
      BY <2>2, <2>7
  <1>7. QED
    BY <1>5, <1>6

\* The positions that are still to come in the listing of c, as the bucket is.
ListedNow(c) ==
  {i \in DOMAIN Order : /\ i > call[c].seen /\ bucket[Order[i]] # None
                        /\ IsPrefix(Name(c), Order[i])}

\* What c has found after a page.
With(c, page) == call[c].found \cup {Stripped(c, Order[i]) : i \in page}

\* A position of the listing is the name of an object of the tenant that is
\* there and under the prefix.
LEMMA ListedOwn ==
  ASSUME BucketOK, NEW c \in Client, call[c].req \in Request, call[c].req.op = "list",
         NEW i \in ListedNow(c)
  PROVE  /\ Stripped(c, Order[i]) \in Key
         /\ <<Of[c], Stripped(c, Order[i])>> \in Now(c)
  <1>1. call[c].req.key \in Sought /\ Of[c] \in Tenant
    BY Constants DEF Request
  <1>2. i \in DOMAIN Order /\ bucket[Order[i]] # None /\ IsPrefix(Name(c), Order[i])
    BY DEF ListedNow
  <1>3. Order[i] \in Names
    BY <1>2 DEF Names, ToSet
  <1>4. PICK o \in Owned : Order[i] = _k(o[1], o[2])
    BY <1>2, <1>3 DEF BucketOK
  <1>5. PICK t \in Tenant, k \in Key : t = o[1] /\ k = o[2] /\ o = <<t, k>>
    BY DEF Owned
  <1>6. t = Of[c] /\ IsPrefix(call[c].req.key, k)
    BY <1>1, <1>2, <1>4, <1>5, ListedName DEF Name
  <1>7. Stripped(c, Order[i]) = k
    BY <1>4, <1>5, <1>6, StrippedKey
  <1>8. o \in Now(c)
    BY <1>2, <1>4, <1>5, <1>6 DEF Now
  <1>9. QED
    BY <1>5, <1>6, <1>7, <1>8

\* An object that is there is listed as long as it lies ahead.
LEMMA NowListed ==
  ASSUME NEW c \in Client, call[c].req \in Request, call[c].req.op = "list",
         NEW o \in Now(c), NEW i \in DOMAIN Order, i > call[c].seen, Order[i] = _k(o[1], o[2])
  PROVE  i \in ListedNow(c) /\ Stripped(c, Order[i]) = o[2]
  <1>1. call[c].req.key \in Sought /\ Of[c] \in Tenant
    BY Constants DEF Request
  <1>2. /\ o[1] = Of[c] /\ o[2] \in Key /\ IsPrefix(call[c].req.key, o[2])
        /\ bucket[_k(o[1], o[2])] # None
    BY DEF Now, Owned
  <1>3. IsPrefix(Name(c), Order[i])
    BY <1>1, <1>2, ListedName DEF Name
  <1>4. Stripped(c, Order[i]) = o[2]
    BY <1>2, StrippedKey
  <1>5. QED
    BY <1>2, <1>3, <1>4 DEF ListedNow

\* What a page adds to what a listing has found.
LEMMA Page ==
  ASSUME IInv, NEW c \in Client, call[c].pc = "list", NEW page \in SUBSET ListedNow(c)
  PROVE  /\ With(c, page) \subseteq Key
         /\ \A k \in With(c, page) : <<Of[c], k>> \in during[c].ever
  <1>1. /\ call[c].req \in Request /\ call[c].req.op = "list" /\ BucketOK /\ ListOK(c)
        /\ call[c].found \subseteq Key
    BY Opened DEF IInv, Local
  <1>2. \A i \in page : /\ Stripped(c, Order[i]) \in Key
                        /\ <<Of[c], Stripped(c, Order[i])>> \in Now(c)
    BY <1>1, ListedOwn
  <1>3. QED
    BY <1>1, <1>2 DEF With, ListOK

\* A page that is not the last: no caller sees it.
LEMMA PageStep ==
  ASSUME IInv, Store!Watch, NEW c \in Client, call[c].pc = "list", UNCHANGED bucket,
         NEW last \in ListedNow(c), NEW page, page = {i \in ListedNow(c) : i <= last},
         NEW m, m = [call[c] EXCEPT !.found = With(c, page), !.seen = last],
         call' = [call EXCEPT ![c] = m]
  PROVE  IInv' /\ UNCHANGED Store!vars
  <1>1. PICK l : l = call[c] /\ Asks[c] = Asked(c, l) /\ Shows[c] = Shown(c, l)
    BY DEF Asks, Shows
  <1>2. /\ l.req \in Request /\ l.req.op = "list" /\ l.pc = "list" /\ CallOK(c, l)
        /\ l \in Local /\ ListOK(c) /\ BucketOK /\ call \in [Client -> Local]
    BY <1>1, Opened DEF IInv
  <1>3. With(c, page) \subseteq Key /\ \A k \in With(c, page) : <<Of[c], k>> \in during[c].ever
    BY Page
  <1>4. last \in 0 .. Len(Order)
    BY S3Assumption DEF ListedNow
  <1>5. /\ m \in Local /\ m.pc = "list" /\ m.req = l.req /\ m.reply = l.reply
        /\ m.found = With(c, page) /\ m.seen = last
    BY <1>1, <1>2, <1>3, <1>4 DEF Local
  <1>6. CallOK(c, m)
    BY <1>2, <1>5 DEF CallOK
  <1>7. call'[c] = m /\ \A d \in Client : d # c => call'[d] = call[d]
    BY <1>2
  <1>8. BucketOK' /\ Seen' = Seen
    BY <1>2, BucketAlone
  <1>9. Now(c)' = Now(c)
    BY <1>1, <1>5, <1>7 DEF Now
  <1>10. during'[c] = [always |-> during[c].always \cap Now(c),
                       ever |-> during[c].ever \cup Now(c)]
    <2>1. during[c] # None
      BY <1>2, NoneAssumption DEF ListOK
    <2>2. QED
      <3>1. during'[c] =
              IF m.pc = "list"
              THEN [always |-> IF during[c] = None THEN Now(c)'
                               ELSE during[c].always \cap Now(c)',
                    ever   |-> IF during[c] = None THEN Now(c)'
                               ELSE during[c].ever \cup Now(c)']
              ELSE None
        BY <1>6, <1>7, WatchStep
      <3>2. QED
        BY <1>5, <1>9, <2>1, <3>1
  <1>11. ASSUME NEW o \in during[c].always
         PROVE  o[2] \in With(c, page) \/ Ahead(c, o)'
    <2>1. o \in Now(c) /\ (o[2] \in call[c].found \/ Ahead(c, o))
      BY <1>2 DEF ListOK
    <2>2. CASE o[2] \in call[c].found
      BY <2>2 DEF With
    <2>3. CASE Ahead(c, o)
      <3>1. PICK i \in DOMAIN Order : i > call[c].seen /\ Order[i] = _k(o[1], o[2])
        BY <2>3 DEF Ahead
      <3>2. i \in ListedNow(c) /\ Stripped(c, Order[i]) = o[2]
        BY <1>1, <1>2, <2>1, <3>1, NowListed
      <3>3. CASE i <= last
        BY <3>2, <3>3 DEF With
      <3>4. CASE ~ i <= last
        <4>1. i > last
          BY <1>4, <3>1, <3>4, S3Assumption
        <4>2. QED
          BY <1>5, <1>7, <3>1, <4>1 DEF Ahead
      <3>5. QED
        BY <3>3, <3>4
    <2>4. QED
      BY <2>1, <2>2, <2>3
  <1>12. ListOK(c)'
    <2>1. Now(c) \subseteq Owned
      BY DEF Now
    <2>2. during[c] \in [always : SUBSET Owned, ever : SUBSET Owned]
      BY <1>2 DEF ListOK
    <2>3. /\ during'[c].always = during[c].always \cap Now(c)
          /\ during'[c].ever = during[c].ever \cup Now(c)
          /\ call'[c].found = With(c, page)
      <3>1. call'[c].found = With(c, page)
        BY <1>5, <1>7
      <3>2. QED
        BY <1>10, <3>1
    <2>4. \A k \in call'[c].found : <<Of[c], k>> \in during'[c].ever
      BY <1>3, <2>3
    <2>5. \A o \in during'[c].always : o[2] \in call'[c].found \/ Ahead(c, o)'
      BY <1>11, <2>3
    <2>6. QED
      BY <1>9, <1>10, <2>1, <2>2, <2>4, <2>5 DEF ListOK
  <1>13. IInv'
    BY <1>6, <1>8, <1>12, Kept
  <1>14. Asked(c, m) = Asked(c, l) /\ Shown(c, m) = Shown(c, l)
    BY <1>2, <1>5 DEF Asked, Shown
  <1>15. Asks' = Asks /\ Shows' = Shows
    <2>1. /\ Asks' = [Asks EXCEPT ![c] = Asked(c, m)]
          /\ Shows' = [Shows EXCEPT ![c] = Shown(c, m)]
      BY <1>2, SeesStep
    <2>2. Asks = [d \in Client |-> Asks[d]] /\ Shows = [d \in Client |-> Shows[d]]
      BY DEF Asks, Shows
    <2>3. QED
      BY <1>1, <1>14, <2>1, <2>2
  <1>16. \A d \in Client : CallOK(d, call'[d])
    BY <1>13 DEF IInv
  <1>17. \A d \in Client : (call'[d].pc = "list" <=> call[d].pc = "list")
                           /\ (call[d].pc = "list" => call'[d].req = call[d].req)
    BY <1>1, <1>5, <1>7
  <1>18. QED
    BY <1>8, <1>13, <1>15, <1>16, <1>17, NothingSeen

\* The last page: the answer lies between what has been there always and what
\* has been there ever.
LEMMA LastPageStep ==
  ASSUME IInv, Store!Watch, NEW c \in Client, call[c].pc = "list", UNCHANGED bucket,
         NEW found, found = With(c, ListedNow(c)),
         NEW m, m = Reply([call[c] EXCEPT !.found = found], "keys", found),
         call' = [call EXCEPT ![c] = m]
  PROVE  IInv' /\ Store!Next
  <1>1. PICK l : l = call[c] /\ Asks[c] = Asked(c, l) /\ Shows[c] = Shown(c, l)
    BY DEF Asks, Shows
  <1>2. /\ l.req \in Request /\ l.req.op = "list" /\ l.pc = "list" /\ CallOK(c, l)
        /\ l \in Local /\ ListOK(c) /\ BucketOK /\ call \in [Client -> Local]
        /\ Asks[c] # None /\ Shows[c] = None /\ Asks[c].op = "list"
    BY <1>1, Opened DEF IInv
  <1>3. found \subseteq Key /\ \A k \in found : <<Of[c], k>> \in during[c].ever
    BY Page
  <1>4. PICK h : h = [l EXCEPT !.found = found]
    OBVIOUS
  <1>5. h \in Local /\ h.pc = "list" /\ h.req = l.req /\ h.reply = l.reply
    BY <1>2, <1>3, <1>4 DEF Local
  <1>6. CallOK(c, h)
    BY <1>2, <1>5 DEF CallOK
  <1>7. m = Reply(h, "keys", found)
    BY <1>1, <1>4
  <1>8. CallOK(c, m) /\ m.pc = "done" /\ m.req = l.req
    <2>1. [kind |-> "keys", bytes |-> found] \in Answer
      BY <1>3 DEF Answer
    <2>2. QED
      BY <1>3, <1>5, <1>6, <1>7, <2>1, ReplyOK
  <1>9. BucketOK' /\ Seen' = Seen
    BY <1>2, BucketAlone
  <1>10. IInv'
    BY <1>8, <1>9, Kept
  <1>11. Shown(c, m) = [kind |-> "keys", bytes |-> {Of[c]} \X found]
    <2>1. Shown(c, Reply(h, "keys", found)) =
            [kind |-> "keys",
             bytes |-> IF h.req.op = "list" /\ "keys" = "keys" THEN {Of[c]} \X found ELSE found]
      BY <1>5, ShownReply
    <2>2. QED
      BY <1>2, <1>5, <1>7, <2>1
  <1>12. Asked(c, m) = Asks[c] /\ Asks = [d \in Client |-> Asks[d]]
    BY <1>1, <1>8 DEF Asked, Asks
  <1>13. /\ Asks' = [Asks EXCEPT ![c] = Asked(c, m)]
         /\ Shows' = [Shows EXCEPT ![c] = Shown(c, m)]
    BY <1>2, SeesStep
  <1>14. Asks' = Asks
    BY <1>12, <1>13
  <1>15. {Of[c]} \X found \in SUBSET during[c].ever
    BY <1>3
  <1>16. during[c].always \subseteq {Of[c]} \X found
    <2> SUFFICES ASSUME NEW o \in during[c].always PROVE o \in {Of[c]} \X found
      OBVIOUS
    <2>1. o \in Now(c) /\ (o[2] \in call[c].found \/ Ahead(c, o))
      BY <1>2 DEF ListOK
    <2>2. o = <<Of[c], o[2]>>
      BY <2>1 DEF Now, Owned
    <2>3. CASE Ahead(c, o)
      <3>1. PICK i \in DOMAIN Order : i > call[c].seen /\ Order[i] = _k(o[1], o[2])
        BY <2>3 DEF Ahead
      <3>2. i \in ListedNow(c) /\ Stripped(c, Order[i]) = o[2]
        BY <1>1, <1>2, <2>1, <3>1, NowListed
      <3>3. QED
        BY <2>2, <3>2 DEF With
    <2>4. CASE o[2] \in call[c].found
      BY <2>2, <2>4 DEF With
    <2>5. QED
      BY <2>1, <2>3, <2>4
  <1>17. Store!list(c)
    BY <1>2, <1>9, <1>11, <1>13, <1>14, <1>15, <1>16 DEF Store!list, Store!Open, Store!Answer
  <1>18. QED
    BY <1>10, <1>17 DEF Store!Next, Store!Step

\* A page of a listing.
LEMMA ListStep ==
  ASSUME IInv, Store!Watch, NEW c \in Client, list(c)
  PROVE  IInv' /\ [Store!Next]_(Store!vars)
  <1>1. call[c].pc = "list" /\ UNCHANGED bucket
    BY DEF list
  <1>2. PICK all : all = With(c, ListedNow(c))
    OBVIOUS
  <1>3. \/ call' = [call EXCEPT ![c] = Reply([call[c] EXCEPT !.found = all], "keys", all)]
        \/ \E last \in ListedNow(c) :
             call' = [call EXCEPT ![c] =
                        [call[c] EXCEPT !.found = With(c, {i \in ListedNow(c) : i <= last}),
                                        !.seen = last]]
    BY <1>2 DEF list, Run, ListedNow, With
  <1>4. CASE call' = [call EXCEPT ![c] = Reply([call[c] EXCEPT !.found = all], "keys", all)]
    <2>1. PICK m : /\ m = Reply([call[c] EXCEPT !.found = all], "keys", all)
                   /\ call' = [call EXCEPT ![c] = m]
      BY <1>4
    <2>2. QED
      BY <1>1, <1>2, <2>1, LastPageStep
  <1>5. CASE \E last \in ListedNow(c) :
               call' = [call EXCEPT ![c] =
                          [call[c] EXCEPT !.found = With(c, {i \in ListedNow(c) : i <= last}),
                                          !.seen = last]]
    <2>1. PICK last, page, m :
            /\ last \in ListedNow(c)
            /\ page = {i \in ListedNow(c) : i <= last}
            /\ m = [call[c] EXCEPT !.found = With(c, page), !.seen = last]
            /\ call' = [call EXCEPT ![c] = m]
      BY <1>5
    <2>2. QED
      BY <1>1, <2>1, PageStep
  <1>6. QED
    BY <1>3, <1>4, <1>5

-----------------------------------------------------------------------------
(* Theorems *)

\* Every step keeps the invariant and is one of the contract or none.
LEMMA NextStep == IInv /\ [Next]_vars => IInv' /\ [Store!Next]_(Store!vars)
  <1> SUFFICES ASSUME IInv, [Next]_vars PROVE IInv' /\ [Store!Next]_(Store!vars)
    OBVIOUS
  <1>1. CASE UNCHANGED vars
    <2>1. IInv'
      BY <1>1 DEF IInv, vars, BucketOK, ListOK, Now, Ahead, CallOK, Name
    <2>2. UNCHANGED Store!vars
      BY <1>1 DEF vars, Store!vars, Seen, Asks, Shows
    <2>3. QED
      BY <2>1, <2>2
  <1>2. CASE Next
    <2>1. PICK c \in Client : Step(c)
      BY <1>2 DEF Next
    <2>2. Store!Watch
      BY <1>2 DEF Next
    <2>3. CASE \E r \in Requests[c] : Call(c, r)
      BY <2>2, <2>3, CallStep
    <2>4. CASE Return(c)
      BY <2>2, <2>4, ReturnStep
    <2>5. CASE Raises(c)
      BY <2>2, <2>5, RaisesStep
    <2>6. CASE put(c)
      BY <2>2, <2>6, PutStep
    <2>7. CASE head_object(c)
      BY <2>2, <2>7, HeadStep
    <2>8. CASE get(c)
      BY <2>2, <2>8, GetStep
    <2>9. CASE exists(c)
      BY <2>2, <2>9, ExistsStep
    <2>10. CASE delete(c)
      BY <2>2, <2>10, DeleteStep
    <2>11. CASE list(c)
      BY <2>2, <2>11, ListStep
    <2>12. QED
      BY <2>1, <2>3, <2>4, <2>5, <2>6, <2>7, <2>8, <2>9, <2>10, <2>11 DEF Step
  <1>3. QED
    BY <1>1, <1>2

\* The inductive invariant.
THEOREM Invariance == Spec => []IInv
  <1>1. Init => IInv
    BY InitStep
  <1>2. IInv /\ [Next]_vars => IInv'
    BY NextStep
  <1>3. QED
    BY <1>1, <1>2, PTL DEF Spec

\* The bucket and the local variables of every call have their types.
THEOREM TypeCorrect == Spec => []TypeOK
  <1>1. IInv => TypeOK
    BY DEF IInv, BucketOK, CallOK, TypeOK
  <1>2. QED
    BY <1>1, Invariance, PTL

\* "use for tenant isolation": whatever the clients' requests overtake and fail,
\* an object changes only by a put or a delete of its key from its own tenant.
THEOREM TenantsApart == Spec => OwnedOnly
  <1> DEFINE Own == \A o \in Owned :
        bucket'[_k(o[1], o[2])] # bucket[_k(o[1], o[2])] =>
          \E c \in Client : /\ Of[c] = o[1] /\ call[c].pc \in {"put", "delete"}
                            /\ call[c].req.key = o[2]
  <1>1. IInv /\ [Next]_vars => [Own]_vars
    <2> SUFFICES ASSUME IInv, Next, NEW o \in Owned,
                        bucket'[_k(o[1], o[2])] # bucket[_k(o[1], o[2])]
                 PROVE  \E c \in Client : /\ Of[c] = o[1] /\ call[c].pc \in {"put", "delete"}
                                          /\ call[c].req.key = o[2]
      BY DEF vars
    <2>1. PICK c \in Client : Step(c)
      BY DEF Next
    <2>2. put(c) \/ delete(c)
      BY <2>1 DEF Step, Call, Return, Raises, head_object, get, exists, list
    <2>3. o[1] \in Tenant /\ o[2] \in Key /\ _k(o[1], o[2]) \in Names
      BY Constants DEF Owned
    <2>4. PICK raw : bucket' = [bucket EXCEPT ![Name(c)] = raw]
      BY <2>2 DEF put, delete
    <2>5. call[c].pc \in {"put", "delete"} /\ _k(o[1], o[2]) = Name(c)
      BY <2>2, <2>3, <2>4 DEF put, delete, IInv, BucketOK
    <2>6. call[c].req.key \in Key /\ Name(c) = _k(Of[c], call[c].req.key) /\ Of[c] \in Tenant
      <3>1. call[c].req \in Request /\ call[c].req.op # "list"
        BY <2>5, Opened
      <3>2. QED
        BY <3>1, OwnObject, Constants
    <2>7. Of[c] = o[1] /\ call[c].req.key = o[2]
      BY <2>3, <2>5, <2>6, NamesApart
    <2>8. QED
      BY <2>5, <2>7
  <1>2. QED
    BY <1>1, Invariance, PTL DEF Spec, OwnedOnly

\* What a tenant's callers see of their store is the contract: a map that no
\* other tenant's requests touch, on which every call takes effect at once and
\* a listing tells what is there.
THEOREM Implementation == Spec => ImplementsBlobStore
  <1>1. Init => Store!Init
    BY InitStep
  <1>2. IInv /\ [Next]_vars => [Store!Next]_(Store!vars)
    BY NextStep
  <1>3. QED
    BY <1>1, <1>2, Invariance, PTL DEF Spec, ImplementsBlobStore, Store!Spec

=============================================================================
