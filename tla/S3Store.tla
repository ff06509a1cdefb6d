------------------------------- MODULE S3Store ------------------------------
(***************************************************************************)
(* S3CompatibleStore: one store per tenant, all on one bucket, each under  *)
(* a key_prefix of its own.  Keys and prefixes are sequences of tokens.    *)
(* Every request to the provider is one step; a call that needs several    *)
(* (the upload of a stream, a listing in pages) can be overtaken.          *)
(***************************************************************************)
EXTENDS Naturals, Sequences, SequencesExt, FiniteSets

CONSTANTS
  Client,
  Tenant,
  Of,          \* Of[c]: the tenant of c
  key_prefix,  \* key_prefix[t]: what the store of t prepends to every key
  Key,
  Raw,         \* byte strings
  Stream,      \* those that come as a file object
  Sought,      \* the prefixes that list may be asked for
  Requests,    \* Requests[c]: the calls that c may make
  Order,       \* the names an object may have, in the order of their listing
  PageLimit,   \* object names in a page
  ApiFaults,   \* requests may raise "before" or "after" they take effect
  None

_k_Unprefixed(t, key) == key

_k(t, key) == key_prefix[t] \o key

Names == ToSet(Order)

Request ==
  [op : {"put", "get", "exists", "delete"}, key : Key, raw : Raw \cup {None}]
    \cup [op : {"list"}, key : Sought, raw : {None}]

\* "use for tenant isolation, e.g. {tenant_id}/": none begins another.
ASSUME PrefixesApart ==
  \A t, u \in Tenant : t # u => ~ IsPrefix(key_prefix[t], key_prefix[u])

ASSUME S3Assumption ==
  /\ Key \cup Sought \subseteq Seq(STRING) /\ key_prefix \in [Tenant -> Seq(STRING)]
  /\ Of \in [Client -> Tenant]
  /\ Stream \subseteq Raw
  /\ \A c \in Client : Requests[c] \subseteq Request
  /\ \A t \in Tenant, key \in Key : _k(t, key) \in Names
  /\ PageLimit \in Nat \ {0}
  /\ ApiFaults \subseteq {"before", "after"}
  /\ Order \in Seq(Seq(STRING))

\* A tenant's keys are apart from another tenant's.
Owned == Tenant \X Key

Answer ==
  [kind : {"ok", "error", "bytes", "BlobNotFoundError", "yes", "no", "keys"},
   bytes : Raw \cup {None} \cup SUBSET Key]

\* None is no other value.
ASSUME NoneAssumption ==
  /\ None \notin Raw \cup Request \cup Answer
  /\ None \notin [op : {"put", "get", "exists", "delete", "list"},
                 key : Tenant \X Seq(STRING), raw : Raw \cup {None}]
  /\ None \notin [kind : {"keys"}, bytes : SUBSET Owned]
  /\ None \notin [always : SUBSET Owned, ever : SUBSET Owned]

VARIABLES
  bucket,  \* bucket[n]: the bytes of object n, or None
  call,    \* call[c]: the local variables of the call of c
  during   \* history: what each list may answer, see BlobStore

vars == <<bucket, call, during>>

Local ==
  [pc : {"idle", "put", "head", "get", "exists", "delete", "list", "done"},
   req : Request \cup {None},
   seen : 0 .. Len(Order), found : SUBSET Key,
   reply : Answer \cup {None}]

\* seen: how much of Order a listing has behind it; found: what it yielded.
Idle == [pc |-> "idle", req |-> None, seen |-> 0, found |-> {}, reply |-> None]

Name(c) == _k(Of[c], call[c].req.key)

Reply(l, kind, bytes) ==
  [l EXCEPT !.pc = "done", !.reply = [kind |-> kind, bytes |-> bytes]]

Run(c, l) == call' = [call EXCEPT ![c] = l]

\* How a request that took effect goes on: normally, or by raising.
Outcomes(l) == {l} \cup {x \in {Reply(l, "error", None)} : "after" \in ApiFaults}

Init ==
  /\ bucket = [n \in Names |-> None]
  /\ call = [c \in Client |-> Idle]
  /\ during = [c \in Client |-> None]

Call(c, r) ==
  /\ call[c].pc = "idle"
  /\ Run(c, [Idle EXCEPT !.req = r, !.pc = r.op])
  /\ UNCHANGED bucket

Return(c) ==
  /\ call[c].pc = "done"
  /\ Run(c, Idle)
  /\ UNCHANGED bucket

Raises_Hit(c) ==
  LET l == call[c] IN
  /\ "before" \in ApiFaults
  /\ l.pc \notin {"idle", "done"}
  /\ \/ Run(c, Reply(l, "error", None))
     \/ l.pc = "exists" /\ Run(c, Reply(l, "yes", None))
  /\ UNCHANGED bucket

\* A request fails before it takes effect.  exists takes every ClientError for
\* a missing key; what is not a ClientError reaches its caller too.
Raises(c) ==
  LET l == call[c] IN
  /\ "before" \in ApiFaults
  /\ l.pc \notin {"idle", "done"}
  /\ \/ Run(c, Reply(l, "error", None))
     \/ l.pc = "exists" /\ Run(c, Reply(l, "no", None))
  /\ UNCHANGED bucket

\* put_object; upload_fileobj for a stream, after which the object is looked up.
put(c) ==
  LET l == call[c] IN
  /\ l.pc = "put"
  /\ bucket' = [bucket EXCEPT ![Name(c)] = l.req.raw]
  /\ \E m \in Outcomes(IF l.req.raw \in Stream THEN [l EXCEPT !.pc = "head"]
                       ELSE Reply(l, "ok", None)) : Run(c, m)

head_object(c) ==
  LET l == call[c] IN
  /\ l.pc = "head"
  /\ Run(c, Reply(l, IF bucket[Name(c)] = None THEN "error" ELSE "ok", None))
  /\ UNCHANGED bucket

get(c) ==
  LET l == call[c]
      raw == bucket[Name(c)]
  IN
  /\ l.pc = "get"
  /\ Run(c, IF raw = None THEN Reply(l, "BlobNotFoundError", None)
                          ELSE Reply(l, "bytes", raw))
  /\ UNCHANGED bucket

exists(c) ==
  LET l == call[c] IN
  /\ l.pc = "exists"
  /\ Run(c, Reply(l, IF bucket[Name(c)] = None THEN "no" ELSE "yes", None))
  /\ UNCHANGED bucket

\* A missing object is no error, whether the provider reports it or not.
delete(c) ==
  LET l == call[c] IN
  /\ l.pc = "delete"
  /\ bucket' = [bucket EXCEPT ![Name(c)] = None]
  /\ \E m \in Outcomes(Reply(l, "ok", None)) : Run(c, m)

Stripped_Whole(c, n) == n

\* The key of an object name.
Stripped(c, n) == SubSeq(n, Len(key_prefix[Of[c]]) + 1, Len(n))

\* The next page of list_objects_v2, the names up to the last one it has room
\* for; the store's own prefix is cut off.
list(c) ==
  LET l == call[c]
      Listed(i) == i > l.seen /\ bucket[Order[i]] # None /\ IsPrefix(Name(c), Order[i])
      listed == {i \in DOMAIN Order : Listed(i)}
      upto(last) == {i \in listed : i <= last}
      With(page) == l.found \cup {Stripped(c, Order[i]) : i \in page}
  IN
  /\ l.pc = "list"
  /\ \/ /\ Cardinality(listed) <= PageLimit
        /\ Run(c, Reply([l EXCEPT !.found = With(listed)], "keys", With(listed)))
     \/ \E last \in listed :
          /\ Cardinality(listed) > PageLimit /\ Cardinality(upto(last)) = PageLimit
          /\ Run(c, [l EXCEPT !.found = With(upto(last)), !.seen = last])
  /\ UNCHANGED bucket

Step(c) ==
  \/ \E r \in Requests[c] : Call(c, r)
  \/ Return(c) \/ Raises(c)
  \/ put(c) \/ head_object(c) \/ get(c) \/ exists(c) \/ delete(c) \/ list(c)

-----------------------------------------------------------------------------
(* Correctness *)

\* What a caller of a tenant's store sees: its objects, the call it makes, and
\* the answer.  A stream is put when its upload is complete; the lookup that
\* follows can still turn the answer into an error.
Seen == [o \in Owned |-> bucket[_k(o[1], o[2])]]

Owning(c, r) == [r EXCEPT !.key = <<Of[c], @>>]

Asked(c, l) == IF l.req = None THEN None ELSE Owning(c, l.req)

Asks == [c \in Client |-> Asked(c, call[c])]

Shown(c, l) ==
  CASE l.pc = "head" -> [kind |-> "ok", bytes |-> None]
    [] l.pc = "done" /\ l.req.op = "list" /\ l.reply.kind = "keys" ->
         [kind |-> "keys", bytes |-> {Of[c]} \X l.reply.bytes]
    [] OTHER -> l.reply

Shows == [c \in Client |-> Shown(c, call[c])]

Store ==
  INSTANCE BlobStore WITH
    Key      <- Owned,
    Requests <- [c \in Client |-> {Owning(c, r) : r \in Requests[c]}],
    Under    <- [p \in Tenant \X Sought |->
                   {o \in Owned : o[1] = p[1] /\ IsPrefix(p[2], o[2])}],
    objects  <- Seen,
    asked    <- Asks,
    answer   <- Shows,
    MayFail  <- TRUE,
    MayMiss  <- ApiFaults # {}

Next == (\E c \in Client : Step(c)) /\ Store!Watch

Spec == Init /\ [][Next]_vars

TypeOK ==
  /\ bucket \in [Names -> Raw \cup {None}]
  /\ call \in [Client -> Local]
  /\ \A c \in Client : call[c].pc = "idle" <=> call[c].req = None
  /\ \A c \in Client : call[c].pc = "done" <=> call[c].reply # None

\* "use for tenant isolation": an object of a tenant changes only by a put or a
\* delete of that key by a client of that tenant.
OwnedOnly ==
  [][\A o \in Owned :
       bucket'[_k(o[1], o[2])] # bucket[_k(o[1], o[2])] =>
         \E c \in Client : /\ Of[c] = o[1] /\ call[c].pc \in {"put", "delete"}
                           /\ call[c].req.key = o[2]]_vars

\* "Minimal key-value blob contract every provider adapter implements", for
\* every tenant a map of its own: a store reads, lists, replaces and deletes
\* nothing of another tenant on the same bucket, whatever overtakes its
\* requests and fails.
ImplementsBlobStore == Store!Spec

=============================================================================
