-------------------------- MODULE OffloadingProofs --------------------------
(***************************************************************************)
(* For any number of callers, any contents and any interleaving, failure,  *)
(* restart and sweep: blobs and cache entries hold what their key names,   *)
(* and while nothing is swept every stub has its blob.                     *)
(***************************************************************************)
EXTENDS OffloadingBackend, SequenceTheorems, TLAPS

Blobs == [Key -> Value \cup {None}]

-----------------------------------------------------------------------------
(* Contents, stubs and blobs *)

(* A content has a digest and a blob key. *)
LEMMA BlobKeyType == ASSUME NEW v \in Value PROVE BlobKey(v) \in Key /\ Sha[v] \in Digest
BY StubAssumption DEF BlobKey

(* A stub is a FileData whose content is a genuine pointer. *)
LEMMA StubType ==
  ASSUME NEW v \in Value
  PROVE  /\ make_pointer(v) \in Pointer
         /\ Stub(v) \in FileData /\ Stub(v).content = make_pointer(v)
         /\ Genuine(make_pointer(v)) /\ make_pointer(v).key = BlobKey(v)
BY BlobKeyType DEF make_pointer, Pointer, Stub, FileData, Genuine

(* What the inner backend keeps itself is not a pointer, lookalikes apart. *)
LEMMA InlineType ==
  ASSUME NEW v \in Value, NoLookalike
  PROVE  Inline(v) \in FileData /\ Inline(v).content \notin Pointer
BY DEF Inline, FileData, NoLookalike

(* A genuine pointer determines the content of its blob and of its cache entry. *)
LEMMA GenuineBlob ==
  ASSUME NEW ptr, Genuine(ptr)
  PROVE  /\ ptr \in Pointer /\ ptr.key \in Key /\ ptr.sha256 \in Digest
         /\ \A v \in Value : BlobKey(v) = ptr.key => Sha[v] = ptr.sha256
<1>1. PICK w \in Value : ptr = make_pointer(w)
  BY DEF Genuine
<1>2. ptr \in Pointer /\ ptr.key \in Key /\ ptr.sha256 \in Digest
  BY <1>1, BlobKeyType, StubType DEF make_pointer
<1>3. ASSUME NEW v \in Value, BlobKey(v) = ptr.key
      PROVE  Sha[v] = ptr.sha256
  BY <1>1, <1>3, BlobKeyType, StubAssumption DEF make_pointer, BlobKey
<1>4. QED
  BY <1>2, <1>3

-----------------------------------------------------------------------------
(* The local variables of a call *)

(* A call that is inside a method. *)
Inside(l) ==
  /\ l \in Local
  /\ l.req \in Request
  /\ \A i \in DOMAIN l.req.items : l.req.items[i].arg \in Argument(l.req.op)
  /\ l.at \in 1 .. Len(l.req.items) + 1
  /\ \A j \in DOMAIN l.deferred : l.deferred[j] \in DOMAIN l.req.items

(* It has an item at hand. *)
AtItem(l) == Inside(l) /\ (l.at > Len(l.req.items) => l.deferred # <<>>)

(* What the invariant knows of the items of a call under way. *)
LEMMA ItemsType ==
  ASSUME NEW l, Inside(l)
  PROVE  /\ l.req # None
         /\ l.req.items \in Seq([path : Path, arg : Value \cup Edit \cup {None}])
         /\ Len(l.req.items) \in Nat /\ DOMAIN l.req.items = 1 .. Len(l.req.items)
         /\ l.at \in Nat
         /\ l.deferred \in Seq(Nat)
         /\ Len(l.deferred) \in Nat /\ DOMAIN l.deferred = 1 .. Len(l.deferred)
<1>1. /\ l.req # None
      /\ l.req.items \in Seq([path : Path, arg : Value \cup Edit \cup {None}])
      /\ l.at \in Nat
      /\ l.deferred \in Seq(Nat)
  BY CallAssumption DEF Inside, Local, Request
<1>2. QED
  BY <1>1, LenProperties

(* The item at hand is one of the items of the call. *)
LEMMA ItemType ==
  ASSUME NEW l, AtItem(l)
  PROVE  /\ Index(l) \in DOMAIN l.req.items /\ Index(l) \in Nat
         /\ Item(l).path \in Path
         /\ Item(l).arg \in Argument(l.req.op)
<1>1. Inside(l)
  BY DEF AtItem
<1>2. Index(l) \in DOMAIN l.req.items
  <2>1. CASE l.at <= Len(l.req.items)
    BY <1>1, <2>1, ItemsType DEF Index, Inside
  <2>2. CASE l.at > Len(l.req.items)
    <3>1. l.deferred # <<>> /\ Index(l) = Head(l.deferred)
      BY <1>1, <2>2, ItemsType DEF Index, AtItem
    <3>2. 1 \in DOMAIN l.deferred /\ Head(l.deferred) = l.deferred[1]
      BY <1>1, <3>1, ItemsType, EmptySeq
    <3>3. QED
      BY <1>1, <3>1, <3>2 DEF Inside
  <2>3. QED
    BY <1>1, <2>1, <2>2, ItemsType
<1>3. Item(l) \in [path : Path, arg : Value \cup Edit \cup {None}]
  BY <1>1, <1>2, ItemsType, ElementOfSeq DEF Item
<1>4. Item(l).arg \in Argument(l.req.op)
  BY <1>1, <1>2 DEF Inside, Item
<1>5. QED
  BY <1>1, <1>2, <1>3, <1>4, ItemsType

(* The content to be stored is one: the argument of write and upload, or what
   an edit has made. *)
LEMMA ContentType ==
  ASSUME NEW l, AtItem(l), l.req.op \in {"write", "upload"} \/
                           (l.req.op = "edit" /\ l.raw \in Value)
  PROVE  Content(l) \in Value
BY ItemType, StubAssumption DEF Content, Argument

(* The test an item begins with suits the method, and the item exists. *)
LEMMA EntryOK ==
  ASSUME NEW r \in Request, NEW i \in Nat,
         \A k \in DOMAIN r.items : r.items[k].arg \in Argument(r.op)
  PROVE  /\ Entry(r, i) \in {"inner", "probe", "delegate", "exists", "write"}
         /\ Entry(r, i) = "inner" <=> i > Len(r.items)
         /\ Entry(r, i) = "probe" => r.op \in {"read", "edit", "download"}
         /\ Entry(r, i) \in {"exists", "write"} => r.op \in {"write", "upload"}
<1>1. Len(r.items) \in Nat
  BY LenProperties DEF Request
<1>2. r.op \in Op
  BY DEF Request
<1>3. CASE i > Len(r.items)
  BY <1>3 DEF Entry
<1>4. CASE i <= Len(r.items) /\ r.op \in {"read", "edit", "download"}
  BY <1>1, <1>4 DEF Entry
<1>5. CASE i <= Len(r.items) /\ r.op = "delete"
  BY <1>1, <1>5 DEF Entry
<1>6. CASE i <= Len(r.items) /\ r.op = "write"
  BY <1>1, <1>6 DEF Entry
<1>7. CASE i <= Len(r.items) /\ r.op = "upload"
  BY <1>1, <1>7 DEF Entry
<1>8. QED
  BY <1>1, <1>2, <1>3, <1>4, <1>5, <1>6, <1>7 DEF Op

(* A call that is well placed. *)
Placed(l) == l \in Local /\ CallOK(l)

(* It neither follows a pointer nor relies on a blob that it has found or put. *)
Unbound(l) ==
  Placed(l) /\ l.pc \notin {"cache", "send", "lookup", "load", "keep"}

(* A call that has come to a test or to its end is well placed. *)
LEMMA UnboundOK ==
  ASSUME NEW m, Inside(m),
         m.pc \in {"inner", "probe", "delegate", "exists", "write", "raised"},
         m.pc = "inner" => m.at = Len(m.req.items) + 1,
         m.pc \in {"probe", "delegate", "exists", "write"} => m.at <= Len(m.req.items),
         m.pc = "probe" => m.req.op \in {"read", "edit", "download"},
         m.pc \in {"exists", "write"} =>
           \/ m.req.op \in {"write", "upload"}
           \/ m.req.op = "edit" /\ m.raw \in Value
  PROVE  Unbound(m)
<1>1. m.req # None /\ m \in Local
  BY ItemsType DEF Inside
<1>2. m.pc \in {"exists", "write"} => Content(m) \in Value
  <2> SUFFICES ASSUME m.pc \in {"exists", "write"} PROVE Content(m) \in Value
    OBVIOUS
  <2>1. AtItem(m)
    BY ItemsType DEF AtItem
  <2>2. QED
    BY <2>1, ContentType
<1>3. CallOK(m)
  BY <1>1, <1>2 DEF CallOK, Inside
<1>4. QED
  BY <1>1, <1>3 DEF Unbound, Placed

(* Tail(s) holds elements of s only. *)
LEMMA TailElements ==
  ASSUME NEW S, NEW t \in Seq(S), t # <<>>
  PROVE  /\ Tail(t) \in Seq(S)
         /\ \A j \in DOMAIN Tail(t) : \E k \in DOMAIN t : Tail(t)[j] = t[k]
<1>1. /\ Tail(t) \in Seq(S)
      /\ Len(Tail(t)) = Len(t) - 1
      /\ \A j \in 1 .. Len(Tail(t)) : Tail(t)[j] = t[j + 1]
  BY HeadTailProperties
<1>2. /\ DOMAIN Tail(t) = 1 .. Len(Tail(t))
      /\ DOMAIN t = 1 .. Len(t) /\ Len(t) \in Nat
  BY <1>1, LenProperties
<1>3. ASSUME NEW j \in DOMAIN Tail(t)
      PROVE  \E k \in DOMAIN t : Tail(t)[j] = t[k]
  <2>1. j + 1 \in DOMAIN t /\ Tail(t)[j] = t[j + 1]
    BY <1>1, <1>2
  <2>2. QED
    BY <2>1
<1>4. QED
  BY <1>1, <1>3

(* Going on to the next item leaves a call in order. *)
LEMMA AdvanceOK ==
  ASSUME NEW l, AtItem(l)
  PROVE  Unbound(Advance(l))
<1> DEFINE m == Advance(l)
           next == l.at + 1
           entry == Entry(l.req, next)
<1>1. Inside(l) /\ l \in Local
  BY DEF AtItem, Inside
<1>2. CASE l.at <= Len(l.req.items)
  <2>1. next \in 1 .. Len(l.req.items) + 1 /\ next \in Nat
    BY <1>1, <1>2, ItemsType
  <2>2. /\ entry \in {"inner", "probe", "delegate", "exists", "write"}
        /\ entry = "inner" <=> next > Len(l.req.items)
        /\ entry = "probe" => l.req.op \in {"read", "edit", "download"}
        /\ entry \in {"exists", "write"} => l.req.op \in {"write", "upload"}
    <3> HIDE DEF next
    <3>1. QED
      BY <1>1, <2>1, EntryOK DEF Inside
  <2>3. m = [l EXCEPT !.at = next, !.pc = entry, !.ptr = None, !.raw = None]
    BY <1>2 DEF Advance
  <2> HIDE DEF m, next, entry
  <2>4. /\ m \in Local /\ m.pc = entry /\ m.req = l.req /\ m.at = next
        /\ m.deferred = l.deferred
    BY <1>1, <2>1, <2>2, <2>3 DEF Local, Label
  <2>5. Inside(m)
    BY <1>1, <2>1, <2>4 DEF Inside
  <2>6. Unbound(m)
    BY <1>1, <2>1, <2>2, <2>4, <2>5, ItemsType, UnboundOK
  <2>7. QED
    BY <2>6 DEF m
<1>3. CASE l.at > Len(l.req.items)
  <2> DEFINE rest == Tail(l.deferred)
  <2>1. l.at = Len(l.req.items) + 1 /\ l.deferred # <<>>
    BY <1>1, <1>3, ItemsType DEF AtItem, Inside
  <2>2. rest \in Seq(Nat) /\ \A j \in DOMAIN rest : rest[j] \in DOMAIN l.req.items
    BY <1>1, <2>1, ItemsType, TailElements DEF Inside
  <2>3. m = [l EXCEPT !.pc = "inner", !.deferred = rest, !.ptr = None, !.raw = None]
    BY <1>1, <1>3, ItemsType DEF Advance, Local
  <2> HIDE DEF m, rest
  <2>4. /\ m \in Local /\ m.pc = "inner" /\ m.req = l.req /\ m.at = l.at
        /\ m.deferred = rest
    BY <1>1, <2>2, <2>3 DEF Local, Label
  <2>5. Inside(m)
    BY <1>1, <2>2, <2>4 DEF Inside
  <2>6. Unbound(m)
    BY <2>1, <2>4, <2>5, UnboundOK
  <2>7. QED
    BY <2>6 DEF m
<1>4. QED
  BY <1>1, <1>2, <1>3, ItemsType

(* Answering an item leaves a call in order, and adds one response. *)
LEMMA RespondOK ==
  ASSUME NEW l, AtItem(l), NEW kind, NEW content,
         [item |-> Index(l), kind |-> kind, content |-> content] \in Response
  PROVE  Unbound(Respond(l, kind, content))
<1> DEFINE answer == [item |-> Index(l), kind |-> kind, content |-> content]
           m == [l EXCEPT !.reply = Append(l.reply, answer)]
<1>1. l \in Local /\ l.reply \in Seq(Response)
  BY DEF AtItem, Inside, Local
<1>2. Append(l.reply, answer) \in Seq(Response)
  BY <1>1, AppendProperties
<1>3. Respond(l, kind, content) = Advance(m)
  BY <1>1 DEF Respond, Local
<1>4. /\ m \in Local
      /\ m.req = l.req /\ m.at = l.at /\ m.deferred = l.deferred
  <2> HIDE DEF answer
  <2>1. QED
    BY <1>1, <1>2 DEF Local
<1> HIDE DEF m
<1>5. AtItem(m)
  BY <1>4 DEF AtItem, Inside
<1>6. QED
  BY <1>3, <1>5, AdvanceOK

(* An answer that carries no content. *)
LEMMA PlainResponseOK ==
  ASSUME NEW l, AtItem(l), NEW kind \in {"ok", "error"}
  PROVE  Unbound(Respond(l, kind, None))
<1>1. [item |-> Index(l), kind |-> kind, content |-> None] \in Response
  BY ItemType DEF Response
<1>2. QED
  BY <1>1, RespondOK

(* An answer that carries one. *)
LEMMA ContentResponseOK ==
  ASSUME NEW l, AtItem(l), NEW x \in Value \cup Pointer \cup {Mangled}
  PROVE  Unbound(Respond(l, "content", x))
<1>1. [item |-> Index(l), kind |-> "content", content |-> x] \in Response
  BY ItemType DEF Response
<1>2. QED
  BY <1>1, RespondOK

(* An item left to the inner backend. *)
LEMMA DeferOK ==
  ASSUME NEW l, AtItem(l), l.at <= Len(l.req.items)
  PROVE  Unbound(Advance([l EXCEPT !.deferred = Append(@, l.at)]))
<1> DEFINE more == Append(l.deferred, l.at)
           m == [l EXCEPT !.deferred = more]
<1>1. Inside(l) /\ l \in Local
  BY DEF AtItem, Inside
<1>2. /\ more \in Seq(Nat)
      /\ \A j \in DOMAIN more : more[j] \in DOMAIN l.req.items
  <2>1. /\ more \in Seq(Nat)
        /\ Len(more) = Len(l.deferred) + 1
        /\ \A j \in 1 .. Len(l.deferred) : more[j] = l.deferred[j]
        /\ more[Len(l.deferred) + 1] = l.at
    BY <1>1, ItemsType, AppendProperties
  <2>2. DOMAIN more = 1 .. Len(l.deferred) + 1
    BY <2>1, LenProperties
  <2>3. l.at \in DOMAIN l.req.items
    BY <1>1, ItemsType DEF Inside
  <2> HIDE DEF more
  <2>4. QED
    BY <1>1, <2>1, <2>2, <2>3, ItemsType DEF Inside
<1>3. [l EXCEPT !.deferred = Append(@, l.at)] = m
  BY <1>1 DEF Local
<1> HIDE DEF more
<1>4. m \in Local /\ m.req = l.req /\ m.at = l.at /\ m.deferred = more
  BY <1>1, <1>2 DEF Local
<1> HIDE DEF m
<1>5. AtItem(m)
  BY <1>1, <1>2, <1>4, ItemsType DEF AtItem, Inside
<1>6. QED
  BY <1>3, <1>5, AdvanceOK

(* An exception that is let through leaves a call in order. *)
LEMMA RaisedOK ==
  ASSUME NEW l, Inside(l)
  PROVE  Unbound(Raised(l))
<1> DEFINE m == Raised(l)
<1>1. /\ m \in Local /\ m.pc = "raised" /\ m.req = l.req /\ m.at = l.at
      /\ m.deferred = l.deferred
  BY DEF Raised, Inside, Local, Label
<1> HIDE DEF m
<1>2. Inside(m)
  BY <1>1 DEF Inside
<1>3. Unbound(m)
  BY <1>1, <1>2, UnboundOK
<1>4. QED
  BY <1>3 DEF m

(* A failure of _offload or _write_stub answers the item or raises. *)
LEMMA FailOK ==
  ASSUME NEW l, AtItem(l)
  PROVE  Unbound(Fail(l))
BY PlainResponseOK, RaisedOK DEF Fail, AtItem

(* A fetched content answers the item, or becomes the content to be stored. *)
LEMMA FetchedOK ==
  ASSUME NEW l, AtItem(l), NEW v \in Value,
         l.req.op \in {"read", "edit", "download"},
         l.at > Len(l.req.items) => l.req.op # "edit"
  PROVE  Unbound(Fetched(l, v))
<1> DEFINE w == Replace[Item(l).arg][v]
<1>0. CASE Undecodable(l, v)
  BY <1>0, RaisedOK DEF Fetched, AtItem
<1>1. CASE ~Undecodable(l, v) /\ l.req.op # "edit"
  BY <1>1, ContentResponseOK DEF Fetched
<1>2. CASE ~Undecodable(l, v) /\ l.req.op = "edit" /\ w = None
  BY <1>2, PlainResponseOK DEF Fetched
<1>3. CASE ~Undecodable(l, v) /\ l.req.op = "edit" /\ w # None
  <2> DEFINE entry == IF Large(w) THEN "exists" ELSE "write"
             m == [l EXCEPT !.raw = w, !.pc = entry]
  <2>1. w \in Value
    BY <1>3, ItemType, CallAssumption, StubAssumption DEF Argument
  <2>2. Fetched(l, v) = m
    BY <1>3 DEF Fetched
  <2>3. entry \in {"exists", "write"} /\ l \in Local
    BY DEF AtItem, Inside
  <2> HIDE DEF w, entry
  <2>4. /\ m \in Local /\ m.pc = entry /\ m.req = l.req /\ m.at = l.at
        /\ m.deferred = l.deferred /\ m.raw = w
    BY <2>1, <2>3 DEF Local, Label
  <2> HIDE DEF m
  <2>5. Inside(m) /\ m.at <= Len(m.req.items)
    BY <1>3, <2>4, ItemsType DEF AtItem, Inside
  <2>6. Unbound(m)
    BY <1>3, <2>1, <2>3, <2>4, <2>5, UnboundOK
  <2>7. QED
    BY <2>2, <2>6
<1>4. QED
  BY <1>0, <1>1, <1>2, <1>3

-----------------------------------------------------------------------------
(* What one step leaves of the invariant *)

(* A call that is about to do something to an item has one at hand. *)
LEMMA AtItemOf ==
  ASSUME NEW l, Placed(l),
         \/ l.pc \in {"delegate", "probe", "lookup", "load", "keep",
                      "exists", "put", "cache", "send", "write"}
         \/ l.pc = "inner" /\ l.deferred # <<>>
  PROVE  AtItem(l)
<1>1. Inside(l)
  BY DEF Placed, CallOK, Inside
<1>2. l.at > Len(l.req.items) => l.deferred # <<>>
  BY <1>1, ItemsType DEF Placed, CallOK
<1>3. QED
  BY <1>1, <1>2 DEF AtItem

(* A caller that is not inside a call claims no blob. *)
LEMMA IdleOK == Unbound(Idle)
<1>1. Idle \in Local
  <2>1. <<>> \in Seq(Nat) /\ <<>> \in Seq(Response)
    BY EmptySeq
  <2>2. QED
    BY <2>1 DEF Idle, Local, Label
<1>2. CallOK(Idle)
  BY DEF Idle, CallOK
<1>3. QED
  BY <1>1, <1>2 DEF Unbound, Placed, Idle

(* No blob goes away unless blobs are swept. *)
BlobsKept == \A k \in Key : store[k] # None => Sweeps \/ store'[k] # None

(* What the invariant says of a call. *)
InOrder(l, blobs, made) == CallOK(l) /\ BlobThere(l, blobs) /\ Follows(l, made)

(* One call moves on, the others still find the blobs they rely on. *)
LEMMA CallsOK ==
  ASSUME IInv, NEW c \in Caller, NEW l, Placed(l), BlobThere(l, store'),
         Follows(l, edited'), Run(c, l), BlobsKept, edited \subseteq edited'
  PROVE  /\ call' \in [Caller -> Local]
         /\ \A d \in Caller : InOrder(call'[d], store', edited')
<1>1. call \in [Caller -> Local]
  BY DEF IInv, TypeOK
<1>2. /\ call' \in [Caller -> Local] /\ call'[c] = l
      /\ \A d \in Caller \ {c} : call'[d] = call[d]
  BY <1>1 DEF Run, Placed
<1>3. ASSUME NEW d \in Caller \ {c}
      PROVE  InOrder(call[d], store', edited')
  <2>1. CallOK(call[d]) /\ BlobThere(call[d], store) /\ Follows(call[d], edited)
    BY DEF IInv
  <2>2. call[d].pc \in {"cache", "send"} => BlobKey(Content(call[d])) \in Key
    BY <2>1, BlobKeyType DEF CallOK
  <2>3. BlobThere(call[d], store')
    BY <2>1, <2>2 DEF BlobThere, BlobsKept
  <2>4. Follows(call[d], edited')
    BY <2>1 DEF Follows, Known
  <2>5. QED
    BY <2>1, <2>3, <2>4 DEF InOrder
<1>4. InOrder(l, store', edited')
  BY DEF Placed, InOrder
<1>5. QED
  BY <1>2, <1>3, <1>4

(* Stubs stay backed while the inner backend is not written. *)
LEMMA StubsOK ==
  ASSUME IInv, UNCHANGED <<inner, checkpoints, edited>>, BlobsKept
  PROVE  StubsKnown' /\ NoDanglingStub'
<1>1. StoredPointers' = StoredPointers
  BY DEF StoredPointers
<1>2. StubsKnown'
  BY <1>1 DEF IInv, StubsKnown
<1>3. \A ptr \in StoredPointers \ edited : ptr.key \in Key
  BY GenuineBlob DEF IInv, StubsKnown, Known
<1>4. NoDanglingStub'
  BY <1>1, <1>3 DEF IInv, NoDanglingStub, BlobsKept
<1>5. QED
  BY <1>2, <1>4

(* A step that changes the local variables of its call only. *)
LEMMA LocalStep ==
  ASSUME IInv, NEW c \in Caller, NEW l, Placed(l), BlobThere(l, store),
         Follows(l, edited), Run(c, l),
         UNCHANGED <<inner, store, cache, checkpoints, edited>>
  PROVE  IInv'
<1>1. BlobsKept
  BY DEF BlobsKept
<1>2. /\ call' \in [Caller -> Local]
      /\ \A d \in Caller : InOrder(call'[d], store', edited')
  BY <1>1, CallsOK
<1>3. StubsKnown' /\ NoDanglingStub'
  BY <1>1, StubsOK
<1>4. TypeOK' /\ ContentAddressed'
  BY <1>2 DEF IInv, TypeOK, ContentAddressed, Mispaired
<1>5. QED
  BY <1>2, <1>3, <1>4 DEF IInv, InOrder

(* A step that changes one call alone preserves the invariant, if that call
   stays in order and relies on nothing. *)
LEMMA QuietStep ==
  ASSUME IInv, NEW c \in Caller, NEW l, Unbound(l), Run(c, l),
         UNCHANGED <<inner, store, cache, checkpoints, edited>>
  PROVE  IInv'
BY LocalStep DEF Unbound, BlobThere, Follows

(* A cache put, under the digest of the bytes or one that is mispaired. *)
LEMMA CacheStep ==
  ASSUME IInv, NEW c \in Caller, NEW l, Placed(l), BlobThere(l, store),
         Follows(l, edited), Run(c, l),
         NEW v \in Value, NEW h \in Digest, Sha[v] = h \/ h \in Mispaired,
         cache' \in Cache!AfterPut(cache, h, v),
         UNCHANGED <<inner, store, checkpoints, edited>>
  PROVE  IInv'
<1>1. BlobsKept
  BY DEF BlobsKept
<1>2. /\ call' \in [Caller -> Local]
      /\ \A d \in Caller : InOrder(call'[d], store', edited')
  BY <1>1, CallsOK
<1>3. StubsKnown' /\ NoDanglingStub'
  BY <1>1, StubsOK
<1>4. PICK lost \in SUBSET Digest :
        cache' = Cache!Forget([cache EXCEPT ![h] = v], lost)
  BY DEF Cache!AfterPut
<1>5. /\ cache \in [Digest -> Value \cup {None}]
      /\ \A d \in Digest \ Mispaired : cache[d] # None => Sha[cache[d]] = d
  BY DEF IInv, TypeOK, ContentAddressed
<1>6. /\ cache' \in [Digest -> Value \cup {None}]
      /\ \A d \in Digest \ Mispaired : cache'[d] # None => Sha[cache'[d]] = d
  BY <1>4, <1>5 DEF Cache!Forget
<1>7. Mispaired' = Mispaired
  BY DEF Mispaired
<1>8. TypeOK'
  BY <1>2, <1>6 DEF IInv, TypeOK
<1>9. ContentAddressed'
  BY <1>6, <1>7 DEF IInv, ContentAddressed
<1>10. QED
  BY <1>2, <1>3, <1>8, <1>9 DEF IInv, InOrder

(* A put of a content under its own key. *)
LEMMA StoreStep ==
  ASSUME IInv, NEW c \in Caller, NEW l, Placed(l), BlobThere(l, store'),
         Follows(l, edited), Run(c, l),
         NEW v \in Value, store' = [store EXCEPT ![BlobKey(v)] = v],
         UNCHANGED <<inner, cache, checkpoints, edited>>
  PROVE  IInv'
<1>1. /\ store \in [Key -> Value \cup {None}] /\ v # None
      /\ \A k \in Key : store[k] # None => BlobKey(store[k]) = k
  BY MarkAssumption DEF IInv, TypeOK, ContentAddressed
<1>2. /\ store' \in [Key -> Value \cup {None}]
      /\ \A k \in Key : store'[k] # None => BlobKey(store'[k]) = k
      /\ BlobsKept
  BY <1>1, BlobKeyType DEF BlobsKept
<1>3. /\ call' \in [Caller -> Local]
      /\ \A d \in Caller : InOrder(call'[d], store', edited')
  BY <1>2, CallsOK
<1>4. StubsKnown' /\ NoDanglingStub'
  BY <1>2, StubsOK
<1>5. TypeOK' /\ ContentAddressed'
  BY <1>2, <1>3 DEF IInv, TypeOK, ContentAddressed, Mispaired
<1>6. QED
  BY <1>3, <1>4, <1>5 DEF IInv, InOrder

(* An entry of the inner backend is written or removed: a pointer that this
   puts there is backed, or an edit of its JSON has made it. *)
LEMMA InnerStep ==
  ASSUME IInv, NEW c \in Caller, NEW l, Unbound(l), Run(c, l),
         NEW p, NEW fd \in FileData \cup {None},
         fd # None /\ fd.content \in Pointer =>
           \/ fd.content \in edited'
           \/ Genuine(fd.content) /\ (Sweeps \/ store[fd.content.key] # None),
         edited \subseteq edited', edited' \subseteq edited \cup Pointer,
         inner' = [inner EXCEPT ![p] = fd],
         UNCHANGED <<store, cache, checkpoints>>
  PROVE  IInv'
<1>1. BlobsKept
  BY DEF BlobsKept
<1>2. /\ call' \in [Caller -> Local]
      /\ \A d \in Caller : InOrder(call'[d], store', edited')
  BY <1>1, CallsOK DEF Unbound, BlobThere, Follows
<1>3. /\ inner \in Image /\ inner' \in Image
      /\ \A x \in Path : inner'[x] # inner[x] => inner'[x] = fd
  BY DEF IInv, TypeOK, Image
<1>4. ASSUME NEW ptr \in StoredPointers'
      PROVE  \/ ptr \in StoredPointers
             \/ fd # None /\ fd.content = ptr /\ ptr \in Pointer
  <2>1. PICK image \in checkpoints \cup {inner'}, x \in Path :
          image[x] # None /\ image[x].content = ptr
    BY DEF StoredPointers
  <2>2. ptr \in Pointer
    BY DEF StoredPointers
  <2>3. CASE image \in checkpoints
    BY <2>1, <2>2, <2>3 DEF StoredPointers
  <2>4. CASE image = inner'
    BY <1>3, <2>1, <2>2, <2>4 DEF StoredPointers
  <2>5. QED
    BY <2>1, <2>3, <2>4
<1>5. StubsKnown'
  BY <1>4 DEF IInv, StubsKnown, Known
<1>6. NoDanglingStub'
  BY <1>4 DEF IInv, NoDanglingStub
<1>7. Mispaired \subseteq Mispaired'
  BY DEF Mispaired
<1>8. ContentAddressed'
  BY <1>7 DEF IInv, ContentAddressed
<1>9. TypeOK'
  BY <1>2, <1>3 DEF IInv, TypeOK
<1>10. QED
  BY <1>2, <1>5, <1>6, <1>8, <1>9 DEF IInv, InOrder

-----------------------------------------------------------------------------
(* Every step keeps the invariant *)

(* The invariant holds at the start. *)
LEMMA InitIInv == Init => IInv
<1> SUFFICES ASSUME Init PROVE IInv
  OBVIOUS
<1>1. /\ Idle \in Local /\ CallOK(Idle) /\ BlobThere(Idle, store)
      /\ Follows(Idle, edited)
  BY IdleOK DEF Unbound, Placed, BlobThere, Follows
<1>2. TypeOK
  BY <1>1 DEF Init, TypeOK, Image
<1>3. StoredPointers = {}
  BY DEF Init, StoredPointers
<1>4. ContentAddressed /\ StubsKnown /\ NoDanglingStub
  BY <1>3 DEF Init, ContentAddressed, StubsKnown, NoDanglingStub
<1>5. \A c \in Caller : CallOK(call[c]) /\ BlobThere(call[c], store) /\ Follows(call[c], edited)
  BY <1>1 DEF Init
<1>6. QED
  BY <1>2, <1>4, <1>5 DEF IInv

(* What the invariant says of the call that takes the step. *)
LEMMA CallerFacts ==
  ASSUME IInv, NEW c \in Caller
  PROVE  Placed(call[c]) /\ BlobThere(call[c], store) /\ Follows(call[c], edited)
BY DEF IInv, TypeOK, Placed

(* A method that begins. *)
LEMMA CallIInv ==
  ASSUME IInv, NEW c \in Caller, NEW r \in Requests[c], Call(c, r)
  PROVE  IInv'
<1> DEFINE m == [Idle EXCEPT !.req = r, !.pc = Entry(r, 1)]
<1>1. /\ r \in Request
      /\ \A i \in DOMAIN r.items : r.items[i].arg \in Argument(r.op)
  BY CallAssumption
<1>2. /\ Entry(r, 1) \in {"inner", "probe", "delegate", "exists", "write"}
      /\ Entry(r, 1) = "inner" <=> 1 > Len(r.items)
      /\ Entry(r, 1) = "probe" => r.op \in {"read", "edit", "download"}
      /\ Entry(r, 1) \in {"exists", "write"} => r.op \in {"write", "upload"}
  BY <1>1, EntryOK
<1>3. Len(r.items) \in Nat
  BY <1>1, LenProperties DEF Request
<1>4. /\ m \in Local /\ m.pc = Entry(r, 1) /\ m.req = r /\ m.at = 1
      /\ m.deferred = <<>>
  BY <1>1, <1>2, IdleOK DEF Unbound, Placed, Local, Label, Idle
<1> HIDE DEF m
<1>5. Inside(m)
  BY <1>1, <1>3, <1>4, EmptySeq DEF Inside
<1>6. Unbound(m)
  BY <1>2, <1>3, <1>4, <1>5, UnboundOK
<1>7. Run(c, m) /\ UNCHANGED <<inner, store, cache, checkpoints, edited>>
  BY DEF Call, m
<1>8. QED
  BY <1>6, <1>7, QuietStep

(* A method that returns or raises. *)
LEMMA ReturnIInv ==
  ASSUME IInv, NEW c \in Caller, Return(c)
  PROVE  IInv'
BY IdleOK, QuietStep DEF Return

(* An item that is left to the inner backend. *)
LEMMA DelegateIInv ==
  ASSUME IInv, NEW c \in Caller, Delegate(c)
  PROVE  IInv'
<1>1. /\ Placed(call[c]) /\ AtItem(call[c])
      /\ call[c].at <= Len(call[c].req.items)
  BY CallerFacts, AtItemOf DEF Delegate, Placed, CallOK
<1>2. QED
  BY <1>1, DeferOK, QuietStep DEF Delegate

(* The pointers that a probe finds are known. *)
LEMMA FoundPointer ==
  ASSUME IInv, NEW p \in Path, inner[p] # None, inner[p].content \in Pointer
  PROVE  Known(inner[p].content, edited)
BY DEF IInv, StubsKnown, StoredPointers

(* A call that starts to dereference a pointer. *)
LEMMA DereferenceStep ==
  ASSUME IInv, NEW c \in Caller, NEW l, AtItem(l),
         l.req.op \in {"read", "edit", "download"},
         l.at > Len(l.req.items) => l.req.op # "edit",
         NEW ptr \in Pointer, Known(ptr, edited),
         Run(c, [l EXCEPT !.pc = "lookup", !.ptr = ptr]),
         UNCHANGED <<inner, store, cache, checkpoints, edited>>
  PROVE  IInv'
<1> DEFINE m == [l EXCEPT !.pc = "lookup", !.ptr = ptr]
<1>1. l \in Local
  BY DEF AtItem, Inside
<1>2. /\ m \in Local /\ m.pc = "lookup" /\ m.ptr = ptr /\ m.req = l.req
      /\ m.at = l.at /\ m.deferred = l.deferred
  BY <1>1 DEF Local, Label
<1>3. Run(c, m)
  OBVIOUS
<1> HIDE DEF m
<1>4. m.req # None
  BY <1>2, ItemsType DEF AtItem
<1>5. CallOK(m)
  BY <1>2, <1>4 DEF CallOK, AtItem, Inside
<1>6. Placed(m) /\ BlobThere(m, store) /\ Follows(m, edited)
  BY <1>2, <1>5 DEF Placed, BlobThere, Follows
<1>7. QED
  BY <1>3, <1>6, LocalStep

(* _read_stub. *)
LEMMA ProbeIInv ==
  ASSUME IInv, NEW c \in Caller, Probe(c)
  PROVE  IInv'
<1> DEFINE l == call[c]
           p == Item(l).path
<1>1. /\ AtItem(l) /\ l.at <= Len(l.req.items)
      /\ l.req.op \in {"read", "edit", "download"}
  BY CallerFacts, AtItemOf DEF Probe, Placed, CallOK
<1>2. p \in Path
  BY <1>1, ItemType
<1>3. PICK ptr \in Probed(inner[p]) :
        Run(c, IF ptr = None
               THEN Advance([l EXCEPT !.deferred = Append(@, l.at)])
               ELSE IF l.req.op = "edit" /\ ~ptr.text
               THEN Respond(l, "error", None)
               ELSE [l EXCEPT !.pc = "lookup", !.ptr = ptr])
  BY DEF Probe
<1>4. UNCHANGED <<inner, store, cache, checkpoints, edited>>
  BY DEF Probe
<1>5. ptr # None => ptr \in Pointer /\ Known(ptr, edited)
  BY <1>2, FoundPointer DEF Probed, parse_pointer
<1> HIDE DEF l
<1>6. CASE ptr = None
  BY <1>1, <1>3, <1>4, <1>6, DeferOK, QuietStep
<1>7. CASE ptr # None /\ l.req.op = "edit" /\ ~ptr.text
  BY <1>1, <1>3, <1>4, <1>7, PlainResponseOK, QuietStep
<1>8. CASE ptr # None /\ ~(l.req.op = "edit" /\ ~ptr.text)
  <2>1. ~(l.at > Len(l.req.items))
    BY <1>1, ItemsType DEF AtItem
  <2>2. ptr \in Pointer /\ Known(ptr, edited)
    BY <1>5, <1>8
  <2>3. Run(c, [l EXCEPT !.pc = "lookup", !.ptr = ptr])
    BY <1>3, <1>8
  <2>4. QED
    BY <1>1, <1>4, <2>1, <2>2, <2>3, DereferenceStep
<1>9. QED
  BY <1>6, <1>7, <1>8

(* The place of a call that dereferences a pointer. *)
LEMMA FetchFacts ==
  ASSUME IInv, NEW c \in Caller, call[c].pc \in {"lookup", "load", "keep"}
  PROVE  /\ AtItem(call[c])
         /\ call[c].req.op \in {"read", "edit", "download"}
         /\ call[c].at > Len(call[c].req.items) => call[c].req.op # "edit"
         /\ call[c].ptr \in Pointer /\ Known(call[c].ptr, edited)
         /\ call[c].pc \in {"load", "keep"} => call[c].ptr.sha256 # None
         /\ call[c].ptr.sha256 # None => call[c].ptr.sha256 \in Digest
         /\ call[c].ptr.key # None => call[c].ptr.key \in Key
<1>1. /\ Placed(call[c]) /\ AtItem(call[c]) /\ Follows(call[c], edited)
      /\ call[c].ptr \in Pointer
  BY CallerFacts, AtItemOf DEF Placed, CallOK
<1>2. /\ call[c].ptr.sha256 # None => call[c].ptr.sha256 \in Digest
      /\ call[c].ptr.key # None => call[c].ptr.key \in Key
  BY <1>1 DEF Pointer
<1>3. QED
  BY <1>1, <1>2 DEF Placed, CallOK, Follows

(* _cache.get *)
LEMMA LookupIInv ==
  ASSUME IInv, NEW c \in Caller, Lookup(c)
  PROVE  IInv'
<1> DEFINE l == call[c]
           v == cache[l.ptr.sha256]
<1>1. /\ AtItem(l) /\ l.ptr \in Pointer /\ Known(l.ptr, edited) /\ l.pc = "lookup"
      /\ l.req.op \in {"read", "edit", "download"}
      /\ l.at > Len(l.req.items) => l.req.op # "edit"
      /\ l.ptr.sha256 # None /\ l.ptr.sha256 \in Digest
  BY FetchFacts DEF Lookup
<1>2. v \in Value \cup {None}
  BY <1>1 DEF IInv, TypeOK
<1>3. /\ Run(c, IF v = None THEN [l EXCEPT !.pc = "load"] ELSE Fetched(l, v))
      /\ UNCHANGED <<inner, store, cache, checkpoints, edited>>
  BY DEF Lookup
<1>4. CASE v # None
  <2>1. Unbound(Fetched(l, v))
    BY <1>1, <1>2, <1>4, FetchedOK
  <2>2. QED
    BY <1>3, <1>4, <2>1, QuietStep
<1>5. CASE v = None
  <2> DEFINE m == [l EXCEPT !.pc = "load"]
  <2>1. Placed(l)
    BY CallerFacts
  <2>2. /\ m \in Local /\ m.pc = "load" /\ m.ptr = l.ptr /\ m.req = l.req
        /\ m.at = l.at /\ m.deferred = l.deferred
    BY <2>1 DEF Placed, Local, Label
  <2>3. Run(c, m)
    BY <1>3, <1>5
  <2> HIDE DEF m
  <2>4. CallOK(m)
    BY <1>1, <2>1, <2>2 DEF Placed, CallOK
  <2>5. Placed(m) /\ BlobThere(m, store) /\ Follows(m, edited)
    BY <1>1, <2>2, <2>4 DEF Placed, BlobThere, Follows
  <2>6. QED
    BY <1>3, <2>3, <2>5, LocalStep
<1>6. QED
  BY <1>4, <1>5

(* store.get: what it returns is the content of the key asked for. *)
LEMMA LoadIInv ==
  ASSUME IInv, NEW c \in Caller, Load(c)
  PROVE  IInv'
<1> DEFINE l == call[c]
           v == store[l.ptr.key]
<1>1. /\ AtItem(l) /\ l.pc = "load" /\ Known(l.ptr, edited)
      /\ l.ptr.key \in Key /\ l.ptr.sha256 # None
  BY FetchFacts DEF Load
<1>2. /\ v \in Value \cup {None}
      /\ v # None => BlobKey(v) = l.ptr.key
  BY <1>1 DEF IInv, TypeOK, ContentAddressed
<1>3. /\ Run(c, IF v = None THEN Respond(l, "error", None)
                ELSE [l EXCEPT !.pc = "keep", !.raw = v])
      /\ UNCHANGED <<inner, store, cache, checkpoints, edited>>
  BY DEF Load
<1>4. CASE v = None
  BY <1>1, <1>3, <1>4, PlainResponseOK, QuietStep
<1>5. CASE v # None
  <2> DEFINE m == [l EXCEPT !.pc = "keep", !.raw = v]
  <2>1. Placed(l)
    BY CallerFacts
  <2>2. BlobKey(v) = l.ptr.key /\ v \in Value
    BY <1>2, <1>5
  <2>3. /\ m \in Local /\ m.pc = "keep" /\ m.ptr = l.ptr /\ m.req = l.req
        /\ m.at = l.at /\ m.deferred = l.deferred /\ m.raw = v
    <3> HIDE DEF v
    <3>1. QED
      BY <2>1, <2>2 DEF Placed, Local, Label
  <2>4. Run(c, m)
    BY <1>3, <1>5
  <2> HIDE DEF m, v
  <2>5. CallOK(m)
    BY <1>1, <2>1, <2>2, <2>3 DEF Placed, CallOK
  <2>6. Placed(m) /\ BlobThere(m, store) /\ Follows(m, edited)
    BY <1>1, <2>3, <2>5 DEF Placed, BlobThere, Follows
  <2>7. QED
    BY <1>3, <2>4, <2>6, LocalStep
<1>6. QED
  BY <1>4, <1>5

(* A pointer without the field that is asked for. *)
LEMMA FieldMissingIInv ==
  ASSUME IInv, NEW c \in Caller, FieldMissing(c)
  PROVE  IInv'
<1>1. Inside(call[c])
  BY FetchFacts DEF FieldMissing, AtItem
<1>2. QED
  BY <1>1, RaisedOK, QuietStep DEF FieldMissing

(* The bytes fetched are those of the pointer's digest, unless the pointer pairs
   it with another key: a genuine pointer does not. *)
LEMMA FetchedDigest ==
  ASSUME NEW ptr \in Pointer, Known(ptr, edited), ptr.sha256 # None,
         NEW v \in Value, BlobKey(v) = ptr.key
  PROVE  Sha[v] = ptr.sha256 \/ ptr.sha256 \in Mispaired
<1>1. CASE Genuine(ptr)
  BY <1>1, GenuineBlob
<1>2. CASE ptr \in edited /\ ptr.key = KeyFn[ptr.sha256]
  <2>1. ptr.sha256 \in Digest /\ Sha[v] \in Digest
    BY BlobKeyType DEF Pointer
  <2>2. QED
    BY <1>2, <2>1, StubAssumption DEF BlobKey
<1>3. CASE ptr \in edited /\ ptr.key # KeyFn[ptr.sha256]
  <2>1. ptr.sha256 \in Digest
    BY DEF Pointer
  <2>2. QED
    BY <1>3, <2>1 DEF Mispaired
<1>4. QED
  BY <1>1, <1>2, <1>3 DEF Known

(* _cache.put in _fetch. *)
LEMMA KeepIInv ==
  ASSUME IInv, NEW c \in Caller, Keep(c)
  PROVE  IInv'
<1> DEFINE l == call[c]
           h == l.ptr.sha256
<1>1. /\ AtItem(l)
      /\ l.req.op \in {"read", "edit", "download"}
      /\ l.at > Len(l.req.items) => l.req.op # "edit"
      /\ l.ptr \in Pointer /\ Known(l.ptr, edited) /\ h # None /\ h \in Digest
  BY FetchFacts DEF Keep
<1>2. l.raw \in Value /\ BlobKey(l.raw) = l.ptr.key
  BY CallerFacts DEF Keep, Placed, CallOK
<1>3. Unbound(Fetched(l, l.raw))
  BY <1>1, <1>2, FetchedOK
<1>4. Sha[l.raw] = h \/ h \in Mispaired
  BY <1>1, <1>2, FetchedDigest
<1>5. /\ cache' \in Cache!AfterPut(cache, h, l.raw)
      /\ Run(c, Fetched(l, l.raw)) /\ UNCHANGED <<inner, store, checkpoints, edited>>
  BY DEF Keep
<1>6. QED
  BY <1>1, <1>2, <1>3, <1>4, <1>5, CacheStep DEF Unbound, BlobThere, Follows

(* The place of a call that stores a content. *)
LEMMA StoreFacts ==
  ASSUME IInv, NEW c \in Caller,
         call[c].pc \in {"exists", "put", "cache", "send", "write"}
  PROVE  /\ AtItem(call[c])
         /\ Content(call[c]) \in Value
         /\ BlobKey(Content(call[c])) \in Key
BY CallerFacts, AtItemOf, BlobKeyType DEF Placed, CallOK

(* Between its steps a call that stores keeps its place and its content. *)
LEMMA NextLabel ==
  ASSUME NEW l, Placed(l), l.pc \in {"exists", "put", "cache"},
         NEW pc \in {"put", "cache", "send"}
  PROVE  /\ Placed([l EXCEPT !.pc = pc])
         /\ [l EXCEPT !.pc = pc].pc = pc
         /\ Content([l EXCEPT !.pc = pc]) = Content(l)
<1> DEFINE m == [l EXCEPT !.pc = pc]
<1>1. /\ m \in Local /\ m.pc = pc /\ m.req = l.req /\ m.at = l.at
      /\ m.deferred = l.deferred /\ m.raw = l.raw
  BY DEF Placed, Local, Label
<1> HIDE DEF m
<1>2. Content(m) = Content(l)
  BY <1>1 DEF Content, Item, Index
<1>3. CallOK(m)
  BY <1>1, <1>2 DEF Placed, CallOK
<1>4. QED
  BY <1>1, <1>2, <1>3 DEF Placed, m

(* store.exists: a hit means that the blob is there. *)
LEMMA ExistsIInv ==
  ASSUME IInv, NEW c \in Caller, Exists(c)
  PROVE  IInv'
<1> DEFINE l == call[c]
<1>1. Placed(l) /\ l.pc = "exists"
  BY CallerFacts DEF Exists
<1>2. PICK hit \in {store[BlobKey(Content(l))] # None} \cup {x \in {FALSE} : StoreFaults} :
        Run(c, [l EXCEPT !.pc = IF hit THEN "cache" ELSE "put"])
  BY DEF Exists
<1>3. UNCHANGED <<inner, store, cache, checkpoints, edited>>
  BY DEF Exists
<1>4. CASE hit
  <2> DEFINE m == [l EXCEPT !.pc = "cache"]
  <2>1. Placed(m) /\ m.pc = "cache" /\ Content(m) = Content(l)
    BY <1>1, NextLabel
  <2>2. Run(c, m)
    BY <1>2, <1>4
  <2>3. store[BlobKey(Content(l))] # None
    BY <1>4
  <2> HIDE DEF m
  <2>4. BlobThere(m, store) /\ Follows(m, edited)
    BY <2>1, <2>3 DEF BlobThere, Follows
  <2>5. QED
    BY <1>3, <2>1, <2>2, <2>4, LocalStep
<1>5. CASE ~hit
  <2> DEFINE m == [l EXCEPT !.pc = "put"]
  <2>1. Placed(m) /\ m.pc = "put"
    BY <1>1, NextLabel
  <2>2. Run(c, m)
    BY <1>2, <1>5
  <2> HIDE DEF m
  <2>3. QED
    BY <1>3, <2>1, <2>2, QuietStep DEF Unbound
<1>6. QED
  BY <1>4, <1>5

(* store.put: only the blob of this key changes, and only to its content. *)
LEMMA PutIInv ==
  ASSUME IInv, NEW c \in Caller, Put(c)
  PROVE  IInv'
<1> DEFINE l == call[c]
           v == Content(l)
           m == [l EXCEPT !.pc = "cache"]
<1>1. Placed(l) /\ v \in Value /\ BlobKey(v) \in Key
  BY CallerFacts, StoreFacts DEF Put
<1>2. Placed(m) /\ m.pc = "cache" /\ Content(m) = v
  BY <1>1, NextLabel DEF Put
<1>3. /\ store' = [store EXCEPT ![BlobKey(v)] = v] /\ Run(c, m)
      /\ UNCHANGED <<inner, cache, checkpoints, edited>>
  BY DEF Put
<1>4. store'[BlobKey(v)] # None
  BY <1>1, <1>3, MarkAssumption DEF IInv, TypeOK
<1> HIDE DEF m, v
<1>5. BlobThere(m, store') /\ Follows(m, edited)
  BY <1>2, <1>4 DEF BlobThere, Follows
<1>6. QED
  BY <1>1, <1>2, <1>3, <1>5, StoreStep

(* store.put that raises, with or without its effect. *)
LEMMA PutFailsIInv ==
  ASSUME IInv, NEW c \in Caller, PutFails(c)
  PROVE  IInv'
<1> DEFINE l == call[c]
           v == Content(l)
<1>1. AtItem(l) /\ v \in Value
  BY StoreFacts DEF PutFails
<1>2. Unbound(Fail(l))
  BY <1>1, FailOK
<1>3. Run(c, Fail(l)) /\ UNCHANGED <<inner, cache, checkpoints, edited>>
  BY DEF PutFails
<1>4. CASE store' = [store EXCEPT ![BlobKey(v)] = v]
  <2>1. BlobThere(Fail(l), store') /\ Follows(Fail(l), edited)
    BY <1>2 DEF Unbound, BlobThere, Follows
  <2>2. QED
    BY <1>1, <1>2, <1>3, <1>4, <2>1, StoreStep DEF Unbound
<1>5. CASE UNCHANGED store
  BY <1>2, <1>3, <1>5, QuietStep
<1>6. QED
  BY <1>4, <1>5 DEF PutFails

(* _cache.put in _offload. *)
LEMMA CachePutIInv ==
  ASSUME IInv, NEW c \in Caller, CachePut(c)
  PROVE  IInv'
<1> DEFINE l == call[c]
           v == Content(l)
           m == [l EXCEPT !.pc = "send"]
<1>1. Placed(l) /\ BlobThere(l, store) /\ l.pc = "cache" /\ v \in Value
  BY CallerFacts, StoreFacts DEF CachePut
<1>2. Placed(m) /\ m.pc = "send" /\ Content(m) = v
  BY <1>1, NextLabel
<1>3. /\ cache' \in Cache!AfterPut(cache, Sha[v], v) /\ Run(c, m)
      /\ UNCHANGED <<inner, store, checkpoints, edited>>
  BY DEF CachePut
<1> HIDE DEF m
<1>4. BlobThere(m, store) /\ Follows(m, edited)
  BY <1>1, <1>2 DEF BlobThere, Follows
<1>5. Sha[v] \in Digest
  BY <1>1, BlobKeyType
<1>6. QED
  BY <1>1, <1>2, <1>3, <1>4, <1>5, CacheStep

(* _write_stub: the new stub is genuine and its blob is there. *)
LEMMA SendIInv ==
  ASSUME IInv, NEW c \in Caller, Send(c)
  PROVE  IInv'
<1> DEFINE l == call[c]
           v == Content(l)
           m == Respond(l, "ok", None)
<1>1. AtItem(l) /\ v \in Value /\ l.pc = "send" /\ BlobThere(l, store)
  BY CallerFacts, StoreFacts DEF Send
<1>2. Unbound(m)
  BY <1>1, PlainResponseOK
<1>3. /\ Stub(v) \in FileData /\ Genuine(Stub(v).content)
      /\ Stub(v).content.key = BlobKey(v)
  BY <1>1, StubType
<1>4. Sweeps \/ store[BlobKey(v)] # None
  BY <1>1 DEF BlobThere
<1>5. /\ inner' = [inner EXCEPT ![Item(l).path] = Stub(v)] /\ Run(c, m)
      /\ UNCHANGED <<store, cache, checkpoints, edited>>
  BY DEF Send
<1> HIDE DEF m, v
<1>6. QED
  BY <1>2, <1>3, <1>4, <1>5, InnerStep

(* _write_stub whose inner write is refused. *)
LEMMA SendRefusedIInv ==
  ASSUME IInv, NEW c \in Caller, SendRefused(c)
  PROVE  IInv'
<1> DEFINE kind == IF call[c].req.op = "upload" THEN "ok" ELSE "error"
<1>1. AtItem(call[c]) /\ kind \in {"ok", "error"}
  BY StoreFacts DEF SendRefused
<1>2. /\ Run(c, Respond(call[c], kind, None))
      /\ UNCHANGED <<inner, store, cache, checkpoints, edited>>
  BY DEF SendRefused
<1> HIDE DEF kind
<1>3. QED
  BY <1>1, <1>2, PlainResponseOK, QuietStep

(* inner.write: the new entry holds no pointer, by NoLookalike. *)
LEMMA InnerWriteIInv ==
  ASSUME NoLookalike, IInv, NEW c \in Caller, InnerWrite(c)
  PROVE  IInv'
<1> DEFINE l == call[c]
           v == Content(l)
           m == Respond(l, "ok", None)
<1>1. AtItem(l) /\ v \in Value
  BY StoreFacts DEF InnerWrite
<1>2. Unbound(m)
  BY <1>1, PlainResponseOK
<1>3. Inline(v) \in FileData /\ Inline(v).content \notin Pointer
  BY <1>1, InlineType
<1>4. /\ inner' = [inner EXCEPT ![Item(l).path] = Inline(v)] /\ Run(c, m)
      /\ UNCHANGED <<store, cache, checkpoints, edited>>
  BY DEF InnerWrite
<1> HIDE DEF m, v
<1>5. QED
  BY <1>2, <1>3, <1>4, InnerStep

(* The place of a call whose item was left to the inner backend. *)
LEMMA DeferredFacts ==
  ASSUME IInv, NEW c \in Caller, NEW ops, Deferred(c, ops)
  PROVE  AtItem(call[c]) /\ call[c].req.op \in ops /\ Item(call[c]).path \in Path
BY CallerFacts, AtItemOf, ItemType DEF Deferred

(* inner.read. *)
LEMMA InnerReadIInv ==
  ASSUME IInv, NEW c \in Caller, InnerRead(c)
  PROVE  IInv'
<1> DEFINE l == call[c]
           fd == inner[Item(l).path]
<1>1. AtItem(l) /\ fd \in FileData \cup {None}
  BY DeferredFacts DEF InnerRead, IInv, TypeOK, Image
<1>2. /\ Run(c, IF fd = None THEN Respond(l, "error", None)
                ELSE Respond(l, "content", fd.content))
      /\ UNCHANGED <<inner, store, cache, checkpoints, edited>>
  BY DEF InnerRead
<1> HIDE DEF l, fd
<1>3. CASE fd = None
  BY <1>1, <1>2, <1>3, PlainResponseOK, QuietStep
<1>4. CASE fd # None
  <2>1. fd.content \in Value \cup Pointer \cup {Mangled}
    BY <1>1, <1>4 DEF FileData
  <2>2. QED
    BY <1>1, <1>2, <1>4, <2>1, ContentResponseOK, QuietStep
<1>5. QED
  BY <1>3, <1>4

(* inner.download_files, and the pointer it may come upon. *)
LEMMA InnerDownloadIInv ==
  ASSUME IInv, NEW c \in Caller, InnerDownload(c)
  PROVE  IInv'
<1> DEFINE l == call[c]
           p == Item(l).path
           fd == inner[p]
           ptr == parse_pointer(fd.content)
<1>1. AtItem(l) /\ l.req.op = "download" /\ p \in Path
  BY DeferredFacts DEF InnerDownload
<1>2. fd \in FileData \cup {None}
  BY <1>1 DEF IInv, TypeOK, Image
<1>3. /\ Run(c, CASE fd = None -> Respond(l, "error", None)
                  [] fd # None /\ fd.encoding = "external" ->
                       Respond(l, "content", Mangled)
                  [] fd # None /\ fd.encoding # "external" ->
                       IF ptr = None THEN Respond(l, "content", fd.content)
                       ELSE [l EXCEPT !.pc = "lookup", !.ptr = ptr])
      /\ UNCHANGED <<inner, store, cache, checkpoints, edited>>
  BY DEF InnerDownload
<1>4. CASE fd = None
  BY <1>1, <1>3, <1>4, PlainResponseOK, QuietStep
<1>5. CASE fd # None /\ fd.encoding = "external"
  BY <1>1, <1>3, <1>5, ContentResponseOK, QuietStep
<1>6. CASE fd # None /\ fd.encoding # "external" /\ ptr = None
  <2>1. fd.content \in Value \cup Pointer \cup {Mangled}
    BY <1>2, <1>6 DEF FileData
  <2>2. Run(c, Respond(l, "content", fd.content))
    BY <1>3, <1>6
  <2>3. QED
    BY <1>1, <1>3, <2>1, <2>2, ContentResponseOK, QuietStep
<1>7. CASE fd # None /\ fd.encoding # "external" /\ ptr # None
  <2>1. ptr \in Pointer /\ Known(ptr, edited)
    BY <1>1, <1>7, FoundPointer DEF parse_pointer
  <2>2. Run(c, [l EXCEPT !.pc = "lookup", !.ptr = ptr])
    BY <1>3, <1>7
  <2> HIDE DEF l, ptr
  <2>3. QED
    BY <1>1, <1>3, <2>1, <2>2, DereferenceStep
<1>8. QED
  BY <1>4, <1>5, <1>6, <1>7

(* inner.edit: it leaves no pointer in an ordinary file, and what it makes of
   pointer JSON is a pointer of its own or none. *)
LEMMA InnerEditIInv ==
  ASSUME NoLookalike, IInv, NEW c \in Caller, InnerEdit(c)
  PROVE  IInv'
<1> DEFINE l == call[c]
           p == Item(l).path
           fd == inner[p]
           w == IF fd = None \/ fd.content \notin Value THEN None
                ELSE Replace[Item(l).arg][fd.content]
           ok == Respond(l, "ok", None)
           altered(json) == [content |-> json, encoding |-> fd.encoding]
<1>1. AtItem(l) /\ l.req.op = "edit" /\ p \in Path
  BY DeferredFacts DEF InnerEdit
<1>2. fd \in FileData \cup {None}
  BY <1>1 DEF IInv, TypeOK, Image
<1>3. Unbound(ok) /\ Unbound(Respond(l, "error", None))
  BY <1>1, PlainResponseOK
<1>4. /\ \/ Run(c, Respond(l, "error", None)) /\ UNCHANGED <<inner, edited>>
         \/ /\ w # None /\ inner' = [inner EXCEPT ![p] = Inline(w)] /\ Run(c, ok)
            /\ UNCHANGED edited
         \/ \E json \in Rewritten :
              /\ fd # None /\ inner' = [inner EXCEPT ![p] = altered(json)] /\ Run(c, ok)
              /\ edited' = edited \cup ({json} \cap Pointer)
      /\ UNCHANGED <<store, cache, checkpoints>>
  BY DEF InnerEdit
<1>5. CASE Run(c, Respond(l, "error", None)) /\ UNCHANGED <<inner, edited>>
  BY <1>3, <1>4, <1>5, QuietStep
<1>6. CASE /\ w # None /\ inner' = [inner EXCEPT ![p] = Inline(w)] /\ Run(c, ok)
           /\ UNCHANGED edited
  <2>1. Item(l).arg \in Edit
    BY <1>1, ItemType DEF Argument
  <2>2. w \in Value
    BY <1>6, <2>1, CallAssumption, StubAssumption
  <2>3. Inline(w) \in FileData /\ Inline(w).content \notin Pointer
    BY <2>2, InlineType
  <2> HIDE DEF w, ok
  <2>4. QED
    BY <1>3, <1>4, <1>6, <2>3, InnerStep
<1>7. ASSUME NEW json \in Rewritten,
             fd # None, inner' = [inner EXCEPT ![p] = altered(json)], Run(c, ok),
             edited' = edited \cup ({json} \cap Pointer)
      PROVE  IInv'
  <2> DEFINE bad == altered(json)
  <2>1. json \in Pointer \cup {Mangled}
    BY MarkAssumption
  <2>2. bad \in FileData /\ bad.content = json
    BY <1>2, <1>7, <2>1 DEF FileData
  <2>3. bad.content \in Pointer => bad.content \in edited'
    BY <1>7, <2>2
  <2>4. inner' = [inner EXCEPT ![p] = bad]
    BY <1>7
  <2>5. edited \subseteq edited' /\ edited' \subseteq edited \cup Pointer
    BY <1>7
  <2> HIDE DEF bad, ok, p
  <2>6. QED
    BY <1>3, <1>4, <1>7, <2>2, <2>3, <2>4, <2>5, InnerStep
<1>8. QED
  BY <1>4, <1>5, <1>6, <1>7

(* inner.upload_files. *)
LEMMA InnerUploadIInv ==
  ASSUME NoLookalike, IInv, NEW c \in Caller, InnerUpload(c)
  PROVE  IInv'
<1> DEFINE l == call[c]
           v == Item(l).arg
           m == Respond(l, "ok", None)
<1>1. AtItem(l) /\ l.req.op = "upload"
  BY DeferredFacts DEF InnerUpload
<1>2. v \in Value /\ Unbound(m)
  BY <1>1, ItemType, PlainResponseOK DEF Argument
<1>3. Inline(v) \in FileData /\ Inline(v).content \notin Pointer
  BY <1>2, InlineType
<1>4. /\ inner' = [inner EXCEPT ![Item(l).path] = Inline(v)] /\ Run(c, m)
      /\ UNCHANGED <<store, cache, checkpoints, edited>>
  BY DEF InnerUpload
<1> HIDE DEF m, v
<1>5. QED
  BY <1>2, <1>3, <1>4, InnerStep

(* inner.delete: the stub goes, the blob stays. *)
LEMMA InnerDeleteIInv ==
  ASSUME IInv, NEW c \in Caller, InnerDelete(c)
  PROVE  IInv'
<1> DEFINE m == Respond(call[c], "ok", None)
<1>1. Unbound(m)
  BY DeferredFacts, PlainResponseOK DEF InnerDelete
<1>2. /\ inner' = [inner EXCEPT ![Item(call[c]).path] = None] /\ Run(c, m)
      /\ UNCHANGED <<store, cache, checkpoints, edited>>
  BY DEF InnerDelete
<1> HIDE DEF m
<1>3. QED
  BY <1>1, <1>2, InnerStep

(* An inner call that returns an error. *)
LEMMA InnerRefusesIInv ==
  ASSUME IInv, NEW c \in Caller, InnerRefuses(c)
  PROVE  IInv'
<1>1. AtItem(call[c])
  BY StoreFacts, DeferredFacts DEF InnerRefuses
<1>2. QED
  BY <1>1, PlainResponseOK, QuietStep DEF InnerRefuses

(* An inner call that raises. *)
LEMMA RaiseIInv ==
  ASSUME IInv, NEW c \in Caller, Raise(c)
  PROVE  IInv'
<1>1. AtItem(call[c])
  BY CallerFacts, AtItemOf, DeferredFacts DEF Raise
<1>2. Unbound(Fail(call[c])) /\ Unbound(Raised(call[c]))
  BY <1>1, FailOK, RaisedOK DEF AtItem
<1>3. QED
  BY <1>2, QuietStep DEF Raise

(* Every step of a caller. *)
LEMMA StepIInv ==
  ASSUME NoLookalike, IInv, NEW c \in Caller, Step(c)
  PROVE  IInv'
BY ReturnIInv, DelegateIInv, ProbeIInv, LookupIInv, LoadIInv,
   FieldMissingIInv, KeepIInv,
   ExistsIInv, PutIInv, PutFailsIInv, CachePutIInv, SendIInv, SendRefusedIInv,
   InnerWriteIInv, InnerReadIInv, InnerDownloadIInv, InnerEditIInv,
   InnerUploadIInv, InnerDeleteIInv, InnerRefusesIInv, RaiseIInv
   DEF Step

(* Saving the inner backend adds no pointer that was not there. *)
LEMMA CheckpointIInv ==
  ASSUME IInv, Checkpoint
  PROVE  IInv'
<1>1. checkpoints' \cup {inner'} = checkpoints \cup {inner}
  BY DEF Checkpoint
<1>2. StoredPointers' = StoredPointers
  BY <1>1 DEF StoredPointers
<1>3. UNCHANGED <<inner, store, cache, edited, call>> /\ checkpoints' \subseteq Image
  BY DEF Checkpoint, IInv, TypeOK
<1>4. StubsKnown' /\ NoDanglingStub'
  BY <1>2, <1>3 DEF IInv, StubsKnown, NoDanglingStub
<1>5. QED
  BY <1>3, <1>4 DEF IInv, TypeOK, ContentAddressed, Mispaired

(* A saved state has no stub that the invariant does not already speak of. *)
LEMMA RestartIInv ==
  ASSUME IInv, Restart
  PROVE  IInv'
<1>1. /\ inner' \in checkpoints /\ UNCHANGED <<store, checkpoints, edited>>
      /\ cache' = [d \in Digest |-> None] /\ call' = [c \in Caller |-> Idle]
  BY DEF Restart
<1>2. StoredPointers' \subseteq StoredPointers
  BY <1>1 DEF StoredPointers
<1>3. StubsKnown' /\ NoDanglingStub'
  BY <1>1, <1>2 DEF IInv, StubsKnown, NoDanglingStub
<1>4. /\ Idle \in Local /\ CallOK(Idle) /\ BlobThere(Idle, store')
      /\ Follows(Idle, edited')
  BY IdleOK DEF Unbound, Placed, BlobThere, Follows
<1>5. TypeOK' /\ ContentAddressed'
  BY <1>1, <1>4 DEF IInv, TypeOK, ContentAddressed
<1>6. \A c \in Caller : CallOK(call'[c]) /\ BlobThere(call'[c], store') /\ Follows(call'[c], edited')
  BY <1>1, <1>4
<1>7. QED
  BY <1>3, <1>5, <1>6 DEF IInv

(* A sweep: NoDanglingStub claims nothing of a store that is swept. *)
LEMMA SweepIInv ==
  ASSUME IInv, NEW k \in Key, Sweep(k)
  PROVE  IInv'
<1>1. /\ Sweeps /\ store' = [store EXCEPT ![k] = None]
      /\ UNCHANGED <<inner, cache, checkpoints, edited, call>>
  BY DEF Sweep
<1>2. BlobsKept
  BY <1>1 DEF BlobsKept
<1>3. StubsKnown' /\ NoDanglingStub'
  BY <1>1, <1>2, StubsOK
<1>4. TypeOK' /\ ContentAddressed'
  BY <1>1 DEF IInv, TypeOK, ContentAddressed, Mispaired
<1>5. \A c \in Caller : CallOK(call'[c]) /\ BlobThere(call'[c], store') /\ Follows(call'[c], edited')
  BY <1>1 DEF IInv, BlobThere
<1>6. QED
  BY <1>3, <1>4, <1>5 DEF IInv

(* Every step preserves it. *)
LEMMA NextIInv == NoLookalike /\ IInv /\ [Next]_vars => IInv'
<1> SUFFICES ASSUME NoLookalike, IInv, [Next]_vars PROVE IInv'
  OBVIOUS
<1>1. CASE UNCHANGED vars
  <2>1. BlobsKept /\ UNCHANGED <<inner, store, cache, checkpoints, edited, call>>
    BY <1>1 DEF vars, BlobsKept
  <2>2. StubsKnown' /\ NoDanglingStub'
    BY <2>1, StubsOK
  <2>3. QED
    BY <2>1, <2>2 DEF IInv, TypeOK, ContentAddressed, Mispaired
<1>2. QED
  BY <1>1, StepIInv, CallIInv, CheckpointIInv, RestartIInv, SweepIInv DEF Next

-----------------------------------------------------------------------------
(* Theorems *)

(* The inductive invariant: types, content addressing, stubs that are genuine
   and backed or that an edit made of pointer JSON, and for every call its
   place, the pointer it follows and the blob it relies on.  It needs that no
   user file is itself pointer JSON; it allows edits to make any pointer. *)
THEOREM Invariance == ASSUME NoLookalike PROVE Spec => []IInv
<1>1. IInv /\ [Next]_vars => IInv'
  BY NextIInv
<1>2. QED
  BY InitIInv, <1>1, PTL DEF Spec

(* Every variable of the backend, and of every call in progress, keeps its
   type, whatever callers, faults, restarts and sweeps do. *)
THEOREM TypeCorrect == ASSUME NoLookalike PROVE Spec => []TypeOK
<1>1. IInv => TypeOK
  BY DEF IInv
<1>2. QED
  BY <1>1, Invariance, PTL

(* A blob holds the bytes its key names and a cache entry the bytes of its
   digest, for any number of callers and in spite of failed puts, evictions,
   restarts and sweeps, so that exists can be trusted; the cache entry of a
   digest is wrong only if an edit of pointer JSON paired it with another key. *)
THEOREM Addressing == ASSUME NoLookalike PROVE Spec => []ContentAddressed
<1>1. IInv => ContentAddressed
  BY DEF IInv
<1>2. QED
  BY <1>1, Invariance, PTL

(* While blobs are not swept, every stub in the inner backend or in a saved
   state has its blob, at every moment of every interleaving: _offload puts
   before _write_stub writes, and delete leaves the blob.  Only a pointer that
   an edit made of pointer JSON may lack one. *)
THEOREM StubsBacked == ASSUME NoLookalike PROVE Spec => []NoDanglingStub
<1>1. IInv => NoDanglingStub
  BY DEF IInv
<1>2. QED
  BY <1>1, Invariance, PTL

=============================================================================
