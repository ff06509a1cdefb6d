--------------------------- MODULE OffloadingEdits ---------------------------
(***************************************************************************)
(* For any number of callers, contents, failures and restarts: what an     *)
(* edit stores is its replacement of the version it found, and nothing but *)
(* an edit of an inline file leaves a large content inline.                *)
(***************************************************************************)
EXTENDS OffloadingProofs

Storing == {"exists", "put", "cache", "send", "write"}

\* An edit that has its new content made it from the content of its stub.
FromFound(l) ==
  l.pc \in Storing /\ l.req.op = "edit" =>
    \E v \in Value : /\ l.ptr.sha256 \in {Sha[v]} \cup Mispaired
                    /\ l.raw = Replace[Item(l).arg][v]

\* What is left to the inner backend is small: by write and edit, by the next
\* step of upload_files, and by those it has taken.
WriteSmall(l) == l.pc = "write" => ~Large(Content(l))

DelegateSmall(l) ==
  l.pc = "delegate" /\ l.req.op = "upload" => ~Large(l.req.items[l.at].arg)

KeptSmall(l) ==
  l.pc # "idle" /\ l.req.op = "upload" =>
    \A j \in DOMAIN l.deferred : ~Large(l.req.items[l.deferred[j]].arg)

Sound(l) == FromFound(l) /\ WriteSmall(l) /\ DelegateSmall(l) /\ KeptSmall(l)

EditInv == \A c \in Caller : Sound(call[c])

\* The same of the calls after a step, for what was mispaired before it.
SoundAfter == \A c \in Caller : Sound(call'[c])

-----------------------------------------------------------------------------
(* Where a step can leave a call *)

(* A call that neither stores nor delegates. *)
LEMMA ElsewhereSound ==
  ASSUME NEW m, m.pc \notin Storing \cup {"delegate"}, KeptSmall(m)
  PROVE  Sound(m)
BY DEF Sound, FromFound, WriteSmall, DelegateSmall, Storing

(* What the first test of an item lets through is small. *)
LEMMA EntrySmall ==
  ASSUME NEW r \in Request, NEW i \in Nat
  PROVE  /\ r.op = "edit" => Entry(r, i) \notin Storing
         /\ Entry(r, i) = "write" =>
              r.op = "write" /\ i <= Len(r.items) /\ ~Large(r.items[i].arg)
         /\ r.op = "upload" /\ Entry(r, i) = "delegate" => ~Large(r.items[i].arg)
<1>1. Len(r.items) \in Nat /\ r.op \in Op
  BY LenProperties DEF Request
<1>2. CASE i > Len(r.items)
  BY <1>2 DEF Entry, Storing
<1>3. CASE i <= Len(r.items) /\ r.op \in {"read", "edit", "download", "delete"}
  BY <1>1, <1>3 DEF Entry, Storing
<1>4. CASE i <= Len(r.items) /\ r.op = "write"
  BY <1>1, <1>4 DEF Entry
<1>5. CASE i <= Len(r.items) /\ r.op = "upload"
  BY <1>1, <1>5 DEF Entry
<1>6. QED
  BY <1>1, <1>2, <1>3, <1>4, <1>5 DEF Op

(* A call that has come to its next item. *)
LEMMA ArrivedSound ==
  ASSUME NEW m, Inside(m), m.pc = Entry(m.req, m.at), KeptSmall(m)
  PROVE  Sound(m)
<1>1. m.req \in Request /\ m.at \in Nat
  BY ItemsType DEF Inside
<1>2. /\ m.req.op = "edit" => m.pc \notin Storing
      /\ m.pc = "write" =>
           m.req.op = "write" /\ m.at <= Len(m.req.items) /\ ~Large(m.req.items[m.at].arg)
      /\ m.req.op = "upload" /\ m.pc = "delegate" => ~Large(m.req.items[m.at].arg)
  BY <1>1, EntrySmall
<1>3. m.pc = "write" => Content(m) = m.req.items[m.at].arg
  BY <1>2 DEF Content, Item, Index
<1>4. QED
  BY <1>2, <1>3 DEF Sound, FromFound, WriteSmall, DelegateSmall

(* What was left to the inner backend stays small while the call goes on. *)
LEMMA KeptCarried ==
  ASSUME NEW l, KeptSmall(l), l.pc # "idle",
         NEW m, m.req = l.req, m.deferred = l.deferred
  PROVE  KeptSmall(m)
BY DEF KeptSmall

(* Going on to the next item. *)
LEMMA AdvanceSound ==
  ASSUME NEW l, AtItem(l), l.pc # "idle", KeptSmall(l)
  PROVE  Sound(Advance(l))
<1> DEFINE m == Advance(l)
<1>1. Inside(l) /\ l \in Local
  BY DEF AtItem, Inside
<1>2. CASE l.at <= Len(l.req.items)
  <2>1. /\ m.pc = Entry(l.req, l.at + 1) /\ m.req = l.req /\ m.at = l.at + 1
        /\ m.deferred = l.deferred
    BY <1>1, <1>2 DEF Advance, Local
  <2>2. m \in Local
    BY AdvanceOK DEF Unbound, Placed
  <2> HIDE DEF m
  <2>3. KeptSmall(m)
    BY <2>1, KeptCarried
  <2>4. Inside(m)
    BY <1>1, <1>2, <2>1, <2>2, ItemsType DEF Inside
  <2>5. QED
    BY <2>1, <2>3, <2>4, ArrivedSound DEF m
<1>3. CASE l.at > Len(l.req.items)
  <2>1. l.deferred # <<>> /\ l.deferred \in Seq(Nat)
    BY <1>1, <1>3, ItemsType DEF AtItem
  <2>2. m.pc = "inner" /\ m.req = l.req /\ m.deferred = Tail(l.deferred)
    BY <1>1, <1>3, ItemsType DEF Advance, Local
  <2> HIDE DEF m
  <2>3. \A j \in DOMAIN m.deferred : \E k \in DOMAIN l.deferred : m.deferred[j] = l.deferred[k]
    BY <2>1, <2>2, TailElements
  <2>4. KeptSmall(m)
    BY <2>2, <2>3 DEF KeptSmall
  <2>5. QED
    BY <2>2, <2>4, ElsewhereSound DEF Storing, m
<1>4. QED
  BY <1>1, <1>2, <1>3, ItemsType

(* Answering the item at hand. *)
LEMMA RespondSound ==
  ASSUME NEW l, AtItem(l), l.pc # "idle", KeptSmall(l), NEW kind, NEW content,
         [item |-> Index(l), kind |-> kind, content |-> content] \in Response
  PROVE  Sound(Respond(l, kind, content))
<1> DEFINE answer == [item |-> Index(l), kind |-> kind, content |-> content]
           m == [l EXCEPT !.reply = Append(l.reply, answer)]
<1>1. l \in Local /\ l.reply \in Seq(Response)
  BY DEF AtItem, Inside, Local
<1>2. Append(l.reply, answer) \in Seq(Response)
  BY <1>1, AppendProperties
<1>3. Respond(l, kind, content) = Advance(m)
  BY <1>1 DEF Respond, Local
<1>4. /\ m \in Local /\ m.pc = l.pc
      /\ m.req = l.req /\ m.at = l.at /\ m.deferred = l.deferred
  <2> HIDE DEF answer
  <2>1. QED
    BY <1>1, <1>2 DEF Local
<1> HIDE DEF m
<1>5. AtItem(m)
  BY <1>4 DEF AtItem, Inside
<1>6. KeptSmall(m)
  BY <1>4, KeptCarried
<1>7. QED
  BY <1>3, <1>4, <1>5, <1>6, AdvanceSound

(* An answer without a content, and one with. *)
LEMMA AnswerSound ==
  ASSUME NEW l, AtItem(l), l.pc # "idle", KeptSmall(l)
  PROVE  /\ \A kind \in {"ok", "error"} : Sound(Respond(l, kind, None))
         /\ \A x \in Value \cup Pointer \cup {Mangled} : Sound(Respond(l, "content", x))
<1>1. ASSUME NEW kind \in {"ok", "error"}
      PROVE  Sound(Respond(l, kind, None))
  <2>1. [item |-> Index(l), kind |-> kind, content |-> None] \in Response
    BY ItemType DEF Response
  <2>2. QED
    BY <2>1, RespondSound
<1>2. ASSUME NEW x \in Value \cup Pointer \cup {Mangled}
      PROVE  Sound(Respond(l, "content", x))
  <2>1. [item |-> Index(l), kind |-> "content", content |-> x] \in Response
    BY ItemType DEF Response
  <2>2. QED
    BY <2>1, RespondSound
<1>3. QED
  BY <1>1, <1>2

(* Leaving a small item to the inner backend. *)
LEMMA DeferSound ==
  ASSUME NEW l, AtItem(l), l.pc # "idle", KeptSmall(l), l.at <= Len(l.req.items),
         l.req.op = "upload" => ~Large(l.req.items[l.at].arg)
  PROVE  Sound(Advance([l EXCEPT !.deferred = Append(@, l.at)]))
<1> DEFINE more == Append(l.deferred, l.at)
           m == [l EXCEPT !.deferred = more]
<1>1. Inside(l) /\ l \in Local
  BY DEF AtItem, Inside
<1>2. /\ more \in Seq(Nat)
      /\ Len(more) = Len(l.deferred) + 1
      /\ \A j \in 1 .. Len(l.deferred) : more[j] = l.deferred[j]
      /\ more[Len(l.deferred) + 1] = l.at
  BY <1>1, ItemsType, AppendProperties
<1>3. DOMAIN more = 1 .. Len(l.deferred) + 1
  BY <1>2, LenProperties
<1>4. [l EXCEPT !.deferred = Append(@, l.at)] = m
  BY <1>1 DEF Local
<1> HIDE DEF more
<1>5. /\ m \in Local /\ m.pc = l.pc /\ m.req = l.req /\ m.at = l.at
      /\ m.deferred = more
  BY <1>1, <1>2 DEF Local
<1> HIDE DEF m
<1>6. \A j \in DOMAIN more :
        \/ j \in DOMAIN l.deferred /\ more[j] = l.deferred[j]
        \/ more[j] = l.at
  <2>1. Len(l.deferred) \in Nat /\ DOMAIN l.deferred = 1 .. Len(l.deferred)
    BY <1>1, ItemsType
  <2>2. \A j \in DOMAIN more : j \in 1 .. Len(l.deferred) \/ j = Len(l.deferred) + 1
    BY <1>3, <2>1
  <2>3. QED
    BY <1>2, <2>1, <2>2
<1>7. AtItem(m)
  BY <1>1, <1>5, <1>6, ItemsType DEF AtItem, Inside
<1>8. KeptSmall(m)
  BY <1>5, <1>6 DEF KeptSmall
<1>9. QED
  BY <1>4, <1>5, <1>7, <1>8, AdvanceSound

(* An exception, let through or turned into a response. *)
LEMMA FailSound ==
  ASSUME NEW l, AtItem(l), l.pc # "idle", KeptSmall(l)
  PROVE  Sound(Raised(l)) /\ Sound(Fail(l))
<1> DEFINE m == Raised(l)
<1>1. m.pc = "raised" /\ m.req = l.req /\ m.deferred = l.deferred
  BY DEF Raised, AtItem, Inside, Local
<1> HIDE DEF m
<1>2. Sound(m)
  BY <1>1, KeptCarried, ElsewhereSound DEF Storing
<1>3. Sound(Raised(l))
  BY <1>2 DEF m
<1>4. QED
  BY <1>3, AnswerSound DEF Fail

(* The content fetched for an edit is that of its stub, and what replaces it
   goes to the inner backend only when it is small. *)
LEMMA FetchedSound ==
  ASSUME NEW l, AtItem(l), l.pc # "idle", KeptSmall(l), NEW v \in Value,
         l.ptr.sha256 \in {Sha[v]} \cup Mispaired
  PROVE  Sound(Fetched(l, v))
<1> DEFINE w == Replace[Item(l).arg][v]
<1>0. CASE Undecodable(l, v)
  BY <1>0, FailSound DEF Fetched
<1>1. CASE ~Undecodable(l, v) /\ l.req.op # "edit"
  BY <1>1, AnswerSound DEF Fetched
<1>2. CASE ~Undecodable(l, v) /\ l.req.op = "edit" /\ w = None
  BY <1>2, AnswerSound DEF Fetched
<1>3. CASE ~Undecodable(l, v) /\ l.req.op = "edit" /\ w # None
  <2> DEFINE entry == IF Large(w) THEN "exists" ELSE "write"
             m == [l EXCEPT !.raw = w, !.pc = entry]
  <2>1. Fetched(l, v) = m
    BY <1>3 DEF Fetched
  <2>2. /\ m.pc = entry /\ m.raw = w /\ m.ptr = l.ptr /\ m.req = l.req
        /\ m.at = l.at /\ m.deferred = l.deferred
    <3> HIDE DEF w, entry
    <3>1. QED
      BY DEF AtItem, Inside, Local
  <2>3. m.pc # "delegate" /\ (m.pc = "write" => ~Large(w))
    <3> HIDE DEF m, w
    <3>1. QED
      BY <2>2
  <2> HIDE DEF m
  <2>4. Item(m) = Item(l)
    BY <2>2 DEF Item, Index
  <2>5. FromFound(m)
    BY <2>1, <2>2, <2>4 DEF FromFound
  <2>6. WriteSmall(m) /\ DelegateSmall(m)
    BY <1>3, <2>2, <2>3 DEF WriteSmall, DelegateSmall, Content
  <2>7. KeptSmall(m)
    BY <2>2, KeptCarried
  <2>8. QED
    BY <2>1, <2>5, <2>6, <2>7 DEF Sound
<1>4. QED
  BY <1>0, <1>1, <1>2, <1>3

(* From one step of _offload to the next. *)
LEMMA OffloadSound ==
  ASSUME NEW l \in Local, Sound(l), l.pc \in {"exists", "put", "cache"},
         NEW pc \in {"put", "cache", "send"}
  PROVE  Sound([l EXCEPT !.pc = pc])
<1> DEFINE m == [l EXCEPT !.pc = pc]
<1>1. /\ m.pc = pc /\ m.raw = l.raw /\ m.ptr = l.ptr /\ m.req = l.req
      /\ m.at = l.at /\ m.deferred = l.deferred
  BY DEF Local
<1> HIDE DEF m
<1>2. Item(m) = Item(l)
  BY <1>1 DEF Item, Index
<1>3. FromFound(m)
  BY <1>1, <1>2 DEF Sound, FromFound, Storing
<1>4. KeptSmall(m)
  BY <1>1, KeptCarried DEF Sound
<1>5. WriteSmall(m) /\ DelegateSmall(m)
  BY <1>1 DEF WriteSmall, DelegateSmall
<1>6. QED
  BY <1>3, <1>4, <1>5 DEF Sound, m

(* Going on to fetch. *)
LEMMA LookupSound ==
  ASSUME NEW l, l.pc # "idle", KeptSmall(l),
         NEW m, m.pc \in {"lookup", "load", "keep"},
         m.req = l.req, m.deferred = l.deferred
  PROVE  Sound(m)
BY KeptCarried, ElsewhereSound DEF Storing

(* A caller that is not inside a call. *)
LEMMA IdleSound == Sound(Idle)
BY ElsewhereSound DEF Idle, Storing, KeptSmall

-----------------------------------------------------------------------------
(* Every step keeps every call sound *)

(* A step of one call. *)
LEMMA RunSound ==
  ASSUME IInv, EditInv, NEW c \in Caller, NEW l, Sound(l), Run(c, l)
  PROVE  SoundAfter
<1>1. /\ call'[c] = l
      /\ \A d \in Caller \ {c} : call'[d] = call[d]
  BY DEF Run, IInv, TypeOK
<1>2. QED
  BY <1>1 DEF EditInv, SoundAfter

(* A method that begins. *)
LEMMA CallSound ==
  ASSUME IInv, EditInv, NEW c \in Caller, NEW r \in Requests[c], Call(c, r)
  PROVE  SoundAfter
<1> DEFINE m == [Idle EXCEPT !.req = r, !.pc = Entry(r, 1)]
<1>1. /\ r \in Request
      /\ \A i \in DOMAIN r.items : r.items[i].arg \in Argument(r.op)
  BY CallAssumption
<1>2. Entry(r, 1) \in Label /\ Len(r.items) \in Nat
  BY <1>1, EntryOK, LenProperties DEF Label, Request
<1>3. /\ m \in Local /\ m.pc = Entry(r, 1) /\ m.req = r /\ m.at = 1
      /\ m.deferred = <<>>
  BY <1>1, <1>2, IdleOK DEF Unbound, Placed, Local, Label, Idle
<1>4. Run(c, m)
  BY DEF Call
<1> HIDE DEF m
<1>5. Inside(m)
  BY <1>1, <1>2, <1>3, EmptySeq DEF Inside
<1>6. KeptSmall(m)
  BY <1>3, EmptySeq DEF KeptSmall
<1>7. Sound(m)
  BY <1>3, <1>5, <1>6, ArrivedSound
<1>8. QED
  BY <1>4, <1>7, RunSound

(* What is known of the call that takes a step on an item. *)
LEMMA CallFacts ==
  ASSUME IInv, EditInv, NEW c \in Caller
  PROVE  /\ Placed(call[c]) /\ call[c] \in Local
         /\ Sound(call[c]) /\ KeptSmall(call[c])
BY CallerFacts DEF Placed, EditInv, Sound

(* A method that returns, and an item that is left to the inner backend. *)
LEMMA ReturnSound ==
  ASSUME IInv, EditInv, NEW c \in Caller, Return(c) \/ Delegate(c)
  PROVE  SoundAfter
<1>1. CASE Return(c)
  BY <1>1, IdleSound, RunSound DEF Return
<1>2. CASE Delegate(c)
  <2>1. /\ AtItem(call[c]) /\ call[c].at <= Len(call[c].req.items)
        /\ call[c].pc = "delegate"
    BY <1>2, CallerFacts, AtItemOf DEF Delegate, Placed, CallOK
  <2>2. Sound(Advance([call[c] EXCEPT !.deferred = Append(@, call[c].at)]))
    BY <2>1, CallFacts, DeferSound DEF Sound, DelegateSmall
  <2>3. QED
    BY <1>2, <2>2, RunSound DEF Delegate
<1>3. QED
  BY <1>1, <1>2

(* _read_stub. *)
LEMMA ProbeSound ==
  ASSUME IInv, EditInv, NEW c \in Caller, Probe(c)
  PROVE  SoundAfter
<1> DEFINE l == call[c]
<1>1. /\ AtItem(l) /\ l.at <= Len(l.req.items) /\ l.pc = "probe"
      /\ l.req.op \in {"read", "edit", "download"}
  BY CallerFacts, AtItemOf DEF Probe, Placed, CallOK
<1>2. l \in Local /\ KeptSmall(l)
  BY CallFacts
<1>3. PICK ptr \in Probed(inner[Item(l).path]) :
        Run(c, IF ptr = None
               THEN Advance([l EXCEPT !.deferred = Append(@, l.at)])
               ELSE IF l.req.op = "edit" /\ ~ptr.text
               THEN Respond(l, "error", None)
               ELSE [l EXCEPT !.pc = "lookup", !.ptr = ptr])
  BY DEF Probe
<1> HIDE DEF l
<1>4. Sound(Advance([l EXCEPT !.deferred = Append(@, l.at)]))
  BY <1>1, <1>2, DeferSound
<1>5. Sound(Respond(l, "error", None))
  BY <1>1, <1>2, AnswerSound
<1>6. Sound([l EXCEPT !.pc = "lookup", !.ptr = ptr])
  <2> DEFINE m == [l EXCEPT !.pc = "lookup", !.ptr = ptr]
  <2>1. m.pc = "lookup" /\ m.req = l.req /\ m.deferred = l.deferred
    BY <1>2 DEF Local
  <2> HIDE DEF m
  <2>2. Sound(m)
    BY <1>1, <1>2, <2>1, LookupSound
  <2>3. QED
    BY <2>2 DEF m
<1>7. QED
  BY <1>3, <1>4, <1>5, <1>6, RunSound

(* _cache.get. *)
LEMMA CacheGetSound ==
  ASSUME IInv, EditInv, NEW c \in Caller, Lookup(c)
  PROVE  SoundAfter
<1> DEFINE l == call[c]
           v == cache[l.ptr.sha256]
<1>1. /\ AtItem(l) /\ l.pc = "lookup" /\ l \in Local /\ KeptSmall(l)
      /\ l.ptr.sha256 \in Digest
  BY FetchFacts, CallFacts DEF Lookup
<1>2. /\ v \in Value \cup {None}
      /\ v # None => l.ptr.sha256 \in {Sha[v]} \cup Mispaired
  BY <1>1 DEF IInv, TypeOK, ContentAddressed
<1>3. Run(c, IF v = None THEN [l EXCEPT !.pc = "load"] ELSE Fetched(l, v))
  BY DEF Lookup
<1> HIDE DEF l, v
<1>4. CASE v # None
  BY <1>1, <1>2, <1>3, <1>4, FetchedSound, RunSound
<1>5. CASE v = None
  <2> DEFINE m == [l EXCEPT !.pc = "load"]
  <2>1. m.pc = "load" /\ m.req = l.req /\ m.deferred = l.deferred
    BY <1>1 DEF Local
  <2>2. Run(c, m)
    BY <1>3, <1>5
  <2> HIDE DEF m
  <2>3. QED
    BY <1>1, <2>1, <2>2, LookupSound, RunSound
<1>6. QED
  BY <1>4, <1>5

(* store.get, a field that is missing, and the _cache.put of what was got. *)
LEMMA LoadSound ==
  ASSUME IInv, EditInv, NEW c \in Caller, Load(c) \/ FieldMissing(c) \/ Keep(c)
  PROVE  SoundAfter
<1> DEFINE l == call[c]
<1>1. AtItem(l) /\ l.pc # "idle" /\ l \in Local /\ KeptSmall(l)
  BY FetchFacts, CallFacts DEF Load, FieldMissing, Keep
<1>2. CASE Load(c)
  <2> DEFINE v == store[l.ptr.key]
  <2>1. Run(c, IF v = None THEN Respond(l, "error", None)
               ELSE [l EXCEPT !.pc = "keep", !.raw = v])
    BY <1>2 DEF Load
  <2> HIDE DEF l, v
  <2>2. Sound(Respond(l, "error", None))
    BY <1>1, AnswerSound
  <2> DEFINE m == [l EXCEPT !.pc = "keep", !.raw = v]
  <2>3. m.pc = "keep" /\ m.req = l.req /\ m.deferred = l.deferred
    BY <1>1 DEF Local
  <2>4. Run(c, Respond(l, "error", None)) \/ Run(c, m)
    BY <2>1
  <2> HIDE DEF m
  <2>5. QED
    BY <1>1, <2>2, <2>3, <2>4, LookupSound, RunSound
<1>3. CASE Keep(c)
  <2>1. l.raw \in Value /\ BlobKey(l.raw) = l.ptr.key
    BY <1>3, CallerFacts DEF Keep, Placed, CallOK
  <2>2. l.ptr \in Pointer /\ Known(l.ptr, edited) /\ l.ptr.sha256 # None
    BY <1>3, FetchFacts DEF Keep
  <2>3. l.ptr.sha256 \in {Sha[l.raw]} \cup Mispaired
    BY <2>1, <2>2, FetchedDigest
  <2>4. Sound(Fetched(l, l.raw))
    BY <1>1, <2>1, <2>3, FetchedSound
  <2>5. QED
    BY <1>3, <2>4, RunSound DEF Keep
<1>4. CASE FieldMissing(c)
  BY <1>1, <1>4, FailSound, RunSound DEF FieldMissing
<1>5. QED
  BY <1>2, <1>3, <1>4

(* _offload: exists, put and _cache.put. *)
LEMMA OffloadStepSound ==
  ASSUME IInv, EditInv, NEW c \in Caller, Exists(c) \/ Put(c) \/ CachePut(c)
  PROVE  SoundAfter
<1>1. Sound(call[c]) /\ call[c] \in Local
  BY CallFacts
<1>2. CASE Exists(c)
  <2>1. PICK hit \in {store[BlobKey(Content(call[c]))] # None} \cup {x \in {FALSE} : StoreFaults} :
          Run(c, [call[c] EXCEPT !.pc = IF hit THEN "cache" ELSE "put"])
    BY <1>2 DEF Exists
  <2>2. \/ Run(c, [call[c] EXCEPT !.pc = "cache"])
        \/ Run(c, [call[c] EXCEPT !.pc = "put"])
    BY <2>1
  <2>3. QED
    BY <1>1, <1>2, <2>2, OffloadSound, RunSound DEF Exists
<1>3. CASE Put(c) \/ CachePut(c)
  BY <1>1, <1>3, OffloadSound, RunSound DEF Put, CachePut
<1>4. QED
  BY <1>2, <1>3

(* Steps that answer the item without a content. *)
LEMMA PlainSound ==
  ASSUME IInv, EditInv, NEW c \in Caller,
         AtItem(call[c]), call[c].pc # "idle",
         NEW kind \in {"ok", "error"}, Run(c, Respond(call[c], kind, None))
  PROVE  SoundAfter
BY CallFacts, AnswerSound, RunSound

(* _write_stub, and what fails on the way to it. *)
LEMMA SendSound ==
  ASSUME IInv, EditInv, NEW c \in Caller,
         Send(c) \/ SendRefused(c) \/ InnerWrite(c) \/ PutFails(c) \/ Raise(c)
  PROVE  SoundAfter
<1>1. CASE Send(c) \/ InnerWrite(c)
  BY <1>1, StoreFacts, PlainSound DEF Send, InnerWrite
<1>2. CASE SendRefused(c)
  <2> DEFINE kind == IF call[c].req.op = "upload" THEN "ok" ELSE "error"
  <2>1. kind \in {"ok", "error"} /\ Run(c, Respond(call[c], kind, None))
    BY <1>2 DEF SendRefused
  <2> HIDE DEF kind
  <2>2. QED
    BY <1>2, <2>1, StoreFacts, PlainSound DEF SendRefused
<1>3. CASE PutFails(c)
  BY <1>3, StoreFacts, CallFacts, FailSound, RunSound DEF PutFails
<1>4. CASE Raise(c)
  <2>1. AtItem(call[c]) /\ call[c].pc # "idle"
    BY <1>4, CallerFacts, AtItemOf, DeferredFacts DEF Raise, Deferred
  <2>2. Sound(Raised(call[c])) /\ Sound(Fail(call[c]))
    BY <2>1, CallFacts, FailSound
  <2>3. QED
    BY <1>4, <2>2, RunSound DEF Raise
<1>5. QED
  BY <1>1, <1>2, <1>3, <1>4

(* The methods of the inner backend that read. *)
LEMMA InnerReadSound ==
  ASSUME IInv, EditInv, NEW c \in Caller, InnerRead(c) \/ InnerDownload(c)
  PROVE  SoundAfter
<1> DEFINE l == call[c]
           fd == inner[Item(l).path]
           ptr == parse_pointer(fd.content)
<1>1. /\ AtItem(l) /\ l.pc = "inner" /\ l \in Local /\ KeptSmall(l)
      /\ fd \in FileData \cup {None}
  BY DeferredFacts, CallFacts DEF InnerRead, InnerDownload, Deferred, IInv, TypeOK, Image
<1>2. \/ Run(c, Respond(l, "error", None))
      \/ Run(c, Respond(l, "content", Mangled))
      \/ fd # None /\ Run(c, Respond(l, "content", fd.content))
      \/ Run(c, [l EXCEPT !.pc = "lookup", !.ptr = ptr])
  <2>1. CASE InnerRead(c)
    BY <2>1 DEF InnerRead
  <2>2. CASE InnerDownload(c)
    <3>1. Run(c, CASE fd = None -> Respond(l, "error", None)
                   [] fd # None /\ fd.encoding = "external" ->
                        Respond(l, "content", Mangled)
                   [] fd # None /\ fd.encoding # "external" ->
                        IF ptr = None THEN Respond(l, "content", fd.content)
                        ELSE [l EXCEPT !.pc = "lookup", !.ptr = ptr])
      BY <2>2 DEF InnerDownload
    <3> HIDE DEF l, fd, ptr
    <3>2. CASE fd = None
      BY <3>1, <3>2
    <3>3. CASE fd # None /\ fd.encoding = "external"
      BY <3>1, <3>3
    <3>4. CASE fd # None /\ fd.encoding # "external"
      BY <3>1, <3>4
    <3>5. QED
      BY <3>2, <3>3, <3>4
  <2>3. QED
    BY <2>1, <2>2
<1> HIDE DEF l, fd, ptr
<1>3. fd # None => fd.content \in Value \cup Pointer \cup {Mangled}
  BY <1>1 DEF FileData
<1>4. /\ Sound(Respond(l, "error", None)) /\ Sound(Respond(l, "content", Mangled))
      /\ fd # None => Sound(Respond(l, "content", fd.content))
  BY <1>1, <1>3, AnswerSound
<1>5. Sound([l EXCEPT !.pc = "lookup", !.ptr = ptr])
  <2> DEFINE m == [l EXCEPT !.pc = "lookup", !.ptr = ptr]
  <2>1. m.pc = "lookup" /\ m.req = l.req /\ m.deferred = l.deferred
    BY <1>1 DEF Local
  <2> HIDE DEF m
  <2>2. Sound(m)
    BY <1>1, <2>1, LookupSound
  <2>3. QED
    BY <2>2 DEF m
<1>6. QED
  BY <1>2, <1>4, <1>5, RunSound

(* The methods of the inner backend that write. *)
LEMMA InnerWriteSound ==
  ASSUME IInv, EditInv, NEW c \in Caller,
         InnerEdit(c) \/ InnerUpload(c) \/ InnerDelete(c) \/ InnerRefuses(c)
  PROVE  SoundAfter
<1>1. AtItem(call[c]) /\ call[c].pc # "idle"
  BY StoreFacts, DeferredFacts DEF InnerEdit, InnerUpload, InnerDelete, InnerRefuses, Deferred
<1>2. \/ Run(c, Respond(call[c], "ok", None))
      \/ Run(c, Respond(call[c], "error", None))
  BY DEF InnerEdit, InnerUpload, InnerDelete, InnerRefuses
<1>3. QED
  BY <1>1, <1>2, PlainSound

(* Only the inner backend's edit makes pointers of its own. *)
LEMMA EditedByEdit ==
  ASSUME NEW c \in Caller, Step(c), ~InnerEdit(c)
  PROVE  UNCHANGED edited
BY DEF Step, Return, Delegate, Probe, Lookup, Load, FieldMissing, Keep, Exists,
   Put, PutFails, CachePut, Send, SendRefused, InnerWrite, InnerRead, InnerDownload,
   InnerUpload, InnerDelete, InnerRefuses, Raise

(* None of them is forgotten. *)
LEMMA EditedKept == [Next]_vars => edited \subseteq edited'
<1> SUFFICES ASSUME [Next]_vars PROVE edited \subseteq edited'
  OBVIOUS
<1>1. ASSUME NEW c \in Caller, InnerEdit(c)
      PROVE  edited \subseteq edited'
  BY <1>1 DEF InnerEdit
<1>2. QED
  BY <1>1, EditedByEdit DEF Next, vars, Call, Checkpoint, Restart, Sweep

(* Every step. *)
LEMMA NextSound == IInv /\ EditInv /\ [Next]_vars => EditInv'
<1> SUFFICES ASSUME IInv, EditInv, [Next]_vars PROVE EditInv'
  OBVIOUS
<1>1. ASSUME UNCHANGED call PROVE SoundAfter
  BY <1>1 DEF EditInv, SoundAfter
<1>2. ASSUME Restart PROVE SoundAfter
  BY <1>2, IdleSound DEF Restart, SoundAfter
<1>3. ASSUME NEW c \in Caller, Step(c)
      PROVE  SoundAfter
  BY <1>3, ReturnSound, ProbeSound, CacheGetSound, LoadSound, OffloadStepSound,
     SendSound, InnerReadSound, InnerWriteSound DEF Step
<1>4. SoundAfter
  BY <1>1, <1>2, <1>3, CallSound DEF Next, vars, Checkpoint, Sweep
<1>5. Mispaired \subseteq Mispaired'
  BY EditedKept DEF Mispaired
<1>6. QED
  BY <1>4, <1>5 DEF SoundAfter, EditInv, Sound, FromFound, WriteSmall, DelegateSmall,
     KeptSmall, Content, Item, Index

(* The calls are sound at the start. *)
LEMMA InitSound == Init => EditInv
BY IdleSound DEF Init, EditInv

-----------------------------------------------------------------------------
(* What a step stores *)

(* Only five steps of a caller write the inner backend. *)
LEMMA InnerWriters ==
  ASSUME NEW c \in Caller, Step(c), inner' # inner
  PROVE  Send(c) \/ InnerWrite(c) \/ InnerEdit(c) \/ InnerUpload(c) \/ InnerDelete(c)
<1>1. ASSUME \/ Return(c) \/ Delegate(c) \/ Probe(c) \/ Lookup(c) \/ Load(c)
             \/ FieldMissing(c) \/ Keep(c)
      PROVE  FALSE
  BY <1>1 DEF Return, Delegate, Probe, Lookup, Load, FieldMissing, Keep
<1>2. ASSUME Exists(c) \/ Put(c) \/ PutFails(c) \/ CachePut(c) \/ SendRefused(c)
      PROVE  FALSE
  BY <1>2 DEF Exists, Put, PutFails, CachePut, SendRefused
<1>3. ASSUME InnerRead(c) \/ InnerDownload(c) \/ InnerRefuses(c) \/ Raise(c)
      PROVE  FALSE
  BY <1>3 DEF InnerRead, InnerDownload, InnerRefuses, Raise
<1>4. QED
  BY <1>1, <1>2, <1>3 DEF Step

(* A step that changes one entry. *)
LEMMA OneEntry ==
  ASSUME IInv, NEW q, NEW fd, inner' = [inner EXCEPT ![q] = fd],
         NEW p \in Path, inner'[p] # inner[p]
  PROVE  p = q /\ inner'[p] = fd
BY DEF IInv, TypeOK, Image

(* A stub stands for the content it was made of, a small file for itself. *)
LEMMA DenotesOK ==
  ASSUME NoLookalike, NEW v \in Value
  PROVE  Denotes(Stub(v)) = v /\ Denotes(Inline(v)) = v
<1>1. /\ Stub(v) # None /\ Stub(v).content = make_pointer(v)
      /\ Inline(v) # None /\ Inline(v).content = v /\ v \notin Pointer
  BY StubType, InlineType, MarkAssumption DEF NoLookalike, Inline
<1>2. \A u \in Value : make_pointer(u) \in Pointer /\ (make_pointer(v) = make_pointer(u) => u = v)
  BY StubType, StubAssumption DEF make_pointer
<1>3. (CHOOSE u \in Value : make_pointer(v) = make_pointer(u)) = v
  BY <1>2
<1>4. QED
  BY <1>1, <1>2, <1>3 DEF Denotes

(* An edit of a stub stores the replacement of what it found. *)
LEMMA EditStep ==
  ASSUME NoLookalike, IInv, EditInv, [Next]_vars, NEW c \in Caller
  PROVE  StoresItsEdit(c)
<1> DEFINE l == call[c]
           p == Item(l).path
<1> SUFFICES ASSUME l.pc \in {"send", "write"}, l.req.op = "edit",
                    call'[c] \notin {l, Idle}, inner'[p] # inner[p]
             PROVE  \E v \in Value :
                      /\ l.ptr.sha256 \in {Sha[v]} \cup Mispaired
                      /\ Denotes(inner'[p]) = Replace[Item(l).arg][v]
  BY DEF StoresItsEdit
<1>1. AtItem(l) /\ Content(l) \in Value /\ p \in Path
  BY StoreFacts, ItemType
<1>2. PICK v \in Value : /\ l.ptr.sha256 \in {Sha[v]} \cup Mispaired
                         /\ Content(l) = Replace[Item(l).arg][v]
  BY CallFacts DEF Sound, FromFound, Storing, Content
<1>3. Step(c)
  <2>1. call' # call
    OBVIOUS
  <2>2. ~Restart
    BY DEF Restart
  <2>3. ASSUME NEW d \in Caller, NEW r \in Requests[d] PROVE ~Call(d, r)
    BY DEF Call, Run, IInv, TypeOK
  <2>4. ASSUME NEW d \in Caller, d # c, Step(d) PROVE FALSE
    <3>1. \E m : Run(d, m)
      <4>1. ASSUME \/ Return(d) \/ Delegate(d) \/ Lookup(d) \/ Load(d)
                   \/ FieldMissing(d) \/ Keep(d)
            PROVE  \E m : Run(d, m)
        BY <4>1 DEF Return, Delegate, Lookup, Load, FieldMissing, Keep
      <4>2. ASSUME Probe(d) \/ Exists(d)
            PROVE  \E m : Run(d, m)
        BY <4>2 DEF Probe, Exists
      <4>3. ASSUME Put(d) \/ PutFails(d) \/ CachePut(d) \/ Send(d) \/ SendRefused(d)
            PROVE  \E m : Run(d, m)
        BY <4>3 DEF Put, PutFails, CachePut, Send, SendRefused
      <4>4. ASSUME InnerWrite(d) \/ InnerRead(d) \/ InnerDownload(d) \/ InnerEdit(d)
            PROVE  \E m : Run(d, m)
        BY <4>4 DEF InnerWrite, InnerRead, InnerDownload, InnerEdit
      <4>5. ASSUME InnerUpload(d) \/ InnerDelete(d) \/ InnerRefuses(d) \/ Raise(d)
            PROVE  \E m : Run(d, m)
        BY <4>5 DEF InnerUpload, InnerDelete, InnerRefuses, Raise
      <4>6. QED
        BY <2>4, <4>1, <4>2, <4>3, <4>4, <4>5 DEF Step
    <3>2. call'[c] = call[c]
      BY <2>4, <3>1 DEF Run, IInv, TypeOK
    <3>3. QED
      BY <3>2
  <2>5. QED
    BY <2>1, <2>2, <2>3, <2>4 DEF Next, vars, Checkpoint, Sweep
<1>4. Send(c) \/ InnerWrite(c)
  BY <1>3, InnerWriters DEF InnerEdit, InnerUpload, InnerDelete, Deferred
<1>5. inner'[p] \in {Stub(Content(l)), Inline(Content(l))}
  <2>1. PICK fd \in {Stub(Content(l)), Inline(Content(l))} : inner' = [inner EXCEPT ![p] = fd]
    BY <1>4 DEF Send, InnerWrite
  <2> HIDE DEF p
  <2>2. QED
    BY <1>1, <2>1, OneEntry
<1>6. Denotes(inner'[p]) = Content(l)
  BY <1>1, <1>5, DenotesOK
<1>7. QED
  BY <1>2, <1>6

(* What the inner backend is given to keep inline is small. *)
LEMMA SmallUpload ==
  ASSUME IInv, EditInv, NEW c \in Caller, InnerUpload(c)
  PROVE  Item(call[c]).arg \in Value /\ ~Large(Item(call[c]).arg)
<1> DEFINE l == call[c]
<1>1. AtItem(l) /\ l.req.op = "upload" /\ l.pc = "inner" /\ l.deferred # <<>>
  BY DeferredFacts DEF InnerUpload, Deferred
<1>2. l.at = Len(l.req.items) + 1 /\ Len(l.req.items) \in Nat
  BY <1>1, CallerFacts, ItemsType DEF Placed, CallOK, AtItem
<1>3. Item(l) = l.req.items[Head(l.deferred)]
  BY <1>2 DEF Item, Index
<1>4. Head(l.deferred) = l.deferred[1] /\ 1 \in DOMAIN l.deferred
  BY <1>1, ItemsType, HeadTailProperties DEF AtItem
<1>5. QED
  BY <1>1, <1>3, <1>4, CallFacts, ItemType DEF KeptSmall, Argument

(* A large content is kept inline by an edit of the inner backend alone. *)
LEMMA InlineStep ==
  ASSUME NoLookalike, IInv, EditInv, [Next]_vars, NEW p \in Path
  PROVE  InlineOnlyByEdit(p)
<1> DEFINE fd == inner'[p]
<1> SUFFICES ASSUME fd \notin {inner[p], None}, fd.content \in Value, Large(fd.content)
             PROVE  \/ inner' \in checkpoints
                    \/ \E c \in Caller : Deferred(c, {"edit"}) /\ Item(call[c]).path = p
  BY DEF InlineOnlyByEdit
<1>1. inner' # inner
  OBVIOUS
<1>2. CASE Restart
  BY <1>2 DEF Restart
<1>3. ASSUME NEW c \in Caller, Step(c)
      PROVE  \/ inner' \in checkpoints
             \/ Deferred(c, {"edit"}) /\ Item(call[c]).path = p
  <2>1. CASE Send(c)
    <3>1. fd = Stub(Content(call[c])) /\ Content(call[c]) \in Value
      BY <2>1, OneEntry, StoreFacts DEF Send
    <3>2. fd.content \in Pointer
      BY <3>1, StubType DEF Stub, make_pointer, Genuine
    <3>3. QED
      BY <3>2 DEF NoLookalike
  <2>2. CASE InnerWrite(c)
    <3>1. fd = Inline(Content(call[c])) /\ ~Large(Content(call[c]))
      BY <2>2, OneEntry, CallFacts DEF InnerWrite, Sound, WriteSmall
    <3>2. QED
      BY <3>1 DEF Inline
  <2>3. CASE InnerUpload(c)
    <3>1. fd = Inline(Item(call[c]).arg)
      BY <2>3, OneEntry DEF InnerUpload
    <3>2. QED
      BY <2>3, <3>1, SmallUpload DEF Inline
  <2>4. CASE InnerDelete(c)
    BY <2>4, OneEntry DEF InnerDelete
  <2>5. CASE InnerEdit(c)
    <3>1. Deferred(c, {"edit"})
      BY <2>5 DEF InnerEdit
    <3>2. \E x : inner' = [inner EXCEPT ![Item(call[c]).path] = x]
      BY <1>1, <2>5 DEF InnerEdit
    <3>3. Item(call[c]).path = p
      BY <3>2, OneEntry
    <3>4. QED
      BY <3>1, <3>3
  <2>6. QED
    BY <1>1, <1>3, <2>1, <2>2, <2>3, <2>4, <2>5, InnerWriters
<1>4. QED
  BY <1>1, <1>2, <1>3 DEF Next, vars, Checkpoint, Sweep, Call

-----------------------------------------------------------------------------
(* Theorems *)

(* Between calls of any number of callers, with failures, restarts and sweeps:
   an edit that has its new content made it from the content of its stub, and
   what waits for the inner backend to be written inline is small. *)
THEOREM EditsSound == ASSUME NoLookalike PROVE Spec => [](IInv /\ EditInv)
<1>1. Init => IInv /\ EditInv
  BY InitIInv, InitSound
<1>2. IInv /\ EditInv /\ [Next]_vars => (IInv /\ EditInv)'
  BY NextIInv, NextSound
<1>3. QED
  BY <1>1, <1>2, PTL DEF Spec

(* edit never stores its replacement of anything but the content of the stub it
   read: the cached or fetched bytes it edits are those, by their digest, unless
   an edit of pointer JSON has paired that digest with another key. *)
THEOREM EditsApplied == ASSUME NoLookalike PROVE Spec => EditAppliesToFound
<1>1. IInv /\ EditInv /\ [Next]_vars => [\A c \in Caller : StoresItsEdit(c)]_vars
  BY EditStep
<1>2. QED
  BY <1>1, EditsSound, PTL DEF Spec, EditAppliesToFound

(* write, edit of a stub and upload_files keep no content above the threshold
   inline; only the inner backend's own edit does. *)
THEOREM InlineBounded == ASSUME NoLookalike PROVE Spec => OnlyEditGrows
<1>1. IInv /\ EditInv /\ [Next]_vars => [\A p \in Path : InlineOnlyByEdit(p)]_vars
  BY InlineStep
<1>2. QED
  BY <1>1, EditsSound, PTL DEF Spec, OnlyEditGrows

=============================================================================
