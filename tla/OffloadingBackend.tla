------------------------- MODULE OffloadingBackend --------------------------
(***************************************************************************)
(* OffloadingBackend: content above the threshold goes to a blob store,    *)
(* the inner backend keeps a pointer stub.  Any number of callers run its  *)
(* methods at once, as the async defaults do (asyncio.to_thread over the   *)
(* sync methods); every call to the inner backend, the store or the cache  *)
(* is one step.  All six methods that touch a file run through one loop    *)
(* over the items of the call, of which read, write, edit and delete have  *)
(* one.                                                                    *)
(***************************************************************************)
EXTENDS PointerStub, Sequences, FiniteSets

CONSTANTS
  Caller,
  Path,
  Edit,            \* the replacements an edit can ask for
  Replace,         \* Replace[e][v]: v after the replacement e, or None
  Requests,        \* Requests[c]: the calls that c may make
  InnerFaults,     \* which inner calls may go wrong: "read", "write", "raise"
  StoreFaults,     \* TRUE: store calls may raise, a put with or without effect
  Sweeps,          \* TRUE: retention deletes blobs, whatever refers to them
  MaxCheckpoints   \* bound: how many states of the inner backend are saved

Op == {"read", "write", "edit", "delete", "upload", "download"}

Argument(op) ==
  CASE op = "write"  -> Text
    [] op = "upload" -> Value
    [] op = "edit"   -> Edit
    [] OTHER         -> {None}

Request == [op : Op, items : Seq([path : Path, arg : Value \cup Edit \cup {None}])]

ASSUME CallAssumption ==
  /\ Replace \in [Edit -> [Value -> Text \cup {None}]]
  /\ \A e \in Edit, v \in Value \ Text : Replace[e][v] = None
  /\ \A c \in Caller : \A r \in Requests[c] :
       /\ r \in Request
       /\ \A i \in DOMAIN r.items : r.items[i].arg \in Argument(r.op)
  /\ None \notin Request
  /\ InnerFaults \subseteq {"read", "write", "raise"}
  /\ StoreFaults \in BOOLEAN /\ Sweeps \in BOOLEAN
  /\ MaxCheckpoints \in Nat

VARIABLES
  inner,        \* inner[p]: the FileData of p, or None
  store,        \* store[k]: the bytes of the blob k, or None
  cache,        \* cache[d]: what _cache.get(d) returns
  checkpoints,  \* saved states of the inner backend, forks included
  edited,       \* history: the pointers that inner edits made of pointer JSON
  call          \* call[c]: the local variables of the call of c

vars == <<inner, store, cache, checkpoints, edited, call>>

Cache ==
  INSTANCE LossyCache WITH Hash <- Digest, Raw <- Value, held <- cache, latest <- cache

-----------------------------------------------------------------------------
(* The local variables of a call *)

Idle ==
  [pc       |-> "idle",
   req      |-> None,   \* the method and its arguments
   at       |-> 1,      \* the item of the loop; above the last one: loop over
   deferred |-> <<>>,   \* the items left to the inner backend (passthrough)
   ptr      |-> None,   \* the pointer being dereferenced
   raw      |-> None,   \* the bytes read, or the content edit made of them
   reply    |-> <<>>]   \* the responses, in the order they were made

\* The item at hand, in the loop or among those left to the inner backend.
Index(l) == IF l.at <= Len(l.req.items) THEN l.at ELSE Head(l.deferred)

Item(l) == l.req.items[Index(l)]

\* The content to be stored.
Content(l) == IF l.req.op = "edit" THEN l.raw ELSE Item(l).arg

\* Where item i of a call begins.  Each method tests what it must test first:
\* the size of what is written, or whether the file is a stub.
Entry(r, i) ==
  IF i > Len(r.items) THEN "inner"
  ELSE CASE r.op \in {"read", "edit", "download"} -> "probe"
         [] r.op = "write"  -> IF Large(r.items[i].arg) THEN "exists" ELSE "write"
         [] r.op = "upload" -> IF Large(r.items[i].arg) THEN "exists" ELSE "delegate"
         [] r.op = "delete" -> "delegate"

\* The item at hand is finished.
Advance(l) ==
  IF l.at <= Len(l.req.items)
  THEN [l EXCEPT !.at = @ + 1, !.pc = Entry(l.req, l.at + 1),
                 !.ptr = None, !.raw = None]
  ELSE [l EXCEPT !.pc = "inner", !.deferred = Tail(@), !.ptr = None, !.raw = None]

\* The item at hand is answered.
Respond(l, kind, content) ==
  Advance([l EXCEPT !.reply =
             Append(@, [item |-> Index(l), kind |-> kind, content |-> content])])

Raised(l) == [l EXCEPT !.pc = "raised"]

Fail_Swallowed(l) ==
  IF l.req.op = "upload" THEN Respond(l, "ok", None) ELSE Raised(l)

\* An exception in _offload or _write_stub: upload_files turns it into a
\* response, every other method lets it through.
Fail(l) == IF l.req.op = "upload" THEN Respond(l, "error", None) ELSE Raised(l)

Finished(l) == l.pc = "inner" /\ l.deferred = <<>>

Run(c, l) == call' = [call EXCEPT ![c] = l]

-----------------------------------------------------------------------------
Init ==
  /\ inner = [p \in Path |-> None]
  /\ store = [k \in Key |-> None]
  /\ cache = [d \in Digest |-> None]
  /\ checkpoints = {inner}
  /\ edited = {}
  /\ call = [c \in Caller |-> Idle]

\* A method is called.
Call(c, r) ==
  /\ call[c].pc = "idle"
  /\ Run(c, [Idle EXCEPT !.req = r, !.pc = Entry(r, 1)])
  /\ UNCHANGED <<inner, store, cache, checkpoints, edited>>

\* It returns its responses, or the exception reaches its caller.
Return(c) ==
  /\ Finished(call[c]) \/ call[c].pc = "raised"
  /\ Run(c, Idle)
  /\ UNCHANGED <<inner, store, cache, checkpoints, edited>>

\* The item is left to the inner backend.
Delegate(c) ==
  LET l == call[c] IN
  /\ l.pc = "delegate"
  /\ Run(c, Advance([l EXCEPT !.deferred = Append(@, l.at)]))
  /\ UNCHANGED <<inner, store, cache, checkpoints, edited>>

-----------------------------------------------------------------------------
(* _read_stub and _fetch *)

Probed_ByEncoding(fd) ==
  {IF fd = None \/ fd.encoding # "external" THEN None ELSE parse_pointer(fd.content)}
    \cup {x \in {None} : "read" \in InnerFaults}

\* The pointer in an inner entry, if any; a failed inner read finds none.
Probed(fd) ==
  {IF fd = None THEN None ELSE parse_pointer(fd.content)}
    \cup {x \in {None} : "read" \in InnerFaults}

Probe(c) ==
  LET l == call[c] IN
  /\ l.pc = "probe"
  /\ \E ptr \in Probed(inner[Item(l).path]) :
       Run(c, IF ptr = None
              THEN Advance([l EXCEPT !.deferred = Append(@, l.at)])
              ELSE IF l.req.op = "edit" /\ ~ptr.text
              THEN Respond(l, "error", None)
              ELSE [l EXCEPT !.pc = "lookup", !.ptr = ptr])
  /\ UNCHANGED <<inner, store, cache, checkpoints, edited>>

\* _materialize of binary content that its pointer calls text: UnicodeDecodeError.
Undecodable(l, v) == l.req.op # "download" /\ l.ptr.text /\ v \notin Text

Fetched_NotTested(l, v) ==
  LET w == Replace[Item(l).arg][v] IN
  CASE Undecodable(l, v) -> Raised(l)
    [] ~Undecodable(l, v) /\ l.req.op # "edit" -> Respond(l, "content", v)
    [] ~Undecodable(l, v) /\ l.req.op = "edit" /\ w = None -> Respond(l, "error", None)
    [] l.req.op = "edit" /\ w # None -> [l EXCEPT !.raw = w, !.pc = "write"]

\* What a call does with the content of its stub: edit replaces in it and
\* goes on with write, which offloads again only what is still large.
Fetched(l, v) ==
  LET w == Replace[Item(l).arg][v] IN
  CASE Undecodable(l, v) -> Raised(l)
    [] ~Undecodable(l, v) /\ l.req.op # "edit" -> Respond(l, "content", v)
    [] ~Undecodable(l, v) /\ l.req.op = "edit" /\ w = None -> Respond(l, "error", None)
    [] ~Undecodable(l, v) /\ l.req.op = "edit" /\ w # None ->
         [l EXCEPT !.raw = w, !.pc = IF Large(w) THEN "exists" ELSE "write"]

\* _cache.get
Lookup(c) ==
  LET l == call[c]
      v == cache[l.ptr.sha256]
  IN
  /\ l.pc = "lookup" /\ l.ptr.sha256 # None
  /\ Run(c, IF v = None THEN [l EXCEPT !.pc = "load"] ELSE Fetched(l, v))
  /\ UNCHANGED <<inner, store, cache, checkpoints, edited>>

Load_Unchecked(c) ==
  LET l == call[c] IN
  /\ l.pc = "load" /\ l.ptr.key # None
  /\ Run(c, [l EXCEPT !.pc = "keep", !.raw = store[l.ptr.key]])
  /\ UNCHANGED <<inner, store, cache, checkpoints, edited>>

\* store.get; BlobNotFoundError becomes an error response.
Load(c) ==
  LET l == call[c]
      v == store[l.ptr.key]
  IN
  /\ l.pc = "load" /\ l.ptr.key # None
  /\ Run(c, IF v = None THEN Respond(l, "error", None)
            ELSE [l EXCEPT !.pc = "keep", !.raw = v])
  /\ UNCHANGED <<inner, store, cache, checkpoints, edited>>

\* KeyError: the pointer is JSON that an edit took a field from.
FieldMissing(c) ==
  LET l == call[c] IN
  /\ \/ l.pc = "lookup" /\ l.ptr.sha256 = None
     \/ l.pc = "load" /\ l.ptr.key = None
  /\ Run(c, Raised(l))
  /\ UNCHANGED <<inner, store, cache, checkpoints, edited>>

\* _cache.put of what the store returned: unchecked, under the pointer's digest.
Keep(c) ==
  LET l == call[c] IN
  /\ l.pc = "keep"
  /\ cache' \in Cache!AfterPut(cache, l.ptr.sha256, l.raw)
  /\ Run(c, Fetched(l, l.raw))
  /\ UNCHANGED <<inner, store, checkpoints, edited>>

-----------------------------------------------------------------------------
(* _offload and _write_stub *)

Exists_ErrorIsHit(c) ==
  LET l == call[c]
      found == store[BlobKey(Content(l))] # None
  IN
  /\ l.pc = "exists"
  /\ \E hit \in {found} \cup {x \in {TRUE} : StoreFaults} :
       Run(c, [l EXCEPT !.pc = IF hit THEN "cache" ELSE "put"])
  /\ UNCHANGED <<inner, store, cache, checkpoints, edited>>

\* store.exists; a store whose exists swallows errors may miss the blob.
Exists(c) ==
  LET l == call[c]
      found == store[BlobKey(Content(l))] # None
  IN
  /\ l.pc = "exists"
  /\ \E hit \in {found} \cup {x \in {FALSE} : StoreFaults} :
       Run(c, [l EXCEPT !.pc = IF hit THEN "cache" ELSE "put"])
  /\ UNCHANGED <<inner, store, cache, checkpoints, edited>>

\* store.put
Put(c) ==
  LET l == call[c] IN
  /\ l.pc = "put"
  /\ store' = [store EXCEPT ![BlobKey(Content(l))] = Content(l)]
  /\ Run(c, [l EXCEPT !.pc = "cache"])
  /\ UNCHANGED <<inner, cache, checkpoints, edited>>

PutFails_Retried(c) ==
  LET l == call[c] IN
  /\ StoreFaults
  /\ l.pc = "put"
  /\ \/ store' = [store EXCEPT ![BlobKey(Content(l))] = Content(l)]
     \/ UNCHANGED store
  /\ Run(c, [l EXCEPT !.pc = "exists"])
  /\ UNCHANGED <<inner, cache, checkpoints, edited>>

\* A put that raises may have stored the blob.
PutFails(c) ==
  LET l == call[c] IN
  /\ StoreFaults
  /\ l.pc = "put"
  /\ \/ store' = [store EXCEPT ![BlobKey(Content(l))] = Content(l)]
     \/ UNCHANGED store
  /\ Run(c, Fail(l))
  /\ UNCHANGED <<inner, cache, checkpoints, edited>>

CachePut_OldDigest(c) ==
  LET l == call[c]
      digest == IF l.ptr = None THEN Sha[Content(l)] ELSE l.ptr.sha256
  IN
  /\ l.pc = "cache"
  /\ cache' \in Cache!AfterPut(cache, digest, Content(l))
  /\ Run(c, [l EXCEPT !.pc = "send"])
  /\ UNCHANGED <<inner, store, checkpoints, edited>>

\* _cache.put of the content just offloaded.
CachePut(c) ==
  LET l == call[c] IN
  /\ l.pc = "cache"
  /\ cache' \in Cache!AfterPut(cache, Sha[Content(l)], Content(l))
  /\ Run(c, [l EXCEPT !.pc = "send"])
  /\ UNCHANGED <<inner, store, checkpoints, edited>>

\* _write_stub
Send(c) ==
  LET l == call[c] IN
  /\ l.pc = "send"
  /\ inner' = [inner EXCEPT ![Item(l).path] = Stub(Content(l))]
  /\ Run(c, Respond(l, "ok", None))
  /\ UNCHANGED <<store, cache, checkpoints, edited>>

\* Without _send_files_update the stub goes through inner.write, whose error
\* write and edit return; upload_files drops it and reports success.
SendRefused(c) ==
  LET l == call[c] IN
  /\ ~HasSend /\ "write" \in InnerFaults
  /\ l.pc = "send"
  /\ Run(c, Respond(l, IF l.req.op = "upload" THEN "ok" ELSE "error", None))
  /\ UNCHANGED <<inner, store, cache, checkpoints, edited>>

-----------------------------------------------------------------------------
(* What is left to the inner backend *)

\* inner.write of content within the threshold, from write or from edit.
InnerWrite(c) ==
  LET l == call[c] IN
  /\ l.pc = "write"
  /\ inner' = [inner EXCEPT ![Item(l).path] = Inline(Content(l))]
  /\ Run(c, Respond(l, "ok", None))
  /\ UNCHANGED <<store, cache, checkpoints, edited>>

Deferred(c, ops) ==
  LET l == call[c] IN
  l.pc = "inner" /\ l.deferred # <<>> /\ l.req.op \in ops

InnerRead(c) ==
  LET l == call[c]
      fd == inner[Item(l).path]
  IN
  /\ Deferred(c, {"read"})
  /\ Run(c, IF fd = None THEN Respond(l, "error", None)
            ELSE Respond(l, "content", fd.content))
  /\ UNCHANGED <<inner, store, cache, checkpoints, edited>>

\* inner.download_files: the bytes of an "external" entry are its pointer JSON
\* taken for base64; a pointer kept as ordinary text is recognised and fetched.
InnerDownload(c) ==
  LET l == call[c]
      fd == inner[Item(l).path]
  IN
  /\ Deferred(c, {"download"})
  /\ Run(c, CASE fd = None -> Respond(l, "error", None)
              [] fd # None /\ fd.encoding = "external" ->
                   Respond(l, "content", Mangled)
              [] fd # None /\ fd.encoding # "external" ->
                   LET ptr == parse_pointer(fd.content) IN
                   IF ptr = None THEN Respond(l, "content", fd.content)
                   ELSE [l EXCEPT !.pc = "lookup", !.ptr = ptr])
  /\ UNCHANGED <<inner, store, cache, checkpoints, edited>>

\* inner.edit.  On an entry that holds a pointer it edits the JSON, which then
\* may be a pointer still, to something else.
InnerEdit(c) ==
  LET l == call[c]
      p == Item(l).path
      fd == inner[p]
      w == IF fd = None \/ fd.content \notin Value THEN None
           ELSE Replace[Item(l).arg][fd.content]
  IN
  /\ Deferred(c, {"edit"})
  /\ \/ /\ w = None
        /\ Run(c, Respond(l, "error", None))
        /\ UNCHANGED <<inner, edited>>
     \/ /\ w # None
        /\ inner' = [inner EXCEPT ![p] = Inline(w)]
        /\ Run(c, Respond(l, "ok", None))
        /\ UNCHANGED edited
     \/ /\ fd # None /\ fd.content \notin Value
        /\ \E json \in Rewritten :
             /\ inner' = [inner EXCEPT ![p] = [content |-> json, encoding |-> fd.encoding]]
             /\ edited' = edited \cup ({json} \cap Pointer)
        /\ Run(c, Respond(l, "ok", None))
  /\ UNCHANGED <<store, cache, checkpoints>>

InnerUpload(c) ==
  LET l == call[c] IN
  /\ Deferred(c, {"upload"})
  /\ inner' = [inner EXCEPT ![Item(l).path] = Inline(Item(l).arg)]
  /\ Run(c, Respond(l, "ok", None))
  /\ UNCHANGED <<store, cache, checkpoints, edited>>

InnerDelete_DropsBlob(c) ==
  LET l == call[c]
      p == Item(l).path
      ptr == IF inner[p] = None THEN None ELSE parse_pointer(inner[p].content)
  IN
  /\ Deferred(c, {"delete"})
  /\ inner' = [inner EXCEPT ![p] = None]
  /\ store' = IF ptr = None THEN store ELSE [store EXCEPT ![ptr.key] = None]
  /\ Run(c, Respond(l, "ok", None))
  /\ UNCHANGED <<cache, checkpoints, edited>>

\* Only the entry goes; the blob stays for the checkpoints that refer to it.
InnerDelete(c) ==
  LET l == call[c] IN
  /\ Deferred(c, {"delete"})
  /\ inner' = [inner EXCEPT ![Item(l).path] = None]
  /\ Run(c, Respond(l, "ok", None))
  /\ UNCHANGED <<store, cache, checkpoints, edited>>

\* An inner call answers with an error and changes nothing.
InnerRefuses(c) ==
  LET l == call[c] IN
  /\ \/ "write" \in InnerFaults /\ l.pc = "write"
     \/ "write" \in InnerFaults /\ Deferred(c, {"edit", "delete", "upload"})
     \/ "read" \in InnerFaults /\ Deferred(c, {"read", "download"})
  /\ Run(c, Respond(l, "error", None))
  /\ UNCHANGED <<inner, store, cache, checkpoints, edited>>

\* An exception: of the store, or of the inner backend.  Inside the loop of
\* upload_files it costs one item, anywhere else the whole call.
Raise(c) ==
  LET l == call[c] IN
  /\ \/ StoreFaults /\ l.pc \in {"load", "exists"}
     \/ "raise" \in InnerFaults
          /\ (l.pc \in {"probe", "send", "write"} \/ Deferred(c, Op))
  /\ Run(c, IF l.pc \in {"exists", "send"} THEN Fail(l) ELSE Raised(l))
  /\ UNCHANGED <<inner, store, cache, checkpoints, edited>>

-----------------------------------------------------------------------------
(* The world around the backend *)

\* The graph saves the inner backend's state.
Checkpoint ==
  /\ checkpoints' = checkpoints \cup {inner}
  /\ Cardinality(checkpoints') <= MaxCheckpoints
  /\ UNCHANGED <<inner, store, cache, edited, call>>

\* The process dies and a run resumes, or forks, from a saved state.
Restart ==
  /\ MaxCheckpoints > 0
  /\ inner' \in checkpoints
  /\ cache' = [d \in Digest |-> None]
  /\ call' = [c \in Caller |-> Idle]
  /\ UNCHANGED <<store, checkpoints, edited>>

\* A lifecycle rule or a periodic sweep deletes a blob.
Sweep(k) ==
  /\ Sweeps
  /\ store' = [store EXCEPT ![k] = None]
  /\ UNCHANGED <<inner, cache, checkpoints, edited, call>>

Step(c) ==
  \/ Return(c) \/ Delegate(c)
  \/ Probe(c) \/ Lookup(c) \/ Load(c) \/ FieldMissing(c) \/ Keep(c)
  \/ Exists(c) \/ Put(c) \/ PutFails(c) \/ CachePut(c) \/ Send(c) \/ SendRefused(c)
  \/ InnerWrite(c) \/ InnerRead(c) \/ InnerDownload(c) \/ InnerEdit(c)
  \/ InnerUpload(c) \/ InnerDelete(c) \/ InnerRefuses(c) \/ Raise(c)

Next ==
  \/ \E c \in Caller : Step(c) \/ \E r \in Requests[c] : Call(c, r)
  \/ Checkpoint
  \/ Restart
  \/ \E k \in Key : Sweep(k)

Spec == Init /\ [][Next]_vars

\* A thread that is inside a call keeps running, and the inner backend and the
\* store answer or raise.
FairSpec == Spec /\ \A c \in Caller : WF_vars(Step(c))

-----------------------------------------------------------------------------
(* Correctness *)

Response ==
  [item : Nat, kind : {"content"}, content : Value \cup Pointer \cup {Mangled}]
    \cup [item : Nat, kind : {"ok", "error"}, content : {None}]

Label ==
  {"idle", "raised", "delegate", "probe", "lookup", "load", "keep",
   "exists", "put", "cache", "send", "write", "inner"}

Local ==
  [pc : Label, req : Request \cup {None}, at : Nat, deferred : Seq(Nat),
   ptr : Pointer \cup {None}, raw : Value \cup {None}, reply : Seq(Response)]

Image == [Path -> FileData \cup {None}]

TypeOK ==
  /\ inner \in Image
  /\ store \in [Key -> Value \cup {None}]
  /\ cache \in [Digest -> Value \cup {None}]
  /\ checkpoints \subseteq Image
  /\ edited \subseteq Pointer
  /\ call \in [Caller -> Local]

\* The digests that some edit of pointer JSON has paired with the key of another.
Mispaired ==
  {d \in Digest : \E ptr \in edited : ptr.sha256 = d /\ ptr.key # KeyFn[d]}

\* Keys are content-addressed: whatever callers interleave, fail, restart, edit
\* or are swept, a blob holds the bytes its key names, so that skipping a PUT is
\* sound; and a cache entry holds the bytes of its digest, except that _fetch
\* caches under the digest of a mispaired pointer what the key gave.
ContentAddressed ==
  /\ \A k \in Key : store[k] # None => BlobKey(store[k]) = k
  /\ \A d \in Digest \ Mispaired : cache[d] # None => Sha[cache[d]] = d

\* The pointers that _offload makes of some content.
Genuine(ptr) == \E v \in Value : ptr = make_pointer(v)

\* The pointers in the inner backend and in the saved states of it.
StoredPointers ==
  {ptr \in Pointer : \E image \in checkpoints \cup {inner}, p \in Path :
                       image[p] # None /\ image[p].content = ptr}

\* "forked checkpoints referencing the same blob are naturally safe": while
\* nothing is swept, the blob of every stub in the inner backend or in any
\* saved state is in the store; those excepted that an edit of the JSON, behind
\* a failed probe or a racing write, has turned into pointers of its own.
NoDanglingStub ==
  Sweeps \/ \A ptr \in StoredPointers \ edited : store[ptr.key] # None

\* Where a call is: which item it is at, and what it knows of it.
CallOK(l) ==
  /\ l.pc = "idle" <=> l.req = None
  /\ l.pc # "idle" =>
       /\ l.req \in Request
       /\ \A i \in DOMAIN l.req.items : l.req.items[i].arg \in Argument(l.req.op)
       /\ l.at \in 1 .. Len(l.req.items) + 1
       /\ \A j \in DOMAIN l.deferred : l.deferred[j] \in DOMAIN l.req.items
  /\ l.pc \in {"delegate", "probe", "exists", "put", "cache", "send", "write"} =>
       l.at <= Len(l.req.items)
  /\ l.pc = "inner" => l.at = Len(l.req.items) + 1
  /\ l.pc \in {"probe", "lookup", "load", "keep"} =>
       l.req.op \in {"read", "edit", "download"}
  /\ l.pc \in {"lookup", "load", "keep"} =>
       /\ l.at > Len(l.req.items) => l.deferred # <<>> /\ l.req.op # "edit"
       /\ l.ptr \in Pointer
  /\ l.pc \in {"load", "keep"} => l.ptr.sha256 # None
  /\ l.pc = "keep" => l.raw \in Value /\ BlobKey(l.raw) = l.ptr.key
  /\ l.pc \in {"exists", "put", "cache", "send", "write"} =>
       Content(l) \in Value /\ l.req.op \in {"write", "edit", "upload"}

\* The blob of a content is in the store from the test of exists, or the put,
\* to the write of the stub.
BlobThere(l, blobs) ==
  l.pc \in {"cache", "send"} => Sweeps \/ blobs[BlobKey(Content(l))] # None

\* A pointer is one that _offload made, or one that an edit made of its JSON.
Known(ptr, made) == Genuine(ptr) \/ ptr \in made

Follows(l, made) == l.pc \in {"lookup", "load", "keep"} => Known(l.ptr, made)

StubsKnown == \A ptr \in StoredPointers : Known(ptr, edited)

\* The inductive invariant of the proofs.
IInv ==
  /\ TypeOK
  /\ ContentAddressed
  /\ StubsKnown
  /\ NoDanglingStub
  /\ \A c \in Caller :
       CallOK(call[c]) /\ BlobThere(call[c], store) /\ Follows(call[c], edited)

\* No answer shows a caller the pointer JSON in place of the file.
NoPointerLeak ==
  \A c \in Caller : \A j \in DOMAIN call[c].reply :
    call[c].reply[j].content \notin Pointer \cup {Mangled}

\* A step that ends an edit of a stub by storing something stores the
\* replacement of the content whose digest is in the stub that the call found.
StoresItsEdit(c) ==
  LET l == call[c]
      p == Item(l).path
  IN  /\ l.pc \in {"send", "write"} /\ l.req.op = "edit"
      /\ call'[c] \notin {l, Idle} /\ inner'[p] # inner[p]
      => \E v \in Value :
           /\ l.ptr.sha256 \in {Sha[v]} \cup Mispaired
           /\ Denotes(inner'[p]) = Replace[Item(l).arg][v]

\* What an edit stores is its replacement applied to the content of the stub it
\* found: never to cached or fetched bytes of another version, whatever other
\* callers store, cache and restart meanwhile, unless an edit of JSON has paired
\* the digest with another key.  (An update of the file between the two is lost.)
EditAppliesToFound == [][\A c \in Caller : StoresItsEdit(c)]_vars

\* A large content that appears inline under p was there at a checkpoint, or the
\* inner backend's own edit made it.
InlineOnlyByEdit(p) ==
  LET fd == inner'[p] IN
  fd \notin {inner[p], None} /\ fd.content \in Value /\ Large(fd.content) =>
    \/ inner' \in checkpoints
    \/ \E c \in Caller : Deferred(c, {"edit"}) /\ Item(call[c]).path = p

\* "Content above threshold bytes goes to the blob store": the inner backend
\* keeps a large content itself only where its own edit made one, which the
\* backend leaves to it for files that are not stubs.
OnlyEditGrows == [][\A p \in Path : InlineOnlyByEdit(p)]_vars

\* A call that finished and reports success for an item, the last one of the
\* call on that path, has left that item's content under the path.
OkMeansStored ==
  \A c \in Caller :
    LET l == call[c]
        items == l.req.items
    IN
    Finished(l) /\ l.req.op \in {"write", "upload"} =>
      \A j \in DOMAIN l.reply :
        LET i == l.reply[j].item IN
        /\ l.reply[j].kind = "ok"
        /\ \A k \in DOMAIN items : k > i => items[k].path # items[i].path
        => Denotes(inner[items[i].path]) = items[i].arg

\* Every call ends: no batch loops for ever and no callers wait for each other.
CallsReturn == \A c \in Caller : call[c].pc # "idle" ~> call[c].pc = "idle"

\* The backend as its callers see it: a stub stands for the content it names.
File ==
  INSTANCE FileBackend WITH
    files   <- [p \in Path |-> Denotes(inner[p])],
    asked   <- [c \in Caller |-> call[c].req],
    phase   <- [c \in Caller |-> IF call[c].pc \in {"idle", "raised"}
                                 THEN call[c].pc ELSE "busy"],
    answers <- [c \in Caller |-> {call[c].reply[j] : j \in DOMAIN call[c].reply}],
    MayFail <- InnerFaults # {} \/ StoreFaults,
    Losable <- {v \in Value : Sweeps /\ Large(v)}

\* Offloading is transparent: callers cannot tell the backend from one that
\* keeps the whole content of every file itself.
Transparent == File!Spec

=============================================================================
