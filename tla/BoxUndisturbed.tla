--------------------------- MODULE BoxUndisturbed ---------------------------
(***************************************************************************)
(* BoxStore where nobody deletes a blob behind another caller's back: what *)
(* a process memoizes of it is then not only the right file, but there.    *)
(***************************************************************************)
EXTENDS BoxProofs

-----------------------------------------------------------------------------
(* The inductive invariant *)

\* w may ask for the blob of k.
AsksFor(w, k) == \E r \in Requests[w] : r.op # "list" /\ r.key = k

\* Whoever deletes a blob is the only one to ask for it, and Box never reports
\* an error for what it has done.
Undisturbed ==
  \A w \in Worker : \A r \in Requests[w] : r.op = "delete" =>
    /\ "after" \notin ApiFaults
    /\ \A v \in Worker : AsksFor(v, r.key) => v = w

\* A memo that names no file is about to be dropped.
Fresh ==
  \A p \in Process, k \in Key :
    _file_cache[p][k] # None /\ box[_file_cache[p][k]] = None =>
      \E w \in Worker : Home[w] = p /\ call[w].pc = "forget" /\ call[w].req.key = k

\* A process has memos of the blobs it asks for.
OwnMemos ==
  \A p \in Process, k \in Key :
    _file_cache[p][k] # None => \E w \in Worker : Home[w] = p /\ AsksFor(w, k)

\* The file that a call goes on with is there.
Held(l) ==
  l.pc \in {"memo", "version", "record", "download", "remove"} => box[l.id] # None

\* What a get may answer.
GetOK(l) ==
  l.pc = "done" /\ l.req.op = "get" /\ ApiFaults = {} => l.reply.kind # "error"

UInv ==
  /\ Fresh /\ OwnMemos
  /\ \A w \in Worker : Held(call[w]) /\ GetOK(call[w])

-----------------------------------------------------------------------------
(* Who asks for what *)

\* A call under way is for a blob that its worker may ask for.
LEMMA Asking ==
  ASSUME NEW w \in Worker, NEW l, CallOK(w, l), l.pc # "idle", l.req.op # "list"
  PROVE  AsksFor(w, l.req.key) /\ l.req.key \in Key
  BY RequestOf DEF AsksFor

\* A delete under way is the only call for its blob.
LEMMA NoRival ==
  ASSUME Undisturbed, NEW v \in Worker, NEW d, CallOK(v, d), d.pc \in {"remove", "forget"},
         NEW w \in Worker, AsksFor(w, d.req.key)
  PROVE  v = w /\ "after" \notin ApiFaults
  <1>1. d.req.op = "delete" /\ d.req \in Requests[v]
    BY RequestOf DEF CallOK, Fits
  <1>2. QED
    BY <1>1 DEF Undisturbed

\* The memo that a call finds names a file that is there.
LEMMA MemoHolds ==
  ASSUME Undisturbed, IInv, UInv, NEW w \in Worker, NEW l, l = call[w],
         l.pc \in {"resolve", "upload"}, l.req.op # "list",
         NEW i, i = Memos(w)[l.req.key], i # None
  PROVE  i \in Id /\ box[i] # None
  <1>1. CallOK(w, l) /\ Home[w] \in Process
    BY Constants DEF IInv
  <1>2. AsksFor(w, l.req.key) /\ l.req.key \in Key
    BY <1>1, Asking
  <1>3. PICK p \in Process, k \in Key : p = Home[w] /\ k = l.req.key /\ i = _file_cache[p][k]
    BY <1>1, <1>2 DEF Memos
  <1>4. ASSUME box[i] = None PROVE FALSE
    <2>1. PICK v \in Worker : Home[v] = p /\ call[v].pc = "forget" /\ call[v].req.key = k
      BY <1>3, <1>4 DEF UInv, Fresh
    <2>2. PICK d : d = call[v] /\ CallOK(v, d) /\ d.pc = "forget" /\ d.req.key = k
      BY <2>1 DEF IInv
    <2>3. v = w
      BY <1>2, <1>3, <2>2, NoRival
    <2>4. QED
      BY <2>2, <2>3
  <1>5. i \in Id
    BY <1>3 DEF IInv, FileMemosOK
  <1>6. QED
    BY <1>4, <1>5

-----------------------------------------------------------------------------
(* How the local variables change *)

\* The file is known: a call that goes on with it, or the answer of exists.
LEMMA Knows ==
  ASSUME NEW l \in Local, l.req.op \in {"put", "get", "exists", "delete"},
         NEW i \in Id, NEW m, m = Known(l, i)
  PROVE  /\ m.req = l.req
         /\ m.pc = "done" => l.req.op = "exists"
         /\ m.id = i
  <1>1. PICK h : h = [l EXCEPT !.id = i]
    OBVIOUS
  <1>2. h \in Local /\ h.req = l.req /\ h.id = i
    BY <1>1 DEF Local
  <1>3. CASE l.req.op = "exists"
    <2>1. m = [h EXCEPT !.pc = "done", !.reply = [kind |-> "yes", bytes |-> None]]
      BY <1>1, <1>3 DEF Known, Reply
    <2>2. QED
      BY <1>2, <1>3, <2>1 DEF Local
  <1>4. CASE l.req.op # "exists"
    <2>1. PICK pc \in {"download", "remove", "version"} : m = [h EXCEPT !.pc = pc]
      BY <1>1, <1>4 DEF Known
    <2>2. QED
      BY <1>2, <2>1 DEF Local
  <1>5. QED
    BY <1>3, <1>4

\* BlobNotFoundError is what get raises.
LEMMA Misses ==
  ASSUME NEW l \in Local, NEW m, m = NotFound(l)
  PROVE  /\ m.pc = "done" /\ m.req = l.req
         /\ l.req.op = "get" => m.reply.kind = "BlobNotFoundError"
  <1>1. PICK kind \in {"no", "ok", "BlobNotFoundError"} :
          /\ m = Reply(l, kind, None)
          /\ l.req.op = "get" => kind = "BlobNotFoundError"
    BY DEF NotFound
  <1>2. [kind |-> kind, bytes |-> None] \in Answer
    BY Answers
  <1>3. m.pc = "done" /\ m.req = l.req /\ m.reply = [kind |-> kind, bytes |-> None]
    BY <1>1, <1>2, Replies
  <1>4. QED
    BY <1>1, <1>3

-----------------------------------------------------------------------------
(* Every step keeps the invariant *)

\* A step that deletes nothing, and forgets nothing.
LEMMA Undeleted ==
  ASSUME IInv, UInv, NEW w \in Worker, call[w].pc # "forget", NEW m, Run(w, m),
         \A i \in Id : box'[i] = None => box[i] = None,
         Held(m)', GetOK(m),
         \/ UNCHANGED _file_cache
         \/ \E k \in Key, i \in Id : AsksFor(w, k) /\ box'[i] # None /\ Remember(w, k, i)
  PROVE  UInv'
  <1>1. call'[w] = m /\ \A v \in Worker : v # w => call'[v] = call[v]
    BY DEF Run, IInv
  <1>2. _file_cache \in [Process -> [Key -> Id \cup {None}]]
    BY DEF IInv, FileMemosOK
  <1>3. ASSUME NEW v \in Worker PROVE Held(call[v])' /\ GetOK(call[v])'
    <2>1. CASE v = w
      BY <1>1, <2>1 DEF GetOK, Held
    <2>2. CASE v # w
      <3>1. PICK d : d = call[v] /\ d = call'[v] /\ Held(d) /\ GetOK(d) /\ CallOK(v, d)
        BY <1>1, <2>2 DEF UInv, IInv
      <3>2. d.pc \in {"memo", "version", "record", "download", "remove"} => d.id \in Id
        BY <3>1 DEF CallOK, FileOf
      <3>3. QED
        BY <3>1, <3>2 DEF Held, GetOK
    <2>3. QED
      BY <2>1, <2>2
  <1>4. ASSUME NEW p \in Process, NEW k \in Key,
               _file_cache'[p][k] # None, _file_cache'[p][k] = _file_cache[p][k]
        PROVE  /\ box'[_file_cache'[p][k]] = None =>
                    \E v \in Worker : Home[v] = p /\ call'[v].pc = "forget" /\ call'[v].req.key = k
               /\ \E v \in Worker : Home[v] = p /\ AsksFor(v, k)
    <2>1. PICK i \in Id : i = _file_cache[p][k] /\ i = _file_cache'[p][k]
      BY <1>2, <1>4
    <2>2. \E v \in Worker : Home[v] = p /\ AsksFor(v, k)
      BY <1>4 DEF UInv, OwnMemos
    <2>3. ASSUME box'[i] = None
          PROVE  \E v \in Worker : Home[v] = p /\ call'[v].pc = "forget" /\ call'[v].req.key = k
      <3>1. box[i] = None
        BY <2>3
      <3>2. PICK v \in Worker : Home[v] = p /\ call[v].pc = "forget" /\ call[v].req.key = k
        BY <1>4, <2>1, <3>1 DEF UInv, Fresh
      <3>3. QED
        BY <1>1, <3>2
    <2>4. QED
      BY <2>1, <2>2, <2>3
  <1>5. CASE UNCHANGED _file_cache
    BY <1>3, <1>4, <1>5 DEF UInv, Fresh, OwnMemos
  <1>6. ASSUME NEW j \in Key, NEW i \in Id, AsksFor(w, j), box'[i] # None, Remember(w, j, i)
        PROVE  UInv'
    <2>1. PICK h \in Process : h = Home[w] /\ _file_cache' = [_file_cache EXCEPT ![h][j] = i]
      BY <1>6, Constants DEF Remember
    <2>2. _file_cache'[h][j] = i
      BY <1>2, <2>1
    <2>3. \A p \in Process, k \in Key :
            p # h \/ k # j => _file_cache'[p][k] = _file_cache[p][k]
      BY <1>2, <2>1
    <2>4. ASSUME NEW p \in Process, NEW k \in Key, _file_cache'[p][k] # None
          PROVE  /\ box'[_file_cache'[p][k]] = None =>
                      \E v \in Worker :
                        Home[v] = p /\ call'[v].pc = "forget" /\ call'[v].req.key = k
                 /\ \E v \in Worker : Home[v] = p /\ AsksFor(v, k)
      <3>1. CASE p = h /\ k = j
        BY <1>6, <2>1, <2>2, <3>1
      <3>2. CASE ~ (p = h /\ k = j)
        BY <1>4, <2>3, <2>4, <3>2
      <3>3. QED
        BY <3>1, <3>2
    <2>5. QED
      BY <1>3, <2>4 DEF UInv, Fresh, OwnMemos
  <1>7. QED
    BY <1>5, <1>6

\* The same where Box is left alone.
LEMMA BoxAlone ==
  ASSUME IInv, UInv, NEW w \in Worker, call[w].pc # "forget", NEW m, Run(w, m),
         UNCHANGED box, Held(m), GetOK(m),
         \/ UNCHANGED _file_cache
         \/ \E k \in Key, i \in Id : AsksFor(w, k) /\ box[i] # None /\ Remember(w, k, i)
  PROVE  UInv'
  <1>1. \A i \in Id : box'[i] = box[i]
    OBVIOUS
  <1>2. Held(m)'
    BY DEF Held
  <1>3. CASE UNCHANGED _file_cache
    BY <1>1, <1>2, <1>3, Undeleted
  <1>4. ASSUME NEW k \in Key, NEW i \in Id, AsksFor(w, k), box[i] # None, Remember(w, k, i)
        PROVE  UInv'
    <2>1. box'[i] # None
      BY <1>4
    <2>2. QED
      BY <1>1, <1>2, <1>4, <2>1, Undeleted
  <1>5. QED
    BY <1>3, <1>4

\* A call that goes on at a place where it holds no file and has no answer.
LEMMA OnTheWay ==
  ASSUME IInv, UInv, NEW w \in Worker, call[w].pc # "forget", NEW m, Run(w, m),
         m.pc \in {"idle", "walk", "create", "lookup", "resolve", "find", "upload", "page", "item"},
         UNCHANGED <<box, _file_cache>>
  PROVE  UInv'
  BY BoxAlone DEF Held, GetOK

\* No get fails here.
LEMMA Answered ==
  ASSUME IInv, UInv, NEW w \in Worker, call[w].pc # "forget", NEW m, Run(w, m),
         m.pc = "done", m.req.op # "get" \/ ApiFaults # {} \/ m.reply.kind # "error",
         UNCHANGED <<box, _file_cache>>
  PROVE  UInv'
  BY BoxAlone DEF Held, GetOK

\* Nothing is memoized or held at first.
LEMMA InitUInv == Init => UInv
  <1> SUFFICES ASSUME Init PROVE UInv
    OBVIOUS
  <1>1. \A w \in Worker : call[w] = Idle
    BY DEF Init
  <1>2. \A w \in Worker : Held(call[w]) /\ GetOK(call[w])
    BY <1>1 DEF Idle, Held, GetOK
  <1>3. QED
    BY <1>2 DEF Init, UInv, Fresh, OwnMemos

\* A call begins.
LEMMA CallHolds ==
  ASSUME IInv, UInv, NEW w \in Worker, NEW r \in Requests[w], Call(w, r)
  PROVE  UInv'
  <1>1. UNCHANGED <<box, _file_cache>> /\ call[w].pc = "idle"
    BY DEF Call
  <1>2. PICK m : /\ Run(w, m)
                 /\ m = CASE r.op = "put"  -> [Idle EXCEPT !.req = r, !.pc = "walk"]
                          [] r.op = "list" -> [Idle EXCEPT !.req = r, !.pc = "page",
                                                           !.stack = <<Frame(Root, <<>>)>>]
                          [] OTHER         -> [Idle EXCEPT !.req = r, !.pc = "resolve"]
    BY DEF Call
  <1>3. m.pc \in {"walk", "page", "resolve"}
    BY <1>2 DEF Idle
  <1>4. QED
    BY <1>1, <1>2, <1>3, OnTheWay

\* A call returns.
LEMMA ReturnHolds ==
  ASSUME IInv, UInv, NEW w \in Worker, Return(w)
  PROVE  UInv'
  <1>1. UNCHANGED <<box, _file_cache>> /\ call[w].pc = "done"
    BY DEF Return
  <1>2. PICK m : m = Idle /\ Run(w, m)
    BY DEF Return
  <1>3. m.pc = "idle"
    BY <1>2 DEF Idle
  <1>4. QED
    BY <1>1, <1>2, <1>3, OnTheWay

\* An API call fails, which a get passes on.
LEMMA ApiRaisesHolds ==
  ASSUME IInv, UInv, NEW w \in Worker, ApiRaises(w)
  PROVE  UInv'
  <1>1. UNCHANGED <<box, _file_cache>> /\ call[w].pc # "forget" /\ ApiFaults # {}
    BY DEF ApiRaises
  <1>2. PICK l, m : l = call[w] /\ m = Error(l) /\ Run(w, m)
    BY DEF ApiRaises
  <1>3. l \in Local
    BY <1>2 DEF IInv
  <1>4. m.pc = "done"
    BY <1>2, <1>3, ErrorReplies
  <1>5. QED
    BY <1>1, <1>2, <1>4, Answered

\* All folders are resolved.
LEMMA WalkedHolds ==
  ASSUME IInv, UInv, NEW w \in Worker, Walked(w)
  PROVE  UInv'
  <1>1. UNCHANGED <<box, _file_cache>> /\ call[w].pc # "forget"
    BY DEF Walked
  <1>2. PICK l : l = call[w] /\ l \in Local
    BY DEF IInv
  <1>3. PICK pc, m : /\ pc \in {"upload", "find"}
                     /\ m = [l EXCEPT !.pc = pc] /\ Run(w, m)
    BY <1>2 DEF Walked
  <1>4. m.pc = pc
    BY <1>2, <1>3 DEF Local
  <1>5. QED
    BY <1>1, <1>3, <1>4, OnTheWay

\* A segment is resolved, or missing.
LEMMA WalkHolds ==
  ASSUME IInv, UInv, NEW w \in Worker, Walk(w)
  PROVE  UInv'
  <1>1. UNCHANGED <<box, _file_cache>> /\ call[w].pc # "forget"
    BY DEF Walk
  <1>2. PICK l, m : /\ l = call[w] /\ Run(w, m)
                    /\ \/ \E i : m = Enter(l, i)
                       \/ m = [l EXCEPT !.pc = "create"]
                       \/ m = NotFound(l)
    BY DEF Walk
  <1>3. l \in Local
    BY <1>2 DEF IInv
  <1>4. CASE \E i : m = Enter(l, i)
    <2>1. m.pc = "walk"
      BY <1>3, <1>4 DEF Enter, Local
    <2>2. QED
      BY <1>1, <1>2, <2>1, OnTheWay
  <1>5. CASE m = [l EXCEPT !.pc = "create"]
    <2>1. m.pc = "create"
      BY <1>3, <1>5 DEF Local
    <2>2. QED
      BY <1>1, <1>2, <2>1, OnTheWay
  <1>6. CASE m = NotFound(l)
    <2>1. m.pc = "done" /\ m.req = l.req
          /\ (l.req.op = "get" => m.reply.kind = "BlobNotFoundError")
      BY <1>3, <1>6, Misses
    <2>2. QED
      BY <1>1, <1>2, <2>1, Answered
  <1>7. QED
    BY <1>2, <1>4, <1>5, <1>6

\* A new item takes an id that no file has had.
LEMMA NothingLost ==
  ASSUME IInv, NEW parent \in Id, NEW name, NEW kind, NEW raw, Create(parent, name, kind, raw)
  PROVE  \A i \in Id : box'[i] = None => box[i] = None
  <1>1. PICK n \in Id : n = nextId
    BY DEF Create
  <1>2. box[n] = None
    BY <1>1 DEF IInv, TreeOK, ItemOK
  <1>3. \A i \in Id : i # n => box'[i] = box[i]
    BY <1>1 DEF IInv, TreeOK, Create
  <1>4. QED
    BY <1>2, <1>3

\* put creates a folder, or finds it taken.
LEMMA CreateFolderHolds ==
  ASSUME IInv, UInv, NEW w \in Worker, CreateFolder(w)
  PROVE  UInv'
  <1>1. UNCHANGED _file_cache
    BY DEF CreateFolder
  <1>2. PICK l : l = call[w] /\ CallOK(w, l) /\ l.pc = "create" /\ l \in Local
    BY DEF CreateFolder, IInv
  <1>3. l.req.op = "put" /\ l.parent \in Id /\ l.pc # "forget"
    BY <1>2 DEF CallOK, Fits, Local
  <1>4. \A i \in Id : box'[i] = None => box[i] = None
    <2>1. CASE UNCHANGED box
      BY <2>1
    <2>2. ASSUME NEW name, Create(l.parent, name, "folder", None)
          PROVE  \A i \in Id : box'[i] = None => box[i] = None
      BY <1>3, <2>2, NothingLost
    <2>3. QED
      BY <1>2, <2>1, <2>2 DEF CreateFolder
  <1>5. PICK m : Run(w, m) /\ (m.pc \in {"walk", "lookup"} \/ (m.pc = "done" /\ m.req = l.req))
    <2>1. PICK e, i : (e = Enter(l, i) \/ e = [l EXCEPT !.pc = "lookup"])
                      /\ (Run(w, e) \/ Run(w, Error(e)))
      BY <1>2 DEF CreateFolder, Outcomes
    <2>2. e.pc \in {"walk", "lookup"} /\ e.req = l.req
      BY <1>2, <2>1 DEF Enter, Local
    <2>3. Error(e).pc = "done" /\ Error(e).req = l.req
      BY <1>2, <2>1, <2>2 DEF Enter, Error, Reply, Local
    <2>4. QED
      BY <2>1, <2>2, <2>3
  <1>6. Held(m)' /\ GetOK(m)
    BY <1>3, <1>5 DEF Held, GetOK
  <1>7. QED
    BY <1>1, <1>2, <1>3, <1>4, <1>5, <1>6, Undeleted

\* put looks a folder up that is taken.
LEMMA LookupFolderHolds ==
  ASSUME IInv, UInv, NEW w \in Worker, LookupFolder(w)
  PROVE  UInv'
  <1>1. UNCHANGED <<box, _file_cache>> /\ call[w].pc # "forget"
    BY DEF LookupFolder
  <1>2. PICK l, m : /\ l = call[w] /\ Run(w, m) /\ CallOK(w, l) /\ l.pc = "lookup"
                    /\ m = Error(l) \/ \E i : m = Enter(l, i)
    BY DEF LookupFolder, IInv
  <1>3. l \in Local /\ l.req.op = "put"
    BY <1>2 DEF CallOK, Fits
  <1>4. CASE m = Error(l)
    <2>1. m.pc = "done" /\ m.req = l.req
      BY <1>3, <1>4, ErrorReplies
    <2>2. QED
      BY <1>1, <1>2, <1>3, <2>1, Answered
  <1>5. CASE \E i : m = Enter(l, i)
    <2>1. m.pc = "walk"
      BY <1>3, <1>5 DEF Enter, Local
    <2>2. QED
      BY <1>1, <1>2, <2>1, OnTheWay
  <1>6. QED
    BY <1>2, <1>4, <1>5

\* A call takes the id from the memo.
LEMMA ResolveHolds ==
  ASSUME Undisturbed, IInv, UInv, NEW w \in Worker, Resolve(w)
  PROVE  UInv'
  <1>1. UNCHANGED <<box, _file_cache>> /\ call[w].pc # "forget"
    BY DEF Resolve
  <1>2. PICK l, i : /\ l = call[w] /\ i = Memos(w)[l.req.key] /\ CallOK(w, l)
                    /\ l.pc = "resolve"
    BY DEF Resolve, IInv
  <1>3. l \in Local /\ l.req.op \in {"put", "get", "exists", "delete"}
    BY <1>2, RequestOf DEF CallOK, Fits
  <1>4. CASE i # None
    <2>1. PICK m : m = Known(l, i) /\ Run(w, m)
      BY <1>2, <1>4 DEF Resolve
    <2>2. i \in Id /\ box[i] # None
      BY <1>2, <1>3, <1>4, MemoHolds
    <2>3. m.req = l.req /\ (m.pc = "done" => l.req.op = "exists") /\ m.id = i
      BY <1>3, <2>1, <2>2, Knows
    <2>4. Held(m) /\ GetOK(m)
      BY <2>2, <2>3 DEF Held, GetOK
    <2>5. QED
      BY <1>1, <2>1, <2>4, BoxAlone
  <1>5. CASE i = None
    <2>1. PICK m : m = [l EXCEPT !.pc = "walk"] /\ Run(w, m)
      BY <1>2, <1>5 DEF Resolve
    <2>2. m.pc = "walk"
      BY <1>3, <2>1 DEF Local
    <2>3. QED
      BY <1>1, <2>1, <2>2, OnTheWay
  <1>6. QED
    BY <1>4, <1>5

\* A call finds the file, or none.
LEMMA FindHolds ==
  ASSUME IInv, UInv, NEW w \in Worker, Find(w)
  PROVE  UInv'
  <1>1. UNCHANGED <<box, _file_cache>> /\ call[w].pc # "forget"
    BY DEF Find
  <1>2. PICK l, i : /\ l = call[w] /\ i = FindChild(l.parent, Name[l.req.key], "file")
                    /\ l \in Local
    BY DEF IInv
  <1>3. CASE i = None
    <2>1. PICK m : m = NotFound(l) /\ Run(w, m)
      BY <1>2, <1>3 DEF Find
    <2>2. m.pc = "done" /\ m.req = l.req
          /\ (l.req.op = "get" => m.reply.kind = "BlobNotFoundError")
      BY <1>2, <2>1, Misses
    <2>3. QED
      BY <1>1, <2>1, <2>2, Answered
  <1>4. CASE i # None
    <2>1. PICK m : m = [l EXCEPT !.pc = "memo", !.id = i] /\ Run(w, m)
      BY <1>2, <1>4 DEF Find
    <2>2. m.pc = "memo" /\ m.id = i
      BY <1>2, <2>1 DEF Local
    <2>3. box[i] # None
      BY <1>2, <1>4 DEF FindChild, Children
    <2>4. Held(m) /\ GetOK(m)
      BY <2>2, <2>3 DEF Held, GetOK
    <2>5. QED
      BY <1>1, <2>1, <2>4, BoxAlone
  <1>5. QED
    BY <1>3, <1>4

\* The id found is memoized.
LEMMA MemoizeHolds ==
  ASSUME IInv, UInv, NEW w \in Worker, Memo(w)
  PROVE  UInv'
  <1>1. PICK l, m : /\ l = call[w] /\ CallOK(w, l) /\ l.pc = "memo" /\ Held(l)
                    /\ m = Known(l, l.id) /\ Run(w, m)
    BY DEF Memo, IInv, UInv
  <1>2. PICK k, i : k = l.req.key /\ i = l.id
    OBVIOUS
  <1>3. /\ l \in Local /\ l.req.op \in {"put", "get", "exists", "delete"}
        /\ l.req.op # "list" /\ l.pc # "idle" /\ FileOf(i, k)
    BY <1>1, <1>2, RequestOf DEF CallOK, Fits
  <1>4. i \in Id /\ box[i] # None /\ AsksFor(w, k) /\ k \in Key
    BY <1>1, <1>2, <1>3, Asking DEF Held, FileOf
  <1>5. m.req = l.req /\ (m.pc = "done" => l.req.op = "exists") /\ m.id = i
    BY <1>1, <1>2, <1>3, <1>4, Knows
  <1>6. Held(m) /\ GetOK(m)
    BY <1>4, <1>5 DEF Held, GetOK
  <1>7. UNCHANGED box /\ Remember(w, k, i) /\ call[w].pc # "forget"
    BY <1>1, <1>2 DEF Memo
  <1>8. QED
    BY <1>1, <1>4, <1>6, <1>7, BoxAlone

\* put uploads a new file, or finds the name taken.
LEMMA UploadHolds ==
  ASSUME Undisturbed, IInv, UInv, NEW w \in Worker, Upload(w)
  PROVE  UInv'
  <1>1. UNCHANGED _file_cache
    BY DEF Upload
  <1>2. PICK l : l = call[w] /\ CallOK(w, l) /\ l.pc = "upload" /\ l \in Local
    BY DEF Upload, IInv
  <1>3. l.req.op = "put" /\ l.parent \in Id /\ l.pc # "forget"
    BY <1>2 DEF CallOK, Fits, Local
  <1>4. CASE /\ Create(l.parent, Name[l.req.key], "file", l.req.raw)
             /\ \E m \in Outcomes([l EXCEPT !.pc = "record", !.id = nextId]) : Run(w, m)
    <2>1. \A i \in Id : box'[i] = None => box[i] = None
      BY <1>3, <1>4, NothingLost
    <2>2. PICK n, e : n = nextId /\ e = [l EXCEPT !.pc = "record", !.id = n]
      OBVIOUS
    <2>3. e.pc = "record" /\ e.id = n /\ e.req = l.req
      BY <1>2, <2>2 DEF Local
    <2>4. Error(e).pc = "done" /\ Error(e).req = l.req
      BY <1>2, <2>2 DEF Error, Reply, Local
    <2>5. box'[n] # None
      <3>1. n \in Id
        BY <1>4, <2>2 DEF Create
      <3>2. PICK item : /\ item = [parent |-> l.parent, name |-> Name[l.req.key],
                                   kind |-> "file", raw |-> l.req.raw,
                                   path |-> Append(Location(l.parent), Name[l.req.key])]
                        /\ box' = [box EXCEPT ![n] = item]
        BY <1>4, <2>2 DEF Create
      <3>3. box'[n] = item
        BY <3>1, <3>2 DEF IInv, TreeOK
      <3>4. item \in Item
        <4>1. l.req.key \in Key /\ l.req.raw \in Raw
          BY <1>2, <1>3, RequestOf
        <4>2. PICK path : path = Location(l.parent) /\ FolderAt(l.parent, path)
          BY <1>2 DEF CallOK, WalkOK, FolderAt
        <4>3. path \in Seq(Segment)
          BY <4>2, FolderPlace DEF IInv
        <4>4. PICK name \in Segment : name = Name[l.req.key]
          BY <4>1, Constants
        <4>5. Append(path, name) \in Seq(Segment)
          BY <4>3, AppendProperties
        <4>6. QED
          BY <1>3, <3>2, <4>1, <4>2, <4>4, <4>5 DEF Item
      <3>5. QED
        BY <3>3, <3>4, NoneAssumption
    <2>6. PICK m : Run(w, m) /\ (m = e \/ m = Error(e))
      BY <1>4, <2>2 DEF Outcomes
    <2>7. Held(m)' /\ GetOK(m)
      BY <1>3, <2>3, <2>4, <2>5, <2>6 DEF Held, GetOK
    <2>8. QED
      BY <1>1, <1>2, <1>3, <2>1, <2>6, <2>7, Undeleted
  <1>5. CASE UNCHANGED box /\ Run(w, Error(l))
    <2>1. PICK m : m = Error(l) /\ Run(w, m)
      BY <1>5
    <2>2. m.pc = "done" /\ m.req = l.req
      BY <1>2, <2>1, ErrorReplies
    <2>3. QED
      BY <1>1, <1>2, <1>3, <1>5, <2>1, <2>2, Answered
  <1>6. ASSUME NEW i \in Id, box[i] # None, UNCHANGED box, Run(w, Known(l, i))
        PROVE  UInv'
    <2>1. PICK m : m = Known(l, i) /\ Run(w, m)
      BY <1>6
    <2>2. m.req = l.req /\ (m.pc = "done" => l.req.op = "exists") /\ m.id = i
      BY <1>2, <1>3, <2>1, Knows
    <2>3. Held(m) /\ GetOK(m)
      BY <1>3, <1>6, <2>2 DEF Held, GetOK
    <2>4. QED
      BY <1>1, <1>2, <1>3, <1>6, <2>1, <2>3, BoxAlone
  <1>7. CASE UNCHANGED box /\ Run(w, [l EXCEPT !.pc = "find"])
    <2>1. PICK m : m = [l EXCEPT !.pc = "find"] /\ Run(w, m)
      BY <1>7
    <2>2. m.pc = "find"
      BY <1>2, <2>1 DEF Local
    <2>3. QED
      BY <1>1, <1>2, <1>3, <1>7, <2>1, <2>2, OnTheWay
  <1>8. ASSUME NEW i, i = Memos(w)[l.req.key], i # None PROVE i \in Id /\ box[i] # None
    BY <1>2, <1>3, <1>8, MemoHolds
  <1>9. \A i \in Children(l.parent, Name[l.req.key]) : i \in Id /\ box[i] # None
    BY DEF Children
  <1>10. QED
    BY <1>2, <1>4, <1>5, <1>6, <1>7, <1>8, <1>9 DEF Upload

\* put stores another version.
LEMMA VersionHolds ==
  ASSUME IInv, UInv, NEW w \in Worker, Version(w)
  PROVE  UInv'
  <1>1. UNCHANGED _file_cache /\ call[w].pc # "forget"
    BY DEF Version
  <1>2. PICK l : l = call[w] /\ CallOK(w, l) /\ l.pc = "version" /\ l \in Local /\ Held(l)
    BY DEF Version, IInv, UInv
  <1>3. PICK i : i = l.id /\ i \in Id /\ box[i] # None
    BY <1>2 DEF CallOK, FileOf, Held
  <1>4. /\ box' = [box EXCEPT ![i].raw = l.req.raw]
        /\ \E m \in Outcomes([l EXCEPT !.pc = "record"]) : Run(w, m)
    BY <1>2, <1>3 DEF Version
  <1>5. l.req.op = "put" /\ l.req.raw \in Raw
    BY <1>2, RequestOf DEF CallOK, Fits
  <1>6. \A j \in Id : box'[j] = None => box[j] = None
    <2>1. PICK e : e = [box[i] EXCEPT !.raw = l.req.raw] /\ box' = [box EXCEPT ![i] = e]
      BY <1>4
    <2>2. box[i] \in Item
      BY <1>3, ItemType DEF IInv
    <2>3. e \in Item
      BY <1>5, <2>1, <2>2 DEF Item
    <2>4. box'[i] = e /\ \A j \in Id : j # i => box'[j] = box[j]
      BY <1>3, <2>1 DEF IInv, TreeOK
    <2>5. QED
      BY <2>3, <2>4, NoneAssumption
  <1>7. PICK e : e = [l EXCEPT !.pc = "record"] /\ \E m \in Outcomes(e) : Run(w, m)
    BY <1>4
  <1>8. e.pc = "record" /\ e.id = i /\ e.req = l.req
    BY <1>2, <1>3, <1>7 DEF Local
  <1>9. Error(e).pc = "done" /\ Error(e).req = l.req
    BY <1>2, <1>7 DEF Error, Reply, Local
  <1>10. PICK m : Run(w, m) /\ (m = e \/ m = Error(e))
    BY <1>7 DEF Outcomes
  <1>11. Held(m)' /\ GetOK(m)
    BY <1>3, <1>5, <1>6, <1>8, <1>9, <1>10 DEF Held, GetOK
  <1>12. QED
    BY <1>1, <1>6, <1>10, <1>11, Undeleted

\* put memoizes the file it stored.
LEMMA RecordHolds ==
  ASSUME IInv, UInv, NEW w \in Worker, Record(w)
  PROVE  UInv'
  <1>1. PICK l, m : /\ l = call[w] /\ CallOK(w, l) /\ l.pc = "record" /\ Held(l)
                    /\ m = Reply(l, "ok", None) /\ Run(w, m)
    BY DEF Record, IInv, UInv
  <1>2. PICK k, i : k = l.req.key /\ i = l.id
    OBVIOUS
  <1>3. l \in Local /\ l.req.op = "put" /\ l.req.op # "list" /\ l.pc # "idle" /\ FileOf(i, k)
    BY <1>1, <1>2 DEF CallOK, Fits
  <1>4. i \in Id /\ box[i] # None /\ AsksFor(w, k) /\ k \in Key
    BY <1>1, <1>2, <1>3, Asking DEF Held, FileOf
  <1>5. m.req = l.req /\ m.pc = "done"
    BY <1>1, <1>3, Answers, Replies
  <1>6. Held(m) /\ GetOK(m)
    BY <1>3, <1>5 DEF Held, GetOK
  <1>7. UNCHANGED box /\ Remember(w, k, i) /\ call[w].pc # "forget"
    BY <1>1, <1>2 DEF Record
  <1>8. QED
    BY <1>1, <1>4, <1>6, <1>7, BoxAlone

\* get downloads the file, which is there.
LEMMA DownloadHolds ==
  ASSUME IInv, UInv, NEW w \in Worker, Download(w)
  PROVE  UInv'
  <1>1. UNCHANGED <<box, _file_cache>> /\ call[w].pc # "forget"
    BY DEF Download
  <1>2. PICK l : l = call[w] /\ CallOK(w, l) /\ l.pc = "download" /\ l \in Local /\ Held(l)
    BY DEF Download, IInv, UInv
  <1>3. l.id \in Id /\ box[l.id] # None
    BY <1>2 DEF CallOK, FileOf, Held
  <1>4. PICK m, raw : raw = box[l.id].raw /\ m = Reply(l, "bytes", raw) /\ Run(w, m)
    BY <1>2, <1>3 DEF Download
  <1>5. raw \in Raw \cup {None}
    BY <1>3, <1>4, ItemType DEF IInv
  <1>6. [kind |-> "bytes", bytes |-> raw] \in Answer
    BY <1>5, Answers
  <1>7. m.pc = "done" /\ m.reply = [kind |-> "bytes", bytes |-> raw]
    BY <1>2, <1>4, <1>6, Replies
  <1>8. m.reply.kind # "error"
    BY <1>7
  <1>9. QED
    BY <1>1, <1>4, <1>7, <1>8, Answered

\* delete removes the file, and nobody else has it in hand.
LEMMA RemoveFileHolds ==
  ASSUME Undisturbed, IInv, UInv, NEW w \in Worker, RemoveFile(w)
  PROVE  UInv'
  <1>1. PICK l : l = call[w] /\ CallOK(w, l) /\ l.pc = "remove" /\ l \in Local /\ Held(l)
    BY DEF RemoveFile, IInv, UInv
  <1>2. PICK k, i : k = l.req.key /\ i = l.id
    OBVIOUS
  <1>3. FileOf(i, k) /\ l.req.op = "delete" /\ box[i] # None
    BY <1>1, <1>2 DEF CallOK, Fits, Held
  <1>4. AsksFor(w, k) /\ k \in Key /\ i \in Id /\ box[i].path = Path(k)
    BY <1>1, <1>2, <1>3, Asking DEF FileOf
  <1>5. "after" \notin ApiFaults
    BY <1>1, <1>2, <1>4, NoRival
  <1>6. PICK m : m = [l EXCEPT !.pc = "forget"] /\ Run(w, m)
    BY <1>1, <1>5 DEF RemoveFile, Outcomes
  <1>7. m.pc = "forget" /\ m.req = l.req
    BY <1>1, <1>6 DEF Local
  <1>8. box' = [box EXCEPT ![i] = None] /\ UNCHANGED _file_cache
    BY <1>1, <1>2 DEF RemoveFile
  <1>9. \A j \in Id : j # i => box'[j] = box[j]
    BY <1>8 DEF IInv, TreeOK
  <1>10. call'[w] = m /\ \A v \in Worker : v # w => call'[v] = call[v]
    BY <1>6 DEF Run, IInv
  <1>11. ASSUME NEW j \in Key, FileOf(i, j) PROVE j = k
    BY <1>3, <1>4, <1>11, PathApart DEF FileOf
  <1>12. ASSUME NEW v \in Worker PROVE Held(call[v])' /\ GetOK(call[v])'
    <2>1. CASE v = w
      BY <1>7, <1>10, <2>1 DEF Held, GetOK
    <2>2. CASE v # w
      <3>1. PICK d : d = call[v] /\ d = call'[v] /\ Held(d) /\ GetOK(d) /\ CallOK(v, d)
        BY <1>10, <2>2 DEF UInv, IInv
      <3>2. CASE d.pc \in {"memo", "version", "record", "download", "remove"}
        <4>1. PICK j : j = d.req.key /\ FileOf(d.id, j) /\ d.id \in Id /\ box[d.id] # None
          BY <3>1, <3>2 DEF CallOK, FileOf, Held
        <4>2. d.req.op # "list" /\ d.pc # "idle"
          BY <3>1, <3>2 DEF CallOK, Fits
        <4>3. AsksFor(v, j) /\ j \in Key
          BY <3>1, <4>1, <4>2, Asking
        <4>4. d.id # i
          <5>1. SUFFICES ASSUME d.id = i PROVE FALSE
            OBVIOUS
          <5>2. j = k
            BY <1>11, <4>1, <4>3, <5>1
          <5>3. QED
            BY <1>1, <1>2, <2>2, <4>3, <5>2, NoRival
        <4>5. QED
          BY <1>9, <3>1, <4>1, <4>4 DEF Held, GetOK
      <3>3. CASE d.pc \notin {"memo", "version", "record", "download", "remove"}
        BY <3>1, <3>3 DEF Held, GetOK
      <3>4. QED
        BY <3>2, <3>3
    <2>3. QED
      BY <2>1, <2>2
  <1>13. Fresh'
    <2>1. ASSUME NEW p \in Process, NEW j \in Key,
                 _file_cache'[p][j] # None, box'[_file_cache'[p][j]] = None
          PROVE  \E v \in Worker : Home[v] = p /\ call'[v].pc = "forget" /\ call'[v].req.key = j
      <3>1. PICK h : h = _file_cache[p][j] /\ h = _file_cache'[p][j] /\ FileOf(h, j)
        BY <1>8, <2>1 DEF IInv, FileMemosOK
      <3>2. PICK v \in Worker : Home[v] = p /\ AsksFor(v, j)
        BY <2>1, <3>1 DEF UInv, OwnMemos
      <3>3. CASE h = i
        <4>1. j = k
          BY <1>11, <3>1, <3>3
        <4>2. v = w
          BY <1>1, <1>2, <3>2, <4>1, NoRival
        <4>3. QED
          BY <1>2, <1>7, <1>10, <3>2, <4>1, <4>2
      <3>4. CASE h # i
        <4>1. box[h] = None
          BY <1>9, <2>1, <3>1, <3>4 DEF FileOf
        <4>2. _file_cache[p][j] # None /\ box[_file_cache[p][j]] = None
          BY <2>1, <3>1, <4>1
        <4>3. PICK u \in Worker : Home[u] = p /\ call[u].pc = "forget" /\ call[u].req.key = j
          BY <4>2 DEF UInv, Fresh
        <4>4. u # w
          BY <1>1, <4>3
        <4>5. QED
          BY <1>10, <4>3, <4>4
      <3>5. QED
        BY <3>3, <3>4
    <2>2. QED
      BY <2>1 DEF Fresh
  <1>14. OwnMemos'
    BY <1>8 DEF UInv, OwnMemos
  <1>15. QED
    BY <1>12, <1>13, <1>14 DEF UInv

\* delete drops the memo of the file that is gone.
LEMMA ForgetHolds ==
  ASSUME IInv, UInv, NEW w \in Worker, Forget(w)
  PROVE  UInv'
  <1>1. PICK l, m : /\ l = call[w] /\ CallOK(w, l) /\ l.pc = "forget"
                    /\ m = Reply(l, "ok", None) /\ Run(w, m) /\ l \in Local
    BY DEF Forget, IInv
  <1>2. PICK k : k = l.req.key
    OBVIOUS
  <1>3. l.req.op = "delete" /\ k \in Key
    BY <1>1, <1>2, Asking DEF CallOK, Fits
  <1>4. m.req = l.req /\ m.pc = "done"
    BY <1>1, Answers, Replies
  <1>5. UNCHANGED box /\ Remember(w, k, None)
    BY <1>1, <1>2 DEF Forget
  <1>6. PICK h \in Process : h = Home[w] /\ _file_cache' = [_file_cache EXCEPT ![h][k] = None]
    BY <1>5, Constants DEF Remember
  <1>7. /\ _file_cache'[h][k] = None
        /\ \A p \in Process, j \in Key :
             p # h \/ j # k => _file_cache'[p][j] = _file_cache[p][j]
    BY <1>3, <1>6 DEF IInv, FileMemosOK
  <1>8. call'[w] = m /\ \A v \in Worker : v # w => call'[v] = call[v]
    BY <1>1 DEF Run, IInv
  <1>9. ASSUME NEW v \in Worker PROVE Held(call[v])' /\ GetOK(call[v])'
    <2>1. CASE v = w
      BY <1>3, <1>4, <1>8, <2>1 DEF Held, GetOK
    <2>2. CASE v # w
      BY <1>5, <1>8, <2>2 DEF Held, GetOK, UInv
    <2>3. QED
      BY <2>1, <2>2
  <1>10. ASSUME NEW p \in Process, NEW j \in Key, _file_cache'[p][j] # None
         PROVE  /\ box'[_file_cache'[p][j]] = None =>
                     \E v \in Worker :
                       Home[v] = p /\ call'[v].pc = "forget" /\ call'[v].req.key = j
                /\ \E v \in Worker : Home[v] = p /\ AsksFor(v, j)
    <2>1. p # h \/ j # k
      BY <1>7, <1>10
    <2>2. _file_cache'[p][j] = _file_cache[p][j] /\ box' = box
      BY <1>5, <1>7, <2>1
    <2>3. \E v \in Worker : Home[v] = p /\ AsksFor(v, j)
      BY <1>10, <2>2 DEF UInv, OwnMemos
    <2>4. ASSUME box[_file_cache[p][j]] = None
          PROVE  \E v \in Worker : Home[v] = p /\ call'[v].pc = "forget" /\ call'[v].req.key = j
      <3>1. PICK v \in Worker : Home[v] = p /\ call[v].pc = "forget" /\ call[v].req.key = j
        BY <1>10, <2>2, <2>4 DEF UInv, Fresh
      <3>2. v # w
        BY <1>1, <1>2, <1>6, <2>1, <3>1
      <3>3. QED
        BY <1>8, <3>1, <3>2
    <2>5. QED
      BY <2>2, <2>3, <2>4
  <1>11. QED
    BY <1>9, <1>10 DEF UInv, Fresh, OwnMemos

\* A listing goes on, or has its answer: it holds no file and is no get.
LEMMA ListingGoesOn ==
  ASSUME IInv, UInv, IInv', NEW w \in Worker, NEW l \in Local, l.req.op = "list",
         NEW s, NEW m, m = Resume(l, s), Run(w, m), call[w].pc # "forget",
         UNCHANGED <<box, _file_cache>>
  PROVE  UInv'
  <1>1. m.req = l.req
    <2>1. PICK left, h : h = [l EXCEPT !.stack = left]
                         /\ \/ m = Reply(h, "keys", l.found)
                            \/ \E pc : m = [h EXCEPT !.pc = pc]
      BY DEF Resume
    <2>2. QED
      BY <2>1 DEF Reply, Local
  <1>2. m.pc \in {"idle", "page", "item", "done"}
    <2>1. call'[w] = m
      BY DEF Run, IInv
    <2>2. m \in Local /\ (m.pc # "idle" => Fits(m.pc, m.req.op))
      BY <2>1 DEF IInv, CallOK
    <2>3. m.pc \in Label /\ m.req.op = "list"
      BY <1>1, <2>2 DEF Local
    <2>4. QED
      BY <2>2, <2>3 DEF Fits, Label
  <1>3. QED
    BY <1>1, <1>2, OnTheWay, Answered

\* list receives a page.
LEMMA PageHolds ==
  ASSUME IInv, UInv, IInv', NEW w \in Worker, Page(w)
  PROVE  UInv'
  <1>1. UNCHANGED <<box, _file_cache>> /\ call[w].pc # "forget"
    BY DEF Page
  <1>2. PICK l : l = call[w] /\ l \in Local /\ CallOK(w, l) /\ l.pc = "page"
    BY DEF Page, IInv
  <1>3. l.req.op = "list"
    BY <1>2 DEF CallOK, Fits
  <1>4. PICK s, m : m = Resume(l, s) /\ Run(w, m)
    BY <1>2 DEF Page
  <1>5. QED
    BY <1>1, <1>2, <1>3, <1>4, ListingGoesOn

\* list takes an item.
LEMMA ListItemHolds ==
  ASSUME IInv, UInv, IInv', NEW w \in Worker, ListItem(w)
  PROVE  UInv'
  <1>1. UNCHANGED <<box, _file_cache>> /\ call[w].pc # "forget"
    BY DEF ListItem
  <1>2. PICK l : l = call[w] /\ l \in Local /\ CallOK(w, l) /\ l.pc = "item"
    BY DEF ListItem, IInv
  <1>3. l.req.op = "list" /\ l.req.key \in Sought
    BY <1>2, RequestOf DEF CallOK, Fits
  <1>4. PICK found, s : /\ found \in SUBSET Key
                        /\ \/ Run(w, Resume(l, s))
                           \/ Run(w, Resume([l EXCEPT !.found = found], s))
    <2>1. Under[l.req.key] \subseteq Key
      BY <1>3 DEF Under
    <2>2. \A name, path : l.found \cup {k \in Under[l.req.key] :
                            Folder[k] = path /\ Name[k] = name} \in SUBSET Key
      BY <1>2, <2>1 DEF Local
    <2>3. \E found, s : /\ found \in SUBSET Key
                        /\ \/ Run(w, Resume(l, s))
                           \/ Run(w, Resume([l EXCEPT !.found = found], s))
      BY <1>2, <2>2 DEF ListItem
    <2>4. QED
      BY <2>3
  <1>5. CASE Run(w, Resume(l, s))
    <2>1. PICK m : m = Resume(l, s) /\ Run(w, m)
      BY <1>5
    <2>2. QED
      BY <1>1, <1>2, <1>3, <2>1, ListingGoesOn
  <1>6. CASE Run(w, Resume([l EXCEPT !.found = found], s))
    <2>1. PICK h, m : h = [l EXCEPT !.found = found] /\ m = Resume(h, s) /\ Run(w, m)
      BY <1>6
    <2>2. h \in Local /\ h.req.op = "list"
      BY <1>2, <1>3, <1>4, <2>1 DEF Local
    <2>3. QED
      BY <1>1, <2>1, <2>2, ListingGoesOn
  <1>7. QED
    BY <1>4, <1>5, <1>6

\* Every step of the store.
LEMMA NextHolds ==
  ASSUME Undisturbed, IInv, UInv, IInv', [Next]_vars
  PROVE  UInv'
  <1>1. CASE UNCHANGED vars
    BY <1>1 DEF vars, UInv, Fresh, OwnMemos, Held, GetOK
  <1>2. ASSUME NEW w \in Worker, NEW r \in Requests[w], Call(w, r) PROVE UInv'
    BY <1>2, CallHolds
  <1>3. ASSUME NEW w \in Worker, Step(w) PROVE UInv'
    <2>1. CASE Return(w)
      BY <2>1, ReturnHolds
    <2>2. CASE ApiRaises(w)
      BY <2>2, ApiRaisesHolds
    <2>3. CASE Walked(w)
      BY <2>3, WalkedHolds
    <2>4. CASE Walk(w)
      BY <2>4, WalkHolds
    <2>5. CASE CreateFolder(w)
      BY <2>5, CreateFolderHolds
    <2>6. CASE LookupFolder(w)
      BY <2>6, LookupFolderHolds
    <2>7. CASE Resolve(w)
      BY <2>7, ResolveHolds
    <2>8. CASE Find(w)
      BY <2>8, FindHolds
    <2>9. CASE Memo(w)
      BY <2>9, MemoizeHolds
    <2>10. CASE Upload(w)
      BY <2>10, UploadHolds
    <2>11. CASE Version(w)
      BY <2>11, VersionHolds
    <2>12. CASE Record(w)
      BY <2>12, RecordHolds
    <2>13. CASE Download(w)
      BY <2>13, DownloadHolds
    <2>14. CASE RemoveFile(w)
      BY <2>14, RemoveFileHolds
    <2>15. CASE Forget(w)
      BY <2>15, ForgetHolds
    <2>16. CASE Page(w)
      BY <2>16, PageHolds
    <2>17. CASE ListItem(w)
      BY <2>17, ListItemHolds
    <2>18. QED
      BY <1>3, <2>1, <2>2, <2>3, <2>4, <2>5, <2>6, <2>7, <2>8, <2>9, <2>10, <2>11, <2>12,
         <2>13, <2>14, <2>15, <2>16, <2>17 DEF Step
  <1>4. QED
    BY <1>1, <1>2, <1>3 DEF Next

-----------------------------------------------------------------------------
(* What follows at any moment *)

\* The inductive invariant holds throughout.
THEOREM UndisturbedInvariance ==
  ASSUME Undisturbed
  PROVE  Spec => [](IInv /\ UInv)
  <1>1. Init => IInv /\ UInv
    BY InitIInv, InitUInv
  <1>2. IInv /\ UInv /\ [Next]_vars => (IInv /\ UInv)'
    BY NextStep, NextHolds
  <1>3. QED
    BY <1>1, <1>2, PTL DEF Spec

\* exists, which answers from its memo and never asks Box again, tells the truth
\* when no call is under way: a memoized id names a file that is there.  An upload
\* is skipped only where its blob is stored.
THEOREM MemosTellTruth ==
  ASSUME Undisturbed
  PROVE  Spec => []ExistsTellsTruth
  <1>1. UInv => ExistsTellsTruth
    <2>1. SUFFICES ASSUME UInv, \A w \in Worker : call[w].pc = "idle",
                          NEW p \in Process, NEW k \in Key, _file_cache[p][k] # None
                   PROVE  box[_file_cache[p][k]] # None
      BY DEF ExistsTellsTruth
    <2>2. QED
      BY <2>1 DEF UInv, Fresh
  <1>2. QED
    BY <1>1, UndisturbedInvariance, PTL

\* get of a blob that is not there raises BlobNotFoundError: the 404 of a stale
\* id, which would reach the caller as a BoxAPIError, does not occur.
THEOREM GetsRaiseNotFound ==
  ASSUME Undisturbed
  PROVE  Spec => []GetRaisesNotFound
  <1>1. UInv => GetRaisesNotFound
    BY DEF UInv, GetOK, GetRaisesNotFound
  <1>2. QED
    BY <1>1, UndisturbedInvariance, PTL
=============================================================================
