------------------------------ MODULE BoxStore ------------------------------
(***************************************************************************)
(* BoxBlobStore: the key-value contract over Box, whose content lives      *)
(* under the ids of folders and files.  A process memoizes the ids it      *)
(* learns and never asks again.  Workers are threads; those of one process *)
(* share its memos, processes share nothing but Box.  A Box API call is    *)
(* one step, and so is each use of a memo that an API call separates from  *)
(* the decision it is based on.                                            *)
(***************************************************************************)
EXTENDS Naturals, Sequences, FiniteSets, SequencesExt

CONSTANTS
  Worker,
  Process,
  Home,       \* Home[w]: the process of w
  Key,
  Folder,     \* Folder[k]: the folder names in k, outermost first
  Name,       \* Name[k]: what follows the last "/" of k
  Spell,      \* Spell[n]: the text of the name n, as a sequence of tokens
  Sought,     \* the prefixes, sequences of tokens, that list may be asked for
  Raw,        \* byte strings
  Big,        \* those of at least _CHUNKED_UPLOAD_MIN bytes
  Requests,   \* Requests[w]: the calls that w may make
  ApiFaults,  \* API calls may raise "before" or "after" they take effect
  PageLimit,  \* _PAGE_LIMIT
  MaxId,      \* bound: the ids that Box can hand out
  None

\* The key of a list is a prefix.
Request ==
  [op : {"put", "get", "exists", "delete"}, key : Key, raw : Raw \cup {None}]
    \cup [op : {"list"}, key : Sought, raw : {None}]

Segment == DOMAIN Spell

ASSUME BoxAssumption ==
  /\ Home \in [Worker -> Process]
  /\ IsFiniteSet(Key) /\ IsFiniteSet(Worker)
  /\ Folder \in [Key -> Seq(Segment)] /\ Name \in [Key -> Segment]
  /\ \A j, k \in Key : Folder[j] = Folder[k] /\ Name[j] = Name[k] => j = k
  /\ Spell \in [Segment -> Seq(STRING)] /\ Sought \subseteq Seq(STRING)
  /\ Big \subseteq Raw
  /\ \A w \in Worker : \A r \in Requests[w] :
       r \in Request /\ (r.op = "put" <=> r.raw \in Raw)
  /\ ApiFaults \subseteq {"before", "after"}
  /\ MaxId \in Nat /\ PageLimit \in Nat \ {0}

\* The folder names leading to k, the first i of them.
Prefix(k, i) == SubSeq(Folder[k], 1, i)

\* The names on the way to the file of k.
Path(k) == Append(Folder[k], Name[k])

\* The text of a folder path, with a "/" after every name.
Text(path) ==
  LET text[i \in 0 .. Len(path)] ==
        IF i = 0 THEN <<>> ELSE text[i - 1] \o Append(Spell[path[i]], "/")
  IN  text[Len(path)]

\* key.startswith(prefix)
Under == [p \in Sought |-> {k \in Key : IsPrefix(p, Text(Folder[k]) \o Spell[Name[k]])}]

FolderPath == UNION {{Prefix(k, i) : i \in 1 .. Len(Folder[k])} : k \in Key}

\* As with the keys of default_key_fn: no key is a folder of another.
ASSUME KeysAreFiles == \A k \in Key : Path(k) \notin FolderPath

Root == 0

Id == 0 .. MaxId

\* path: the names that lead to the item from the root.  Box moves and renames
\* nothing.
Item ==
  [parent : Id, name : Segment, kind : {"folder", "file"}, raw : Raw \cup {None},
   path : Seq(Segment)]

Answer ==
  [kind : {"ok", "error", "bytes", "BlobNotFoundError", "yes", "no", "keys"},
   bytes : Raw \cup {None} \cup SUBSET Key]

\* None is no other value.
ASSUME NoneAssumption ==
  None \notin Raw \cup Request \cup Id \cup Item \cup Answer
                \cup [always : SUBSET Key, ever : SUBSET Key]

VARIABLES
  box,            \* box[i]: the Box item with id i, or None
  nextId,         \* the id Box gives to the next item; ids are not reused
  _folder_cache,  \* _folder_cache[p][path]: the folder id memoized by p, or None
  _file_cache,    \* _file_cache[p][k]: the file id memoized by p, or None
  call,           \* call[w]: the local variables of the call of w
  during          \* history: what each list may answer, see BlobStore

vars == <<box, nextId, _folder_cache, _file_cache, call, during>>

-----------------------------------------------------------------------------
(* Box itself: names are unique within a folder *)

Children(parent, name) ==
  {i \in Id : box[i] # None /\ box[i].parent = parent /\ box[i].name = name}

\* _find_child
FindChild(parent, name, kind) ==
  LET found == {i \in Children(parent, name) : box[i].kind = kind} IN
  IF found = {} THEN None ELSE CHOOSE i \in found : TRUE

\* The names that lead from the root to folder i.
Location(i) == IF i = Root THEN <<>> ELSE box[i].path

Create(parent, name, kind, raw) ==
  /\ nextId \in Id
  /\ box' = [box EXCEPT ![nextId] =
               [parent |-> parent, name |-> name, kind |-> kind, raw |-> raw,
                path |-> Append(Location(parent), name)]]
  /\ nextId' = nextId + 1

ItemsAt(kind, path) ==
  {i \in Id : box[i] # None /\ box[i].kind = kind /\ box[i].path = path}

\* The files under a key: at most one.
FilesAt(k) == ItemsAt("file", Path(k))

FoldersAt(path) == ItemsAt("folder", path)

\* Bound: a put starts only if Box has ids left for all that the calls under
\* way may create.
RoomForPut ==
  LET missing == {path \in FolderPath : FoldersAt(path) = {}} IN
  nextId + Cardinality(missing) + Cardinality(Worker) <= MaxId + 1

-----------------------------------------------------------------------------
(* The local variables of a call *)

\* list: a generator _list_under, at work in a folder.  marker and last are
\* those of its _iter_items: where the next page begins, and whether there is
\* none.
FrameType ==
  [folder : Id, path : Seq(Segment),
   page : SUBSET [id : Id, name : Segment, kind : {"folder", "file"}],
   marker : Id, last : BOOLEAN]

Label ==
  {"idle", "walk", "create", "lookup", "resolve", "find", "memo", "upload",
   "version", "record", "download", "remove", "forget", "page", "item", "done"}

Local ==
  [pc : Label, req : Request \cup {None}, depth : Nat, parent : Id,
   id : Id \cup {None}, stack : Seq(FrameType), found : SUBSET Key,
   reply : Answer \cup {None}]

Idle ==
  [pc     |-> "idle",
   req    |-> None,
   depth  |-> 0,      \* how many folders of the key are resolved
   parent |-> Root,   \* the id of the last of them
   id     |-> None,   \* the file id the call goes on with
   stack  |-> <<>>,   \* list: the generators _list_under at work, see Frame
   found  |-> {},     \* list: the keys yielded so far
   reply  |-> None]

Reply(l, kind, bytes) ==
  [l EXCEPT !.pc = "done", !.reply = [kind |-> kind, bytes |-> bytes]]

\* BoxAPIError reaches the caller.
Error(l) == Reply(l, "error", None)

\* list enters a folder: no page of it is read yet.
Frame(folder, path) ==
  [folder |-> folder, path |-> path, page |-> {}, marker |-> Root, last |-> FALSE]

Enter_SameParent(l, id) == [l EXCEPT !.pc = "walk", !.depth = @ + 1]

\* The folder of a segment is known: on to the next segment.
Enter(l, id) == [l EXCEPT !.pc = "walk", !.depth = @ + 1, !.parent = id]

Known_NoAnswer(l, id) ==
  LET m == [l EXCEPT !.id = id] IN
  CASE l.req.op = "get"    -> [m EXCEPT !.pc = "download"]
    [] l.req.op = "exists" -> [m EXCEPT !.pc = "done"]
    [] l.req.op = "delete" -> [m EXCEPT !.pc = "remove"]
    [] l.req.op = "put"    -> [m EXCEPT !.pc = "version"]

\* The file id is known: what the call does with it.
Known(l, id) ==
  LET m == [l EXCEPT !.id = id] IN
  CASE l.req.op = "get"    -> [m EXCEPT !.pc = "download"]
    [] l.req.op = "exists" -> Reply(m, "yes", None)
    [] l.req.op = "delete" -> [m EXCEPT !.pc = "remove"]
    [] l.req.op = "put"    -> [m EXCEPT !.pc = "version"]

NotFound_Strict(l) ==
  CASE l.req.op = "exists" -> Reply(l, "no", None)
    [] OTHER               -> Reply(l, "BlobNotFoundError", None)

\* _resolve_file_id raises BlobNotFoundError.
NotFound(l) ==
  CASE l.req.op = "exists" -> Reply(l, "no", None)
    [] l.req.op = "delete" -> Reply(l, "ok", None)
    [] OTHER               -> Reply(l, "BlobNotFoundError", None)

Run(w, l) == call' = [call EXCEPT ![w] = l]

Memos(w) == _file_cache[Home[w]]

Remember_ByName(w, k, id) ==
  _file_cache' = [_file_cache EXCEPT ![Home[w]] =
                    [i \in Key |-> IF Name[i] = Name[k] THEN id ELSE @[i]]]

Remember(w, k, id) ==
  _file_cache' = [_file_cache EXCEPT ![Home[w]][k] = id]

RememberFolder(w, path, id) ==
  _folder_cache' = [_folder_cache EXCEPT ![Home[w]][path] = id]

\* How an API call that took effect goes on: normally, or by raising.
Outcomes(l) == {l} \cup {x \in {Error(l)} : "after" \in ApiFaults}

-----------------------------------------------------------------------------
Init ==
  /\ box = [i \in Id |-> None]
  /\ nextId = Root + 1
  /\ _folder_cache = [p \in Process |-> [path \in FolderPath |-> None]]
  /\ _file_cache = [p \in Process |-> [k \in Key |-> None]]
  /\ call = [w \in Worker |-> Idle]
  /\ during = [w \in Worker |-> None]

Call(w, r) ==
  /\ call[w].pc = "idle"
  /\ r.op = "put" => RoomForPut
  /\ Run(w, CASE r.op = "put"  -> [Idle EXCEPT !.req = r, !.pc = "walk"]
              [] r.op = "list" -> [Idle EXCEPT !.req = r, !.pc = "page",
                                               !.stack = <<Frame(Root, <<>>)>>]
              [] OTHER         -> [Idle EXCEPT !.req = r, !.pc = "resolve"])
  /\ UNCHANGED <<box, nextId, _folder_cache, _file_cache>>

Return(w) ==
  /\ call[w].pc = "done"
  /\ Run(w, Idle)
  /\ UNCHANGED <<box, nextId, _folder_cache, _file_cache>>

\* An API call that fails before it takes effect.
ApiRaises(w) ==
  /\ "before" \in ApiFaults
  /\ call[w].pc \in {"walk", "create", "lookup", "find", "download", "remove",
                     "upload", "version", "page"}
  /\ Run(w, Error(call[w]))
  /\ UNCHANGED <<box, nextId, _folder_cache, _file_cache>>

-----------------------------------------------------------------------------
(* _walk_folder *)

\* All folders are resolved.
Walked(w) ==
  LET l == call[w] IN
  /\ l.pc = "walk" /\ l.depth = Len(Folder[l.req.key])
  /\ Run(w, [l EXCEPT !.pc = IF l.req.op = "put" THEN "upload" ELSE "find"])
  /\ UNCHANGED <<box, nextId, _folder_cache, _file_cache>>

\* The next segment, from the memo or by listing its parent; only put creates
\* what is missing.
Walk(w) ==
  LET l == call[w]
      k == l.req.key
      path == Prefix(k, l.depth + 1)
      cached == _folder_cache[Home[w]][path]
      found == FindChild(l.parent, Folder[k][l.depth + 1], "folder")
  IN
  /\ l.pc = "walk" /\ l.depth < Len(Folder[k])
  /\ CASE cached # None ->
            Run(w, Enter(l, cached)) /\ UNCHANGED _folder_cache
       [] cached = None /\ found # None ->
            Run(w, Enter(l, found)) /\ RememberFolder(w, path, found)
       [] cached = None /\ found = None ->
            /\ Run(w, IF l.req.op = "put" THEN [l EXCEPT !.pc = "create"]
                                          ELSE NotFound(l))
            /\ UNCHANGED _folder_cache
  /\ UNCHANGED <<box, nextId, _file_cache>>

\* create_folder.  The 409 of a racing writer may carry the id of its folder.
CreateFolder(w) ==
  LET l == call[w]
      k == l.req.key
      path == Prefix(k, l.depth + 1)
      name == Folder[k][l.depth + 1]
      taken == Children(l.parent, name)
  IN
  /\ l.pc = "create"
  /\ \/ /\ taken = {}
        /\ Create(l.parent, name, "folder", None)
        /\ \E m \in Outcomes(Enter(l, nextId)) :
             /\ Run(w, m)
             /\ IF m.pc = "walk" THEN RememberFolder(w, path, nextId)
                                 ELSE UNCHANGED _folder_cache
     \/ /\ taken # {}
        /\ \/ /\ Run(w, [l EXCEPT !.pc = "lookup"])
              /\ UNCHANGED _folder_cache
           \/ \E id \in taken :
                /\ Run(w, Enter(l, id))
                /\ RememberFolder(w, path, id)
        /\ UNCHANGED <<box, nextId>>
  /\ UNCHANGED _file_cache

\* The lookup after a 409 without an id.
LookupFolder(w) ==
  LET l == call[w]
      k == l.req.key
      found == FindChild(l.parent, Folder[k][l.depth + 1], "folder")
  IN
  /\ l.pc = "lookup"
  /\ IF found = None
     THEN Run(w, Error(l)) /\ UNCHANGED _folder_cache
     ELSE /\ Run(w, Enter(l, found))
          /\ RememberFolder(w, Prefix(k, l.depth + 1), found)
  /\ UNCHANGED <<box, nextId, _file_cache>>

-----------------------------------------------------------------------------
(* _resolve_file_id *)

Resolve(w) ==
  LET l == call[w]
      cached == Memos(w)[l.req.key]
  IN
  /\ l.pc = "resolve"
  /\ Run(w, IF cached # None THEN Known(l, cached) ELSE [l EXCEPT !.pc = "walk"])
  /\ UNCHANGED <<box, nextId, _folder_cache, _file_cache>>

Find(w) ==
  LET l == call[w]
      found == FindChild(l.parent, Name[l.req.key], "file")
  IN
  /\ l.pc = "find"
  /\ Run(w, IF found = None THEN NotFound(l)
            ELSE [l EXCEPT !.pc = "memo", !.id = found])
  /\ UNCHANGED <<box, nextId, _folder_cache, _file_cache>>

\* The id found is memoized, whatever happened since it was found.
Memo(w) ==
  LET l == call[w] IN
  /\ l.pc = "memo"
  /\ Remember(w, l.req.key, l.id)
  /\ Run(w, Known(l, l.id))
  /\ UNCHANGED <<box, nextId, _folder_cache>>

-----------------------------------------------------------------------------
(* put, get and delete *)

\* upload_file or upload_big_file.  Only the former's 409 is handled: the file
\* gets a new version, under the id in the response or the one resolved.
Upload(w) ==
  LET l == call[w]
      k == l.req.key
      taken == Children(l.parent, Name[k])
      cached == Memos(w)[k]
  IN
  /\ l.pc = "upload"
  /\ \/ /\ taken = {}
        /\ Create(l.parent, Name[k], "file", l.req.raw)
        /\ \E m \in Outcomes([l EXCEPT !.pc = "record", !.id = nextId]) : Run(w, m)
     \/ /\ taken # {} /\ l.req.raw \in Big
        /\ Run(w, Error(l))
        /\ UNCHANGED <<box, nextId>>
     \/ /\ taken # {} /\ l.req.raw \notin Big
        /\ \/ \E id \in taken : Run(w, Known(l, id))
           \/ Run(w, IF cached # None THEN Known(l, cached)
                                      ELSE [l EXCEPT !.pc = "find"])
        /\ UNCHANGED <<box, nextId>>
  /\ UNCHANGED <<_folder_cache, _file_cache>>

\* upload_file_version; a file deleted meanwhile is a 404.
Version(w) ==
  LET l == call[w] IN
  /\ l.pc = "version"
  /\ \/ /\ box[l.id] # None
        /\ box' = [box EXCEPT ![l.id].raw = l.req.raw]
        /\ \E m \in Outcomes([l EXCEPT !.pc = "record"]) : Run(w, m)
     \/ /\ box[l.id] = None
        /\ Run(w, Error(l))
        /\ UNCHANGED box
  /\ UNCHANGED <<nextId, _folder_cache, _file_cache>>

\* put memoizes the id of the file it stored.
Record(w) ==
  LET l == call[w] IN
  /\ l.pc = "record"
  /\ Remember(w, l.req.key, l.id)
  /\ Run(w, Reply(l, "ok", None))
  /\ UNCHANGED <<box, nextId, _folder_cache>>

\* download_file; a file deleted meanwhile, or a stale id, is a 404, which get
\* does not turn into BlobNotFoundError.
Download(w) ==
  LET l == call[w] IN
  /\ l.pc = "download"
  /\ Run(w, IF box[l.id] = None THEN Error(l) ELSE Reply(l, "bytes", box[l.id].raw))
  /\ UNCHANGED <<box, nextId, _folder_cache, _file_cache>>

\* delete_file_by_id, a 404 being ignored.
RemoveFile(w) ==
  LET l == call[w] IN
  /\ l.pc = "remove"
  /\ box' = [box EXCEPT ![l.id] = None]
  /\ \E m \in Outcomes([l EXCEPT !.pc = "forget"]) : Run(w, m)
  /\ UNCHANGED <<nextId, _folder_cache, _file_cache>>

Forget_NotDone(w) ==
  LET l == call[w] IN
  /\ l.pc = "forget"
  /\ Run(w, Reply(l, "ok", None))
  /\ UNCHANGED <<box, nextId, _folder_cache, _file_cache>>

\* delete drops the memo.
Forget(w) ==
  LET l == call[w] IN
  /\ l.pc = "forget"
  /\ Remember(w, l.req.key, None)
  /\ Run(w, Reply(l, "ok", None))
  /\ UNCHANGED <<box, nextId, _folder_cache>>

-----------------------------------------------------------------------------
(* list: _list_under over the pages of _iter_items *)

\* Where list stands with these generators, the innermost last: each that has
\* no item and no page left ends.
Resume(l, stack) ==
  LET live == {i \in DOMAIN stack : stack[i].page # {} \/ ~ stack[i].last}
      left == IF live = {} THEN <<>> ELSE SubSeq(stack, 1, Max(live))
      m == [l EXCEPT !.stack = left]
  IN  CASE left = <<>>            -> Reply(m, "keys", l.found)
        [] left # <<>> /\ Last(left).page = {} -> [m EXCEPT !.pc = "page"]
        [] OTHER                  -> [m EXCEPT !.pc = "item"]

\* The items of the folder that follow the marker, the id of the last item read.
ToRead(frame) ==
  {i \in Id : box[i] # None /\ box[i].parent = frame.folder /\ i > frame.marker}

Turn_OnePage(frame, ids, marker, last) ==
  [frame EXCEPT
     !.page   = {[id |-> i, name |-> box[i].name, kind |-> box[i].kind] : i \in ids},
     !.marker = marker,
     !.last   = TRUE]

\* The generator over a folder when it has received a page of these items.
Turn(frame, ids, marker, last) ==
  [frame EXCEPT
     !.page   = {[id |-> i, name |-> box[i].name, kind |-> box[i].kind] : i \in ids},
     !.marker = marker,
     !.last   = last]

\* get_folder_items: the next items, up to the last one the page has room for.
Page(w) ==
  LET l == call[w]
      frame == Last(l.stack)
      rest == ToRead(frame)
      upto(i) == {j \in rest : j <= i}
      Go(top) == Run(w, Resume(l, Front(l.stack) \o <<top>>))
  IN
  /\ l.pc = "page"
  /\ \/ Cardinality(rest) <= PageLimit /\ Go(Turn(frame, rest, frame.marker, TRUE))
     \/ \E i \in rest :
          /\ Cardinality(rest) > PageLimit /\ Cardinality(upto(i)) = PageLimit
          /\ Go(Turn(frame, upto(i), i, FALSE))
  /\ UNCHANGED <<box, nextId, _folder_cache, _file_cache>>

\* An item of the page: the folders on the way to the prefix or under it are
\* memoized and entered, the files under it yielded.
ListItem(w) ==
  LET l == call[w]
      frame == Last(l.stack)
  IN
  /\ l.pc = "item"
  /\ \E item \in frame.page :
       LET path == Append(frame.path, item.name)
           stack == Front(l.stack) \o <<[frame EXCEPT !.page = @ \ {item}]>>
           leads == IsPrefix(Text(path), l.req.key) \/ IsPrefix(l.req.key, Text(path))
       IN
       /\ \A other \in frame.page : item.id <= other.id
       /\ \/ /\ item.kind = "folder" /\ leads
             /\ Run(w, Resume(l, Append(stack, Frame(item.id, path))))
             /\ IF _folder_cache[Home[w]][path] = None
                THEN RememberFolder(w, path, item.id)
                ELSE UNCHANGED _folder_cache
          \/ /\ item.kind = "folder" /\ ~ leads
             /\ Run(w, Resume(l, stack))
             /\ UNCHANGED _folder_cache
          \/ /\ item.kind = "file"
             /\ Run(w, Resume([l EXCEPT !.found = @ \cup
                                 {k \in Under[l.req.key] :
                                    Folder[k] = frame.path /\ Name[k] = item.name}], stack))
             /\ UNCHANGED _folder_cache
  /\ UNCHANGED <<box, nextId, _file_cache>>

Step(w) ==
  \/ Return(w) \/ ApiRaises(w)
  \/ Walked(w) \/ Walk(w) \/ CreateFolder(w) \/ LookupFolder(w)
  \/ Resolve(w) \/ Find(w) \/ Memo(w)
  \/ Upload(w) \/ Version(w) \/ Record(w)
  \/ Download(w) \/ RemoveFile(w) \/ Forget(w)
  \/ Page(w) \/ ListItem(w)

\* The bytes under a key, or None.
BytesAt(k) ==
  LET files == FilesAt(k) IN
  IF files = {} THEN None ELSE box[CHOOSE i \in files : TRUE].raw

\* The store as its callers see it.  Two memo updates follow the moment at
\* which the call has had its effect.
Shown(l) ==
  CASE l.pc \in {"record", "forget"}            -> [kind |-> "ok", bytes |-> None]
    [] l.pc = "memo" /\ l.req.op = "exists"    -> [kind |-> "yes", bytes |-> None]
    [] OTHER                                   -> l.reply

Blobs == [k \in Key |-> BytesAt(k)]

Asks == [w \in Worker |-> call[w].req]

Shows == [w \in Worker |-> Shown(call[w])]

Store ==
  INSTANCE BlobStore WITH
    Client  <- Worker,
    objects <- Blobs,
    asked   <- Asks,
    answer  <- Shows,
    MayFail <- ApiFaults # {},
    MayMiss <- FALSE

Next ==
  /\ \E w \in Worker : Step(w) \/ \E r \in Requests[w] : Call(w, r)
  /\ Store!Watch

Spec == Init /\ [][Next]_vars

-----------------------------------------------------------------------------
(* Correctness *)

TypeOK ==
  /\ nextId \in 1 .. MaxId + 1
  /\ box \in [Id -> Item \cup {None}]
  /\ \A i \in Id : box[i] # None => i < nextId /\ box[i].parent < i
  /\ _folder_cache \in [Process -> [FolderPath -> Id \cup {None}]]
  /\ _file_cache \in [Process -> [Key -> Id \cup {None}]]
  /\ call \in [Worker -> Local]
  /\ \A w \in Worker : call[w].pc = "idle" <=> call[w].req = None
  /\ \A w \in Worker : call[w].pc = "done" <=> call[w].reply # None

\* Processes that race to create the same folders end up in one tree: every
\* memoized folder is the folder its path leads to, and every file lies under
\* one of the keys, where any process finds it.
OneTree ==
  /\ \A p \in Process, path \in FolderPath :
       LET i == _folder_cache[p][path] IN i # None => FoldersAt(path) = {i}
  /\ \A i \in Id : box[i] # None /\ box[i].kind = "file" => \E k \in Key : FilesAt(k) = {i}

\* A memoized file id may be stale, but never names the file of another key:
\* a call for one key cannot read, replace or delete the blob of another.
MemosOwn ==
  \A p \in Process, k \in Key :
    LET i == _file_cache[p][k] IN
    i # None /\ box[i] # None => FilesAt(k) = {i}

\* get of a missing key raises BlobNotFoundError, not a provider error.
GetRaisesNotFound ==
  \A w \in Worker :
    call[w].pc = "done" /\ call[w].req.op = "get" /\ ApiFaults = {}
      => call[w].reply.kind # "error"

\* exists answers from its memo and never asks Box again: when no call is under
\* way, a memo must name a file that is there, or the upload of a blob that is
\* gone is skipped.
ExistsTellsTruth ==
  (\A w \in Worker : call[w].pc = "idle") =>
    \A p \in Process, k \in Key :
      _file_cache[p][k] # None => box[_file_cache[p][k]] # None

\* "Minimal key-value blob contract every provider adapter implements": the
\* folders, the ids and the memos cannot be told from a map.
ImplementsBlobStore == Store!Spec

=============================================================================
