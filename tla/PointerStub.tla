---------------------------- MODULE PointerStub -----------------------------
(***************************************************************************)
(* Pointer stubs: how content above the threshold is represented in the    *)
(* inner backend.  The JSON of a pointer is a record of the fields that    *)
(* some code reads back; its size and content_type are written only.       *)
(***************************************************************************)
EXTENDS Naturals

CONSTANTS
  Value,      \* the contents of files
  Text,       \* those that decode as UTF-8 (_decodes_utf8)
  Size,       \* Size[v]: the length of v in bytes
  Threshold,  \* the threshold of __init__
  Digest,     \* sha256 digests
  Sha,        \* Sha[v]: the digest of v
  Key,        \* blob keys
  KeyFn,      \* the key_fn of __init__
  HasSend,    \* TRUE: the inner backend has _send_files_update (StateBackend)
  Mangled,    \* what was pointer JSON: decoded as base64, or edited beyond parsing
  Rewritten,  \* what an inner edit can make of pointer JSON
  None

\* A pointer is addressed by content: two values never share a digest, two
\* digests never share a key.
ASSUME StubAssumption ==
  /\ Text \subseteq Value
  /\ Size \in [Value -> Nat] /\ Threshold \in Nat
  /\ Sha \in [Value -> Digest] /\ KeyFn \in [Digest -> Key]
  /\ \A v, w \in Value : Sha[v] = Sha[w] => v = w
  /\ \A d, e \in Digest : KeyFn[d] = KeyFn[e] => d = e
  /\ HasSend \in BOOLEAN

\* None stands for a field that is missing, which an edit of the JSON can do
\* to key and sha256; "text" then counts as TRUE.
Pointer ==
  [key : Key \cup {None}, sha256 : Digest \cup {None}, text : BOOLEAN]

\* No user file is itself the JSON of a pointer.
NoLookalike == Value \cap Pointer = {}

Large(v) == Size[v] > Threshold

BlobKey(v) == KeyFn[Sha[v]]

make_pointer(v) == [key |-> BlobKey(v), sha256 |-> Sha[v], text |-> v \in Text]

FileData ==
  [content : Value \cup Pointer \cup {Mangled},
   encoding : {"utf-8", "base64", "external"}]

ASSUME MarkAssumption ==
  /\ None \notin Value \cup Key \cup Digest \cup Pointer \cup {Mangled} \cup FileData
  /\ Mangled \notin Value \cup Pointer
  /\ Rewritten \subseteq Pointer \cup {Mangled}

\* create_file_data, and what an inner backend keeps of uploaded bytes.
Inline(v) ==
  [content |-> v, encoding |-> IF v \in Text THEN "utf-8" ELSE "base64"]

\* The stub as _write_stub leaves it: only _send_files_update keeps the
\* encoding, an inner write stores the pointer JSON as ordinary text.
Stub(v) ==
  [content  |-> make_pointer(v),
   encoding |-> IF HasSend THEN "external" ELSE "utf-8"]

\* Detection looks at the content, never at the encoding, and asks for the marker
\* only, so that JSON with other fields is a pointer as well.
parse_pointer(content) == IF content \in Pointer THEN content ELSE None

\* The file that an inner entry stands for.  A pointer that an edit has changed
\* stands for no file but itself.
Denotes(fd) ==
  IF fd = None THEN None
  ELSE IF \E v \in Value : fd.content = make_pointer(v)
       THEN CHOOSE v \in Value : fd.content = make_pointer(v)
       ELSE fd.content

=============================================================================
