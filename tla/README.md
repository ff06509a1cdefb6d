# Verification of deepagents-blob

`deepagents_blob` lets a deepagents file backend keep large files elsewhere:
`OffloadingBackend` wraps an *inner* backend and a `BlobStore`; content above a
threshold goes to the store, and the inner backend keeps a small *pointer stub*.
This directory holds TLA+ models of that code, TLC runs over small instances,
and TLAPS proofs for all instances. Line numbers refer to
`src/src/deepagents_blob/`, those of the example to `src/examples/`.

## Inventory

| Component | State it keeps | Operations | What makes it correct |
|---|---|---|---|
| `_ByteCache` (offloading.py 108-131) | an ordered dict of bytes by sha256, a byte counter | `get`, `put` | never over budget, never pops an empty dict, answers only what was last stored, LRU order |
| pointer stubs (64-105, 343-359) | none | `make_pointer`, `parse_pointer`, `default_key_fn` | a pointer is recognised, and names the bytes it was made of |
| `OffloadingBackend` file operations (161-335) | references to inner, store and cache | `read`, `write`, `edit`, `delete`, `upload_files`, `download_files` | transparent; no stub without its blob; success means stored; every call ends |
| `OffloadingBackend` listing (216-235) | none | `ls`, `grep`, `glob` | hits in pointer JSON are dropped, no other |
| async twins (337-340, protocol.py 174-190) | none | the sync methods in threads | whatever concurrent sync calls guarantee |
| `BlobStore` (stores/protocol.py) | a map from keys to bytes | `put`, `get`, `exists`, `delete`, `list` | every call takes effect at once |
| `InMemoryBlobStore` (stores/memory.py) | a dict | the same | it is the contract |
| `BoxBlobStore` (stores/box.py) | memos of folder ids and file ids, per process | the same, over folders and file ids | one folder tree whoever creates it; memos agree with Box; the contract |
| `S3CompatibleStore` (stores/s3.py) | a key prefix per tenant | the same; a stream's `put` and `list` take several requests | tenants stay apart; the contract, up to `exists` taking an error for absence |
| `EgnyteBlobStore` | none | raises `NotImplementedError` | - |
| `examples/chat.py` | sqlite checkpoint, thread file, Downloads | chat loop, `fetch_url`, `save_to_downloads` | a restart resumes the session in use; a save overwrites nothing |
| `examples/run_agent.py`, `wiring.py` | none | one-shot agent, configuration | - |

How they interact: a file operation calls the inner backend, the store and the
cache one after the other, without a lock. Several run at once, since the async
twins put the sync methods on threads. LangGraph saves the inner backend's state
as checkpoints, resumes from them and forks them; the store is outside of that,
and blobs are deleted only by a retention rule or a sweep, behind everybody's
back. Box is shared by processes whose memos are their own, and an S3 bucket by
tenants whose only wall is the prefix of their keys. The chat example runs one
agent on top of all this; the tools of one message run at once.

What is hard to test here: calls of two threads between the inner reads, the
store and the stub write, or inside one method of the cache; failures after an
effect; checkpoints that still refer to a blob; memos and cache entries that
outlive what they describe; the byte counter after a key is stored twice;
listings in pages that others overtake; a death between the two halves of a file
write. `PROJECT.json` lists each such hazard with
its line and the properties about it.

## Modules

| Module | Models | Correspondence |
|---|---|---|
| `LossyCache` | what a byte cache promises (abstract) | a lookup gives nothing or what was last stored |
| `ByteCache` | `_ByteCache`, one call at a time | `data` and `order` are the ordered dict, `used` is `_used`; the loop of `put` is the action `Evict`, one iteration a step |
| `ByteCacheThreads` | `_ByteCache` under threads | every access to `_data` and `_used` is a step; `+=` is a load and a store |
| `PointerStub` | the stub format | a pointer is a record of key, digest and text flag; `Denotes` is the file a stub stands for |
| `FileBackend` | what a backend promises its callers (abstract) | a map of whole files; every item of a call takes effect at once |
| `OffloadingBackend` | the six file operations | `inner`, `store`, `cache`; `call[c]` holds the locals of the method that caller `c` is in |
| `BlobStore` | the store contract (abstract) and `InMemoryBlobStore` | `objects` is `_objects`; `during` is what a listing may still answer |
| `BoxStore` | `BoxBlobStore` and the part of Box it uses | `_folder_cache`, `_file_cache`; `box` is Box, by id; `call[w]` the locals of a worker, the generators of `list` included |
| `S3Store` | `S3CompatibleStore`, several on one bucket | `bucket` by object name; `call[c]` the locals of a client |
| `ChatSession` | `current_thread_id`, `main` and `save_to_downloads` of chat.py | `thread_file`, `downloads`; `tool[s]` the locals of a save |
| `MC*` | TLC instances | constants only |
| `ByteCacheProofs`, `S3Proofs`, `ChatProofs` | theorems | each extends its component |
| `OffloadingProofs`, `OffloadingEdits`, `OffloadingTransparent` | theorems about `OffloadingBackend` | each extends the one before |
| `BoxProofs`, `BoxUndisturbed` | theorems about `BoxStore` | the second extends the first |

`OffloadingBackend` uses the cache through `LossyCache!AfterPut`, so it relies on
nothing that `ByteCache` is not shown to provide. It is shown to implement
`FileBackend`, and `BoxStore` and `S3Store` to implement `BlobStore`.
`ByteCacheThreads` is what `ByteCache` leaves out: it shows that the cache keeps
its promise only while no two threads are inside it.

### OffloadingBackend

All methods are one loop over items; `read`, `write`, `edit` and `delete` have
one item, the two batch methods several. `Entry` says where an item begins
(size test for writes, probe for reads), `Advance` goes to the next one, and the
items left to the inner backend (`passthrough`) follow the loop, as in the code.
One step is one call to the inner backend, the store or the cache:

    probe -> lookup -> load -> keep          _read_stub, _cache.get, store.get, _cache.put
    exists -> put -> cache -> send           _offload, _write_stub
    write, delegate -> inner                 inner.write; passthrough

`edit` goes through the first line and then, with the replaced content, through
the second or through `write`. Exceptions follow the code: `upload_files` turns
those of `_offload` and `_write_stub` into a response, `BlobNotFoundError` of a
`get` becomes an error response, everything else ends the call.

Around it: `Checkpoint` saves `inner`; `Restart` is a crash followed by a resume
or fork from a saved state, with an empty cache and no call under way; `Sweep`
deletes any blob, referred to or not.

Abstractions. A read returns the whole content (windows and slicing are left
out). A cache call is one step. An inner call that fails has no effect. The inner
backend handles the items of one batch call one after the other, as the one in
the tests does; the code hands them over in one call. Replies carry the index of
the item they answer; the code's responses carry the path. An `edit` finds no
match in binary content. Sha256 has no collisions. What `download_files` makes of a
stub whose encoding is "external" is the value `Mangled`.

An inner `edit` can reach pointer JSON: after a probe that failed, or after a write
that offloaded the file since the probe. What it leaves there is any value of the
constant `Rewritten`: `Mangled`, when the JSON no longer parses, or a *pointer* with
another key, sha256 or text flag, or without one of them, for `parse_pointer` asks for
the marker only. Such pointers are followed like any other: a missing field is a
`KeyError` (`FieldMissing`), binary bytes under a text flag a `UnicodeDecodeError`
(`Undecodable`), and what the wrong key gave is cached under the digest it stands
with (`Keep`). The history variable `edited` remembers the pointers that came about
like this, so that the properties can say whom they harm: `Mispaired` is the set of the
digests that one of them pairs with the key of another content.

### BoxStore

One step is one Box API call, and each use of a memo that such a call separates
from what it is based on (`Memo`, `Record`, `Forget`). Box is a set of items with
ids, parents, names and the path that leads to them; names are unique within a
folder, ids are not reused, and nothing is renamed or moved.
A 409 may or may not carry the id of the existing item, as `_conflict_id` allows
for. `ApiFaults` lets any call raise, before or after its effect. The shortcut
for a path that is memoized as a whole is not a step of its own: memos are always
filled from the outside in, so the walk over its segments gives the same id. In
a walk, the search through the pages of one folder is one step; `list` reads
every page in a step of its own (`Page`) and handles every item in another
(`ListItem`), its stack of generators being `stack`. A page is the set of its items,
taken in the order of their ids. Box's marker stands for the last item handed out,
so pages neither repeat nor skip what stays in the folder. Prefixes are sequences of
tokens, since a prefix may end in the middle of a name. Assumed: no key is a folder
of another (`KeysAreFiles`), as with the keys of `default_key_fn`, which all have the
same depth; Box itself would refuse the one or the other.

### BlobStore

`put`, `get`, `exists` and `delete` take effect at one moment between call and
return. `list` cannot, in an adapter that reads pages: it answers every key under
the prefix that was there from its call to its answer, and none that was not
there at some moment in between. `during` keeps these two sets while a listing is
open. `MayFail` lets a call raise after or before its effect, even when its answer
was already decided; `MayMiss` lets `exists` answer no for an error.

### S3Store

One store per tenant on one bucket; a request to the provider is one step. `put`
of a stream uploads and then looks the object up; `list` takes a page a step,
whose marker is the last name seen. `ApiFaults` lets every request raise before
or after its effect; `exists` turns errors into no (and any other exception is
raised). Object names are sequences, so that the prefix is really cut off and one
name may begin another. Assumed: no tenant's prefix begins another's
(`PrefixesApart`), as with the `f"{tenant_id}/"` of the docstring.

### ChatSession

`write_text` and `write_bytes` are two steps, truncation and write, so a death
between them leaves an empty file; `Down` is a death or a `/quit` anywhere. Several
saves run at once, each testing names one by one, and other programs may create
files; nobody but the saves removes or rewrites one.

## Runs

Every run is small enough to be exhaustive. Passing runs:

* `cache_reput` - three digests, any bytes of length 1 to 5 under each, a budget of 4:
  the longest are refused, one may fill the cache, two may fit or not, and a third
  may take one or two others with it; `put`
  may repeat a resident digest, as `_offload` does. Budget, termination of eviction,
  inductive invariant, and refinement of `LossyCache`. `CounterExact`, `LruOrder` and
  `EvictOnlyOverBudget` speak of the time until the first such repetition (`reput`):
  line 127 then keeps the old place in the order and line 128 counts the bytes a
  second time. The others show that this costs no more than hits: the budget still
  holds, and the loop still ends.
* `offload_transparent` - one caller with every method, on two paths, with small and
  large texts and binaries, edits that grow, shrink and swap, batches of two, a
  batch that names one path twice; store failures, refused and raising inner
  calls, and sweeps. The caller cannot tell the backend from `FileBackend`, and
  nothing but an inner edit leaves a large content inline (`OnlyEditGrows`).
* `offload_fallback` - two callers on paths of their own with equal contents, so that
  they share blobs and cache entries, over an inner backend without
  `_send_files_update`; also that every call ends.
* `offload_shared` - two callers on one path, one of which edits and deletes what the
  other writes and uploads, over an inner backend without `_send_files_update`, with
  store failures, failing probes and refused writes, two saved states and restarts.
  Edits of stub JSON leave nothing that parses, a text pointer to the blob of a
  binary, a pointer without its sha256, or one without its key. `NoDanglingStub`:
  every stub but those has its blob. The inductive invariant: blobs stay what their
  keys name, and only the cache entry of a mispaired digest is ever wrong.
  `EditAppliesToFound`: however edits race with writes, what an edit stores is its
  replacement of the version it probed, and not of cached or fetched bytes of
  another, a mispaired digest excepted.
* `box_sequential` - two threads of one process: one with every operation on two keys,
  of which one lies in a folder inside the folder of the other; the other thread
  lists meanwhile, with one item in a page. Contract and memos, and that a listing
  misses and invents nothing.
* `box_processes` - two processes, no deletes (the backend never deletes), folder and
  upload races, and API failures before and after the effect.
* `s3_tenants` - two tenants that use the same keys, streams, one name in a page,
  requests that raise before or after their effect. Each client sees a map of its
  tenant's own, and objects change only by their tenant.
* `chat_session` - two thread ids, two saves at once over three files with colliding
  names, one further name to fall back to. `Sticky` and `KeepsExisting`.

Bounds. Two callers suffice for each race in the code, which involves one
reader or writer and one interfering writer; two paths and two items reach
every branch of the batch loops; contents are one per class the code tells apart
(small or large, text or binary) plus a second large text for `edit`. Two saved
states are the initial one and one more; the proofs cover any number. `MaxId`
bounds the ids of Box: `RoomForPut` lets a `put` begin only when enough are left,
so no run stops for lack of ids. Three rewritten pointers reach every step that only
such a pointer can take (a missing key, a missing sha256, binary bytes as text) and
the cache entry that is wrong; the proofs cover any `Rewritten`. No run uses symmetry.

Fairness. `FairSpec` of the backend says that a thread inside a method keeps
running and that inner backend and store answer or raise. Nothing is assumed of
new calls, checkpoints, restarts or sweeps. `FairSpec` of the cache says the same
of the loop in `put`, which never waits.

Violation runs, each showing where the code departs from its own text:

* `read_race_violation` - `read` probes and reads in two inner calls. A write that
  offloads the file in between makes it answer the pointer JSON.
* `upload_error_violation` - `upload_files` drops the result of `_write_stub` and
  reports success for a stub that was refused.
* `box_stale_exists_violation` - `exists` answers from the memo of a file that another
  process deleted, so `_offload` skips the upload and writes a stub of a blob that
  is gone.
* `cache_threads_violation` - two threads that offload one content at once both count
  its bytes in `_used`, and both find it over the budget before either pops. The first
  pops the only entry; `popitem` of the empty dict raises `KeyError` out of the
  other's read or write.

Other departures met while modelling are hazards with a note in `PROJECT.json`:
the order of `upload_files` (306), pointer lookalikes (99), failing probes (195),
large overwrites on Box (box.py 178), failing deletes on Box (box.py 223), the edit
of stub JSON that leaves another pointer there (268) and the bytes that such a pointer
puts into the cache under a digest not theirs (177), the edit that grows an inline file above the threshold (268), the update that is lost to an
edit which fetched before it (279), the empty session id after a death in
`write_text` (chat.py 44).

## Proofs

All theorems hold for every value of the constants that satisfies the named
assumptions; `tlapm` checks every leaf.

`ByteCacheProofs` (assumes finitely many digests and lengths in `Nat`). The
budget is not inductive by itself, since the counter is wrong after a digest is
stored twice. The invariant `IInv` adds that the order lists the resident digests
once each, that no entry exceeds the budget, and that the counter is at least the
bytes held and *exceeds them by at most the budget* - an excess that eviction
preserves and `put` can only enlarge up to what the loop test lets through. From it
follow `TypeCorrect`, `NoEmptyPop` (an empty dict holds no bytes, so the counter
is within the budget and the loop has ended), `Bounded`, and `Implementation`, the
refinement of `LossyCache`. Byte totals are cardinalities of finite sets, which
avoids induction. `ExactUntilReput`: while no digest was stored again, the counter
is exactly the bytes held. `LeastRecentlyUsed` and `EvictsOnlyOverBudget` are about the
same time: with the history of uses (`older`), the dict lists its entries in the order
of their last use, and a step drops one only while they exceed the budget together.

`OffloadingProofs` (assumes that digests and keys do not collide, and
`NoLookalike`: no user content is pointer JSON). `IInv` joins the types, content
addressing of store and cache, that every pointer in the inner backend or a saved
state is one `_offload` made or an edit of JSON left (`StubsKnown`), that the blob of
the former is there while nothing is swept, and for each call under way where it
stands (`CallOK`), that the pointer it follows is of one of the two kinds (`Follows`),
and that from the test of `exists` to the write of the stub its blob is there
(`BlobThere`). Call and blob are what makes `NoDanglingStub` inductive: the write of a
stub is backed by the blob its own call saw or stored. The two kinds are what makes
`ContentAddressed` so: the bytes of a key are cached under another digest only by
a pointer of the second kind, and the digest then is `Mispaired`. There is one lemma
per action. The theorems are for any number of callers, paths, contents, batches,
failures and saved states, and for anything that edits make of pointer JSON.

`OffloadingEdits` adds to that invariant what a call knows of the content it is about
to store (`EditInv`): an edit with its new content made it from the content of its
stub, since the bytes it looked up or fetched have the digest of its pointer (unless
that is mispaired, which a digest stays once it is); and
whatever waits to be written inline is small, because each item was tested when
its turn came and is not tested again. `EditsApplied` and `InlineBounded` follow, step
by step, for the two properties of what a step stores.

`OffloadingTransparent` proves `Transparency`, the refinement of `FileBackend`, for
callers each on paths of its own (`OwnPaths`; two callers on one path are the subject
of `read_race_violation`), where no content looks like a pointer, a probe that fails
is not taken for a file without a stub, a stub that is refused is not reported as
stored, and nobody resumes from a saved state. Then no edit reaches the JSON of a stub
(`Unedited`). The invariant joins `IInv` and
`EditInv` with `TraceInv`: which items of a call are answered, what is left to the
inner backend, and that the file a call has probed is still the one it goes on with,
its stub still there and its bytes, once at hand, those of the file. Every step then
is one of `FileBackend` or changes nothing that a caller sees.

`S3Proofs` (assumes `PrefixesApart`). `NamesApart`: two tenants' keys never have the
same object name, since two names that agree would make one prefix begin the
other. With an invariant that ties every call to the request it was made for,
`TenantsApart` follows: an object changes only by a put or delete of its tenant.
`Implementation` is the refinement of `BlobStore`. A listing makes it interesting: the
invariant says that what it found was there at some moment, and that each key that
was there all the time is found already, or on the page at hand, or behind the
marker (`ListOK`). With `TypeCorrect` all properties of `s3_tenants` are proved.

`ChatProofs`. `IInv` joins the types, `Sticky`, and that a save which has settled on a
name settled on one that was free after it began, no file ever going away
(`SavesAside`). From it follow `TypeCorrect`, `SessionSticks` and `NothingOverwritten`,
for any number of saves, names and rotations.

`BoxProofs` (assumes `KeysAreFiles`), whatever API calls fail and whoever deletes. The
invariant is about places: a path leads to one item, and through folders that stay
(`TreeOK`); a memoized folder is the one at its path, a memoized file the one of its
key or gone (`FolderMemosOK`, `FileMemosOK`); and a call under way has walked a prefix
of its key and stands in the folder there, holds an id of its key, or lists folders
whose paths it knows (`CallOK`). It is preserved because Box renames nothing and uses
no id twice (`Keeps`), so that what one call knows survives every step of another;
a name that a racing writer took turns out to be the folder or file both want.
`TypeCorrect`, `TreeStaysOne` and `MemosStayOwn` follow.

`BoxUndisturbed` adds what can only hold if nobody deletes behind a caller's back:
whoever deletes a blob is the only one to ask for it, and Box does not report an
error for what it did (`Undisturbed`; `box_stale_exists_violation` shows the first to
be needed). Then a memo is stale only while the delete that made it so has yet to
drop it, and a call that holds an id holds a file (`UInv`). Thus `MemosTellTruth` and
`GetsRaiseNotFound`.

Only model-checked: liveness (`EvictionEnds`, `CallsReturn`), the refinement of
`BlobStore` by `BoxStore`, and the violations.

## Not modelled

`ls`, `grep` and `glob`: one inner call each, whose answer the inner backend decides;
only `grep` filters it. Line windows of `read`. Byte ranges, presigning and upload
targets of the stores, pure functions of their arguments, and the metadata in
`BlobRef` and `BlobInfo`. Egnyte (not implemented). Of the examples: `fetch_url`, which
is one `upload_files`, the printing of a turn, and `run_agent.py` and `wiring.py`,
which configure a store. Ages of blobs: `Sweep` deletes any blob at any time, and
`NoDanglingStub` is about a store that nothing sweeps. No age limit would do, for
`exists` skips the PUT and so a young stub may refer to an old blob. Whether
upstream's `update_file_data` keeps the encoding of an entry that is written again
cannot be told from this repository: the model gives every inner write the
encoding of its content, and an edit of pointer JSON the one that was there.

## Plan

1. Done: every component above, their abstract specifications, and the proofs.
2. `Retention`: ages of blobs and of threads over `OffloadingBackend`; an `exists` that
   renews the age, against the one that does not.
3. `OffloadingOnBox`: the backend composed with `BoxStore` in place of the atomic
   store, where a stale memo becomes a dangling stub.
4. Proofs: `BoxStore` implements `BlobStore` where blobs are not disturbed, with the
   invariant of a listing that `S3Proofs` has, over a stack of folders.
