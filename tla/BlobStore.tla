----------------------------- MODULE BlobStore ------------------------------
(***************************************************************************)
(* The contract of BlobStore: a map from keys to bytes on which every call *)
(* takes effect at once, at some moment between its start and its return;  *)
(* only list may look at different keys at different moments.              *)
(* InMemoryBlobStore is this map; an adapter of a provider implements it.  *)
(***************************************************************************)
CONSTANTS
  Client,
  Key,
  Raw,       \* the byte strings
  Requests,  \* Requests[c]: the calls that c may make
  Under,     \* Under[p]: the keys that start with the prefix p
  MayFail,   \* TRUE: a call may raise a provider error
  MayMiss,   \* TRUE: exists may take a provider error for a missing key
  None

VARIABLES
  objects,  \* objects[k]: the bytes under k, or None
  asked,    \* asked[c]: the call of c, or None
  answer,   \* answer[c]: what it is going to return or raise, or None
  during    \* during[c]: while c lists, the keys that have been there always
            \* and those that have been there ever since the call began

vars == <<objects, asked, answer, during>>

Init ==
  /\ objects = [k \in Key |-> None]
  /\ asked = [c \in Client |-> None]
  /\ answer = [c \in Client |-> None]
  /\ during = [c \in Client |-> None]

Ask(c, r) ==
  /\ asked[c] = None
  /\ asked' = [asked EXCEPT ![c] = r]
  /\ UNCHANGED <<objects, answer>>

Open(c, op) == asked[c] # None /\ answer[c] = None /\ asked[c].op = op

Answer(c, kind, bytes) ==
  /\ answer' = [answer EXCEPT ![c] = [kind |-> kind, bytes |-> bytes]]
  /\ UNCHANGED asked

\* "overwriting any existing object"
put(c) ==
  /\ Open(c, "put")
  /\ objects' = [objects EXCEPT ![asked[c].key] = asked[c].raw]
  /\ Answer(c, "ok", None)

\* A missing key raises BlobNotFoundError.
get(c) ==
  LET raw == objects[asked[c].key] IN
  /\ Open(c, "get")
  /\ IF raw = None THEN Answer(c, "BlobNotFoundError", None)
                   ELSE Answer(c, "bytes", raw)
  /\ UNCHANGED objects

exists(c) ==
  /\ Open(c, "exists")
  /\ \/ objects[asked[c].key] # None /\ Answer(c, "yes", None)
     \/ (objects[asked[c].key] = None \/ MayMiss) /\ Answer(c, "no", None)
  /\ UNCHANGED objects

\* "deleting a missing key is a no-op"
delete(c) ==
  /\ Open(c, "delete")
  /\ objects' = [objects EXCEPT ![asked[c].key] = None]
  /\ Answer(c, "ok", None)

\* "Iterate objects under prefix": it misses no key that is there all the time
\* and makes none up.
list(c) ==
  /\ Open(c, "list")
  /\ \E found \in SUBSET during[c].ever :
       during[c].always \subseteq found /\ Answer(c, "keys", found)
  /\ UNCHANGED objects

\* A call that raises may have had its effect.
Fail(c) ==
  /\ MayFail
  /\ asked[c] # None
  /\ answer[c] = None \/ answer[c].kind = "ok"
  /\ \/ UNCHANGED objects
     \/ asked[c].op = "put" /\ objects' = [objects EXCEPT ![asked[c].key] = asked[c].raw]
     \/ asked[c].op = "delete" /\ objects' = [objects EXCEPT ![asked[c].key] = None]
  /\ Answer(c, "error", None)

Return(c) ==
  /\ answer[c] # None
  /\ asked' = [asked EXCEPT ![c] = None]
  /\ answer' = [answer EXCEPT ![c] = None]
  /\ UNCHANGED objects

\* What a listing may answer, as of the next state.
Watch ==
  during' = [c \in Client |->
    IF asked'[c] = None \/ answer'[c] # None \/ asked'[c].op # "list"
    THEN None
    ELSE LET now == {k \in Under[asked'[c].key] : objects'[k] # None} IN
         [always |-> IF during[c] = None THEN now ELSE during[c].always \cap now,
          ever   |-> IF during[c] = None THEN now ELSE during[c].ever \cup now]]

Step(c) ==
  \/ \E r \in Requests[c] : Ask(c, r)
  \/ put(c) \/ get(c) \/ exists(c) \/ delete(c) \/ list(c)
  \/ Fail(c)
  \/ Return(c)

Next == (\E c \in Client : Step(c)) /\ Watch

Spec == Init /\ [][Next]_vars

=============================================================================
