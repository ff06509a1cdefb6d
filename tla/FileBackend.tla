---------------------------- MODULE FileBackend -----------------------------
(***************************************************************************)
(* What a deepagents backend promises the callers of its file operations:  *)
(* a map from paths to contents, on which every item of a call takes       *)
(* effect at once.  Nothing of it knows about offloading; that             *)
(* OffloadingBackend implements it is what "transparent" means.            *)
(***************************************************************************)
EXTENDS Naturals, Sequences

CONSTANTS
  Caller,
  Path,
  Value,
  Replace,   \* Replace[e][v]: v after the replacement e, or None (no match)
  Requests,  \* Requests[c]: the calls that c may make
  MayFail,   \* TRUE: an item may report an error, a call may raise
  Losable,   \* the contents that may have expired
  None

VARIABLES
  files,   \* files[p]: the content of p, or None
  asked,   \* asked[c]: the call of c, or None
  phase,   \* phase[c]: "idle", "busy" or "raised"
  answers  \* answers[c]: what the items of the call were answered

vars == <<files, asked, phase, answers>>

Init ==
  /\ files = [p \in Path |-> None]
  /\ asked = [c \in Caller |-> None]
  /\ phase = [c \in Caller |-> "idle"]
  /\ answers = [c \in Caller |-> {}]

Ask(c, r) ==
  /\ phase[c] = "idle"
  /\ asked' = [asked EXCEPT ![c] = r]
  /\ phase' = [phase EXCEPT ![c] = "busy"]
  /\ UNCHANGED <<files, answers>>

Unanswered(c) ==
  {i \in DOMAIN asked[c].items : \A a \in answers[c] : a.item # i}

Answer(c, i, kind, content) ==
  /\ answers' = [answers EXCEPT
                   ![c] = @ \cup {[item |-> i, kind |-> kind, content |-> content]}]
  /\ UNCHANGED <<asked, phase>>

\* Item i of the call of c sets its path to v.
Set(c, i, v) ==
  /\ files' = [files EXCEPT ![asked[c].items[i].path] = v]
  /\ Answer(c, i, "ok", None)

Refuse(c, i) ==
  /\ Answer(c, i, "error", None)
  /\ UNCHANGED files

\* read and download_files
ReadItem(c, i) ==
  LET v == files[asked[c].items[i].path] IN
  /\ asked[c].op \in {"read", "download"}
  /\ \/ /\ v # None
        /\ Answer(c, i, "content", v)
        /\ UNCHANGED files
     \/ /\ v \in Losable \cup {None} \/ MayFail
        /\ Refuse(c, i)

\* write and upload_files
WriteItem(c, i) ==
  /\ asked[c].op \in {"write", "upload"}
  /\ \/ Set(c, i, asked[c].items[i].arg)
     \/ MayFail /\ Refuse(c, i)

EditItem(c, i) ==
  LET v == files[asked[c].items[i].path]
      w == IF v = None THEN None ELSE Replace[asked[c].items[i].arg][v]
  IN
  /\ asked[c].op = "edit"
  /\ \/ w # None /\ Set(c, i, w)
     \/ (w = None \/ v \in Losable \/ MayFail) /\ Refuse(c, i)

DeleteItem(c, i) ==
  /\ asked[c].op = "delete"
  /\ \/ Set(c, i, None)
     \/ MayFail /\ Refuse(c, i)

Perform(c) ==
  /\ phase[c] = "busy"
  /\ \E i \in Unanswered(c) :
       ReadItem(c, i) \/ WriteItem(c, i) \/ EditItem(c, i) \/ DeleteItem(c, i)

Abort(c) ==
  /\ MayFail
  /\ phase[c] = "busy"
  /\ phase' = [phase EXCEPT ![c] = "raised"]
  /\ UNCHANGED <<files, asked, answers>>

Return(c) ==
  /\ \/ phase[c] = "raised"
     \/ phase[c] = "busy" /\ Unanswered(c) = {}
  /\ phase' = [phase EXCEPT ![c] = "idle"]
  /\ asked' = [asked EXCEPT ![c] = None]
  /\ answers' = [answers EXCEPT ![c] = {}]
  /\ UNCHANGED files

Next ==
  \E c \in Caller :
    \/ \E r \in Requests[c] : Ask(c, r)
    \/ Perform(c)
    \/ Abort(c)
    \/ Return(c)

Spec == Init /\ [][Next]_vars

=============================================================================
