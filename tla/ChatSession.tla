---------------------------- MODULE ChatSession -----------------------------
(***************************************************************************)
(* The chat example: the session that survives restarts in THREAD_FILE,    *)
(* and save_to_downloads, of which the graph runs several at once when the *)
(* model asks for them in one message.  Other programs share the Downloads *)
(* folder, and the process may die at any point.  A write_text or          *)
(* write_bytes first empties its file and then fills it.                   *)
(***************************************************************************)
EXTENDS Naturals, FiniteSets

CONSTANTS
  Tool,        \* the calls of save_to_downloads that may run at once
  File,        \* the files of the agent
  Name,        \* names in DOWNLOADS_DIR
  Target,      \* Target[f][i]: the name for f with the counter at i, 0 for none
  MaxCounter,  \* bound: the last counter that is tried
  MaxThreads,  \* bound: how many thread ids are made
  Foreign,     \* what other programs write
  Empty,       \* what is in a file between its truncation and its write
  None

ASSUME ChatAssumption ==
  /\ IsFiniteSet(Name)
  /\ Target \in [File -> [0 .. MaxCounter -> Name]]
  /\ MaxThreads \in Nat \ {0} /\ MaxCounter \in Nat
  /\ None \notin File \cup {Empty, Foreign}
  /\ Empty \notin File \cup {Foreign} /\ Foreign \notin File

VARIABLES
  main,         \* where the process is
  thread,       \* the thread_id in config, or None
  thread_file,  \* the content of THREAD_FILE, or None
  made,         \* how many ids uuid4 has made
  downloads,    \* downloads[n]: the content of the file n, or None
  tool          \* tool[s]: the local variables of a save_to_downloads

vars == <<main, thread, thread_file, made, downloads, tool>>

Existing == {n \in Name : downloads[n] # None}

\* before: history, the names taken when the call began.
Idle == [pc |-> "idle", file |-> None, counter |-> 0, before |-> {}]

target(s) == Target[tool[s].file][tool[s].counter]

Init ==
  /\ main = "down" /\ thread = None /\ thread_file = None /\ made = 0
  /\ downloads = [n \in Name |-> None]
  /\ tool = [s \in Tool |-> Idle]

-----------------------------------------------------------------------------
(* main and current_thread_id *)

\* An id is made, to be written to THREAD_FILE.
NewThread ==
  /\ made < MaxThreads
  /\ made' = made + 1
  /\ thread' = made'
  /\ main' = "truncate"
  /\ UNCHANGED <<thread_file, downloads, tool>>

\* The thread id is read from THREAD_FILE, if that exists.
Start ==
  /\ main = "down"
  /\ \/ /\ thread_file # None
        /\ main' = "ready"
        /\ thread' = thread_file
        /\ UNCHANGED <<thread_file, made, downloads, tool>>
     \/ thread_file = None /\ NewThread

Rotate_NotSaved ==
  /\ main = "ready" /\ made < MaxThreads
  /\ made' = made + 1
  /\ thread' = made'
  /\ UNCHANGED <<main, thread_file, downloads, tool>>

\* /new
Rotate == main = "ready" /\ NewThread

Truncate ==
  /\ main = "truncate"
  /\ main' = "write"
  /\ thread_file' = Empty
  /\ UNCHANGED <<thread, made, downloads, tool>>

Write ==
  /\ main = "write"
  /\ main' = "ready"
  /\ thread_file' = thread
  /\ UNCHANGED <<thread, made, downloads, tool>>

Turn ==
  /\ main = "ready"
  /\ main' = "turn"
  /\ UNCHANGED <<thread, thread_file, made, downloads, tool>>

\* run_turn returns or raises when none of its tools runs any more.
EndTurn ==
  /\ main = "turn" /\ \A s \in Tool : tool[s].pc = "idle"
  /\ main' = "ready"
  /\ UNCHANGED <<thread, thread_file, made, downloads, tool>>

\* /quit, or the process dies, wherever it is.  Bound: only as long as a start
\* has an id left to make.
Down ==
  /\ main # "down"
  /\ thread_file # None \/ made < MaxThreads
  /\ main' = "down"
  /\ thread' = None
  /\ tool' = [s \in Tool |-> Idle]
  /\ UNCHANGED <<thread_file, made, downloads>>

-----------------------------------------------------------------------------
(* save_to_downloads *)

Run(s, l) ==
  /\ tool' = [tool EXCEPT ![s] = l]
  /\ UNCHANGED <<main, thread, thread_file, made>>

Begin(s, f) ==
  /\ main = "turn" /\ tool[s].pc = "idle"
  /\ Run(s, [pc |-> "retrieve", file |-> f, counter |-> 0, before |-> Existing])
  /\ UNCHANGED downloads

\* download_files, whose error is the answer.
Retrieve(s) ==
  /\ tool[s].pc = "retrieve"
  /\ Run(s, Idle) \/ Run(s, [tool[s] EXCEPT !.pc = "exists"])
  /\ UNCHANGED downloads

Exists_Once(s) ==
  /\ tool[s].pc = "exists"
  /\ Run(s, IF downloads[target(s)] # None
            THEN [tool[s] EXCEPT !.pc = "open", !.counter = 1]
            ELSE [tool[s] EXCEPT !.pc = "open"])
  /\ UNCHANGED downloads

\* One test of the loop that looks for a free name.
Exists(s) ==
  /\ tool[s].pc = "exists"
  /\ downloads[target(s)] = None \/ tool[s].counter < MaxCounter
  /\ Run(s, IF downloads[target(s)] # None
            THEN [tool[s] EXCEPT !.counter = @ + 1]
            ELSE [tool[s] EXCEPT !.pc = "open"])
  /\ UNCHANGED downloads

\* write_bytes; an OSError is the end of the call, before or after truncating.
Open(s) ==
  /\ tool[s].pc = "open"
  /\ \/ /\ downloads' = [downloads EXCEPT ![target(s)] = Empty]
        /\ Run(s, Idle) \/ Run(s, [tool[s] EXCEPT !.pc = "fill"])
     \/ Run(s, Idle) /\ UNCHANGED downloads

Fill_Kept(s) ==
  /\ tool[s].pc = "fill"
  /\ downloads' = [downloads EXCEPT ![target(s)] = tool[s].file]
  /\ Run(s, [tool[s] EXCEPT !.pc = "idle"])

Fill(s) ==
  /\ tool[s].pc = "fill"
  /\ downloads' = [downloads EXCEPT ![target(s)] = tool[s].file]
  /\ Run(s, Idle)

\* Another program puts a file where there is none.
Appear(n) ==
  /\ downloads[n] = None
  /\ downloads' = [downloads EXCEPT ![n] = Foreign]
  /\ UNCHANGED <<main, thread, thread_file, made, tool>>

Next ==
  \/ Start \/ Rotate \/ Truncate \/ Write
  \/ Turn \/ EndTurn \/ Down
  \/ \E s \in Tool :
       \/ \E f \in File : Begin(s, f)
       \/ Retrieve(s) \/ Exists(s) \/ Open(s) \/ Fill(s)
  \/ \E n \in Name : Appear(n)

Spec == Init /\ [][Next]_vars

-----------------------------------------------------------------------------
(* Correctness *)

ToolLocal ==
  [pc : {"idle", "retrieve", "exists", "open", "fill"}, file : File \cup {None},
   counter : 0 .. MaxCounter, before : SUBSET Name]

TypeOK ==
  /\ main \in {"down", "truncate", "write", "ready", "turn"}
  /\ made \in 0 .. MaxThreads
  /\ {thread, thread_file} \subseteq (1 .. made) \cup {None, Empty}
  /\ downloads \in [Name -> File \cup {Foreign, Empty, None}]
  /\ tool \in [Tool -> ToolLocal]
  /\ \A s \in Tool : tool[s].pc = "idle" <=> tool[s].file = None

\* "Sticky thread id so sessions resume across restarts": whenever a message
\* can be sent, the session it goes to is the one the next start will resume.
Sticky == main \in {"ready", "turn"} => thread = thread_file

\* A file that was in Downloads when a save began is not changed by it,
\* however many run at once: only what appeared meanwhile can be lost.
KeepsExisting ==
  [][\A n \in Existing :
       downloads'[n] # downloads[n] =>
         \E s \in Tool : /\ tool[s].pc \in {"open", "fill"}
                         /\ target(s) = n /\ n \notin tool[s].before]_vars

=============================================================================
