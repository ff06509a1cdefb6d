----------------------------- MODULE ChatProofs -----------------------------
(***************************************************************************)
(* For any number of files, names and saves at once: the session that is   *)
(* in use is the one a restart resumes, and a save changes no file that    *)
(* was there when it began.                                                *)
(***************************************************************************)
EXTENDS ChatSession, TLAPS

\* What the theorem on Downloads rests on: no file goes away, and the name that
\* a save has settled on was free after it began.
SavesAside ==
  \A s \in Tool :
    /\ tool[s].before \subseteq Existing
    /\ tool[s].pc \in {"open", "fill"} => target(s) \notin tool[s].before

IInv == TypeOK /\ Sticky /\ SavesAside

\* Every save's next name is a name of the folder.
LEMMA TargetIsName ==
  ASSUME TypeOK, NEW s \in Tool, tool[s].pc # "idle"
  PROVE  target(s) \in Name /\ tool[s].file \in File
  <1>1. tool[s].file \in File /\ tool[s].counter \in 0 .. MaxCounter
    BY DEF TypeOK, ToolLocal
  <1>2. QED
    BY <1>1, ChatAssumption DEF target

\* Before the first start nothing is saved and nothing runs.
LEMMA InitIInv == Init => IInv
  BY ChatAssumption DEF Init, IInv, TypeOK, Sticky, SavesAside, ToolLocal, Idle, Existing

\* A step of main or of current_thread_id.
LEMMA MainStep ==
  ASSUME IInv, Start \/ Rotate \/ Truncate \/ Write \/ Turn \/ EndTurn
  PROVE  IInv'
  <1>1. UNCHANGED <<downloads, tool>>
    BY DEF Start, Rotate, NewThread, Truncate, Write, Turn, EndTurn
  <1>2. TypeOK'
    BY <1>1, ChatAssumption
       DEF IInv, TypeOK, ToolLocal, Start, Rotate, NewThread, Truncate, Write, Turn, EndTurn
  <1>3. Sticky'
    BY DEF IInv, Sticky, Start, Rotate, NewThread, Truncate, Write, Turn, EndTurn
  <1>4. SavesAside'
    BY <1>1 DEF IInv, SavesAside, Existing, target
  <1>5. QED
    BY <1>2, <1>3, <1>4 DEF IInv

\* A death forgets the saves under way and leaves what is on disk.
LEMMA DownStep == IInv /\ Down => IInv'
  BY ChatAssumption
     DEF IInv, Down, TypeOK, ToolLocal, Sticky, SavesAside, Idle, Existing

\* A step of a save replaces its local variables by some l and may write a name.
LEMMA SaveStep ==
  ASSUME IInv, NEW s \in Tool, NEW l \in ToolLocal, Run(s, l),
         l.pc = "idle" <=> l.file = None,
         downloads' \in [Name -> File \cup {Foreign, Empty, None}],
         Existing \subseteq Existing',
         l.before \subseteq Existing,
         l.pc \in {"open", "fill"} => Target[l.file][l.counter] \notin l.before
  PROVE  IInv'
  <1>1. /\ tool' \in [Tool -> ToolLocal] /\ tool'[s] = l
        /\ \A u \in Tool \ {s} : tool'[u] = tool[u]
    BY DEF IInv, TypeOK, Run
  <1>2. TypeOK'
    BY <1>1 DEF IInv, TypeOK, Run
  <1>3. Sticky'
    BY DEF IInv, Sticky, Run
  <1>4. SavesAside'
    BY <1>1 DEF IInv, SavesAside, target
  <1>5. QED
    BY <1>2, <1>3, <1>4 DEF IInv

\* The steps of save_to_downloads, each by its new local variables.
LEMMA BeginStep ==
  ASSUME IInv, NEW s \in Tool, NEW f \in File, Begin(s, f)
  PROVE  IInv'
  <1> DEFINE l == [pc |-> "retrieve", file |-> f, counter |-> 0, before |-> Existing]
  <1>1. l \in ToolLocal /\ f # None
    BY ChatAssumption DEF ToolLocal, Existing
  <1>2. Run(s, l) /\ UNCHANGED downloads
    BY DEF Begin
  <1>3. downloads' \in [Name -> File \cup {Foreign, Empty, None}] /\ Existing' = Existing
    BY <1>2 DEF IInv, TypeOK, Existing
  <1>4. QED
    BY <1>1, <1>2, <1>3, SaveStep

\* A call that ends, its file filled or not.
LEMMA EndSave ==
  ASSUME IInv, NEW s \in Tool, Run(s, Idle),
         downloads' \in [Name -> File \cup {Foreign, Empty, None}],
         Existing \subseteq Existing'
  PROVE  IInv'
  <1>1. Idle \in ToolLocal /\ Idle.file = None /\ Idle.pc = "idle" /\ Idle.before = {}
    BY ChatAssumption DEF ToolLocal, Idle
  <1>2. QED
    BY <1>1, SaveStep

\* A call that goes on for the same file.
LEMMA GoesOn ==
  ASSUME IInv, NEW s \in Tool, tool[s].pc # "idle",
         NEW pc \in {"exists", "open", "fill"}, NEW counter \in 0 .. MaxCounter,
         Run(s, [tool[s] EXCEPT !.pc = pc, !.counter = counter]),
         downloads' \in [Name -> File \cup {Foreign, Empty, None}],
         Existing \subseteq Existing',
         pc = "exists" \/ Target[tool[s].file][counter] \notin tool[s].before
  PROVE  IInv'
  <1> DEFINE l == [tool[s] EXCEPT !.pc = pc, !.counter = counter]
  <1>1. tool[s] \in ToolLocal /\ tool[s].file # None /\ tool[s].before \subseteq Existing
    BY DEF IInv, TypeOK, SavesAside
  <1>2. /\ l \in ToolLocal /\ l.pc = pc /\ l.counter = counter
        /\ l.file = tool[s].file /\ l.before = tool[s].before
    BY <1>1 DEF ToolLocal
  <1>3. QED
    BY <1>1, <1>2, SaveStep

\* A name that is written stays taken.
LEMMA WritesAName ==
  ASSUME IInv, NEW s \in Tool, tool[s].pc # "idle",
         NEW content \in File \cup {Foreign, Empty},
         downloads' = [downloads EXCEPT ![target(s)] = content]
  PROVE  /\ downloads' \in [Name -> File \cup {Foreign, Empty, None}]
         /\ Existing \subseteq Existing'
         /\ \A n \in Name : downloads'[n] # downloads[n] => n = target(s)
  <1>1. target(s) \in Name /\ content # None
    BY TargetIsName, ChatAssumption DEF IInv
  <1>2. QED
    BY <1>1 DEF IInv, TypeOK, Existing

\* Every step of save_to_downloads keeps the invariant.
LEMMA ToolStep ==
  ASSUME IInv, NEW s \in Tool,
         (\E f \in File : Begin(s, f)) \/ Retrieve(s) \/ Exists(s) \/ Open(s) \/ Fill(s)
  PROVE  IInv'
  <1>1. /\ tool[s] \in ToolLocal
        /\ tool[s] = [tool[s] EXCEPT !.pc = @, !.counter = @]
        /\ downloads \in [Name -> File \cup {Foreign, Empty, None}]
    BY DEF IInv, TypeOK, ToolLocal
  <1>2. CASE \E f \in File : Begin(s, f)
    BY <1>2, BeginStep
  <1>3. CASE Retrieve(s)
    <2>1. UNCHANGED downloads /\ Existing' = Existing /\ tool[s].pc = "retrieve"
      BY <1>3 DEF Retrieve, Existing
    <2>2. CASE Run(s, Idle)
      BY <1>1, <2>1, <2>2, EndSave
    <2>3. CASE Run(s, [tool[s] EXCEPT !.pc = "exists"])
      <3>1. /\ [tool[s] EXCEPT !.pc = "exists"]
                 = [tool[s] EXCEPT !.pc = "exists", !.counter = tool[s].counter]
            /\ tool[s].counter \in 0 .. MaxCounter
        BY <1>1 DEF ToolLocal
      <3>2. QED
        BY <1>1, <2>1, <2>3, <3>1, GoesOn
    <2>4. QED
      BY <1>3, <2>2, <2>3 DEF Retrieve
  <1>4. CASE Exists(s)
    <2>1. UNCHANGED downloads /\ Existing' = Existing /\ tool[s].pc = "exists"
      BY <1>4 DEF Exists, Existing
    <2>2. tool[s].before \subseteq Existing /\ tool[s].counter \in 0 .. MaxCounter
      BY <1>1 DEF IInv, SavesAside, ToolLocal
    <2>3. CASE downloads[target(s)] # None
      <3>1. tool[s].counter < MaxCounter /\ Run(s, [tool[s] EXCEPT !.counter = @ + 1])
        BY <1>4, <2>3 DEF Exists
      <3>2. [tool[s] EXCEPT !.counter = @ + 1]
              = [tool[s] EXCEPT !.pc = "exists", !.counter = tool[s].counter + 1]
        BY <1>1, <2>1 DEF ToolLocal
      <3>3. tool[s].counter + 1 \in 0 .. MaxCounter
        BY <2>2, <3>1, ChatAssumption
      <3>4. QED
        BY <1>1, <2>1, <3>1, <3>2, <3>3, GoesOn
    <2>4. CASE downloads[target(s)] = None
      <3>1. Run(s, [tool[s] EXCEPT !.pc = "open", !.counter = tool[s].counter])
        BY <1>1, <1>4, <2>4 DEF Exists, ToolLocal
      <3>2. Target[tool[s].file][tool[s].counter] \notin tool[s].before
        BY <2>2, <2>4 DEF target, Existing
      <3>3. QED
        BY <1>1, <2>1, <2>2, <3>1, <3>2, GoesOn
    <2>5. QED
      BY <2>3, <2>4
  <1>5. CASE Open(s)
    <2>1. tool[s].pc = "open" /\ target(s) \notin tool[s].before
      BY <1>5 DEF Open, IInv, SavesAside
    <2>2. /\ downloads' \in [Name -> File \cup {Foreign, Empty, None}]
          /\ Existing \subseteq Existing'
      BY <1>1, <1>5, <2>1, WritesAName DEF Open, Existing
    <2>3. CASE Run(s, Idle)
      BY <2>2, <2>3, EndSave
    <2>4. CASE Run(s, [tool[s] EXCEPT !.pc = "fill"])
      <3>1. /\ [tool[s] EXCEPT !.pc = "fill"]
                 = [tool[s] EXCEPT !.pc = "fill", !.counter = tool[s].counter]
            /\ tool[s].counter \in 0 .. MaxCounter
        BY <1>1 DEF ToolLocal
      <3>2. QED
        BY <2>1, <2>2, <2>4, <3>1, GoesOn DEF target
    <2>5. QED
      BY <1>5, <2>3, <2>4 DEF Open
  <1>6. CASE Fill(s)
    <2>1. tool[s].pc = "fill" /\ tool[s].file \in File /\ Run(s, Idle)
      BY <1>6, TargetIsName DEF Fill, IInv
    <2>2. /\ downloads' \in [Name -> File \cup {Foreign, Empty, None}]
          /\ Existing \subseteq Existing'
      BY <1>6, <2>1, WritesAName DEF Fill
    <2>3. QED
      BY <2>1, <2>2, EndSave
  <1>7. QED
    BY <1>2, <1>3, <1>4, <1>5, <1>6

\* What other programs write only takes names, none that a save relies on.
LEMMA AppearStep ==
  ASSUME IInv, NEW n \in Name, Appear(n)
  PROVE  IInv'
  <1>1. Existing \subseteq Existing' /\ UNCHANGED <<main, thread, thread_file, made, tool>>
    BY ChatAssumption DEF IInv, TypeOK, Appear, Existing
  <1>2. TypeOK' /\ Sticky'
    BY <1>1 DEF IInv, TypeOK, Sticky, Appear
  <1>3. SavesAside'
    BY <1>1 DEF IInv, SavesAside, target
  <1>4. QED
    BY <1>2, <1>3 DEF IInv

\* Every step keeps the invariant.
LEMMA Step == IInv /\ [Next]_vars => IInv'
  <1> SUFFICES ASSUME IInv, [Next]_vars PROVE IInv'
    OBVIOUS
  <1>1. CASE Start \/ Rotate \/ Truncate \/ Write \/ Turn \/ EndTurn
    BY <1>1, MainStep
  <1>2. CASE Down
    BY <1>2, DownStep
  <1>3. CASE \E s \in Tool : \/ \E f \in File : Begin(s, f)
                            \/ Retrieve(s) \/ Exists(s) \/ Open(s) \/ Fill(s)
    BY <1>3, ToolStep
  <1>4. CASE \E n \in Name : Appear(n)
    BY <1>4, AppearStep
  <1>5. CASE UNCHANGED vars
    BY <1>5 DEF IInv, TypeOK, Sticky, SavesAside, Existing, target, vars
  <1>6. QED
    BY <1>1, <1>2, <1>3, <1>4, <1>5 DEF Next

\* The inductive invariant.
THEOREM Invariance == Spec => []IInv
  BY InitIInv, Step, PTL DEF Spec

\* The variables and the local variables of every save keep their types; a save
\* that has begun has its file.
THEOREM TypeCorrect == Spec => []TypeOK
  <1>1. IInv => TypeOK
    BY DEF IInv
  <1>2. QED
    BY <1>1, Invariance, PTL

\* The session in use is always the one that THREAD_FILE would resume, for any
\* number of rotations, restarts and deaths between a truncation and a write.
THEOREM SessionSticks == Spec => []Sticky
  <1>1. IInv => Sticky
    BY DEF IInv
  <1>2. QED
    BY <1>1, Invariance, PTL

\* No save changes a file that was in Downloads when it began, however many run
\* at once and whatever other programs put there.
THEOREM NothingOverwritten == Spec => KeepsExisting
  <1> DEFINE Kept ==
        \A n \in Existing :
          downloads'[n] # downloads[n] =>
            \E s \in Tool : /\ tool[s].pc \in {"open", "fill"}
                            /\ target(s) = n /\ n \notin tool[s].before
  <1>1. IInv /\ [Next]_vars => [Kept]_vars
    <2> SUFFICES ASSUME IInv, Next, NEW n \in Existing, downloads'[n] # downloads[n]
                 PROVE  \E s \in Tool : /\ tool[s].pc \in {"open", "fill"}
                                        /\ target(s) = n /\ n \notin tool[s].before
      BY DEF vars
    <2>1. n \in Name /\ downloads[n] # None
      BY DEF Existing
    <2>2. CASE \E s \in Tool : Open(s) \/ Fill(s)
      <3>1. PICK s \in Tool : Open(s) \/ Fill(s)
        BY <2>2
      <3>2. tool[s].pc \in {"open", "fill"} /\ target(s) \notin tool[s].before
        BY <3>1 DEF Open, Fill, IInv, SavesAside
      <3>3. n = target(s)
        BY <2>1, <3>1, <3>2, TargetIsName, WritesAName DEF Open, Fill, IInv
      <3>4. QED
        BY <3>2, <3>3
    <2>3. CASE \E m \in Name : Appear(m)
      BY <2>1, <2>3 DEF Appear, IInv, TypeOK
    <2>4. CASE \E s \in Tool : (\E f \in File : Begin(s, f)) \/ Retrieve(s) \/ Exists(s)
      BY <2>4 DEF Begin, Retrieve, Exists
    <2>5. CASE Start \/ Rotate \/ Truncate \/ Write \/ Turn \/ EndTurn \/ Down
      BY <2>5 DEF Start, Rotate, NewThread, Truncate, Write, Turn, EndTurn, Down
    <2>6. QED
      BY <2>2, <2>3, <2>4, <2>5 DEF Next
  <1>2. QED
    BY <1>1, Invariance, PTL DEF Spec, KeepsExisting

=============================================================================
