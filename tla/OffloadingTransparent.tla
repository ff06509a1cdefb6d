------------------------ MODULE OffloadingTransparent -----------------------
(***************************************************************************)
(* Offloading is transparent, for any number of callers, contents, calls   *)
(* and failures: every step of the backend is a step of FileBackend, which *)
(* keeps the whole content of every file, or none that its callers see.    *)
(***************************************************************************)
EXTENDS OffloadingEdits

\* No two callers use the same path.
OwnPaths ==
  \A c, d \in Caller : \A r \in Requests[c], q \in Requests[d] :
    \A i \in DOMAIN r.items, j \in DOMAIN q.items :
      r.items[i].path = q.items[j].path => c = d

\* Under which nothing of a stub shows: no file is itself pointer JSON, callers
\* keep to their own paths, no failed inner read passes for an ordinary file, no
\* failed write of a stub goes unnoticed, and the process does not restart.
Undisturbed ==
  /\ NoLookalike /\ OwnPaths
  /\ "read" \notin InnerFaults
  /\ HasSend \/ "write" \notin InnerFaults
  /\ MaxCheckpoints = 0

Busy(l) == l.pc \notin {"idle", "raised"}

-----------------------------------------------------------------------------
(* The inductive invariant *)

\* An entry is a file kept inline, or the stub of a large content.
Entries ==
  \A p \in Path : inner[p] # None =>
    \/ inner[p].content \in Value /\ inner[p].encoding # "external"
    \/ \E v \in Value : Large(v) /\ inner[p].content = make_pointer(v)

Inlined(fd) == fd = None \/ fd.content \in Value

\* The items before the one at hand are answered or left to the inner backend,
\* none of them twice.
Reckoned(l) ==
  /\ \A j \in DOMAIN l.reply : l.reply[j].item < l.at
  /\ \A k \in DOMAIN l.deferred : l.deferred[k] < l.at
  /\ \A j \in DOMAIN l.reply, k \in DOMAIN l.deferred : l.reply[j].item # l.deferred[k]
  /\ \A j, k \in DOMAIN l.deferred : l.deferred[j] = l.deferred[k] => j = k
  /\ \A i \in 1 .. l.at - 1 :
       \/ \E j \in DOMAIN l.reply : l.reply[j].item = i
       \/ \E k \in DOMAIN l.deferred : l.deferred[k] = i

\* The stub that a call found is still there while it goes on from it.
Following(l) ==
  l.pc \in {"lookup", "load", "keep"} \/ (l.pc \in Storing /\ l.req.op = "edit")

StubStays(l, image) ==
  Following(l) =>
    /\ l.at <= Len(l.req.items)
    /\ image[Item(l).path] # None /\ image[Item(l).path].content = l.ptr

\* What read, download_files and edit left to the inner backend has no stub.
LeftInline(l, image) ==
  l.req.op \in {"read", "download", "edit"} =>
    \A k \in DOMAIN l.deferred : Inlined(image[l.req.items[l.deferred[k]].path])

\* What is offloaded is large, and what is delegated unseen is no read or edit.
AtHand(l) ==
  /\ l.pc \in {"exists", "put", "cache", "send"} => Large(Content(l))
  /\ l.pc = "delegate" => l.req.op \in {"upload", "delete"}

Traced(l, image) ==
  Reckoned(l) /\ StubStays(l, image) /\ LeftInline(l, image) /\ AtHand(l)

\* A caller that is idle has no answers, one that is not made a request of its.
Recorded(c) ==
  IF call[c].pc = "idle" THEN call[c].reply = <<>> ELSE call[c].req \in Requests[c]

\* No edit has come upon pointer JSON, so that every pointer is as it was made.
Unedited == edited = {}

TraceInv ==
  Entries /\ \A c \in Caller : Recorded(c) /\ (Busy(call[c]) => Traced(call[c], inner))

-----------------------------------------------------------------------------
(* Where a step can leave a call *)

(* The fields of a call whose item is answered. *)
LEMMA RespondFields ==
  ASSUME NEW l, AtItem(l), NEW kind, NEW content,
         [item |-> Index(l), kind |-> kind, content |-> content] \in Response
  PROVE  LET m == Respond(l, kind, content) IN
         /\ m.req = l.req
         /\ m.reply = Append(l.reply, [item |-> Index(l), kind |-> kind, content |-> content])
         /\ l.at <= Len(l.req.items) =>
              m.pc = Entry(l.req, l.at + 1) /\ m.at = l.at + 1 /\ m.deferred = l.deferred
         /\ l.at > Len(l.req.items) =>
              m.pc = "inner" /\ m.at = l.at /\ m.deferred = Tail(l.deferred)
<1> DEFINE answer == [item |-> Index(l), kind |-> kind, content |-> content]
           more == Append(l.reply, answer)
           k == [l EXCEPT !.reply = more]
<1>1. l \in Local /\ l.reply \in Seq(Response) /\ l.deferred \in Seq(Nat)
  BY DEF AtItem, Inside, Local
<1>2. more \in Seq(Response)
  BY <1>1, AppendProperties
<1>3. Respond(l, kind, content) = Advance(k)
  BY <1>1 DEF Respond, Local
<1> HIDE DEF more
<1>4. /\ k \in Local /\ k.pc = l.pc /\ k.reply = more
      /\ k.req = l.req /\ k.at = l.at /\ k.deferred = l.deferred
  BY <1>1, <1>2 DEF Local
<1> HIDE DEF k
<1>5. l.at \in Nat /\ Len(l.req.items) \in Nat
  BY ItemsType DEF AtItem
<1>6. CASE l.at <= Len(l.req.items)
  BY <1>3, <1>4, <1>5, <1>6 DEF Advance, Local, more
<1>7. CASE l.at > Len(l.req.items)
  BY <1>3, <1>4, <1>5, <1>7 DEF Advance, Local, more
<1>8. QED
  BY <1>5, <1>6, <1>7

(* Those of a call whose item is left to the inner backend. *)
LEMMA DeferFields ==
  ASSUME NEW l, AtItem(l), l.at <= Len(l.req.items)
  PROVE  LET m == Advance([l EXCEPT !.deferred = Append(@, l.at)]) IN
         /\ m.req = l.req /\ m.reply = l.reply
         /\ m.pc = Entry(l.req, l.at + 1) /\ m.at = l.at + 1
         /\ m.deferred = Append(l.deferred, l.at)
<1> DEFINE more == Append(l.deferred, l.at)
           k == [l EXCEPT !.deferred = more]
<1>1. l \in Local /\ l.deferred \in Seq(Nat) /\ l.at \in Nat
  BY DEF AtItem, Inside, Local
<1>2. more \in Seq(Nat)
  BY <1>1, AppendProperties
<1>3. [l EXCEPT !.deferred = Append(@, l.at)] = k
  BY <1>1 DEF Local
<1> HIDE DEF more
<1>4. /\ k \in Local /\ k.reply = l.reply
      /\ k.req = l.req /\ k.at = l.at /\ k.deferred = more
  BY <1>1, <1>2 DEF Local
<1> HIDE DEF k
<1>5. QED
  BY <1>3, <1>4 DEF Advance, Local, more

(* A call that has come to its next item follows no stub. *)
LEMMA EntryFresh ==
  ASSUME NEW r \in Request, NEW i \in Nat
  PROVE  /\ Entry(r, i) \in {"inner", "probe", "delegate", "exists", "write"}
         /\ r.op = "edit" => Entry(r, i) \notin Storing
         /\ Entry(r, i) = "exists" =>
              r.op # "edit" /\ i <= Len(r.items) /\ Large(r.items[i].arg)
         /\ Entry(r, i) = "delegate" => r.op \in {"upload", "delete"}
<1>1. Len(r.items) \in Nat /\ r.op \in Op
  BY LenProperties DEF Request
<1>2. CASE i > Len(r.items)
  BY <1>2 DEF Entry, Storing
<1>3. CASE i <= Len(r.items) /\ r.op \in {"read", "edit", "download", "delete"}
  BY <1>1, <1>3 DEF Entry, Storing
<1>4. CASE i <= Len(r.items) /\ r.op = "write"
  BY <1>1, <1>4 DEF Entry
<1>5. CASE i <= Len(r.items) /\ r.op = "upload"
  BY <1>1, <1>5 DEF Entry
<1>6. QED
  BY <1>1, <1>2, <1>3, <1>4, <1>5 DEF Op

(* The account of a call is one of items. *)
LEMMA AccountType ==
  ASSUME NEW l, Inside(l)
  PROVE  /\ l.reply \in Seq(Response) /\ Len(l.reply) \in Nat
         /\ DOMAIN l.reply = 1 .. Len(l.reply)
         /\ \A j \in DOMAIN l.reply : l.reply[j].item \in Nat
         /\ \A k \in DOMAIN l.deferred : l.deferred[k] \in Nat
<1>1. l.reply \in Seq(Response) /\ l.deferred \in Seq(Nat)
  BY DEF Inside, Local
<1>2. /\ Len(l.reply) \in Nat /\ DOMAIN l.reply = 1 .. Len(l.reply)
      /\ DOMAIN l.deferred = 1 .. Len(l.deferred)
  BY <1>1, LenProperties
<1>3. \A x \in Response : x.item \in Nat
  BY DEF Response
<1>4. \A j \in DOMAIN l.reply : l.reply[j] \in Response
  BY <1>1, <1>2, ElementOfSeq
<1>5. \A k \in DOMAIN l.deferred : l.deferred[k] \in Nat
  BY <1>1, <1>2, ElementOfSeq
<1>6. QED
  BY <1>1, <1>2, <1>3, <1>4, <1>5

(* Answering the item at hand keeps the account. *)
LEMMA RespondReckoned ==
  ASSUME NEW l, AtItem(l), Reckoned(l), NEW kind, NEW content,
         [item |-> Index(l), kind |-> kind, content |-> content] \in Response
  PROVE  Reckoned(Respond(l, kind, content))
<1> DEFINE answer == [item |-> Index(l), kind |-> kind, content |-> content]
           m == Respond(l, kind, content)
           n == Len(l.reply)
<1>1. /\ l.reply \in Seq(Response) /\ l.deferred \in Seq(Nat) /\ l.at \in Nat
      /\ Len(l.req.items) \in Nat /\ n \in Nat /\ DOMAIN l.reply = 1 .. n
      /\ Len(l.deferred) \in Nat /\ DOMAIN l.deferred = 1 .. Len(l.deferred)
  BY ItemsType, LenProperties DEF AtItem, Inside, Local
<1>2. /\ m.req = l.req /\ m.reply = Append(l.reply, answer)
      /\ l.at <= Len(l.req.items) => m.at = l.at + 1 /\ m.deferred = l.deferred
      /\ l.at > Len(l.req.items) => m.at = l.at /\ m.deferred = Tail(l.deferred)
  BY RespondFields
<1>3. /\ DOMAIN m.reply = 1 .. n + 1
      /\ \A j \in 1 .. n : m.reply[j] = l.reply[j]
      /\ m.reply[n + 1].item = Index(l)
  <2>1. /\ m.reply \in Seq(Response) /\ Len(m.reply) = n + 1
        /\ \A j \in 1 .. n : m.reply[j] = l.reply[j]
        /\ m.reply[n + 1] = answer
    BY <1>1, <1>2, AppendProperties
  <2>2. QED
    BY <2>1, LenProperties
<1> HIDE DEF m, n
<1>4. CASE l.at <= Len(l.req.items)
  <2>1. Index(l) = l.at
    BY <1>4 DEF Index
  <2>2. \A j \in DOMAIN m.reply : j \in DOMAIN l.reply \/ j = n + 1
    BY <1>1, <1>3
  <2>3. \A j \in DOMAIN m.reply : m.reply[j].item < m.at
    <3>1. \A j \in DOMAIN l.reply : l.reply[j].item < l.at /\ l.reply[j].item \in Nat
      BY AccountType DEF Reckoned, AtItem
    <3>2. \A j \in DOMAIN l.reply : m.reply[j] = l.reply[j]
      BY <1>1, <1>3
    <3>3. QED
      BY <1>1, <1>2, <1>3, <1>4, <2>1, <2>2, <3>1, <3>2
  <2>4. \A k \in DOMAIN m.deferred : m.deferred[k] < m.at /\ m.deferred[k] # l.at
    <3>1. \A k \in DOMAIN l.deferred : l.deferred[k] < l.at /\ l.deferred[k] \in Nat
      BY AccountType DEF Reckoned, AtItem
    <3>2. m.at = l.at + 1 /\ m.deferred = l.deferred /\ l.at \in Nat
      BY <1>1, <1>2, <1>4
    <3>3. QED
      BY <3>1, <3>2
  <2>5. \A j \in DOMAIN m.reply, k \in DOMAIN m.deferred : m.reply[j].item # m.deferred[k]
    <3>1. \A j \in DOMAIN l.reply : m.reply[j] = l.reply[j]
      BY <1>1, <1>3
    <3>2. m.deferred = l.deferred
      BY <1>2, <1>4
    <3>3. QED
      BY <1>3, <2>1, <2>2, <2>4, <3>1, <3>2 DEF Reckoned
  <2>6. \A j, k \in DOMAIN m.deferred : m.deferred[j] = m.deferred[k] => j = k
    BY <1>2, <1>4 DEF Reckoned
  <2>7. \A i \in 1 .. m.at - 1 : \/ \E j \in DOMAIN m.reply : m.reply[j].item = i
                                 \/ \E k \in DOMAIN m.deferred : m.deferred[k] = i
    <3> SUFFICES ASSUME NEW i \in 1 .. m.at - 1
                 PROVE  \/ \E j \in DOMAIN m.reply : m.reply[j].item = i
                        \/ \E k \in DOMAIN m.deferred : m.deferred[k] = i
      OBVIOUS
    <3>1. CASE i = l.at
      <4>1. n + 1 \in DOMAIN m.reply
        BY <1>1, <1>3
      <4>2. QED
        BY <1>3, <2>1, <3>1, <4>1
    <3>2. CASE i # l.at
      <4>1. i \in 1 .. l.at - 1
        BY <1>1, <1>2, <1>4, <3>2
      <4>2. \/ \E j \in DOMAIN l.reply : l.reply[j].item = i
            \/ \E k \in DOMAIN l.deferred : l.deferred[k] = i
        BY <4>1 DEF Reckoned
      <4>3. \A j \in DOMAIN l.reply : j \in DOMAIN m.reply /\ m.reply[j] = l.reply[j]
        BY <1>1, <1>3
      <4>4. QED
        BY <1>2, <1>4, <4>2, <4>3
    <3>3. QED
      BY <3>1, <3>2
  <2>8. Reckoned(m)
    BY <2>3, <2>4, <2>5, <2>6, <2>7 DEF Reckoned
  <2>9. QED
    BY <2>8 DEF m
<1>5. CASE l.at > Len(l.req.items)
  <2>1. l.deferred # <<>> /\ 1 \in DOMAIN l.deferred /\ Index(l) = l.deferred[1]
    <3>1. l.deferred # <<>>
      BY <1>5 DEF AtItem
    <3>2. Len(l.deferred) # 0
      BY <1>1, <3>1, EmptySeq
    <3>3. QED
      BY <1>1, <1>5, <3>1, <3>2 DEF Index
  <2>2. /\ DOMAIN m.deferred = 1 .. Len(l.deferred) - 1
        /\ \A k \in DOMAIN m.deferred : /\ k + 1 \in DOMAIN l.deferred
                                        /\ k + 1 # 1
                                        /\ m.deferred[k] = l.deferred[k + 1]
    <3>1. /\ Tail(l.deferred) \in Seq(Nat) /\ Len(Tail(l.deferred)) = Len(l.deferred) - 1
          /\ \A k \in 1 .. Len(Tail(l.deferred)) : Tail(l.deferred)[k] = l.deferred[k + 1]
      BY <1>1, <2>1, HeadTailProperties
    <3>2. DOMAIN Tail(l.deferred) = 1 .. Len(l.deferred) - 1
      BY <3>1, LenProperties
    <3>3. m.deferred = Tail(l.deferred)
      BY <1>2, <1>5
    <3>4. \A k \in 1 .. Len(l.deferred) - 1 : k + 1 \in 1 .. Len(l.deferred) /\ k + 1 # 1
      BY <1>1
    <3>5. QED
      BY <1>1, <3>1, <3>2, <3>3, <3>4
  <2>3. \A j \in DOMAIN m.reply :
          \/ j \in DOMAIN l.reply /\ m.reply[j] = l.reply[j]
          \/ m.reply[j].item = l.deferred[1]
    BY <1>1, <1>3, <2>1
  <2>4. \A j \in DOMAIN m.reply : m.reply[j].item < m.at
    BY <1>2, <1>5, <2>1, <2>3 DEF Reckoned
  <2>5. \A k \in DOMAIN m.deferred : m.deferred[k] < m.at
    BY <1>2, <1>5, <2>2 DEF Reckoned
  <2>6. \A j \in DOMAIN m.reply, k \in DOMAIN m.deferred : m.reply[j].item # m.deferred[k]
    BY <2>1, <2>2, <2>3 DEF Reckoned
  <2>7. \A j, k \in DOMAIN m.deferred : m.deferred[j] = m.deferred[k] => j = k
    <3> SUFFICES ASSUME NEW j \in DOMAIN m.deferred, NEW k \in DOMAIN m.deferred,
                        m.deferred[j] = m.deferred[k]
                 PROVE  j = k
      OBVIOUS
    <3>1. j + 1 = k + 1
      BY <2>2 DEF Reckoned
    <3>2. j \in Nat /\ k \in Nat
      BY <1>1, <2>2
    <3>3. QED
      BY <3>1, <3>2
  <2>8. \A i \in 1 .. m.at - 1 : \/ \E j \in DOMAIN m.reply : m.reply[j].item = i
                                 \/ \E k \in DOMAIN m.deferred : m.deferred[k] = i
    <3> SUFFICES ASSUME NEW i \in 1 .. m.at - 1
                 PROVE  \/ \E j \in DOMAIN m.reply : m.reply[j].item = i
                        \/ \E k \in DOMAIN m.deferred : m.deferred[k] = i
      OBVIOUS
    <3>1. \/ \E j \in DOMAIN l.reply : l.reply[j].item = i
          \/ \E k \in DOMAIN l.deferred : l.deferred[k] = i
      BY <1>2, <1>5 DEF Reckoned
    <3>2. CASE \E j \in DOMAIN l.reply : l.reply[j].item = i
      <4>1. \A j \in DOMAIN l.reply : j \in DOMAIN m.reply /\ m.reply[j] = l.reply[j]
        BY <1>1, <1>3
      <4>2. QED
        BY <3>2, <4>1
    <3>3. ASSUME NEW k \in DOMAIN l.deferred, l.deferred[k] = i
          PROVE  \/ \E j \in DOMAIN m.reply : m.reply[j].item = i
                 \/ \E x \in DOMAIN m.deferred : m.deferred[x] = i
      <4>1. CASE k = 1
        <5>1. n + 1 \in DOMAIN m.reply
          BY <1>1, <1>3
        <5>2. QED
          BY <1>3, <2>1, <3>3, <4>1, <5>1
      <4>2. CASE k # 1
        <5>1. k - 1 \in DOMAIN m.deferred /\ (k - 1) + 1 = k
          BY <1>1, <2>2, <4>2
        <5>2. QED
          BY <2>2, <3>3, <5>1
      <4>3. QED
        BY <4>1, <4>2
    <3>4. QED
      BY <3>1, <3>2, <3>3
  <2>9. Reckoned(m)
    BY <2>4, <2>5, <2>6, <2>7, <2>8 DEF Reckoned
  <2>10. QED
    BY <2>9 DEF m
<1>6. QED
  BY <1>1, <1>4, <1>5 DEF m

(* And so does leaving it to the inner backend. *)
LEMMA DeferReckoned ==
  ASSUME NEW l, AtItem(l), l.at <= Len(l.req.items), Reckoned(l)
  PROVE  Reckoned(Advance([l EXCEPT !.deferred = Append(@, l.at)]))
<1> DEFINE m == Advance([l EXCEPT !.deferred = Append(@, l.at)])
           n == Len(l.deferred)
<1>1. /\ l.deferred \in Seq(Nat) /\ l.at \in Nat /\ n \in Nat
      /\ DOMAIN l.deferred = 1 .. n
  BY ItemsType DEF AtItem
<1>2. /\ m.req = l.req /\ m.reply = l.reply /\ m.at = l.at + 1
      /\ m.deferred = Append(l.deferred, l.at)
  BY DeferFields
<1> HIDE DEF m, n
<1>3. /\ DOMAIN m.deferred = 1 .. n + 1
      /\ \A j \in 1 .. n : m.deferred[j] = l.deferred[j]
      /\ m.deferred[n + 1] = l.at
  <2>1. /\ m.deferred \in Seq(Nat) /\ Len(m.deferred) = n + 1
        /\ \A j \in 1 .. n : m.deferred[j] = l.deferred[j]
        /\ m.deferred[n + 1] = l.at
    BY <1>1, <1>2, AppendProperties DEF n
  <2>2. QED
    BY <2>1, LenProperties
<1>4. \A k \in DOMAIN m.deferred :
        \/ k \in DOMAIN l.deferred /\ m.deferred[k] = l.deferred[k]
        \/ k = n + 1 /\ m.deferred[k] = l.at
  BY <1>1, <1>3
<1>5. \A k \in DOMAIN l.deferred : l.deferred[k] < l.at /\ l.deferred[k] \in Nat
  BY <1>1, ElementOfSeq DEF Reckoned
<1>6. \A j \in DOMAIN l.reply : l.reply[j].item < l.at /\ l.reply[j].item \in Nat
  BY AccountType DEF Reckoned, AtItem
<1>7. \A j \in DOMAIN m.reply : m.reply[j].item < m.at
  BY <1>1, <1>2, <1>6
<1>8. \A k \in DOMAIN m.deferred : m.deferred[k] < m.at
  BY <1>1, <1>2, <1>4, <1>5
<1>9. \A j \in DOMAIN m.reply, k \in DOMAIN m.deferred : m.reply[j].item # m.deferred[k]
  BY <1>1, <1>2, <1>4, <1>6 DEF Reckoned
<1>10. \A j, k \in DOMAIN m.deferred : m.deferred[j] = m.deferred[k] => j = k
  BY <1>1, <1>4, <1>5 DEF Reckoned
<1>11. \A i \in 1 .. m.at - 1 : \/ \E j \in DOMAIN m.reply : m.reply[j].item = i
                                \/ \E k \in DOMAIN m.deferred : m.deferred[k] = i
  <2> SUFFICES ASSUME NEW i \in 1 .. m.at - 1
               PROVE  \/ \E j \in DOMAIN m.reply : m.reply[j].item = i
                      \/ \E k \in DOMAIN m.deferred : m.deferred[k] = i
    OBVIOUS
  <2>1. CASE i = l.at
    <3>1. n + 1 \in DOMAIN m.deferred
      BY <1>1, <1>3
    <3>2. QED
      BY <1>3, <2>1, <3>1
  <2>2. CASE i # l.at
    <3>1. i \in 1 .. l.at - 1
      BY <1>1, <1>2, <2>2
    <3>2. \/ \E j \in DOMAIN l.reply : l.reply[j].item = i
          \/ \E k \in DOMAIN l.deferred : l.deferred[k] = i
      BY <3>1 DEF Reckoned
    <3>3. \A k \in DOMAIN l.deferred : k \in DOMAIN m.deferred /\ m.deferred[k] = l.deferred[k]
      BY <1>1, <1>3
    <3>4. QED
      BY <1>2, <3>2, <3>3
  <2>3. QED
    BY <2>1, <2>2
<1>12. Reckoned(m)
  BY <1>7, <1>8, <1>9, <1>10, <1>11 DEF Reckoned
<1>13. QED
  BY <1>12 DEF m

(* Answering an item leaves a traced call. *)
LEMMA RespondTraced ==
  ASSUME NEW l, AtItem(l), NEW image, Traced(l, image), NEW after, LeftInline(l, after),
         NEW kind, NEW content,
         [item |-> Index(l), kind |-> kind, content |-> content] \in Response
  PROVE  Traced(Respond(l, kind, content), after)
<1> DEFINE m == Respond(l, kind, content)
<1>1. Reckoned(m)
  BY RespondReckoned DEF Traced
<1>2. /\ m.req = l.req
      /\ l.at <= Len(l.req.items) =>
           m.pc = Entry(l.req, l.at + 1) /\ m.at = l.at + 1 /\ m.deferred = l.deferred
      /\ l.at > Len(l.req.items) =>
           m.pc = "inner" /\ m.at = l.at /\ m.deferred = Tail(l.deferred)
  BY RespondFields
<1>3. /\ l.req \in Request /\ l.at \in Nat /\ Len(l.req.items) \in Nat
      /\ l.deferred \in Seq(Nat)
      /\ l.at > Len(l.req.items) => l.deferred # <<>>
  BY ItemsType DEF AtItem, Inside
<1> HIDE DEF m
<1>4. \A k \in DOMAIN m.deferred : \E j \in DOMAIN l.deferred : m.deferred[k] = l.deferred[j]
  <2>1. CASE l.at <= Len(l.req.items)
    BY <1>2, <2>1
  <2>2. CASE l.at > Len(l.req.items)
    <3>1. /\ m.deferred = Tail(l.deferred)
          /\ l.deferred \in Seq(Nat) /\ l.deferred # <<>>
      BY <1>2, <1>3, <2>2
    <3>2. \A k \in DOMAIN Tail(l.deferred) :
            \E j \in DOMAIN l.deferred : Tail(l.deferred)[k] = l.deferred[j]
      BY <3>1, TailElements
    <3>3. QED
      BY <3>1, <3>2
  <2>3. QED
    BY <1>3, <2>1, <2>2
<1>5. LeftInline(m, after)
  BY <1>2, <1>4 DEF LeftInline
<1>6. /\ m.pc \in {"inner", "probe", "delegate", "exists", "write"}
      /\ m.req.op = "edit" => m.pc \notin Storing
      /\ m.pc = "exists" =>
           m.req.op # "edit" /\ m.at <= Len(m.req.items) /\ Large(m.req.items[m.at].arg)
      /\ m.pc = "delegate" => m.req.op \in {"upload", "delete"}
  <2>1. CASE l.at <= Len(l.req.items)
    BY <1>2, <1>3, <2>1, EntryFresh
  <2>2. CASE l.at > Len(l.req.items)
    BY <1>2, <2>2 DEF Storing
  <2>3. QED
    BY <1>3, <2>1, <2>2
<1>7. StubStays(m, after)
  BY <1>6 DEF StubStays, Following
<1>8. AtHand(m)
  BY <1>6 DEF AtHand, Content, Item, Index
<1>9. Traced(m, after)
  BY <1>1, <1>5, <1>7, <1>8 DEF Traced
<1>10. QED
  BY <1>9 DEF m

(* And so does leaving it to the inner backend, once it is no stub. *)
LEMMA DeferTraced ==
  ASSUME NEW l, AtItem(l), l.at <= Len(l.req.items), NEW image, Traced(l, image),
         l.req.op \in {"read", "download", "edit"} => Inlined(image[Item(l).path])
  PROVE  Traced(Advance([l EXCEPT !.deferred = Append(@, l.at)]), image)
<1> DEFINE m == Advance([l EXCEPT !.deferred = Append(@, l.at)])
<1>1. Reckoned(m)
  BY DeferReckoned DEF Traced
<1>2. /\ m.req = l.req /\ m.pc = Entry(l.req, l.at + 1) /\ m.at = l.at + 1
      /\ m.deferred = Append(l.deferred, l.at)
  BY DeferFields
<1>3. /\ l.req \in Request /\ l.at \in Nat /\ Len(l.req.items) \in Nat
      /\ l.deferred \in Seq(Nat) /\ Len(l.deferred) \in Nat
      /\ DOMAIN l.deferred = 1 .. Len(l.deferred)
  BY ItemsType DEF AtItem, Inside
<1> HIDE DEF m
<1>4. \A k \in DOMAIN m.deferred :
        \/ k \in DOMAIN l.deferred /\ m.deferred[k] = l.deferred[k]
        \/ m.deferred[k] = l.at
  <2>1. /\ m.deferred \in Seq(Nat) /\ Len(m.deferred) = Len(l.deferred) + 1
        /\ \A j \in 1 .. Len(l.deferred) : m.deferred[j] = l.deferred[j]
        /\ m.deferred[Len(l.deferred) + 1] = l.at
    BY <1>2, <1>3, AppendProperties
  <2>2. DOMAIN m.deferred = 1 .. Len(l.deferred) + 1
    BY <2>1, LenProperties
  <2>3. \A k \in DOMAIN m.deferred : k \in DOMAIN l.deferred \/ k = Len(l.deferred) + 1
    BY <1>3, <2>2
  <2>4. QED
    BY <1>3, <2>1, <2>3
<1>5. Item(l) = l.req.items[l.at]
  BY DEF Item, Index
<1>6. LeftInline(m, image)
  BY <1>2, <1>4, <1>5 DEF LeftInline, Traced
<1>7. /\ m.pc \in {"inner", "probe", "delegate", "exists", "write"}
      /\ m.req.op = "edit" => m.pc \notin Storing
      /\ m.pc = "exists" =>
           m.req.op # "edit" /\ m.at <= Len(m.req.items) /\ Large(m.req.items[m.at].arg)
      /\ m.pc = "delegate" => m.req.op \in {"upload", "delete"}
  BY <1>2, <1>3, EntryFresh
<1>8. StubStays(m, image)
  BY <1>7 DEF StubStays, Following
<1>9. AtHand(m)
  BY <1>7 DEF AtHand, Content, Item, Index
<1>10. Traced(m, image)
  BY <1>1, <1>6, <1>8, <1>9 DEF Traced
<1>11. QED
  BY <1>10 DEF m

(* A call that goes on with its item. *)
LEMMA MoveTraced ==
  ASSUME NEW l, NEW image, Traced(l, image),
         NEW m, m.req = l.req, m.at = l.at, m.deferred = l.deferred, m.reply = l.reply,
         StubStays(m, image), AtHand(m)
  PROVE  Traced(m, image)
BY DEF Traced, Reckoned, LeftInline

-----------------------------------------------------------------------------
(* Every step keeps the trace *)

\* What a step may leave in an entry.
Proper(fd) ==
  \/ fd = None
  \/ fd.content \in Value /\ fd.encoding # "external"
  \/ \E v \in Value : Large(v) /\ fd.content = make_pointer(v)

(* What one caller writes touches no path of another. *)
LEMMA OthersTraced ==
  ASSUME IInv, TraceInv, OwnPaths, NEW c \in Caller, call[c].pc # "idle",
         NEW i \in DOMAIN call[c].req.items, NEW fd,
         inner' = [inner EXCEPT ![call[c].req.items[i].path] = fd],
         NEW d \in Caller, d # c, Busy(call[d])
  PROVE  Traced(call[d], inner')
<1> DEFINE l == call[d]
           p == call[c].req.items[i].path
<1>1. Traced(l, inner) /\ l.req \in Requests[d] /\ call[c].req \in Requests[c]
  BY DEF TraceInv, Recorded, Busy
<1>2. \A j \in DOMAIN l.req.items : l.req.items[j].path # p
  BY <1>1 DEF OwnPaths
<1>3. /\ inner \in Image
      /\ Placed(l) /\ Inside(l)
  BY CallerFacts DEF IInv, TypeOK, Placed, CallOK, Inside, Busy
<1>4. \A q : q # p => inner'[q] = inner[q]
  BY <1>3 DEF Image
<1>5. LeftInline(l, inner')
  BY <1>1, <1>2, <1>3, <1>4 DEF LeftInline, Traced, Inside
<1>6. StubStays(l, inner')
  <2> SUFFICES ASSUME Following(l)
               PROVE  /\ l.at <= Len(l.req.items)
                      /\ inner'[Item(l).path] # None /\ inner'[Item(l).path].content = l.ptr
    BY DEF StubStays
  <2>1. /\ l.at <= Len(l.req.items)
        /\ inner[Item(l).path] # None /\ inner[Item(l).path].content = l.ptr
    BY <1>1 DEF Traced, StubStays
  <2>2. l.at \in DOMAIN l.req.items /\ Item(l) = l.req.items[l.at]
    BY <1>3, <2>1, ItemsType DEF Inside, Item, Index
  <2>3. QED
    BY <1>2, <1>4, <2>1, <2>2
<1>7. QED
  BY <1>1, <1>5, <1>6 DEF Traced

(* A step of one call that leaves the inner backend as it was. *)
LEMMA StillTraced ==
  ASSUME IInv, TraceInv, NEW c \in Caller, NEW m, Run(c, m), UNCHANGED inner,
         IF m.pc = "idle" THEN m.reply = <<>> ELSE m.req \in Requests[c],
         Busy(m) => Traced(m, inner)
  PROVE  TraceInv'
<1>1. /\ call'[c] = m
      /\ \A d \in Caller \ {c} : call'[d] = call[d]
  BY DEF Run, IInv, TypeOK
<1>2. Entries'
  BY DEF TraceInv, Entries
<1>3. ASSUME NEW d \in Caller
      PROVE  Recorded(d)' /\ (Busy(call'[d]) => Traced(call'[d], inner'))
  <2>1. CASE d = c
    BY <1>1, <2>1 DEF Recorded
  <2>2. CASE d # c
    BY <1>1, <2>2 DEF Recorded, TraceInv
  <2>3. QED
    BY <2>1, <2>2
<1>4. QED
  BY <1>2, <1>3 DEF TraceInv

(* A step that answers an item and writes the entry of its path. *)
LEMMA WrittenTraced ==
  ASSUME IInv, TraceInv, OwnPaths, NEW c \in Caller, AtItem(call[c]), Busy(call[c]),
         NEW fd, Proper(fd), inner' = [inner EXCEPT ![Item(call[c]).path] = fd],
         Run(c, Respond(call[c], "ok", None)),
         call[c].req.op \in {"read", "download", "edit"} =>
           Inlined(fd) \/ ~Inlined(inner[Item(call[c]).path])
  PROVE  TraceInv'
<1> DEFINE l == call[c]
           p == Item(l).path
           m == Respond(l, "ok", None)
<1>1. /\ Index(l) \in DOMAIN l.req.items /\ p \in Path /\ p = l.req.items[Index(l)].path
      /\ [item |-> Index(l), kind |-> "ok", content |-> None] \in Response
  BY ItemType DEF Item, Response
<1>2. Traced(l, inner) /\ l.req \in Requests[c] /\ l.pc # "idle"
  BY DEF TraceInv, Recorded, Busy
<1>3. /\ inner \in Image /\ inner'[p] = fd
      /\ \A q : q # p => inner'[q] = inner[q]
  BY <1>1 DEF IInv, TypeOK, Image
<1>4. /\ call'[c] = m
      /\ \A d \in Caller \ {c} : call'[d] = call[d]
  BY DEF Run, IInv, TypeOK
<1>5. LeftInline(l, inner')
  BY <1>2, <1>3 DEF Traced, LeftInline
<1>6. Traced(m, inner')
  BY <1>1, <1>2, <1>5, RespondTraced
<1>7. m.req = l.req /\ m.pc # "idle"
  <2>1. Unbound(m)
    BY PlainResponseOK
  <2>2. m.req = l.req
    BY <1>1, RespondFields
  <2>3. l.req # None
    BY ItemsType DEF AtItem
  <2> HIDE DEF m
  <2>4. QED
    BY <2>1, <2>2, <2>3 DEF Unbound, Placed, CallOK
<1> HIDE DEF m
<1>8. Entries'
  BY <1>3 DEF TraceInv, Entries, Proper
<1>9. ASSUME NEW d \in Caller
      PROVE  Recorded(d)' /\ (Busy(call'[d]) => Traced(call'[d], inner'))
  <2>1. CASE d = c
    BY <1>2, <1>4, <1>6, <1>7, <2>1 DEF Recorded
  <2>2. CASE d # c
    BY <1>1, <1>2, <1>4, <2>2, OthersTraced DEF Recorded, TraceInv
  <2>3. QED
    BY <2>1, <2>2
<1>10. QED
  BY <1>8, <1>9 DEF TraceInv

-----------------------------------------------------------------------------
(* The steps as those of FileBackend *)

\* FileBackend's variables.
Files == [p \in Path |-> Denotes(inner[p])]
Asked == [c \in Caller |-> call[c].req]
Phase ==
  [c \in Caller |-> IF call[c].pc \in {"idle", "raised"} THEN call[c].pc ELSE "busy"]
Answers == [c \in Caller |-> {call[c].reply[j] : j \in DOMAIN call[c].reply}]

MayFail == InnerFaults # {} \/ StoreFaults

Losable == {v \in Value : Sweeps /\ Large(v)}

(* A call that goes on is the same call. *)
LEMMA SameCall ==
  ASSUME IInv, NEW c \in Caller, NEW m, Run(c, m), Busy(call[c]), Busy(m),
         m.req = call[c].req
  PROVE  Asked' = Asked /\ Phase' = Phase
<1>1. /\ call'[c] = m
      /\ \A d \in Caller \ {c} : call'[d] = call[d]
  BY DEF Run, IInv, TypeOK
<1>2. \A d \in Caller : call'[d].req = call[d].req
  BY <1>1
<1>3. \A d \in Caller : (IF call'[d].pc \in {"idle", "raised"} THEN call'[d].pc ELSE "busy")
                      = (IF call[d].pc \in {"idle", "raised"} THEN call[d].pc ELSE "busy")
  BY <1>1 DEF Busy
<1>4. QED
  BY <1>2, <1>3 DEF Asked, Phase

(* One that answers nothing leaves the answers as they were. *)
LEMMA SameAnswers ==
  ASSUME IInv, NEW c \in Caller, NEW m, Run(c, m), m.reply = call[c].reply
  PROVE  Answers' = Answers
<1>1. /\ call'[c] = m
      /\ \A d \in Caller \ {c} : call'[d] = call[d]
  BY DEF Run, IInv, TypeOK
<1>2. \A d \in Caller : call'[d].reply = call[d].reply
  BY <1>1
<1>3. QED
  BY <1>2 DEF Answers

(* One that answers adds its answer. *)
LEMMA MoreAnswers ==
  ASSUME IInv, NEW c \in Caller, NEW m, Run(c, m), NEW answer \in Response,
         m.reply = Append(call[c].reply, answer)
  PROVE  Answers' = [Answers EXCEPT ![c] = @ \cup {answer}]
<1> DEFINE l == call[c]
           n == Len(l.reply)
<1>1. /\ call'[c] = m
      /\ \A d \in Caller \ {c} : call'[d] = call[d]
      /\ l.reply \in Seq(Response)
  BY DEF Run, IInv, TypeOK, Local
<1> HIDE DEF l
<1>2. /\ n \in Nat /\ DOMAIN l.reply = 1 .. n
      /\ m.reply \in Seq(Response) /\ Len(m.reply) = n + 1
      /\ \A j \in 1 .. n : m.reply[j] = l.reply[j]
      /\ m.reply[n + 1] = answer
  BY <1>1, LenProperties, AppendProperties DEF l
<1>3. DOMAIN m.reply = 1 .. n + 1
  BY <1>2, LenProperties
<1> HIDE DEF n
<1>4. {m.reply[j] : j \in DOMAIN m.reply} = {l.reply[j] : j \in DOMAIN l.reply} \cup {answer}
  <2>1. \A j \in DOMAIN m.reply : (j \in DOMAIN l.reply /\ m.reply[j] = l.reply[j]) \/ m.reply[j] = answer
    BY <1>2, <1>3
  <2>2. \A j \in DOMAIN l.reply : j \in DOMAIN m.reply /\ m.reply[j] = l.reply[j]
    BY <1>2, <1>3
  <2>3. n + 1 \in DOMAIN m.reply /\ m.reply[n + 1] = answer
    BY <1>2, <1>3
  <2>4. QED
    BY <2>1, <2>2, <2>3
<1>5. \A d \in Caller : Answers'[d] = [Answers EXCEPT ![c] = @ \cup {answer}][d]
  <2>1. ASSUME NEW d \in Caller, d # c
        PROVE  Answers'[d] = Answers[d]
    BY <1>1, <2>1 DEF Answers
  <2>2. Answers'[c] = Answers[c] \cup {answer}
    BY <1>1, <1>4 DEF Answers, l
  <2>3. QED
    BY <2>1, <2>2 DEF Answers
<1>6. QED
  BY <1>5 DEF Answers

(* One entry written is one file set. *)
LEMMA OneFile ==
  ASSUME IInv, NEW p \in Path, NEW fd, inner' = [inner EXCEPT ![p] = fd]
  PROVE  Files' = [Files EXCEPT ![p] = Denotes(fd)]
<1>1. \A q \in Path : inner'[q] = IF q = p THEN fd ELSE inner[q]
  BY DEF IInv, TypeOK, Image
<1>2. \A q \in Path : Denotes(inner'[q]) = IF q = p THEN Denotes(fd) ELSE Denotes(inner[q])
  BY <1>1
<1>3. QED
  BY <1>2 DEF Files

(* The item at hand has no answer yet. *)
LEMMA StillOpen ==
  ASSUME NEW c \in Caller, AtItem(call[c]), Reckoned(call[c])
  PROVE  /\ Index(call[c]) \in DOMAIN Asked[c].items
         /\ \A a \in Answers[c] : a.item # Index(call[c])
<1> DEFINE l == call[c]
<1>1. /\ Index(l) \in DOMAIN l.req.items /\ Inside(l)
      /\ l.at > Len(l.req.items) => l.deferred # <<>>
  BY ItemType DEF AtItem
<1>2. /\ l.at \in Nat /\ Len(l.req.items) \in Nat /\ l.deferred \in Seq(Nat)
      /\ DOMAIN l.deferred = 1 .. Len(l.deferred)
  BY <1>1, ItemsType
<1>3. \A j \in DOMAIN l.reply : l.reply[j].item \in Nat
  BY <1>1, AccountType
<1>4. \A j \in DOMAIN l.reply : l.reply[j].item # Index(l)
  <2>1. CASE l.at <= Len(l.req.items)
    BY <1>2, <1>3, <2>1 DEF Reckoned, Index
  <2>2. CASE l.at > Len(l.req.items)
    <3>1. Index(l) = l.deferred[1] /\ 1 \in DOMAIN l.deferred
      BY <1>1, <1>2, <2>2, HeadTailProperties, EmptySeq DEF Index
    <3>2. QED
      BY <3>1 DEF Reckoned
  <2>3. QED
    BY <1>2, <2>1, <2>2
<1>5. QED
  BY <1>1, <1>4 DEF Asked, Answers

-----------------------------------------------------------------------------
(* What a step of a call comes to *)

\* A step of the backend, seen through its files and answers.
Simulated == File!Next \/ UNCHANGED File!vars

(* Nothing that FileBackend knows of: the call goes on. *)
LEMMA Quiet ==
  ASSUME IInv, NEW c \in Caller, NEW m, Run(c, m), UNCHANGED inner,
         Busy(call[c]), Busy(m), m.req = call[c].req, m.reply = call[c].reply
  PROVE  Simulated
<1>1. Asked' = Asked /\ Phase' = Phase /\ Answers' = Answers
  BY SameCall, SameAnswers
<1>2. Files' = Files
  BY DEF Files
<1>3. QED
  BY <1>1, <1>2 DEF Simulated, File!vars, Asked, Phase, Answers, Files

(* An answer. *)
LEMMA Answered ==
  ASSUME IInv, TraceInv, NEW c \in Caller, AtItem(call[c]), Busy(call[c]),
         NEW kind, NEW content,
         [item |-> Index(call[c]), kind |-> kind, content |-> content] \in Response,
         Run(c, Respond(call[c], kind, content)), Busy(Respond(call[c], kind, content))
  PROVE  /\ File!Answer(c, Index(call[c]), kind, content)
         /\ Index(call[c]) \in File!Unanswered(c)
         /\ Phase[c] = "busy"
<1> DEFINE l == call[c]
           answer == [item |-> Index(l), kind |-> kind, content |-> content]
           m == Respond(l, kind, content)
<1>1. m.req = l.req /\ m.reply = Append(l.reply, answer)
  BY RespondFields
<1>2. Answers' = [Answers EXCEPT ![c] = @ \cup {answer}]
  BY <1>1, MoreAnswers
<1>3. Asked' = Asked /\ Phase' = Phase
  BY <1>1, SameCall
<1>4. Reckoned(l)
  BY DEF TraceInv, Traced
<1>5. /\ Index(l) \in DOMAIN Asked[c].items
      /\ \A a \in Answers[c] : a.item # Index(l)
  BY <1>4, StillOpen
<1>6. Phase[c] = "busy"
  BY DEF Phase, Busy
<1>7. File!Answer(c, Index(l), kind, content)
  BY <1>2, <1>3 DEF File!Answer, Asked, Phase, Answers
<1>8. Index(l) \in File!Unanswered(c)
  BY <1>5 DEF File!Unanswered, Asked, Answers
<1>9. QED
  BY <1>6, <1>7, <1>8

(* An answered call is at its next item. *)
LEMMA AnsweredBusy ==
  ASSUME NEW l, AtItem(l), NEW kind, NEW content,
         [item |-> Index(l), kind |-> kind, content |-> content] \in Response
  PROVE  Busy(Respond(l, kind, content)) /\ Respond(l, kind, content).req = l.req
<1> DEFINE m == Respond(l, kind, content)
<1>1. /\ m.req = l.req
      /\ l.at <= Len(l.req.items) => m.pc = Entry(l.req, l.at + 1)
      /\ l.at > Len(l.req.items) => m.pc = "inner"
  BY RespondFields
<1>2. l.req \in Request /\ l.at \in Nat /\ Len(l.req.items) \in Nat
  BY ItemsType DEF AtItem, Inside
<1> HIDE DEF m
<1>3. Entry(l.req, l.at + 1) \in {"inner", "probe", "delegate", "exists", "write"}
  BY <1>2, EntryFresh
<1>4. Busy(m)
  BY <1>1, <1>2, <1>3 DEF Busy
<1>5. QED
  BY <1>1, <1>4 DEF m

(* The call goes on with its item. *)
LEMMA GoesOn ==
  ASSUME IInv, TraceInv, NEW c \in Caller, Busy(call[c]),
         NEW m, Run(c, m), UNCHANGED inner, Busy(m), m.req = call[c].req,
         m.at = call[c].at, m.deferred = call[c].deferred, m.reply = call[c].reply,
         StubStays(m, inner), AtHand(m)
  PROVE  TraceInv' /\ Simulated
<1>1. Traced(call[c], inner) /\ call[c].req \in Requests[c]
  BY DEF TraceInv, Recorded, Busy
<1>2. Traced(m, inner)
  BY <1>1, MoveTraced
<1>3. TraceInv'
  BY <1>1, <1>2, StillTraced DEF Busy
<1>4. QED
  BY <1>3, Quiet

(* The item at hand is left to the inner backend. *)
LEMMA Defers ==
  ASSUME IInv, TraceInv, NEW c \in Caller, Busy(call[c]), AtItem(call[c]),
         call[c].at <= Len(call[c].req.items), UNCHANGED inner,
         Run(c, Advance([call[c] EXCEPT !.deferred = Append(@, call[c].at)])),
         call[c].req.op \in {"read", "download", "edit"} =>
           Inlined(inner[Item(call[c]).path])
  PROVE  TraceInv' /\ Simulated
<1> DEFINE l == call[c]
           m == Advance([l EXCEPT !.deferred = Append(@, l.at)])
<1>1. Traced(l, inner) /\ l.req \in Requests[c]
  BY DEF TraceInv, Recorded, Busy
<1>2. Traced(m, inner)
  BY <1>1, DeferTraced
<1>3. m.req = l.req /\ m.reply = l.reply /\ m.pc = Entry(l.req, l.at + 1)
  BY DeferFields
<1>4. l.req \in Request /\ l.at \in Nat
  BY ItemsType DEF AtItem, Inside
<1>5. Run(c, m)
  OBVIOUS
<1> HIDE DEF m
<1>6. m.pc \in {"inner", "probe", "delegate", "exists", "write"}
  BY <1>3, <1>4, EntryFresh
<1>7. TraceInv'
  BY <1>1, <1>2, <1>3, <1>5, <1>6, StillTraced
<1>8. Simulated
  BY <1>3, <1>5, <1>6, Quiet DEF Busy
<1>9. QED
  BY <1>7, <1>8

(* The call is given up. *)
LEMMA Aborts ==
  ASSUME IInv, TraceInv, NEW c \in Caller, Busy(call[c]), UNCHANGED inner,
         Run(c, Raised(call[c])), MayFail
  PROVE  TraceInv' /\ Simulated
<1> DEFINE l == call[c]
           m == Raised(l)
<1>1. l \in Local /\ l.req \in Requests[c]
  BY DEF TraceInv, Recorded, Busy, IInv, TypeOK
<1>2. m.pc = "raised" /\ m.req = l.req /\ m.reply = l.reply
  BY <1>1 DEF Raised, Local
<1>3. Run(c, m)
  OBVIOUS
<1> HIDE DEF m
<1>4. TraceInv'
  BY <1>1, <1>2, <1>3, StillTraced DEF Busy
<1>5. /\ call'[c] = m
      /\ \A d \in Caller \ {c} : call'[d] = call[d]
  BY <1>3 DEF Run, IInv, TypeOK
<1>6. Asked' = Asked
  <2>1. \A d \in Caller : call'[d].req = call[d].req
    BY <1>2, <1>5
  <2>2. QED
    BY <2>1 DEF Asked
<1>7. Answers' = Answers
  BY <1>2, <1>3, SameAnswers
<1>8. Phase' = [Phase EXCEPT ![c] = "raised"]
  <2>1. \A d \in Caller : Phase'[d] = IF d = c THEN "raised" ELSE Phase[d]
    BY <1>2, <1>5 DEF Phase
  <2>2. QED
    BY <2>1 DEF Phase
<1>9. Phase[c] = "busy"
  BY DEF Phase, Busy
<1>10. Files' = Files
  BY DEF Files
<1>11. File!Abort(c)
  BY <1>6, <1>7, <1>8, <1>9, <1>10 DEF File!Abort, Files, Asked, Phase, Answers, MayFail
<1>12. QED
  BY <1>4, <1>11 DEF Simulated, File!Next

\* The file that the item at hand of a call is about.
HeldBy(l) == Denotes(inner[Item(l).path])

\* When FileBackend may refuse an item.
MayRefuse(l) ==
  \/ MayFail
  \/ l.req.op \in {"read", "download"} /\ HeldBy(l) \in Losable \cup {None}
  \/ /\ l.req.op = "edit"
     /\ \/ HeldBy(l) \in Losable \cup {None}
        \/ Replace[Item(l).arg][HeldBy(l)] = None

(* An item of a call, as FileBackend sees it. *)
LEMMA FileItem ==
  ASSUME NEW c \in Caller, AtItem(call[c])
  PROVE  /\ Asked[c].op = call[c].req.op
         /\ Asked[c].items[Index(call[c])] = Item(call[c])
         /\ Files[Item(call[c]).path] = HeldBy(call[c])
BY ItemType DEF Asked, Files, HeldBy, Item

(* A step of FileBackend on an item. *)
LEMMA Performs ==
  ASSUME NEW c \in Caller, Phase[c] = "busy", NEW i \in File!Unanswered(c),
         File!ReadItem(c, i) \/ File!WriteItem(c, i) \/ File!EditItem(c, i)
                             \/ File!DeleteItem(c, i)
  PROVE  Simulated
<1>1. File!Perform(c)
  BY DEF File!Perform, Phase
<1>2. QED
  BY <1>1 DEF Simulated, File!Next

(* An item is refused. *)
LEMMA Refused ==
  ASSUME IInv, TraceInv, NEW c \in Caller, Busy(call[c]), AtItem(call[c]),
         UNCHANGED inner, Run(c, Respond(call[c], "error", None)), MayRefuse(call[c])
  PROVE  TraceInv' /\ Simulated
<1> DEFINE l == call[c]
           m == Respond(l, "error", None)
<1> PICK i : i = Index(l)
  OBVIOUS
<1>1. Traced(l, inner) /\ LeftInline(l, inner) /\ l.req \in Requests[c]
  BY DEF TraceInv, Recorded, Busy, Traced
<1>2. [item |-> i, kind |-> "error", content |-> None] \in Response
  BY ItemType DEF Response
<1>3. Traced(m, inner)
  BY <1>1, <1>2, RespondTraced
<1>4. Busy(m) /\ m.req = l.req
  BY <1>2, AnsweredBusy
<1>5. /\ File!Answer(c, i, "error", None)
      /\ i \in File!Unanswered(c)
      /\ Phase[c] = "busy"
  BY <1>2, <1>4, Answered
<1>6. TraceInv'
  <2>1. Run(c, m)
    OBVIOUS
  <2> HIDE DEF m
  <2>2. QED
    BY <1>1, <1>3, <1>4, <2>1, StillTraced DEF Busy
<1> HIDE DEF m
<1>7. Files' = Files
  BY DEF Files
<1>8. File!Refuse(c, i)
  BY <1>5, <1>7 DEF File!Refuse, Files
<1>9. /\ Asked[c].op = l.req.op /\ Asked[c].items[i] = Item(l)
      /\ Files[Item(l).path] = HeldBy(l)
  BY FileItem
<1>10. l.req.op \in Op
  BY DEF AtItem, Inside, Request
<1>11. CASE l.req.op \in {"read", "download"}
  <2>1. HeldBy(l) \in Losable \cup {None} \/ MayFail
    BY <1>11 DEF MayRefuse
  <2>2. File!ReadItem(c, i)
    BY <1>8, <1>9, <1>11, <2>1 DEF File!ReadItem, Asked, Files, Losable, MayFail
  <2>3. QED
    <3>1. Simulated
      BY <1>5, <2>2, Performs
    <3>2. QED
      BY <1>6, <3>1
<1>12. CASE l.req.op = "edit"
  <2>1. \/ HeldBy(l) \in Losable \cup {None} \/ MayFail
        \/ Replace[Item(l).arg][HeldBy(l)] = None
    BY <1>12 DEF MayRefuse
  <2>2. File!EditItem(c, i)
    BY <1>8, <1>9, <1>12, <2>1 DEF File!EditItem, Asked, Files, Losable, MayFail
  <2>3. QED
    <3>1. Simulated
      BY <1>5, <2>2, Performs
    <3>2. QED
      BY <1>6, <3>1
<1>13. CASE l.req.op \in {"write", "upload"}
  <2>1. MayFail
    BY <1>13 DEF MayRefuse
  <2>2. File!WriteItem(c, i)
    BY <1>8, <1>9, <1>13, <2>1 DEF File!WriteItem, Asked, MayFail
  <2>3. QED
    <3>1. Simulated
      BY <1>5, <2>2, Performs
    <3>2. QED
      BY <1>6, <3>1
<1>14. CASE l.req.op = "delete"
  <2>1. MayFail
    BY <1>14 DEF MayRefuse
  <2>2. File!DeleteItem(c, i)
    BY <1>8, <1>9, <1>14, <2>1 DEF File!DeleteItem, Asked, MayFail
  <2>3. QED
    <3>1. Simulated
      BY <1>5, <2>2, Performs
    <3>2. QED
      BY <1>6, <3>1
<1>15. QED
  BY <1>10, <1>11, <1>12, <1>13, <1>14 DEF Op

(* A file is read: the answer is its content. *)
LEMMA WasRead ==
  ASSUME IInv, TraceInv, NEW c \in Caller, Busy(call[c]), AtItem(call[c]),
         UNCHANGED inner, call[c].req.op \in {"read", "download"},
         HeldBy(call[c]) \in Value,
         Run(c, Respond(call[c], "content", HeldBy(call[c])))
  PROVE  TraceInv' /\ Simulated
<1> DEFINE l == call[c]
<1> PICK i : i = Index(l)
  OBVIOUS
<1> PICK v \in Value : v = HeldBy(l)
  OBVIOUS
<1> DEFINE m == Respond(l, "content", v)
<1>1. Traced(l, inner) /\ LeftInline(l, inner) /\ l.req \in Requests[c]
  BY DEF TraceInv, Recorded, Busy, Traced
<1>2. [item |-> i, kind |-> "content", content |-> v] \in Response
  BY ItemType DEF Response
<1>3. Traced(m, inner)
  BY <1>1, <1>2, RespondTraced
<1>4. Busy(m) /\ m.req = l.req
  BY <1>2, AnsweredBusy
<1>5. /\ File!Answer(c, i, "content", v)
      /\ i \in File!Unanswered(c)
      /\ Phase[c] = "busy"
  BY <1>2, <1>4, Answered
<1>6. TraceInv'
  <2>1. Run(c, m)
    OBVIOUS
  <2> HIDE DEF m
  <2>2. QED
    BY <1>1, <1>3, <1>4, <2>1, StillTraced DEF Busy
<1> HIDE DEF m
<1>7. Files' = Files
  BY DEF Files
<1>8. /\ Asked[c].op = l.req.op /\ Asked[c].items[i] = Item(l)
      /\ Files[Item(l).path] = v
  BY FileItem
<1>9. v # None
  BY MarkAssumption
<1>10. File!ReadItem(c, i)
  <2>1. Files[Asked[c].items[i].path] = v /\ Asked[c].op \in {"read", "download"}
    BY <1>8
  <2>2. Files' = Files /\ v # None /\ File!Answer(c, i, "content", v)
    BY <1>5, <1>7, <1>9
  <2>3. QED
    BY <2>1, <2>2 DEF File!ReadItem, File!Answer, Asked, Files
<1>11. QED
  <2>1. Simulated
    BY <1>5, <1>10, Performs
  <2>2. QED
    BY <1>6, <2>1

\* What FileBackend would make of a file, for the item at hand of a call.
Made(l, v) ==
  \/ l.req.op \in {"write", "upload"} /\ v = Item(l).arg
  \/ /\ l.req.op = "edit" /\ HeldBy(l) # None
     /\ v = Replace[Item(l).arg][HeldBy(l)] /\ v # None
  \/ l.req.op = "delete" /\ v = None

(* A file is written, edited or deleted. *)
LEMMA Written ==
  ASSUME IInv, TraceInv, OwnPaths, NEW c \in Caller, Busy(call[c]), AtItem(call[c]),
         NEW fd, Proper(fd), inner' = [inner EXCEPT ![Item(call[c]).path] = fd],
         Run(c, Respond(call[c], "ok", None)), Made(call[c], Denotes(fd)),
         call[c].req.op = "edit" => Inlined(fd) \/ ~Inlined(inner[Item(call[c]).path])
  PROVE  TraceInv' /\ Simulated
<1> DEFINE l == call[c]
           p == Item(l).path
           v == Denotes(fd)
<1> PICK i : i = Index(l)
  OBVIOUS
<1>1. [item |-> i, kind |-> "ok", content |-> None] \in Response /\ p \in Path
  BY ItemType DEF Response
<1>2. Busy(Respond(l, "ok", None))
  BY <1>1, AnsweredBusy
<1>3. /\ File!Answer(c, i, "ok", None)
      /\ i \in File!Unanswered(c)
      /\ Phase[c] = "busy"
  BY <1>1, <1>2, Answered
<1>4. TraceInv'
  BY WrittenTraced DEF Made
<1>5. Files' = [Files EXCEPT ![p] = v]
  BY <1>1, OneFile
<1> HIDE DEF v, p
<1>6. /\ Asked[c].op = l.req.op /\ Asked[c].items[i] = Item(l)
      /\ Files[Item(l).path] = HeldBy(l)
  BY FileItem
<1>7. File!Set(c, i, v)
  BY <1>3, <1>5, <1>6 DEF File!Set, Asked, Files, p
<1>8. CASE l.req.op \in {"write", "upload"}
  <2>1. File!WriteItem(c, i)
    BY <1>6, <1>7, <1>8 DEF File!WriteItem, Asked, Made, v
  <2>2. QED
    <3>1. Simulated
      BY <1>3, <2>1, Performs
    <3>2. QED
      BY <1>4, <3>1
<1>9. CASE l.req.op = "edit"
  <2>1. HeldBy(l) # None /\ v = Replace[Item(l).arg][HeldBy(l)] /\ v # None
    BY <1>9 DEF Made, v
  <2>2. File!EditItem(c, i)
    BY <1>6, <1>7, <1>9, <2>1 DEF File!EditItem, Asked, Files
  <2>3. QED
    <3>1. Simulated
      BY <1>3, <2>2, Performs
    <3>2. QED
      BY <1>4, <3>1
<1>10. CASE l.req.op = "delete"
  <2>1. v = None
    BY <1>10 DEF Made, v
  <2>2. File!DeleteItem(c, i)
    BY <1>6, <1>7, <1>10, <2>1 DEF File!DeleteItem, Asked
  <2>3. QED
    <3>1. Simulated
      BY <1>3, <2>2, Performs
    <3>2. QED
      BY <1>4, <3>1
<1>11. QED
  BY <1>8, <1>9, <1>10 DEF Made

-----------------------------------------------------------------------------
(* What a call knows of the file of its item *)

(* What the invariants say of a call under way. *)
LEMMA UnderWay ==
  ASSUME IInv, EditInv, TraceInv, NEW c \in Caller, Busy(call[c])
  PROVE  /\ call[c] \in Local /\ CallOK(call[c]) /\ Sound(call[c]) /\ Placed(call[c])
         /\ Traced(call[c], inner) /\ call[c].req \in Requests[c]
         /\ Inside(call[c])
BY CallFacts DEF TraceInv, Recorded, Busy, Placed, CallOK, Inside

(* What an entry stands for. *)
LEMMA EntryDenotes ==
  ASSUME NoLookalike, NEW fd
  PROVE  /\ fd = None => Denotes(fd) = None
         /\ fd # None /\ fd.content \in Value => Denotes(fd) = fd.content
         /\ \A v \in Value : fd # None /\ fd.content = make_pointer(v) => Denotes(fd) = v
<1>1. fd # None /\ fd.content \in Value => Denotes(fd) = fd.content
  BY StubType DEF NoLookalike, Denotes
<1>2. ASSUME NEW v \in Value, fd # None, fd.content = make_pointer(v)
      PROVE  Denotes(fd) = v
  <2>1. \A u \in Value : make_pointer(v) = make_pointer(u) => u = v
    BY StubAssumption DEF make_pointer
  <2>2. (CHOOSE u \in Value : make_pointer(v) = make_pointer(u)) = v
    BY <2>1
  <2>3. QED
    BY <1>2, <2>2 DEF Denotes
<1>3. QED
  BY <1>1, <1>2 DEF Denotes

(* An entry that holds a pointer is the stub of a large content. *)
LEMMA StubOfLarge ==
  ASSUME NoLookalike, TraceInv, NEW p \in Path, inner[p] # None,
         inner[p].content \in Pointer
  PROVE  \E v \in Value : /\ Large(v) /\ inner[p].content = make_pointer(v)
                          /\ Denotes(inner[p]) = v
<1>1. inner[p].content \notin Value
  BY DEF NoLookalike
<1>2. PICK v \in Value : Large(v) /\ inner[p].content = make_pointer(v)
  BY <1>1 DEF TraceInv, Entries
<1>3. QED
  BY <1>2, EntryDenotes

(* Any other entry is a file kept inline. *)
LEMMA InlineEntry ==
  ASSUME NoLookalike, TraceInv, NEW p \in Path, inner[p] # None,
         inner[p].content \in Value \/ inner[p].content \notin Pointer
  PROVE  /\ inner[p].content \in Value /\ inner[p].encoding # "external"
         /\ Denotes(inner[p]) = inner[p].content
<1>1. ASSUME NEW v \in Value PROVE inner[p].content # make_pointer(v)
  BY StubType DEF NoLookalike
<1>2. inner[p].content \in Value /\ inner[p].encoding # "external"
  BY <1>1 DEF TraceInv, Entries
<1>3. QED
  BY <1>2, EntryDenotes

(* A call that follows a stub has the content it stands for within reach. *)
LEMMA Followed ==
  ASSUME NoLookalike, IInv, EditInv, TraceInv, NEW c \in Caller, Busy(call[c]),
         Following(call[c])
  PROVE  /\ AtItem(call[c]) /\ call[c].at <= Len(call[c].req.items)
         /\ inner[Item(call[c]).path] # None
         /\ inner[Item(call[c]).path].content = call[c].ptr
         /\ ~Inlined(inner[Item(call[c]).path])
         /\ HeldBy(call[c]) \in Value /\ Large(HeldBy(call[c]))
         /\ call[c].ptr = make_pointer(HeldBy(call[c]))
<1> DEFINE l == call[c]
           p == Item(l).path
<1>1. AtItem(l)
  BY UnderWay, AtItemOf DEF Following, Storing
<1>2. /\ l.at <= Len(l.req.items)
      /\ inner[p] # None /\ inner[p].content = l.ptr
  BY UnderWay DEF Traced, StubStays
<1>3. l.ptr \in Pointer
  <2>1. p \in Path /\ l.ptr \in Pointer \cup {None}
    BY <1>1, ItemType DEF AtItem, Inside, Local
  <2>2. l.ptr # None
    BY <1>2, <2>1, MarkAssumption DEF IInv, TypeOK, Image, FileData
  <2>3. QED
    BY <2>1, <2>2
<1>4. p \in Path
  BY <1>1, ItemType
<1>5. PICK v \in Value : Large(v) /\ inner[p].content = make_pointer(v) /\ Denotes(inner[p]) = v
  BY <1>2, <1>3, <1>4, StubOfLarge
<1>6. ~Inlined(inner[p])
  BY <1>2, <1>3 DEF Inlined, NoLookalike
<1>7. QED
  BY <1>1, <1>2, <1>5, <1>6 DEF HeldBy

(* What a read, download or edit left to the inner backend has no stub. *)
LEMMA LeftItem ==
  ASSUME NoLookalike, IInv, EditInv, TraceInv, NEW c \in Caller,
         Deferred(c, {"read", "download", "edit"})
  PROVE  /\ AtItem(call[c]) /\ Busy(call[c])
         /\ inner[Item(call[c]).path] = None => HeldBy(call[c]) = None
         /\ inner[Item(call[c]).path] # None =>
              /\ inner[Item(call[c]).path].content \in Value
              /\ inner[Item(call[c]).path].encoding # "external"
              /\ HeldBy(call[c]) = inner[Item(call[c]).path].content
<1> DEFINE l == call[c]
           p == Item(l).path
<1>1. AtItem(l) /\ Busy(l) /\ l.req.op \in {"read", "download", "edit"} /\ p \in Path
  BY DeferredFacts DEF Deferred, Busy
<1>2. /\ l.at = Len(l.req.items) + 1 /\ l.deferred # <<>>
      /\ l.at \in Nat /\ Len(l.req.items) \in Nat
  BY <1>1, UnderWay, ItemsType DEF Deferred, CallOK
<1>3. Head(l.deferred) = l.deferred[1] /\ 1 \in DOMAIN l.deferred
  BY <1>1, <1>2, ItemsType, HeadTailProperties, EmptySeq DEF AtItem
<1>4. Item(l) = l.req.items[l.deferred[1]]
  BY <1>2, <1>3 DEF Item, Index
<1>5. Inlined(inner[p])
  BY <1>1, <1>3, <1>4, UnderWay DEF Traced, LeftInline
<1>6. QED
  BY <1>1, <1>5, InlineEntry, EntryDenotes DEF Inlined, HeldBy

-----------------------------------------------------------------------------
(* Each step, seen through the files and answers *)

(* A method that begins. *)
LEMMA CallTransparent ==
  ASSUME IInv, EditInv, TraceInv, NEW c \in Caller, NEW r \in Requests[c], Call(c, r)
  PROVE  TraceInv' /\ Simulated
<1> DEFINE m == [Idle EXCEPT !.req = r, !.pc = Entry(r, 1)]
<1>1. r \in Request /\ Len(r.items) \in Nat
  <2>1. r \in Request
    BY CallAssumption
  <2>2. QED
    BY <2>1, LenProperties DEF Request
<1>2. /\ m.pc = Entry(r, 1) /\ m.req = r /\ m.at = 1
      /\ m.deferred = <<>> /\ m.reply = <<>>
  BY DEF Idle
<1>3. Run(c, m) /\ UNCHANGED inner /\ call[c].pc = "idle"
  BY DEF Call
<1> HIDE DEF m
<1>4. /\ m.pc \in {"inner", "probe", "delegate", "exists", "write"}
      /\ r.op = "edit" => m.pc \notin Storing
      /\ m.pc = "exists" => r.op # "edit" /\ 1 <= Len(r.items) /\ Large(r.items[1].arg)
      /\ m.pc = "delegate" => r.op \in {"upload", "delete"}
  BY <1>1, <1>2, EntryFresh
<1>5. Traced(m, inner)
  <2>1. DOMAIN m.deferred = {} /\ DOMAIN m.reply = {}
    BY <1>2, EmptySeq
  <2>2. Reckoned(m)
    BY <1>2, <2>1 DEF Reckoned
  <2>3. StubStays(m, inner) /\ LeftInline(m, inner)
    BY <1>2, <1>4, <2>1 DEF StubStays, Following, LeftInline
  <2>4. AtHand(m)
    BY <1>2, <1>4 DEF AtHand, Content, Item, Index
  <2>5. QED
    BY <2>2, <2>3, <2>4 DEF Traced
<1>6. TraceInv'
  BY <1>2, <1>3, <1>4, <1>5, StillTraced
<1>7. /\ call'[c] = m
      /\ \A d \in Caller \ {c} : call'[d] = call[d]
  BY <1>3 DEF Run, IInv, TypeOK
<1>8. Asked' = [Asked EXCEPT ![c] = r]
  <2>1. \A d \in Caller : Asked'[d] = IF d = c THEN r ELSE Asked[d]
    BY <1>2, <1>7 DEF Asked
  <2>2. QED
    BY <2>1 DEF Asked
<1>9. Phase[c] = "idle" /\ Phase' = [Phase EXCEPT ![c] = "busy"]
  <2>1. \A d \in Caller : Phase'[d] = IF d = c THEN "busy" ELSE Phase[d]
    BY <1>2, <1>4, <1>7 DEF Phase
  <2>2. QED
    BY <1>3, <2>1 DEF Phase
<1>10. Answers' = Answers
  BY <1>2, <1>3, SameAnswers DEF TraceInv, Recorded
<1>11. Files' = Files
  BY <1>3 DEF Files
<1>12. File!Ask(c, r)
  BY <1>8, <1>9, <1>10, <1>11 DEF File!Ask, Files, Asked, Phase, Answers
<1>13. QED
  BY <1>6, <1>12 DEF Simulated, File!Next

(* A method that returns: every item of a finished call is answered. *)
LEMMA ReturnTransparent ==
  ASSUME IInv, EditInv, TraceInv, NEW c \in Caller, Return(c)
  PROVE  TraceInv' /\ Simulated
<1> DEFINE l == call[c]
<1>1. Run(c, Idle) /\ UNCHANGED inner /\ (Finished(l) \/ l.pc = "raised")
  BY DEF Return
<1>2. Idle.pc = "idle" /\ Idle.req = None /\ Idle.reply = <<>>
  BY DEF Idle
<1>3. TraceInv'
  BY <1>1, <1>2, StillTraced DEF Busy
<1>4. /\ call'[c] = Idle
      /\ \A d \in Caller \ {c} : call'[d] = call[d]
  BY <1>1 DEF Run, IInv, TypeOK
<1>5. Asked' = [Asked EXCEPT ![c] = None]
  <2>1. \A d \in Caller : Asked'[d] = IF d = c THEN None ELSE Asked[d]
    BY <1>2, <1>4 DEF Asked
  <2>2. QED
    BY <2>1 DEF Asked
<1>6. Phase' = [Phase EXCEPT ![c] = "idle"]
  <2>1. \A d \in Caller : Phase'[d] = IF d = c THEN "idle" ELSE Phase[d]
    BY <1>2, <1>4 DEF Phase
  <2>2. QED
    BY <2>1 DEF Phase
<1>7. Answers' = [Answers EXCEPT ![c] = {}]
  <2>1. {Idle.reply[j] : j \in DOMAIN Idle.reply} = {}
    BY <1>2, EmptySeq
  <2>2. \A d \in Caller : Answers'[d] = IF d = c THEN {} ELSE Answers[d]
    BY <1>4, <2>1 DEF Answers
  <2>3. QED
    BY <2>2 DEF Answers
<1>8. Files' = Files
  BY <1>1 DEF Files
<1>9. Phase[c] = "raised" \/ (Phase[c] = "busy" /\ File!Unanswered(c) = {})
  <2>1. CASE l.pc = "raised"
    BY <2>1 DEF Phase
  <2>2. CASE Finished(l)
    <3>1. Busy(l) /\ l.pc = "inner" /\ l.deferred = <<>>
      BY <2>2 DEF Finished, Busy
    <3>2. Reckoned(l) /\ l.at = Len(l.req.items) + 1 /\ Inside(l)
      BY <3>1, UnderWay DEF Traced, CallOK
    <3>3. DOMAIN l.req.items = 1 .. l.at - 1 /\ DOMAIN l.deferred = {}
      BY <3>1, <3>2, ItemsType, EmptySeq
    <3>4. \A i \in DOMAIN l.req.items : \E j \in DOMAIN l.reply : l.reply[j].item = i
      BY <3>2, <3>3 DEF Reckoned
    <3>5. File!Unanswered(c) = {}
      BY <3>4 DEF File!Unanswered
    <3>6. QED
      BY <3>1, <3>5 DEF Phase, Busy
  <2>3. QED
    BY <1>1, <2>1, <2>2
<1>10. File!Return(c)
  BY <1>5, <1>6, <1>7, <1>8, <1>9 DEF File!Return, Files, Asked, Phase, Answers
<1>11. QED
  BY <1>3, <1>10 DEF Simulated, File!Next

(* An item left to the inner backend without a look. *)
LEMMA DelegateTransparent ==
  ASSUME IInv, EditInv, TraceInv, NEW c \in Caller, Delegate(c)
  PROVE  TraceInv' /\ Simulated
<1>1. /\ AtItem(call[c]) /\ call[c].at <= Len(call[c].req.items) /\ Busy(call[c])
  BY CallerFacts, AtItemOf DEF Delegate, Placed, CallOK, Busy
<1>2. call[c].req.op \in {"upload", "delete"}
  BY <1>1, UnderWay DEF Traced, AtHand, Delegate
<1>3. QED
  BY <1>1, <1>2, Defers DEF Delegate

(* _read_stub: a stub is followed, anything else left to the inner backend. *)
LEMMA ProbeTransparent ==
  ASSUME Undisturbed, IInv, EditInv, TraceInv, NEW c \in Caller, Probe(c)
  PROVE  TraceInv' /\ Simulated
<1> DEFINE l == call[c]
           p == Item(l).path
<1>1. /\ AtItem(l) /\ l.at <= Len(l.req.items) /\ Busy(l) /\ l \in Local
      /\ l.req.op \in {"read", "edit", "download"} /\ UNCHANGED inner
  BY CallerFacts, AtItemOf DEF Probe, Placed, CallOK, Busy
<1>2. p \in Path
  BY <1>1, ItemType
<1>3. PICK ptr \in Probed(inner[p]) :
        Run(c, IF ptr = None
               THEN Advance([l EXCEPT !.deferred = Append(@, l.at)])
               ELSE IF l.req.op = "edit" /\ ~ptr.text
               THEN Respond(l, "error", None)
               ELSE [l EXCEPT !.pc = "lookup", !.ptr = ptr])
  BY DEF Probe
<1>4. ptr = IF inner[p] = None THEN None ELSE parse_pointer(inner[p].content)
  BY DEF Undisturbed, Probed
<1> HIDE DEF l, p
<1>5. CASE ptr = None
  <2>1. inner[p] = None \/ inner[p].content \notin Pointer
    BY <1>4, <1>5, MarkAssumption DEF parse_pointer
  <2>2. Inlined(inner[p])
    BY <1>2, <2>1, InlineEntry DEF Inlined, Undisturbed
  <2>3. QED
    BY <1>1, <1>3, <1>5, <2>2, Defers DEF l, p
<1>6. CASE ptr # None
  <2>1. inner[p] # None /\ inner[p].content \in Pointer /\ ptr = inner[p].content
    BY <1>4, <1>6 DEF parse_pointer
  <2>2. PICK v \in Value : Large(v) /\ ptr = make_pointer(v) /\ Denotes(inner[p]) = v
    BY <1>2, <2>1, StubOfLarge DEF Undisturbed
  <2>3. CASE l.req.op = "edit" /\ ~ptr.text
    <3>1. v \in Value \ Text
      BY <2>2, <2>3 DEF make_pointer
    <3>2. Item(l).arg \in Edit
      BY <1>1, <2>3, ItemType DEF Argument
    <3>3. Replace[Item(l).arg][v] = None
      BY <3>1, <3>2, CallAssumption
    <3>4. MayRefuse(l)
      BY <2>2, <2>3, <3>3 DEF MayRefuse, HeldBy, p
    <3>5. Run(c, Respond(l, "error", None))
      BY <1>3, <1>6, <2>3
    <3>6. QED
      BY <1>1, <3>4, <3>5, Refused DEF l
  <2>4. CASE ~(l.req.op = "edit" /\ ~ptr.text)
    <3> DEFINE m == [l EXCEPT !.pc = "lookup", !.ptr = ptr]
    <3>1. Run(c, m)
      BY <1>3, <1>6, <2>4
    <3>2. /\ m.pc = "lookup" /\ m.ptr = ptr /\ m.req = l.req /\ m.at = l.at
          /\ m.deferred = l.deferred /\ m.reply = l.reply
      BY <1>1 DEF Local
    <3> HIDE DEF m
    <3>3. Item(m) = Item(l)
      BY <3>2 DEF Item, Index
    <3>4. StubStays(m, inner) /\ AtHand(m) /\ Busy(m)
      BY <1>1, <2>1, <3>2, <3>3 DEF StubStays, AtHand, Busy, p
    <3>5. QED
      BY <1>1, <3>1, <3>2, <3>4, GoesOn DEF l
  <2>5. QED
    BY <2>3, <2>4
<1>7. QED
  BY <1>5, <1>6

(* A content that has the digest of the stub is that of the file. *)
LEMMA SameDigest ==
  ASSUME NoLookalike, IInv, EditInv, TraceInv, NEW c \in Caller,
         call[c].pc \in {"lookup", "load", "keep"},
         NEW v \in Value, Sha[v] = call[c].ptr.sha256
  PROVE  HeldBy(call[c]) = v
<1>1. Busy(call[c]) /\ Following(call[c])
  BY DEF Busy, Following
<1>2. HeldBy(call[c]) \in Value /\ call[c].ptr = make_pointer(HeldBy(call[c]))
  BY <1>1, Followed
<1>3. Sha[HeldBy(call[c])] = Sha[v]
  BY <1>2 DEF make_pointer
<1>4. QED
  BY <1>2, <1>3, StubAssumption

(* What a call does with the content of its stub. *)
LEMMA FetchedTransparent ==
  ASSUME NoLookalike, IInv, EditInv, TraceInv, NEW c \in Caller,
         call[c].pc \in {"lookup", "load", "keep"}, UNCHANGED inner,
         NEW v \in Value, Sha[v] = call[c].ptr.sha256, Run(c, Fetched(call[c], v))
  PROVE  TraceInv' /\ Simulated
<1> DEFINE l == call[c]
           w == Replace[Item(l).arg][v]
<1>1. Busy(l) /\ Following(l) /\ HeldBy(l) = v /\ l \in Local
  BY SameDigest, CallFacts DEF Busy, Following
<1>2. /\ AtItem(l) /\ l.at <= Len(l.req.items)
      /\ inner[Item(l).path] # None /\ inner[Item(l).path].content = l.ptr
  BY <1>1, Followed
<1>3. l.req.op \in {"read", "edit", "download"} /\ ~Undecodable(l, v)
  <2>1. l.ptr = make_pointer(v)
    BY <1>1, Followed
  <2> HIDE DEF l
  <2>2. ASSUME v \notin Text PROVE ~l.ptr.text
    <3>1. PICK ptr : ptr = make_pointer(v)
      OBVIOUS
    <3>2. ASSUME ptr.text PROVE v \in Text
      BY <3>1, <3>2 DEF make_pointer
    <3>3. ~ptr.text
      BY <2>2, <3>2
    <3>4. QED
      BY <2>1, <3>1, <3>3
  <2>3. ~Undecodable(l, v)
    BY <2>2 DEF Undecodable
  <2>4. QED
    BY <2>3, FetchFacts DEF l
<1>4. Run(c, Fetched(l, v))
  OBVIOUS
<1> HIDE DEF l
<1>5. CASE l.req.op # "edit"
  <2>1. Run(c, Respond(l, "content", HeldBy(l))) /\ HeldBy(l) \in Value
    BY <1>1, <1>3, <1>4, <1>5 DEF Fetched
  <2>2. QED
    BY <1>1, <1>2, <1>3, <1>5, <2>1, WasRead DEF l
<1>6. CASE l.req.op = "edit" /\ w = None
  <2>1. Run(c, Respond(l, "error", None))
    BY <1>3, <1>4, <1>6 DEF Fetched
  <2>2. MayRefuse(l)
    BY <1>1, <1>6 DEF MayRefuse
  <2>3. QED
    BY <1>1, <1>2, <2>1, <2>2, Refused DEF l
<1>7. CASE l.req.op = "edit" /\ w # None
  <2> DEFINE entry == IF Large(w) THEN "exists" ELSE "write"
             m == [l EXCEPT !.raw = w, !.pc = entry]
  <2>1. Run(c, m)
    BY <1>3, <1>4, <1>7 DEF Fetched
  <2>2. /\ m.pc = entry /\ m.raw = w /\ m.ptr = l.ptr /\ m.req = l.req
        /\ m.at = l.at /\ m.deferred = l.deferred /\ m.reply = l.reply
    <3> HIDE DEF w, entry
    <3>1. QED
      BY <1>1 DEF Local
  <2> HIDE DEF m
  <2>3. Item(m) = Item(l) /\ Content(m) = w
    BY <1>7, <2>2 DEF Item, Index, Content
  <2>4. m.pc \in {"exists", "write"} /\ (m.pc = "exists" => Large(w))
    <3> HIDE DEF w
    <3>1. QED
      BY <2>2
  <2>5. StubStays(m, inner) /\ Busy(m)
    BY <1>2, <2>2, <2>3, <2>4 DEF StubStays, Busy
  <2>6. AtHand(m)
    BY <2>3, <2>4 DEF AtHand
  <2>7. QED
    BY <1>1, <2>1, <2>2, <2>5, <2>6, GoesOn DEF l
<1>8. QED
  BY <1>5, <1>6, <1>7

(* A call that follows its stub and goes on to another step of _fetch. *)
LEMMA FollowsOn ==
  ASSUME NoLookalike, IInv, EditInv, TraceInv, NEW c \in Caller,
         call[c].pc \in {"lookup", "load"}, UNCHANGED inner,
         NEW m, Run(c, m), m.pc \in {"load", "keep"}, m.ptr = call[c].ptr,
         m.req = call[c].req, m.at = call[c].at, m.deferred = call[c].deferred,
         m.reply = call[c].reply
  PROVE  TraceInv' /\ Simulated
<1>1. Busy(call[c]) /\ Following(call[c]) /\ Busy(m)
  BY DEF Busy, Following
<1>2. Item(m) = Item(call[c])
  BY DEF Item, Index
<1>3. StubStays(m, inner) /\ AtHand(m)
  BY <1>1, <1>2, Followed DEF StubStays, AtHand
<1>4. QED
  BY <1>1, <1>3, GoesOn

(* _cache.get. *)
LEMMA LookupTransparent ==
  ASSUME NoLookalike, IInv, EditInv, TraceInv, Unedited, NEW c \in Caller, Lookup(c)
  PROVE  TraceInv' /\ Simulated
<1> DEFINE l == call[c]
           v == cache[l.ptr.sha256]
<1>1. l.pc = "lookup" /\ UNCHANGED inner /\ l.ptr.sha256 \in Digest /\ l \in Local
  BY FetchFacts, CallFacts DEF Lookup
<1>2. /\ v \in Value \cup {None}
      /\ v # None => Sha[v] = l.ptr.sha256
  BY <1>1 DEF IInv, TypeOK, ContentAddressed, Mispaired, Unedited
<1>3. Run(c, IF v = None THEN [l EXCEPT !.pc = "load"] ELSE Fetched(l, v))
  BY DEF Lookup
<1> HIDE DEF l, v
<1>4. CASE v # None
  <2>1. v \in Value /\ Sha[v] = l.ptr.sha256 /\ Run(c, Fetched(l, v))
    BY <1>2, <1>3, <1>4
  <2>2. QED
    BY <1>1, <2>1, FetchedTransparent DEF l
<1>5. CASE v = None
  <2> DEFINE m == [l EXCEPT !.pc = "load"]
  <2>1. /\ m.pc = "load" /\ m.ptr = l.ptr /\ m.req = l.req /\ m.at = l.at
        /\ m.deferred = l.deferred /\ m.reply = l.reply
    BY <1>1 DEF Local
  <2>2. Run(c, m)
    BY <1>3, <1>5
  <2> HIDE DEF m
  <2>3. QED
    BY <1>1, <2>1, <2>2, FollowsOn DEF l
<1>6. QED
  BY <1>4, <1>5

(* store.get: only a blob that was swept is missing. *)
LEMMA LoadTransparent ==
  ASSUME NoLookalike, IInv, EditInv, TraceInv, Unedited, NEW c \in Caller, Load(c)
  PROVE  TraceInv' /\ Simulated
<1> DEFINE l == call[c]
           v == store[l.ptr.key]
           p == Item(l).path
<1>1. l.pc = "load" /\ UNCHANGED inner /\ l \in Local /\ Busy(l) /\ Following(l)
  BY FetchFacts, CallFacts DEF Load, Busy, Following
<1>2. /\ AtItem(l) /\ inner[p] # None /\ inner[p].content = l.ptr
      /\ HeldBy(l) \in Value /\ Large(HeldBy(l))
      /\ l.req.op \in {"read", "edit", "download"} /\ l.ptr \in Pointer
  BY <1>1, Followed, FetchFacts
<1>3. Run(c, IF v = None THEN Respond(l, "error", None)
             ELSE [l EXCEPT !.pc = "keep", !.raw = v])
  BY DEF Load
<1>4. v = None => Sweeps
  <2>1. l.ptr \in StoredPointers \ edited
    BY <1>2, ItemType DEF StoredPointers, Unedited
  <2>2. QED
    BY <2>1 DEF IInv, NoDanglingStub
<1> HIDE DEF l, v, p
<1>5. CASE v = None
  <2>1. HeldBy(l) \in Losable
    BY <1>2, <1>4, <1>5 DEF Losable
  <2>2. MayRefuse(l)
    BY <1>2, <2>1 DEF MayRefuse
  <2>3. Run(c, Respond(l, "error", None))
    BY <1>3, <1>5
  <2>4. QED
    BY <1>1, <1>2, <2>2, <2>3, Refused DEF l
<1>6. CASE v # None
  <2> DEFINE m == [l EXCEPT !.pc = "keep", !.raw = v]
  <2>1. /\ m.pc = "keep" /\ m.ptr = l.ptr /\ m.req = l.req /\ m.at = l.at
        /\ m.deferred = l.deferred /\ m.reply = l.reply
    BY <1>1 DEF Local
  <2>2. Run(c, m)
    BY <1>3, <1>6
  <2> HIDE DEF m
  <2>3. QED
    BY <1>1, <2>1, <2>2, FollowsOn DEF l
<1>7. QED
  BY <1>5, <1>6

(* _cache.put of what the store returned. *)
LEMMA KeepTransparent ==
  ASSUME NoLookalike, IInv, EditInv, TraceInv, Unedited, NEW c \in Caller, Keep(c)
  PROVE  TraceInv' /\ Simulated
<1> DEFINE l == call[c]
<1>1. l.pc = "keep" /\ UNCHANGED inner /\ Run(c, Fetched(l, l.raw))
  BY DEF Keep
<1>2. l.raw \in Value /\ BlobKey(l.raw) = l.ptr.key
  BY <1>1, CallerFacts DEF Placed, CallOK
<1>3. l.ptr \in Pointer /\ Known(l.ptr, edited) /\ l.ptr.sha256 # None
  BY <1>1, FetchFacts
<1>4. Sha[l.raw] = l.ptr.sha256
  BY <1>2, <1>3, FetchedDigest DEF Mispaired, Unedited
<1>5. QED
  BY <1>1, <1>2, <1>4, FetchedTransparent

(* A stub that is followed has all its fields. *)
LEMMA NoFieldMissing ==
  ASSUME NoLookalike, IInv, EditInv, TraceInv, NEW c \in Caller
  PROVE  ~FieldMissing(c)
<1> SUFFICES ASSUME FieldMissing(c) PROVE FALSE
  OBVIOUS
<1> DEFINE v == HeldBy(call[c])
<1>1. call[c].pc \in {"lookup", "load"}
  BY DEF FieldMissing
<1>2. Busy(call[c]) /\ Following(call[c])
  BY <1>1 DEF Busy, Following
<1>3. v \in Value /\ call[c].ptr = make_pointer(v)
  BY <1>2, Followed
<1> HIDE DEF v
<1>4. call[c].ptr.key # None /\ call[c].ptr.sha256 # None
  BY <1>3, BlobKeyType, MarkAssumption DEF make_pointer
<1>5. QED
  BY <1>4 DEF FieldMissing

(* From one step of _offload to the next. *)
LEMMA OffloadsOn ==
  ASSUME NoLookalike, IInv, EditInv, TraceInv, NEW c \in Caller,
         call[c].pc \in {"exists", "put", "cache"}, UNCHANGED inner,
         NEW pc \in {"put", "cache", "send"}, Run(c, [call[c] EXCEPT !.pc = pc])
  PROVE  TraceInv' /\ Simulated
<1> DEFINE l == call[c]
           m == [l EXCEPT !.pc = pc]
<1>1. l \in Local /\ Busy(l) /\ Traced(l, inner)
  BY UnderWay DEF Busy
<1>2. /\ m.pc = pc /\ m.raw = l.raw /\ m.ptr = l.ptr /\ m.req = l.req
      /\ m.at = l.at /\ m.deferred = l.deferred /\ m.reply = l.reply
  BY <1>1 DEF Local
<1>3. Run(c, m)
  OBVIOUS
<1> HIDE DEF m
<1>4. Item(m) = Item(l) /\ Content(m) = Content(l)
  BY <1>2 DEF Item, Index, Content
<1>5. StubStays(m, inner) /\ AtHand(m) /\ Busy(m)
  BY <1>1, <1>2, <1>4 DEF Traced, StubStays, Following, AtHand, Storing, Busy
<1>6. QED
  BY <1>1, <1>2, <1>3, <1>5, GoesOn

(* store.exists, store.put and the _cache.put after it. *)
LEMMA OffloadTransparent ==
  ASSUME NoLookalike, IInv, EditInv, TraceInv, NEW c \in Caller,
         Exists(c) \/ Put(c) \/ CachePut(c)
  PROVE  TraceInv' /\ Simulated
<1>1. CASE Exists(c)
  <2>1. PICK hit \in {store[BlobKey(Content(call[c]))] # None} \cup {x \in {FALSE} : StoreFaults} :
          Run(c, [call[c] EXCEPT !.pc = IF hit THEN "cache" ELSE "put"])
    BY <1>1 DEF Exists
  <2>2. \/ Run(c, [call[c] EXCEPT !.pc = "cache"])
        \/ Run(c, [call[c] EXCEPT !.pc = "put"])
    BY <2>1
  <2>3. QED
    BY <1>1, <2>2, OffloadsOn DEF Exists
<1>2. CASE Put(c) \/ CachePut(c)
  BY <1>2, OffloadsOn DEF Put, CachePut
<1>3. QED
  BY <1>1, <1>2

(* An exception on the way to the stub, let through or turned into a response. *)
LEMMA FailTransparent ==
  ASSUME IInv, EditInv, TraceInv, NEW c \in Caller, Busy(call[c]), AtItem(call[c]),
         UNCHANGED inner, Run(c, Fail(call[c])) \/ Run(c, Raised(call[c])), MayFail
  PROVE  TraceInv' /\ Simulated
<1>1. CASE Run(c, Raised(call[c]))
  BY <1>1, Aborts
<1>2. CASE Run(c, Respond(call[c], "error", None))
  BY <1>2, Refused DEF MayRefuse
<1>3. QED
  BY <1>1, <1>2 DEF Fail

(* A put that raises. *)
LEMMA PutFailsTransparent ==
  ASSUME IInv, EditInv, TraceInv, NEW c \in Caller, PutFails(c)
  PROVE  TraceInv' /\ Simulated
<1>1. AtItem(call[c]) /\ Busy(call[c])
  BY StoreFacts DEF PutFails, Busy
<1>2. MayFail
  BY DEF PutFails, MayFail
<1>3. QED
  BY <1>1, <1>2, FailTransparent DEF PutFails

(* An exception anywhere else. *)
LEMMA RaiseTransparent ==
  ASSUME IInv, EditInv, TraceInv, NEW c \in Caller, Raise(c)
  PROVE  TraceInv' /\ Simulated
<1>1. AtItem(call[c]) /\ Busy(call[c])
  BY CallerFacts, AtItemOf, DeferredFacts DEF Raise, Deferred, Busy
<1>2. MayFail
  BY DEF Raise, MayFail
<1>3. Run(c, Fail(call[c])) \/ Run(c, Raised(call[c]))
  BY DEF Raise
<1>4. QED
  BY <1>1, <1>2, <1>3, FailTransparent DEF Raise

(* What a call stores is what FileBackend makes of the file. *)
LEMMA StoresMade ==
  ASSUME NoLookalike, IInv, EditInv, TraceInv, Unedited, NEW c \in Caller,
         call[c].pc \in {"send", "write"}
  PROVE  /\ AtItem(call[c]) /\ Busy(call[c]) /\ Content(call[c]) \in Value
         /\ Made(call[c], Content(call[c]))
         /\ call[c].req.op = "edit" => ~Inlined(inner[Item(call[c]).path])
<1> DEFINE l == call[c]
<1>1. /\ AtItem(l) /\ Busy(l) /\ Content(l) \in Value
      /\ l.req.op \in {"write", "edit", "upload"}
  BY StoreFacts, UnderWay DEF Busy, CallOK
<1>2. CASE l.req.op \in {"write", "upload"}
  BY <1>1, <1>2 DEF Made, Content
<1>3. CASE l.req.op = "edit"
  <2>1. Following(l)
    BY <1>3 DEF Following, Storing
  <2>2. PICK v \in Value : l.ptr.sha256 = Sha[v] /\ l.raw = Replace[Item(l).arg][v]
    BY <1>1, <1>3, UnderWay DEF Sound, FromFound, Storing, Mispaired, Unedited
  <2>3. /\ HeldBy(l) \in Value /\ l.ptr = make_pointer(HeldBy(l))
        /\ ~Inlined(inner[Item(l).path])
    BY <1>1, <2>1, Followed
  <2>4. HeldBy(l) = v
    BY <2>2, <2>3, StubAssumption DEF make_pointer
  <2>5. Content(l) = l.raw
    BY <1>3 DEF Content
  <2>6. HeldBy(l) # None /\ Content(l) # None
    BY <1>1, <2>3, MarkAssumption
  <2>7. Made(l, Content(l))
    BY <1>3, <2>2, <2>4, <2>5, <2>6 DEF Made
  <2>8. QED
    BY <1>1, <2>3, <2>7
<1>4. QED
  BY <1>1, <1>2, <1>3

(* _write_stub. *)
LEMMA SendTransparent ==
  ASSUME NoLookalike, OwnPaths, IInv, EditInv, TraceInv, Unedited,
         NEW c \in Caller, Send(c)
  PROVE  TraceInv' /\ Simulated
<1> DEFINE l == call[c]
<1>1. l.pc = "send"
  BY DEF Send
<1>2. /\ AtItem(l) /\ Busy(l) /\ Content(l) \in Value /\ Made(l, Content(l))
      /\ l.req.op = "edit" => ~Inlined(inner[Item(l).path])
  BY <1>1, StoresMade
<1>3. Large(Content(l))
  BY <1>1, <1>2, UnderWay DEF Traced, AtHand
<1>4. Stub(Content(l)).content = make_pointer(Content(l)) /\ Denotes(Stub(Content(l))) = Content(l)
  BY <1>2, StubType, DenotesOK
<1>5. Proper(Stub(Content(l)))
  BY <1>2, <1>3, <1>4 DEF Proper
<1>6. QED
  BY <1>2, <1>4, <1>5, Written DEF Send

(* inner.write of a small content. *)
LEMMA InnerWriteTransparent ==
  ASSUME NoLookalike, OwnPaths, IInv, EditInv, TraceInv, Unedited,
         NEW c \in Caller, InnerWrite(c)
  PROVE  TraceInv' /\ Simulated
<1> DEFINE l == call[c]
<1>1. l.pc = "write"
  BY DEF InnerWrite
<1>2. /\ AtItem(l) /\ Busy(l) /\ Content(l) \in Value /\ Made(l, Content(l))
  BY <1>1, StoresMade
<1>3. Denotes(Inline(Content(l))) = Content(l)
  BY <1>2, DenotesOK
<1>4. Proper(Inline(Content(l))) /\ Inlined(Inline(Content(l)))
  BY <1>2 DEF Proper, Inlined, Inline
<1>5. QED
  BY <1>2, <1>3, <1>4, Written DEF InnerWrite

(* inner.read. *)
LEMMA InnerReadTransparent ==
  ASSUME NoLookalike, IInv, EditInv, TraceInv, NEW c \in Caller, InnerRead(c)
  PROVE  TraceInv' /\ Simulated
<1> DEFINE l == call[c]
           fd == inner[Item(l).path]
<1>1. Deferred(c, {"read", "download", "edit"}) /\ l.req.op = "read" /\ UNCHANGED inner
  BY DEF InnerRead, Deferred
<1>2. /\ AtItem(l) /\ Busy(l)
      /\ fd = None => HeldBy(l) = None
      /\ fd # None => fd.content \in Value /\ HeldBy(l) = fd.content
  BY <1>1, LeftItem
<1>3. Run(c, IF fd = None THEN Respond(l, "error", None)
             ELSE Respond(l, "content", fd.content))
  BY DEF InnerRead
<1> HIDE DEF l, fd
<1>4. CASE fd = None
  <2>1. Run(c, Respond(l, "error", None)) /\ MayRefuse(l)
    BY <1>1, <1>2, <1>3, <1>4 DEF MayRefuse
  <2>2. QED
    BY <1>1, <1>2, <2>1, Refused DEF l
<1>5. CASE fd # None
  <2>1. Run(c, Respond(l, "content", HeldBy(l))) /\ HeldBy(l) \in Value
    BY <1>2, <1>3, <1>5
  <2>2. QED
    BY <1>1, <1>2, <2>1, WasRead DEF l
<1>6. QED
  BY <1>4, <1>5

(* inner.download_files. *)
LEMMA InnerDownloadTransparent ==
  ASSUME NoLookalike, IInv, EditInv, TraceInv, NEW c \in Caller, InnerDownload(c)
  PROVE  TraceInv' /\ Simulated
<1> DEFINE l == call[c]
           fd == inner[Item(l).path]
           ptr == parse_pointer(fd.content)
<1>1. Deferred(c, {"read", "download", "edit"}) /\ l.req.op = "download" /\ UNCHANGED inner
  BY DEF InnerDownload, Deferred
<1>2. /\ AtItem(l) /\ Busy(l)
      /\ fd = None => HeldBy(l) = None
      /\ fd # None => /\ fd.content \in Value /\ fd.encoding # "external"
                      /\ HeldBy(l) = fd.content
  BY <1>1, LeftItem
<1>3. Run(c, CASE fd = None -> Respond(l, "error", None)
               [] fd # None /\ fd.encoding = "external" ->
                    Respond(l, "content", Mangled)
               [] fd # None /\ fd.encoding # "external" ->
                    IF ptr = None THEN Respond(l, "content", fd.content)
                    ELSE [l EXCEPT !.pc = "lookup", !.ptr = ptr])
  BY DEF InnerDownload
<1>4. fd # None => ptr = None
  BY <1>2 DEF parse_pointer, NoLookalike
<1> HIDE DEF l, fd, ptr
<1>5. CASE fd = None
  <2>1. Run(c, Respond(l, "error", None)) /\ MayRefuse(l)
    BY <1>1, <1>2, <1>3, <1>5 DEF MayRefuse
  <2>2. QED
    BY <1>1, <1>2, <2>1, Refused DEF l
<1>6. CASE fd # None
  <2>1. Run(c, Respond(l, "content", fd.content))
    BY <1>2, <1>3, <1>4, <1>6
  <2>2. Run(c, Respond(l, "content", HeldBy(l))) /\ HeldBy(l) \in Value
    BY <1>2, <1>6, <2>1
  <2>3. QED
    BY <1>1, <1>2, <2>2, WasRead DEF l
<1>7. QED
  BY <1>5, <1>6

(* inner.edit of a file that is no stub. *)
LEMMA InnerEditTransparent ==
  ASSUME NoLookalike, OwnPaths, IInv, EditInv, TraceInv, NEW c \in Caller, InnerEdit(c)
  PROVE  TraceInv' /\ Simulated /\ UNCHANGED edited
<1> DEFINE l == call[c]
           p == Item(l).path
           fd == inner[p]
           w == IF fd = None \/ fd.content \notin Value THEN None
                ELSE Replace[Item(l).arg][fd.content]
<1>1. Deferred(c, {"read", "download", "edit"}) /\ l.req.op = "edit"
  BY DEF InnerEdit, Deferred
<1>2. /\ AtItem(l) /\ Busy(l)
      /\ fd = None => HeldBy(l) = None
      /\ fd # None => fd.content \in Value /\ HeldBy(l) = fd.content
  BY <1>1, LeftItem
<1>3. Item(l).arg \in Edit
  BY <1>1, <1>2, ItemType DEF Argument
<1>4. /\ \/ /\ w = None /\ UNCHANGED inner
            /\ Run(c, Respond(l, "error", None))
         \/ /\ w # None /\ Run(c, Respond(l, "ok", None))
            /\ inner' = [inner EXCEPT ![p] = Inline(w)]
      /\ UNCHANGED edited
  BY <1>2 DEF InnerEdit
<1>5. w = None => HeldBy(l) = None \/ Replace[Item(l).arg][HeldBy(l)] = None
  BY <1>2
<1>6. w # None => /\ w = Replace[Item(l).arg][HeldBy(l)] /\ HeldBy(l) # None
                  /\ w \in Value
  <2>1. \A e \in Edit, v \in Value : Replace[e][v] \in Value \cup {None}
    <3>1. \A e \in Edit, v \in Value : Replace[e][v] \in Text \cup {None}
      <4>1. \A e \in Edit : Replace[e] \in [Value -> Text \cup {None}]
        BY CallAssumption
      <4>2. QED
        BY <4>1
    <3>2. Text \subseteq Value
      BY StubAssumption
    <3>3. QED
      BY <3>1, <3>2
  <2>2. QED
    BY <1>2, <1>3, <2>1, MarkAssumption
<1> HIDE DEF l, p, fd, w
<1>7. CASE w = None
  <2>1. MayRefuse(l) /\ UNCHANGED inner /\ Run(c, Respond(l, "error", None))
    BY <1>1, <1>4, <1>5, <1>7 DEF MayRefuse
  <2>2. QED
    BY <1>2, <1>4, <2>1, Refused DEF l
<1>8. CASE w # None
  <2>1. w \in Value /\ Denotes(Inline(w)) = w
    BY <1>6, <1>8, DenotesOK
  <2>2. Proper(Inline(w)) /\ Inlined(Inline(w))
    BY <2>1 DEF Proper, Inlined, Inline
  <2>3. Made(l, w)
    BY <1>1, <1>6, <1>8 DEF Made
  <2>4. inner' = [inner EXCEPT ![p] = Inline(w)] /\ Run(c, Respond(l, "ok", None))
    BY <1>4, <1>8
  <2>5. QED
    BY <1>2, <1>4, <2>1, <2>2, <2>3, <2>4, Written DEF l, p
<1>9. QED
  BY <1>7, <1>8

(* inner.upload_files and inner.delete. *)
LEMMA InnerPutTransparent ==
  ASSUME NoLookalike, OwnPaths, IInv, EditInv, TraceInv, NEW c \in Caller,
         InnerUpload(c) \/ InnerDelete(c)
  PROVE  TraceInv' /\ Simulated
<1> DEFINE l == call[c]
<1>1. CASE InnerUpload(c)
  <2>1. AtItem(l) /\ Busy(l) /\ l.req.op = "upload"
    BY <1>1, DeferredFacts DEF InnerUpload, Deferred, Busy
  <2>2. Item(l).arg \in Value
    BY <1>1, SmallUpload
  <2>3. Denotes(Inline(Item(l).arg)) = Item(l).arg
    BY <2>2, DenotesOK
  <2>4. Proper(Inline(Item(l).arg)) /\ Made(l, Item(l).arg)
    BY <2>1, <2>2 DEF Proper, Inline, Made
  <2>5. QED
    BY <1>1, <2>1, <2>3, <2>4, Written DEF InnerUpload
<1>2. CASE InnerDelete(c)
  <2>1. AtItem(l) /\ Busy(l) /\ l.req.op = "delete"
    BY <1>2, DeferredFacts DEF InnerDelete, Deferred, Busy
  <2>2. Proper(None) /\ Denotes(None) = None /\ Made(l, None)
    BY <2>1 DEF Proper, Denotes, Made
  <2>3. QED
    BY <1>2, <2>1, <2>2, Written DEF InnerDelete
<1>3. QED
  BY <1>1, <1>2

(* An error answer of the inner backend. *)
LEMMA RefusesTransparent ==
  ASSUME IInv, EditInv, TraceInv, NEW c \in Caller, InnerRefuses(c)
  PROVE  TraceInv' /\ Simulated
<1>1. AtItem(call[c]) /\ Busy(call[c])
  BY StoreFacts, DeferredFacts DEF InnerRefuses, Deferred, Busy
<1>2. MayRefuse(call[c])
  BY DEF InnerRefuses, MayRefuse, MayFail
<1>3. QED
  BY <1>1, <1>2, Refused DEF InnerRefuses

-----------------------------------------------------------------------------
(* The theorem *)

(* Every step. *)
LEMMA NextTransparent ==
  ASSUME Undisturbed, IInv, EditInv, TraceInv, Unedited, [Next]_vars
  PROVE  TraceInv' /\ Unedited' /\ Simulated
<1>1. ASSUME UNCHANGED <<inner, call>>
      PROVE  TraceInv' /\ Simulated
  <2>1. TraceInv'
    BY <1>1 DEF TraceInv, Entries, Recorded
  <2>2. Simulated
    BY <1>1 DEF Simulated, File!vars
  <2>3. QED
    BY <2>1, <2>2
<1>2. NoLookalike /\ OwnPaths
  BY DEF Undisturbed
<1>3. ASSUME NEW c \in Caller, Step(c)
      PROVE  TraceInv' /\ Simulated
  <2>1. ~SendRefused(c)
    BY DEF SendRefused, Undisturbed
  <2>2. CASE Return(c) \/ Delegate(c) \/ Probe(c) \/ Lookup(c) \/ Load(c) \/ Keep(c)
    BY <1>2, <2>2, ReturnTransparent, DelegateTransparent, ProbeTransparent,
       LookupTransparent, LoadTransparent, KeepTransparent
  <2>3. CASE Exists(c) \/ Put(c) \/ PutFails(c) \/ CachePut(c) \/ Send(c)
    BY <1>2, <2>3, OffloadTransparent, PutFailsTransparent, SendTransparent
  <2>4. CASE InnerWrite(c) \/ InnerRead(c) \/ InnerDownload(c) \/ InnerEdit(c)
    BY <1>2, <2>4, InnerWriteTransparent, InnerReadTransparent,
       InnerDownloadTransparent, InnerEditTransparent
  <2>5. CASE InnerUpload(c) \/ InnerDelete(c) \/ InnerRefuses(c) \/ Raise(c)
    BY <1>2, <2>5, InnerPutTransparent, RefusesTransparent, RaiseTransparent
  <2>6. ~FieldMissing(c)
    BY <1>2, NoFieldMissing
  <2>7. QED
    BY <1>3, <2>1, <2>2, <2>3, <2>4, <2>5, <2>6 DEF Step
<1>4. ~Restart
  BY DEF Restart, Undisturbed
<1>5. UNCHANGED edited
  BY <1>2, <1>4, EditedByEdit, InnerEditTransparent DEF Next, vars, Call, Checkpoint, Sweep
<1>6. TraceInv' /\ Simulated
  BY <1>1, <1>3, <1>4, CallTransparent DEF Next, vars, Checkpoint, Sweep
<1>7. QED
  BY <1>5, <1>6 DEF Unedited

(* The backend starts empty, as FileBackend does. *)
LEMMA InitTransparent == Init => TraceInv /\ Unedited /\ File!Init
<1> SUFFICES ASSUME Init PROVE TraceInv /\ Unedited /\ File!Init
  OBVIOUS
<1>1. TraceInv /\ Unedited
  BY DEF Init, TraceInv, Unedited, Entries, Recorded, Idle, Busy
<1>2. \A c \in Caller : call[c].pc = "idle" /\ call[c].req = None /\ call[c].reply = <<>>
  BY DEF Init, Idle
<1>3. Files = [p \in Path |-> None]
  BY DEF Init, Files, Denotes
<1>4. Asked = [c \in Caller |-> None] /\ Phase = [c \in Caller |-> "idle"]
  BY <1>2 DEF Asked, Phase
<1>5. Answers = [c \in Caller |-> {}]
  <2>1. \A c \in Caller : {call[c].reply[j] : j \in DOMAIN call[c].reply} = {}
    BY <1>2, EmptySeq
  <2>2. QED
    BY <2>1 DEF Answers
<1>6. QED
  BY <1>1, <1>3, <1>4, <1>5 DEF File!Init, Files, Asked, Phase, Answers

(* While no file is itself pointer JSON, callers keep to paths of their own, no
   failed inner read or stub write goes unnoticed and the process does not
   restart: callers cannot tell the backend from one that keeps the whole content
   of every file itself, whatever the store, the cache, sweeps and the other
   callers do meanwhile. *)
THEOREM Transparency == ASSUME Undisturbed PROVE Spec => Transparent
<1>1. Init => IInv /\ EditInv /\ TraceInv /\ Unedited /\ File!Init
  BY InitIInv, InitSound, InitTransparent
<1>2. NoLookalike
  BY DEF Undisturbed
<1>3. Spec => [](IInv /\ EditInv)
  BY <1>2, EditsSound
<1>4. IInv /\ EditInv /\ TraceInv /\ Unedited /\ [Next]_vars =>
        TraceInv' /\ Unedited' /\ [File!Next]_(File!vars)
  BY NextTransparent DEF Simulated
<1>5. QED
  BY <1>1, <1>3, <1>4, PTL DEF Spec, Transparent, File!Spec

=============================================================================
