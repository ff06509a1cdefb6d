-------------------------- MODULE ByteCacheThreads --------------------------
(***************************************************************************)
(* _ByteCache as the async twins use it: several threads, no lock.  Every  *)
(* access to _data or _used is a step of its own, for a thread can be      *)
(* preempted between any two of them; each single access is atomic.        *)
(* Contents are left out: a hash stands for its bytes.                     *)
(***************************************************************************)
EXTENDS Naturals, Integers, Sequences, SequencesExt

CONSTANTS
  Thread,
  Hash,
  Size,      \* Size[h]: the length of the bytes of h
  MaxBytes,  \* the max_bytes of __init__
  MaxPuts,   \* bound: how often put is called
  None

VARIABLES
  _data,   \* the hashes in the OrderedDict, the least recently used first
  _used,
  thread,  \* thread[t]: the local variables of t
  puts     \* history: how often put was called

vars == <<_data, _used, thread, puts>>

\* hash: the argument; add: what _used is about to be changed by; read: the
\* value of _used it is about to be added to.
Idle == [pc |-> "idle", hash |-> None, add |-> 0, read |-> 0]

Init ==
  /\ _data = <<>>
  /\ _used = 0
  /\ thread = [t \in Thread |-> Idle]
  /\ puts = 0

Run(t, l) == thread' = [thread EXCEPT ![t] = l]

At(t, label) == thread[t].pc = label

Held(h) == h \in ToSet(_data)

KeyError(t) == Run(t, [Idle EXCEPT !.pc = "KeyError"])

\* get: "if sha256 in self._data".  A miss changes nothing.
Test(t, h) ==
  /\ At(t, "idle") /\ Held(h)
  /\ Run(t, [Idle EXCEPT !.pc = "move", !.hash = h])
  /\ UNCHANGED <<_data, _used, puts>>

Move(t) ==
  LET h == thread[t].hash IN
  /\ At(t, "move")
  /\ \/ /\ Held(h)
        /\ _data' = Append(SelectSeq(_data, LAMBDA i : i # h), h)
        /\ Run(t, [thread[t] EXCEPT !.pc = "fetch"])
     \/ /\ ~ Held(h)
        /\ KeyError(t)
        /\ UNCHANGED _data
  /\ UNCHANGED <<_used, puts>>

Fetch(t) ==
  /\ At(t, "fetch")
  /\ IF Held(thread[t].hash) THEN Run(t, Idle) ELSE KeyError(t)
  /\ UNCHANGED <<_data, _used, puts>>

\* put: bytes above the budget are refused, others assigned.
Assign(t, h) ==
  /\ At(t, "idle") /\ Size[h] <= MaxBytes /\ puts < MaxPuts
  /\ _data' = IF Held(h) THEN _data ELSE Append(_data, h)
  /\ Run(t, [Idle EXCEPT !.pc = "load", !.add = Size[h]])
  /\ puts' = puts + 1
  /\ UNCHANGED _used

\* "self._used += ..." and "-= ..." load the counter, and then store it.
Load(t) ==
  /\ At(t, "load")
  /\ Run(t, [thread[t] EXCEPT !.pc = "store", !.read = _used])
  /\ UNCHANGED <<_data, _used, puts>>

Store(t) ==
  /\ At(t, "store")
  /\ _used' = thread[t].read + thread[t].add
  /\ Run(t, [Idle EXCEPT !.pc = "loop"])
  /\ UNCHANGED <<_data, puts>>

Loop(t) ==
  /\ At(t, "loop")
  /\ Run(t, IF _used > MaxBytes THEN [Idle EXCEPT !.pc = "pop"] ELSE Idle)
  /\ UNCHANGED <<_data, _used, puts>>

PopItem(t) ==
  /\ At(t, "pop")
  /\ \/ /\ _data # <<>>
        /\ _data' = Tail(_data)
        /\ Run(t, [Idle EXCEPT !.pc = "load", !.add = - Size[Head(_data)]])
     \/ /\ _data = <<>>
        /\ KeyError(t)
        /\ UNCHANGED _data
  /\ UNCHANGED <<_used, puts>>

Next ==
  \E t \in Thread :
    \/ \E h \in Hash : Test(t, h) \/ Assign(t, h)
    \/ Move(t) \/ Fetch(t) \/ Load(t) \/ Store(t) \/ Loop(t) \/ PopItem(t)

Spec == Init /\ [][Next]_vars

-----------------------------------------------------------------------------
(* Correctness *)

\* "The BackendProtocol defaults (asyncio.to_thread over the sync methods) are
\* correct here": an eviction by one thread never makes get or put of another
\* raise KeyError out of a read or a write.
NoKeyError == \A t \in Thread : ~ At(t, "KeyError")

=============================================================================
