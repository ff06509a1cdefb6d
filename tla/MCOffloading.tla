---------------------------- MODULE MCOffloading ----------------------------
(***************************************************************************)
(* Constants for TLC.  The contents are a small text s, two large texts a  *)
(* and b, a small binary y and a large binary z; digests and keys are      *)
(* named after the content.                                                *)
(***************************************************************************)
EXTENDS OffloadingBackend, TLC

CONSTANTS c1, c2, f, g, s, a, b, y, z, grow, shrink, swap

MCValue == {s, a, b, y, z}
MCText == {s, a, b}
MCSize == [v \in MCValue |-> IF v \in {s, y} THEN 1 ELSE 2]
MCThreshold == 1

MCDigest == {"#s", "#a", "#b", "#y", "#z"}
MCSha == [v \in MCValue |-> CASE v = s -> "#s" [] v = a -> "#a" [] v = b -> "#b"
                              [] v = y -> "#y" [] v = z -> "#z"]
MCKey == {"k/s", "k/a", "k/b", "k/y", "k/z"}
MCKeyFn == [d \in MCDigest |-> CASE d = "#s" -> "k/s" [] d = "#a" -> "k/a" [] d = "#b" -> "k/b"
                                 [] d = "#y" -> "k/y" [] d = "#z" -> "k/z"]

\* grow: s becomes a; shrink: a becomes s; swap: a becomes b and b becomes a.
MCEdit == {grow, shrink, swap}
MCReplace ==
  [e \in MCEdit |-> [v \in MCValue |->
     CASE e = grow   /\ v = s -> a
       [] e = shrink /\ v = a -> s
       [] e = swap   /\ v = a -> b
       [] e = swap   /\ v = b -> a
       [] OTHER                 -> None]]

One(op, path, arg) == [op |-> op, items |-> <<[path |-> path, arg |-> arg]>>]
Two(op, path1, arg1, path2, arg2) ==
  [op |-> op, items |-> <<[path |-> path1, arg |-> arg1], [path |-> path2, arg |-> arg2]>>]

\* One caller, every method.
MCOneCaller == {c1}
MCAllMethods ==
  [c \in {c1} |->
     {One("read", x, None) : x \in {f, g}}
       \cup {One("write", f, s), One("write", f, a), One("write", g, a)}
       \cup {One("edit", f, e) : e \in MCEdit} \cup {One("edit", g, shrink)}
       \cup {One("delete", f, None)}
       \cup {Two("upload", f, z, g, s), Two("upload", f, y, f, b)}
       \cup {Two("download", f, None, g, None)}]

\* Two callers, each on a path of its own, with equal contents.
MCTwoCallers == {c1, c2}
Own(c) == IF c = c1 THEN f ELSE g
MCOwnPaths ==
  [c \in {c1, c2} |->
     {One("read", Own(c), None), One("write", Own(c), a), One("edit", Own(c), swap)}
       \cup IF c = c1
            THEN {Two("upload", f, z, f, s), Two("download", f, None, f, None)}
            ELSE {One("delete", g, None)}]

\* Two callers on one path.
MCSharedPath ==
  [c \in {c1, c2} |->
     {One("read", f, None), One("write", f, s), One("write", f, a),
      One("edit", f, swap), One("delete", f, None), One("upload", f, z)}]

\* Two callers on one path, one of which edits and deletes what the other stores.
MCEditor ==
  [c \in {c1, c2} |->
     IF c = c1 THEN {One("edit", f, swap), One("delete", f, None)}
               ELSE {One("write", f, a), One("upload", f, z)}]

\* Requests that show one question each.
MCWrites == [c \in {c1} |-> {One("write", f, a), Two("upload", f, a, g, z)}]

\* What an edit can make of pointer JSON: none that parses, or the pointer of a
\* text with the key of a binary, without its sha256, and without its key and with
\* the digest of what is not stored.
MCRewritten ==
  {Mangled,
   [key |-> "k/z", sha256 |-> "#a", text |-> TRUE],
   [key |-> "k/a", sha256 |-> None, text |-> TRUE],
   [key |-> None, sha256 |-> "#s", text |-> TRUE]}

MCNoFaults == {}
MCAnswerFaults == {"read", "write"}
MCWriteFaults == {"write"}
MCWriteRaises == {"write", "raise"}

=============================================================================
