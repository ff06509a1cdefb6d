------------------------------ MODULE BoxProofs -----------------------------
(***************************************************************************)
(* Theorems about BoxStore, for any number of processes, threads and keys. *)
(* Whatever its calls overtake, what a process memoizes keeps leading to   *)
(* the one folder or file that bears the name; and where nobody deletes    *)
(* behind a caller's back, a memoized file is there.                       *)
(***************************************************************************)
EXTENDS BoxStore, SequenceTheorems, WellFoundedInduction, TLAPS

-----------------------------------------------------------------------------
(* Numbers *)

\* A set of natural numbers has a least element.
LEMMA Least ==
  ASSUME NEW T, T \subseteq Nat, T # {}
  PROVE  \E x \in T : \A y \in T : x <= y
  <1>1. IsWellFoundedOn(OpToRel(<, Nat), Nat)
    BY NatLessThanWellFounded
  <1>2. PICK x \in T : \A y \in T : ~ (<<y, x>> \in OpToRel(<, Nat))
    BY <1>1, WFMin
  <1>3. ASSUME NEW y \in T PROVE x <= y
    <2>1. x \in Nat /\ y \in Nat
      OBVIOUS
    <2>2. ~ (y < x)
      BY <1>2, <2>1 DEF OpToRel
    <2>3. QED
      BY <2>1, <2>2
  <1>4. QED
    BY <1>3

\* A set of places has a last one.
LEMMA Greatest ==
  ASSUME NEW n \in Nat, NEW S, S \subseteq 1 .. n, S # {}
  PROVE  Max(S) \in S /\ \A x \in S : x <= Max(S)
  <1> DEFINE T == {n - x : x \in S}
  <1>1. T \subseteq Nat /\ T # {}
    <2>1. \A x \in S : n - x \in Nat
      OBVIOUS
    <2>2. QED
      BY <2>1
  <1>2. PICK t \in T : \A u \in T : t <= u
    BY <1>1, Least
  <1>3. PICK x \in S : t = n - x
    OBVIOUS
  <1>4. ASSUME NEW y \in S PROVE x >= y
    <2>1. t <= n - y
      BY <1>2
    <2>2. x \in 1 .. n /\ y \in 1 .. n
      OBVIOUS
    <2>3. QED
      BY <1>3, <2>1, <2>2
  <1>5. Max(S) \in S /\ \A y \in S : Max(S) >= y
    BY <1>4 DEF Max
  <1>6. QED
    BY <1>5

-----------------------------------------------------------------------------
(* Paths *)

\* What the assumptions say of each worker and each key.
LEMMA Constants ==
  /\ \A w \in Worker : Home[w] \in Process
  /\ \A k \in Key : Folder[k] \in Seq(Segment) /\ Name[k] \in Segment
  /\ \A w \in Worker : Requests[w] \subseteq Request
  BY BoxAssumption

\* The folders of a key, one after the other.
LEMMA PrefixStep ==
  ASSUME NEW k \in Key, NEW n \in Nat, n < Len(Folder[k])
  PROVE  /\ Folder[k][n + 1] \in Segment
         /\ Prefix(k, n) \in Seq(Segment) /\ Len(Prefix(k, n)) = n
         /\ Prefix(k, n + 1) = Append(Prefix(k, n), Folder[k][n + 1])
         /\ Prefix(k, n + 1) \in FolderPath
  <1>1. PICK s \in Seq(Segment) : s = Folder[k]
    BY Constants
  <1>2. Len(s) \in Nat /\ s \in [1 .. Len(s) -> Segment] /\ n + 1 \in 1 .. Len(s)
    BY <1>1, LenProperties
  <1>3. s[n + 1] \in Segment
    BY <1>2
  <1>4. SubSeq(s, 1, n) \in Seq(Segment) /\ Len(SubSeq(s, 1, n)) = n
    <2>1. \A i \in 1 .. n : s[i] \in Segment
      BY <1>2
    <2>2. QED
      BY <2>1, SubSeqProperties
  <1>5. SubSeq(s, 1, n + 1) = SubSeq(s, 1, n) \o <<s[n + 1]>>
    <2>1. SubSeq(s, 1, n + 1) = SubSeq(s, 1, (n + 1) - 1) \o <<s[n + 1]>>
      BY <1>2, SubSeqRecursiveSecond
    <2>2. QED
      BY <2>1
  <1>6. Append(SubSeq(s, 1, n), s[n + 1]) = SubSeq(s, 1, n) \o <<s[n + 1]>>
    BY <1>3, <1>4, AppendIsConcat
  <1>7. Prefix(k, n + 1) \in FolderPath
    BY <1>1, <1>2 DEF FolderPath
  <1>8. QED
    BY <1>1, <1>3, <1>4, <1>5, <1>6, <1>7 DEF Prefix

\* The first folder lies in the root, the last holds the file.
LEMMA PrefixEnds ==
  ASSUME NEW k \in Key
  PROVE  /\ Len(Folder[k]) \in Nat
         /\ Prefix(k, 0) = <<>> /\ Prefix(k, Len(Folder[k])) = Folder[k]
  BY Constants, LenProperties, SubSeqEmpty, SubSeqFull DEF Prefix

\* A folder path names folders, at least one.
LEMMA FolderPathType ==
  ASSUME NEW path \in FolderPath
  PROVE  path \in Seq(Segment) /\ path # <<>>
  <1>1. PICK k \in Key : \E i \in 1 .. Len(Folder[k]) : path = Prefix(k, i)
    BY DEF FolderPath
  <1> PICK i \in 1 .. Len(Folder[k]) : path = Prefix(k, i)
    BY <1>1
  <1>2. Len(Folder[k]) \in Nat
    BY PrefixEnds
  <1>3. PICK n \in Nat : i = n + 1 /\ n < Len(Folder[k])
    <2>1. i - 1 \in Nat /\ i = (i - 1) + 1 /\ i - 1 < Len(Folder[k])
      BY <1>2
    <2>2. QED
      BY <2>1
  <1>4. PICK s \in Seq(Segment), e \in Segment : path = Append(s, e)
    BY <1>3, PrefixStep
  <1>5. QED
    BY <1>4, AppendProperties

\* No two keys have one path.
LEMMA PathApart ==
  ASSUME NEW j \in Key, NEW k \in Key
  PROVE  /\ Path(k) \in Seq(Segment) /\ Path(k) # <<>>
         /\ Path(j) = Path(k) => j = k
  <1>1. PICK s \in Seq(Segment), e \in Segment : s = Folder[j] /\ e = Name[j]
    BY Constants
  <1>2. PICK t \in Seq(Segment), f \in Segment : t = Folder[k] /\ f = Name[k]
    BY Constants
  <1>3. Append(t, f) \in Seq(Segment) /\ Append(t, f) # <<>>
    BY AppendProperties
  <1>4. Append(s, e) = Append(t, f) => s = t /\ e = f
    BY AppendInjective
  <1>5. QED
    BY <1>1, <1>2, <1>3, <1>4, BoxAssumption DEF Path

-----------------------------------------------------------------------------
(* Box's tree *)

IsFolder(i) == i = Root \/ (box[i] # None /\ box[i].kind = "folder")

\* i is the folder that path leads to.
FolderAt(i, path) == i \in Id /\ IsFolder(i) /\ Location(i) = path

\* i is the file of k, or was until it was deleted.
FileOf(i, k) ==
  /\ i \in Id /\ i # Root /\ i < nextId
  /\ box[i] # None => box[i].kind = "file" /\ box[i].path = Path(k)

\* An item lies in a folder that is older, and is a folder or the file of a key.
ItemOK(i) ==
  /\ i # Root /\ i < nextId
  /\ box[i].parent < i /\ IsFolder(box[i].parent)
  /\ box[i].path = Append(Location(box[i].parent), box[i].name)
  /\ box[i].kind = "folder" => box[i].path \in FolderPath
  /\ box[i].kind = "file" => box[i].raw \in Raw /\ \E k \in Key : box[i].path = Path(k)

\* A path leads to one item, through folders.
TreeOK ==
  /\ nextId \in 1 .. MaxId + 1
  /\ box \in [Id -> Item \cup {None}]
  /\ \A i \in Id : box[i] # None => ItemOK(i)
  /\ \A i, j \in Id :
       box[i] # None /\ box[j] # None /\ box[i].path = box[j].path => i = j
  /\ \A i \in Id : box[i] # None =>
       \A n \in 1 .. Len(box[i].path) - 1 :
         \E j \in Id : FolderAt(j, SubSeq(box[i].path, 1, n))

\* Whatever happens, folders stay, an item keeps its place and no id is used
\* again.
Keeps ==
  /\ nextId <= nextId'
  /\ \A i \in Id : i < nextId =>
       /\ box[i] # None /\ box[i].kind = "folder" => box'[i] = box[i]
       /\ box'[i] # None => /\ box[i] # None
                            /\ box'[i].parent = box[i].parent
                            /\ box'[i].name = box[i].name
                            /\ box'[i].kind = box[i].kind
                            /\ box'[i].path = box[i].path

\* The types of an item.
LEMMA ItemType ==
  ASSUME TreeOK, NEW i \in Id, box[i] # None
  PROVE  /\ box[i] \in Item /\ box[i].parent \in Id /\ box[i].name \in Segment
         /\ box[i].kind \in {"folder", "file"} /\ box[i].raw \in Raw \cup {None}
         /\ box[i].path \in Seq(Segment) /\ ItemOK(i)
  <1>1. box[i] \in Item
    BY DEF TreeOK
  <1>2. QED
    BY <1>1 DEF Item, TreeOK

\* A folder's path is a sequence of names, empty only for the root, and leads to
\* no other folder.
LEMMA FolderPlace ==
  ASSUME TreeOK, NEW path, NEW i, FolderAt(i, path)
  PROVE  /\ i \in Id /\ i < nextId /\ path \in Seq(Segment)
         /\ i = Root <=> path = <<>>
         /\ i # Root => box[i] # None /\ box[i].kind = "folder" /\ box[i].path = path
         /\ \A j \in Id : FolderAt(j, path) => i = j
  <1>1. ASSUME NEW h \in Id, FolderAt(h, path)
        PROVE  /\ path \in Seq(Segment) /\ (h = Root <=> path = <<>>) /\ h < nextId
               /\ h # Root => box[h] # None /\ box[h].kind = "folder" /\ box[h].path = path
    <2>1. CASE h = Root
      BY <1>1, <2>1, EmptySeq DEF FolderAt, Location, TreeOK, Root
    <2>2. CASE h # Root
      <3>1. box[h] # None /\ box[h].kind = "folder" /\ box[h].path = path
        BY <1>1, <2>2 DEF FolderAt, IsFolder, Location
      <3>2. ItemOK(h) /\ path \in FolderPath
        BY <3>1, ItemType DEF ItemOK
      <3>3. QED
        BY <2>2, <3>1, <3>2, FolderPathType DEF ItemOK
    <2>3. QED
      BY <2>1, <2>2
  <1>2. i \in Id
    BY DEF FolderAt
  <1>3. ASSUME NEW j \in Id, FolderAt(j, path) PROVE i = j
    <2>1. CASE path = <<>>
      BY <1>1, <1>2, <1>3, <2>1
    <2>2. CASE path # <<>>
      <3>1. /\ box[i] # None /\ box[i].path = path
            /\ box[j] # None /\ box[j].path = path
        BY <1>1, <1>2, <1>3, <2>2
      <3>2. QED
        BY <1>2, <1>3, <3>1 DEF TreeOK
    <2>3. QED
      BY <2>1, <2>2
  <1>4. QED
    BY <1>1, <1>2, <1>3

\* Folders stay where they are.
LEMMA FolderStays ==
  ASSUME TreeOK, Keeps, NEW path, NEW i, FolderAt(i, path)
  PROVE  FolderAt(i, path)'
  <1>1. i \in Id /\ i < nextId
    BY FolderPlace
  <1>2. CASE i = Root
    BY <1>2 DEF FolderAt, IsFolder, Location
  <1>3. CASE i # Root
    <2>1. box[i] # None /\ box[i].kind = "folder"
      BY <1>3 DEF FolderAt, IsFolder
    <2>2. box'[i] = box[i]
      BY <1>1, <2>1 DEF Keeps
    <2>3. QED
      BY <1>1, <2>1, <2>2 DEF FolderAt, IsFolder, Location
  <1>4. QED
    BY <1>2, <1>3

\* So do files, while they are there.
LEMMA FileStays ==
  ASSUME TreeOK, TreeOK', Keeps, NEW k, NEW i, FileOf(i, k)
  PROVE  FileOf(i, k)'
  <1>1. i \in Id /\ i # Root /\ i < nextId
    BY DEF FileOf
  <1>2. box'[i] # None => box[i] # None /\ box'[i].kind = box[i].kind /\ box'[i].path = box[i].path
    BY <1>1 DEF Keeps
  <1>3. i < nextId'
    <2>1. i \in Int /\ nextId \in Int /\ nextId' \in Int /\ nextId <= nextId'
      BY <1>1, BoxAssumption DEF Id, TreeOK, Keeps
    <2>2. QED
      BY <1>1, <2>1
  <1>4. QED
    BY <1>1, <1>2, <1>3 DEF FileOf

\* A new item under a name that was free.
LEMMA CreateTree ==
  ASSUME TreeOK, NEW path, NEW parent, FolderAt(parent, path),
         NEW name \in Segment, NEW kind \in {"folder", "file"}, NEW raw \in Raw \cup {None},
         Children(parent, name) = {}, Create(parent, name, kind, raw),
         kind = "folder" => Append(path, name) \in FolderPath,
         kind = "file" => raw \in Raw /\ \E k \in Key : Append(path, name) = Path(k)
  PROVE  /\ TreeOK' /\ Keeps
         /\ nextId \in Id /\ nextId # Root /\ nextId' = nextId + 1
         /\ box[nextId] = None
         /\ box' = [box EXCEPT ![nextId] =
                      [parent |-> parent, name |-> name, kind |-> kind, raw |-> raw,
                       path |-> Append(path, name)]]
  <1>1. /\ parent \in Id /\ parent < nextId /\ path \in Seq(Segment) /\ Location(parent) = path
        /\ IsFolder(parent)
    BY FolderPlace DEF FolderAt
  <1>2. PICK item : item = [parent |-> parent, name |-> name, kind |-> kind, raw |-> raw,
                            path |-> Append(path, name)]
    OBVIOUS
  <1>3. item \in Item
    BY <1>1, <1>2, AppendProperties DEF Item
  <1>4. nextId \in Id /\ nextId' = nextId + 1 /\ box' = [box EXCEPT ![nextId] = item]
    BY <1>1, <1>2 DEF Create
  <1>5. nextId \in Nat /\ nextId # Root /\ Id = 0 .. MaxId /\ MaxId \in Nat
    BY BoxAssumption DEF TreeOK, Id, Root
  <1>6. box[nextId] = None
    <2>1. box[nextId] # None => nextId < nextId
      BY <1>4 DEF TreeOK, ItemOK
    <2>2. QED
      BY <1>5, <2>1
  <1>7. item # None
    BY <1>3, NoneAssumption
  <1>8. /\ box'[nextId] = item /\ \A i \in Id : i # nextId => box'[i] = box[i]
        /\ box' \in [Id -> Item \cup {None}] /\ nextId' \in 1 .. MaxId + 1
    <2>1. box \in [Id -> Item \cup {None}]
      BY DEF TreeOK
    <2>2. nextId' \in 1 .. MaxId + 1
      BY <1>4, <1>5
    <2>3. QED
      BY <1>3, <1>4, <2>1, <2>2
  <1>9. Keeps
    <2>1. \A i \in Id : i < nextId => box'[i] = box[i]
      BY <1>5, <1>8
    <2>2. nextId <= nextId'
      BY <1>4, <1>5
    <2>3. QED
      BY <2>1, <2>2 DEF Keeps
  <1>10. \A i, p : FolderAt(i, p) => FolderAt(i, p)'
    BY <1>9, FolderStays
  <1>11. FolderAt(parent, path)'
    BY <1>10
  <1>12. \A new : new = nextId => ItemOK(new)'
    <2> SUFFICES ASSUME NEW new, new = nextId PROVE ItemOK(new)'
      OBVIOUS
    <2>1. Location(parent)' = path /\ IsFolder(parent)'
      BY <1>11 DEF FolderAt
    <2>2. new < nextId'
      BY <1>4, <1>5
    <2>3. new # Root /\ box'[new] = item
      BY <1>5, <1>8
    <2>4. QED
      BY <1>1, <1>2, <2>1, <2>2, <2>3 DEF ItemOK, Root, IsFolder, Location
  <1>13. ASSUME NEW i \in Id, i # nextId, box'[i] # None
         PROVE  box[i] # None /\ box'[i] = box[i] /\ ItemOK(i)'
    <2>1. box[i] # None /\ box'[i] = box[i] /\ ItemOK(i) /\ box[i].parent \in Id
      BY <1>8, <1>13, ItemType
    <2>2. FolderAt(box[i].parent, Location(box[i].parent))
      BY <2>1 DEF ItemOK, FolderAt
    <2>3. PICK p, q : p = box[i].parent /\ q = Location(p) /\ FolderAt(p, q)
      BY <2>2
    <2>4. FolderAt(p, q)'
      BY <1>10, <2>3
    <2>5. box'[i].parent = p /\ Location(p)' = q /\ IsFolder(p)'
      BY <2>1, <2>3, <2>4 DEF FolderAt
    <2>6. i < nextId'
      BY <1>4, <1>5, <2>1 DEF ItemOK
    <2>7. QED
      BY <2>1, <2>3, <2>5, <2>6 DEF ItemOK, IsFolder, Location
  <1>14. ASSUME NEW i \in Id, i # nextId, box'[i] # None
         PROVE  box'[i].path # item.path
    <2>1. /\ box[i] # None /\ box[i].parent \in Id /\ box[i].name \in Segment
          /\ box[i].path = Append(Location(box[i].parent), box[i].name)
          /\ IsFolder(box[i].parent)
      BY <1>13, <1>14, ItemType DEF ItemOK
    <2>2. PICK p, q : p = box[i].parent /\ q = Location(p) /\ FolderAt(p, q)
      BY <2>1 DEF FolderAt
    <2>3. q \in Seq(Segment) /\ (p = parent <=> q = path)
      BY <1>1, <2>2, FolderPlace
    <2>4. ASSUME Append(q, box[i].name) = Append(path, name) PROVE FALSE
      <3>1. PICK n \in Segment : n = box[i].name
        BY <2>1
      <3>2. q = path /\ n = name
        BY <1>1, <2>3, <2>4, <3>1, AppendInjective
      <3>3. i \in Children(parent, name)
        BY <2>1, <2>2, <2>3, <3>1, <3>2 DEF Children
      <3>4. QED
        BY <3>3
    <2>5. QED
      BY <1>2, <1>13, <1>14, <2>1, <2>2, <2>4
  <1>15. ASSUME NEW i \in Id, box'[i] # None, NEW n \in 1 .. Len(box'[i].path) - 1
         PROVE  \E j \in Id : FolderAt(j, SubSeq(box[i].path, 1, n))'
    <2>1. CASE i # nextId
      <3>1. box[i] # None /\ box'[i] = box[i]
        BY <1>13, <1>15, <2>1
      <3>2. PICK j \in Id : FolderAt(j, SubSeq(box[i].path, 1, n))
        BY <1>15, <3>1 DEF TreeOK
      <3>3. PICK p : p = SubSeq(box[i].path, 1, n) /\ p = SubSeq(box'[i].path, 1, n)
        BY <3>1
      <3>4. FolderAt(j, p)'
        BY <1>10, <3>2, <3>3
      <3>5. QED
        BY <3>3, <3>4 DEF FolderAt
    <2>2. CASE i = nextId
      <3>1. box'[i].path = Append(path, name)
        BY <1>2, <1>8, <2>2
      <3>2. Len(path) \in Nat /\ Len(Append(path, name)) = Len(path) + 1
        BY <1>1, AppendProperties, LenProperties
      <3>3. n \in 1 .. Len(path)
        BY <1>15, <3>1, <3>2
      <3>4. SubSeq(Append(path, name), 1, n) = SubSeq(path, 1, n)
        <4>1. Append(path, name) = path \o <<name>> /\ <<name>> \in Seq(Segment)
          BY <1>1, AppendIsConcat
        <4>2. 1 \in 1 .. Len(path)
          BY <3>2, <3>3
        <4>3. SubSeq(path \o <<name>>, 1, n) = SubSeq(path, 1, n)
          BY <1>1, <3>3, <4>1, <4>2, SubSeqOfConcat1
        <4>4. QED
          BY <4>1, <4>3
      <3>5. CASE n = Len(path)
        <4>1. SubSeq(path, 1, n) = path
          BY <1>1, <3>5, SubSeqFull
        <4>2. QED
          BY <1>1, <1>11, <3>1, <3>4, <4>1 DEF FolderAt
      <3>6. CASE n # Len(path)
        <4>1. n \in 1 .. Len(path) - 1
          BY <3>2, <3>3, <3>6
        <4>2. path # <<>>
          BY <3>2, <3>3, EmptySeq
        <4>3. box[parent] # None /\ box[parent].path = path
          BY <1>1, <4>2, FolderPlace
        <4>4. PICK j \in Id : FolderAt(j, SubSeq(path, 1, n))
          BY <1>1, <4>1, <4>3 DEF TreeOK
        <4>5. PICK p : p = SubSeq(path, 1, n) /\ p = SubSeq(box'[i].path, 1, n)
          BY <3>1, <3>4
        <4>6. FolderAt(j, p)'
          BY <1>10, <4>4, <4>5
        <4>7. QED
          BY <4>5, <4>6 DEF FolderAt
      <3>7. QED
        BY <3>5, <3>6
    <2>3. QED
      BY <2>1, <2>2
  <1>16. TreeOK'
    <2>1. ASSUME NEW i \in Id, NEW j \in Id, box'[i] # None, box'[j] # None,
                 box'[i].path = box'[j].path
          PROVE  i = j
      <3>1. CASE i # nextId /\ j # nextId
        BY <1>13, <2>1, <3>1 DEF TreeOK
      <3>2. CASE i = nextId \/ j = nextId
        BY <1>8, <1>14, <2>1, <3>2
      <3>3. QED
        BY <3>1, <3>2
    <2>2. QED
      BY <1>8, <1>12, <1>13, <1>15, <2>1 DEF TreeOK
  <1>17. QED
    BY <1>2, <1>4, <1>5, <1>6, <1>9, <1>16

\* A file that gets another version, or is deleted.
LEMMA FileTree ==
  ASSUME TreeOK, NEW i \in Id, box[i] # None => box[i].kind = "file", NEW e,
         \/ e = None
         \/ /\ box[i] # None /\ e \in Item /\ e.parent = box[i].parent /\ e.name = box[i].name
            /\ e.kind = box[i].kind /\ e.path = box[i].path /\ e.raw \in Raw,
         box' = [box EXCEPT ![i] = e], UNCHANGED nextId
  PROVE  TreeOK' /\ Keeps
  <1>1. box \in [Id -> Item \cup {None}] /\ nextId \in 1 .. MaxId + 1 /\ nextId' = nextId
    BY DEF TreeOK
  <1>2. box'[i] = e /\ \A j \in Id : j # i => box'[j] = box[j]
    BY <1>1
  <1>3. Keeps
    <2>1. nextId <= nextId'
      BY <1>1
    <2>2. \A j \in Id : box[j] # None /\ box[j].kind = "folder" => box'[j] = box[j]
      BY <1>2
    <2>3. \A j \in Id : box'[j] # None => /\ box[j] # None
                                          /\ box'[j].parent = box[j].parent
                                          /\ box'[j].name = box[j].name
                                          /\ box'[j].kind = box[j].kind
                                          /\ box'[j].path = box[j].path
      BY <1>2
    <2>4. QED
      BY <2>1, <2>2, <2>3 DEF Keeps
  <1>4. \A j, p : FolderAt(j, p) => FolderAt(j, p)'
    BY <1>3, FolderStays
  <1>5. ASSUME NEW j \in Id, box'[j] # None
        PROVE  /\ box[j] # None /\ ItemOK(j)' /\ box'[j].path = box[j].path
               /\ \A n \in 1 .. Len(box[j].path) - 1 :
                    \E h \in Id : FolderAt(h, SubSeq(box[j].path, 1, n))'
    <2>1. /\ box[j] # None /\ box'[j].parent = box[j].parent /\ box'[j].name = box[j].name
          /\ box'[j].kind = box[j].kind /\ box'[j].path = box[j].path
          /\ box'[j].kind = "file" => box'[j].raw \in Raw
      BY <1>2, <1>5, ItemType DEF ItemOK
    <2>2. ItemOK(j) /\ box[j].parent \in Id
      BY <2>1, ItemType
    <2>3. PICK p, q : p = box[j].parent /\ q = Location(p) /\ FolderAt(p, q)
      BY <2>2 DEF ItemOK, FolderAt
    <2>4. FolderAt(p, q)'
      BY <1>4, <2>3
    <2>5. IsFolder(p)' /\ Location(p)' = q
      BY <2>4 DEF FolderAt
    <2>6. ItemOK(j)'
      BY <1>1, <2>1, <2>2, <2>3, <2>5 DEF ItemOK, IsFolder, Location
    <2>7. ASSUME NEW n \in 1 .. Len(box[j].path) - 1
          PROVE  \E h \in Id : FolderAt(h, SubSeq(box[j].path, 1, n))'
      <3>1. PICK s : s = SubSeq(box[j].path, 1, n) /\ s = SubSeq(box'[j].path, 1, n)
        BY <2>1
      <3>2. PICK h \in Id : FolderAt(h, s)
        BY <2>1, <2>7, <3>1 DEF TreeOK
      <3>3. FolderAt(h, s)'
        BY <1>4, <3>2
      <3>4. QED
        BY <3>1, <3>3 DEF FolderAt
    <2>8. QED
      BY <2>1, <2>6, <2>7
  <1>6. TreeOK'
    <2>1. box' \in [Id -> Item \cup {None}]
      BY <1>1
    <2>2. \A j, h \in Id : box'[j] # None /\ box'[h] # None /\ box'[j].path = box'[h].path => j = h
      BY <1>5 DEF TreeOK
    <2>3. ASSUME NEW j \in Id, box'[j] # None, NEW n \in 1 .. Len(box'[j].path) - 1
          PROVE  \E h \in Id : FolderAt(h, SubSeq(box[j].path, 1, n))'
      <3>1. n \in 1 .. Len(box[j].path) - 1
        BY <1>5, <2>3
      <3>2. QED
        BY <1>5, <2>3, <3>1
    <2>4. QED
      BY <1>1, <1>5, <2>1, <2>2, <2>3 DEF TreeOK
  <1>7. QED
    BY <1>3, <1>6

\* Where Box does nothing, everything stays.
LEMMA TreeAlone ==
  ASSUME TreeOK, UNCHANGED <<box, nextId>>
  PROVE  TreeOK' /\ Keeps
  <1>1. TreeOK'
    BY DEF TreeOK, ItemOK, FolderAt, IsFolder, Location
  <1>2. nextId <= nextId'
    BY BoxAssumption DEF TreeOK
  <1>3. \A i \in Id : box'[i] # None => box[i] # None /\ box'[i] = box[i]
    OBVIOUS
  <1>4. QED
    BY <1>1, <1>2, <1>3 DEF Keeps

-----------------------------------------------------------------------------
(* The inductive invariant *)

\* A memoized folder is the one its path leads to.
FolderMemosOK ==
  /\ _folder_cache \in [Process -> [FolderPath -> Id \cup {None}]]
  /\ \A p \in Process, path \in FolderPath :
       _folder_cache[p][path] # None => FolderAt(_folder_cache[p][path], path)

\* A memoized file is the one of the key, if it is still there.
FileMemosOK ==
  /\ _file_cache \in [Process -> [Key -> Id \cup {None}]]
  /\ \A p \in Process, k \in Key :
       _file_cache[p][k] # None => FileOf(_file_cache[p][k], k)

\* The calls that come to a place in the code.
Fits(pc, op) ==
  /\ pc \in {"create", "lookup", "upload", "version", "record"} => op = "put"
  /\ pc = "resolve" => op \in {"get", "exists", "delete"}
  /\ pc = "download" => op = "get"
  /\ pc \in {"remove", "forget"} => op = "delete"
  /\ pc \in {"walk", "find", "memo"} => op # "list"
  /\ pc \in {"page", "item"} => op = "list"

\* The folders of the key that are resolved so far lead where the key does.
WalkOK(l) ==
  /\ l.req.key \in Key /\ l.depth <= Len(Folder[l.req.key])
  /\ FolderAt(l.parent, Prefix(l.req.key, l.depth))
  /\ l.pc \in {"create", "lookup"} => l.depth < Len(Folder[l.req.key])
  /\ l.pc \in {"find", "upload"} => l.depth = Len(Folder[l.req.key])
  /\ l.pc = "lookup" => \E i \in Id : FolderAt(i, Prefix(l.req.key, l.depth + 1))

\* A listing knows the folders it is in, and those on their pages.
FrameOK(frame) ==
  /\ FolderAt(frame.folder, frame.path)
  /\ \A item \in frame.page :
       item.kind = "folder" => FolderAt(item.id, Append(frame.path, item.name))

\* The local variables of a call of w.
CallOK(w, l) ==
  /\ l \in Local /\ l.req \in Requests[w] \cup {None}
  /\ l.pc = "idle" <=> l.req = None
  /\ l.pc = "done" <=> l.reply # None
  /\ l.pc # "idle" => Fits(l.pc, l.req.op)
  /\ l.pc \in {"resolve", "walk", "create", "lookup", "find", "upload"} => WalkOK(l)
  /\ l.pc \in {"memo", "version", "record", "download", "remove", "forget"} =>
       FileOf(l.id, l.req.key)
  /\ l.pc \in {"page", "item"} => l.stack # <<>>
  /\ \A n \in 1 .. Len(l.stack) : FrameOK(l.stack[n])

IInv ==
  /\ TreeOK /\ FolderMemosOK /\ FileMemosOK
  /\ call \in [Worker -> Local]
  /\ \A w \in Worker : CallOK(w, call[w])

\* What a call that is under way asks for.
LEMMA RequestOf ==
  ASSUME NEW w \in Worker, NEW l, CallOK(w, l), l.pc # "idle"
  PROVE  /\ l.req \in Requests[w] /\ l.req \in Request /\ l.req # None
         /\ l.req.op \in {"put", "get", "exists", "delete", "list"}
         /\ l.req.op # "list" => l.req.key \in Key
         /\ l.req.op = "list" => l.req.key \in Sought
         /\ l.req.op = "put" => l.req.raw \in Raw
  <1>1. l.req \in Requests[w] /\ l.req # None
    BY DEF CallOK
  <1>2. l.req \in Request /\ (l.req.op = "put" <=> l.req.raw \in Raw)
    BY <1>1, BoxAssumption
  <1>3. QED
    BY <1>1, <1>2 DEF Request

\* The calls of others, and the memos, stay as good as they were.
LEMMA CallStays ==
  ASSUME TreeOK, TreeOK', Keeps, NEW w \in Worker, NEW l, CallOK(w, l)
  PROVE  CallOK(w, l)'
  <1>1. \A i, p : FolderAt(i, p) => FolderAt(i, p)'
    BY FolderStays
  <1>2. \A i, k : FileOf(i, k) => FileOf(i, k)'
    BY FileStays
  <1>3. WalkOK(l) => WalkOK(l)'
    BY <1>1 DEF WalkOK
  <1>4. \A n \in 1 .. Len(l.stack) : FrameOK(l.stack[n])'
    <2>1. ASSUME NEW n \in 1 .. Len(l.stack) PROVE FrameOK(l.stack[n])'
      <3>1. FrameOK(l.stack[n])
        BY DEF CallOK
      <3>2. QED
        BY <1>1, <3>1 DEF FrameOK
    <2>2. QED
      BY <2>1
  <1>5. QED
    BY <1>2, <1>3, <1>4 DEF CallOK

\* The memos that nobody writes stay as good as they were.
LEMMA MemosStay ==
  ASSUME TreeOK, TreeOK', Keeps
  PROVE  /\ FolderMemosOK /\ UNCHANGED _folder_cache => FolderMemosOK'
         /\ FileMemosOK /\ UNCHANGED _file_cache => FileMemosOK'
  <1>1. \A i, p : FolderAt(i, p) => FolderAt(i, p)'
    BY FolderStays
  <1>2. \A i, k : FileOf(i, k) => FileOf(i, k)'
    BY FileStays
  <1>3. QED
    BY <1>1, <1>2 DEF FolderMemosOK, FileMemosOK

\* A folder that is memoized.
LEMMA FolderRemembered ==
  ASSUME TreeOK, TreeOK', Keeps, FolderMemosOK, NEW w \in Worker, NEW path \in FolderPath,
         NEW i, FolderAt(i, path)', RememberFolder(w, path, i)
  PROVE  FolderMemosOK'
  <1>1. PICK p \in Process : p = Home[w] /\ _folder_cache' = [_folder_cache EXCEPT ![p][path] = i]
    BY Constants DEF RememberFolder
  <1>2. i \in Id /\ _folder_cache \in [Process -> [FolderPath -> Id \cup {None}]]
    BY DEF FolderAt, FolderMemosOK
  <1>3. _folder_cache' \in [Process -> [FolderPath -> Id \cup {None}]]
    BY <1>1, <1>2
  <1>4. ASSUME NEW q \in Process, NEW t \in FolderPath, _folder_cache'[q][t] # None
        PROVE  FolderAt(_folder_cache[q][t], t)'
    <2>1. CASE q = p /\ t = path
      BY <1>1, <1>2, <2>1
    <2>2. CASE ~ (q = p /\ t = path)
      <3>1. PICK j : j = _folder_cache[q][t] /\ j = _folder_cache'[q][t]
        BY <1>1, <1>2, <2>2
      <3>2. FolderAt(j, t)
        BY <1>4, <3>1 DEF FolderMemosOK
      <3>3. FolderAt(j, t)'
        BY <3>2, FolderStays
      <3>4. QED
        BY <3>1, <3>3
    <2>3. QED
      BY <2>1, <2>2
  <1>5. QED
    BY <1>3, <1>4 DEF FolderMemosOK

\* A file that is memoized, or a memo that is dropped.
LEMMA FileRemembered ==
  ASSUME TreeOK, TreeOK', Keeps, FileMemosOK, NEW w \in Worker, NEW k \in Key,
         NEW i, i = None \/ FileOf(i, k)', Remember(w, k, i)
  PROVE  FileMemosOK'
  <1>1. PICK p \in Process : p = Home[w] /\ _file_cache' = [_file_cache EXCEPT ![p][k] = i]
    BY Constants DEF Remember
  <1>2. i \in Id \cup {None} /\ _file_cache \in [Process -> [Key -> Id \cup {None}]]
    BY DEF FileOf, FileMemosOK
  <1>3. _file_cache' \in [Process -> [Key -> Id \cup {None}]]
    BY <1>1, <1>2
  <1>4. ASSUME NEW q \in Process, NEW t \in Key, _file_cache'[q][t] # None
        PROVE  FileOf(_file_cache[q][t], t)'
    <2>1. CASE q = p /\ t = k
      BY <1>1, <1>2, <1>4, <2>1
    <2>2. CASE ~ (q = p /\ t = k)
      <3>1. PICK j : j = _file_cache[q][t] /\ j = _file_cache'[q][t]
        BY <1>1, <1>2, <2>2
      <3>2. FileOf(j, t)
        BY <1>4, <3>1 DEF FileMemosOK
      <3>3. FileOf(j, t)'
        BY <3>2, FileStays
      <3>4. QED
        BY <3>1, <3>3
    <2>3. QED
      BY <2>1, <2>2
  <1>5. QED
    BY <1>3, <1>4 DEF FileMemosOK

\* A step of w keeps the invariant if it leaves its own call in order.
LEMMA Kept ==
  ASSUME IInv, TreeOK', Keeps, FolderMemosOK', FileMemosOK',
         NEW w \in Worker, NEW m, CallOK(w, m)', Run(w, m)
  PROVE  IInv' /\ call'[w] = m /\ \A v \in Worker : v # w => call'[v] = call[v]
  <1>1. call \in [Worker -> Local] /\ m \in Local
    BY DEF IInv, CallOK
  <1>2. /\ call' \in [Worker -> Local] /\ call'[w] = m
        /\ \A v \in Worker : v # w => call'[v] = call[v]
    BY <1>1 DEF Run
  <1>3. ASSUME NEW v \in Worker PROVE CallOK(v, call[v])'
    <2>1. CASE v = w
      BY <1>2, <2>1
    <2>2. CASE v # w
      <3>1. PICK l : l = call[v] /\ l = call'[v] /\ CallOK(v, l)
        BY <1>2, <2>2 DEF IInv
      <3>2. CallOK(v, l)'
        BY <3>1, CallStays DEF IInv
      <3>3. QED
        BY <3>1, <3>2
    <2>3. QED
      BY <2>1, <2>2
  <1>4. QED
    BY <1>2, <1>3 DEF IInv

-----------------------------------------------------------------------------
(* How the local variables change *)

\* A call goes on at another place.
LEMMA GoesOn ==
  ASSUME NEW l \in Local, NEW pc \in Label, NEW m, m = [l EXCEPT !.pc = pc]
  PROVE  /\ m \in Local /\ m.pc = pc /\ m.req = l.req /\ m.depth = l.depth
         /\ m.parent = l.parent /\ m.id = l.id /\ m.stack = l.stack
         /\ m.found = l.found /\ m.reply = l.reply
  BY DEF Local

\* A call has an answer.
LEMMA Replies ==
  ASSUME NEW l \in Local, NEW kind, NEW bytes, [kind |-> kind, bytes |-> bytes] \in Answer,
         NEW m, m = Reply(l, kind, bytes)
  PROVE  /\ m \in Local /\ m.pc = "done" /\ m.req = l.req /\ m.stack = l.stack
         /\ m.found = l.found /\ m.reply = [kind |-> kind, bytes |-> bytes]
         /\ m.reply # None
  <1>1. [kind |-> kind, bytes |-> bytes] # None
    BY NoneAssumption
  <1>2. "done" \in Label
    BY DEF Label
  <1>3. QED
    BY <1>1, <1>2 DEF Local, Reply

\* A call enters a folder.
LEMMA Enters ==
  ASSUME NEW l \in Local, NEW i \in Id, NEW m, m = Enter(l, i)
  PROVE  /\ m \in Local /\ m.pc = "walk" /\ m.req = l.req /\ m.depth = l.depth + 1
         /\ m.parent = i /\ m.id = l.id /\ m.stack = l.stack
         /\ m.found = l.found /\ m.reply = l.reply
  <1>1. "walk" \in Label /\ l.depth + 1 \in Nat
    BY DEF Label, Local
  <1>2. PICK d \in Nat : d = l.depth + 1
    BY <1>1
  <1>3. m = [l EXCEPT !.pc = "walk", !.depth = d, !.parent = i]
    BY <1>2 DEF Local, Enter
  <1>4. QED
    BY <1>1, <1>2, <1>3 DEF Local

\* An answer is in order at any moment.
LEMMA ReplyOK ==
  ASSUME NEW w \in Worker, NEW l, CallOK(w, l), l.pc # "idle",
         NEW kind, NEW bytes, [kind |-> kind, bytes |-> bytes] \in Answer,
         NEW m, m = Reply(l, kind, bytes)
  PROVE  CallOK(w, m)
  <1>1. l \in Local
    BY DEF CallOK
  <1>2. /\ m \in Local /\ m.pc = "done" /\ m.req = l.req /\ m.stack = l.stack
        /\ m.reply # None
    BY <1>1, Replies
  <1>3. QED
    BY <1>2 DEF CallOK, Fits

\* The answers.
LEMMA Answers ==
  /\ \A kind \in {"ok", "error", "BlobNotFoundError", "yes", "no"} :
       [kind |-> kind, bytes |-> None] \in Answer
  /\ \A raw \in Raw \cup {None} : [kind |-> "bytes", bytes |-> raw] \in Answer
  /\ \A found \in SUBSET Key : [kind |-> "keys", bytes |-> found] \in Answer
  BY DEF Answer

\* BlobNotFoundError, wherever it is raised.
LEMMA NotFoundOK ==
  ASSUME NEW w \in Worker, NEW l, CallOK(w, l), l.pc # "idle", NEW m, m = NotFound(l)
  PROVE  CallOK(w, m)
  <1>1. PICK kind \in {"no", "ok", "BlobNotFoundError"} : m = Reply(l, kind, None)
    BY DEF NotFound
  <1>2. QED
    BY <1>1, ReplyOK, Answers

\* BoxAPIError, wherever it is raised.
LEMMA ErrorOK ==
  ASSUME NEW w \in Worker, NEW l, CallOK(w, l), l.pc # "idle", NEW m, m = Error(l)
  PROVE  CallOK(w, m)
  BY ReplyOK, Answers DEF Error

\* The next folder of a key.
LEMMA EnterOK ==
  ASSUME NEW w \in Worker, NEW l, CallOK(w, l), l.pc \in {"walk", "create", "lookup"},
         l.depth < Len(Folder[l.req.key]),
         NEW i, FolderAt(i, Prefix(l.req.key, l.depth + 1)), NEW m, m = Enter(l, i)
  PROVE  CallOK(w, m)
  <1>1. l \in Local /\ i \in Id /\ WalkOK(l) /\ l.depth \in Nat
    BY DEF CallOK, FolderAt, Local
  <1>2. /\ m \in Local /\ m.pc = "walk" /\ m.req = l.req /\ m.depth = l.depth + 1
        /\ m.parent = i /\ m.id = l.id /\ m.stack = l.stack /\ m.reply = l.reply
    BY <1>1, Enters
  <1>3. l.depth + 1 <= Len(Folder[l.req.key])
    BY <1>1, PrefixEnds DEF WalkOK
  <1>4. WalkOK(m)
    BY <1>1, <1>2, <1>3 DEF WalkOK
  <1>5. Fits("walk", m.req.op)
    <2>1. l.req.op # "list"
      BY DEF CallOK, Fits
    <2>2. QED
      BY <1>2, <2>1 DEF Fits
  <1>6. QED
    BY <1>2, <1>4, <1>5 DEF CallOK

\* The file of a key.
LEMMA KnownOK ==
  ASSUME NEW w \in Worker, NEW l, CallOK(w, l), l.pc \in {"resolve", "memo", "upload"},
         NEW i, FileOf(i, l.req.key), NEW m, m = Known(l, i)
  PROVE  CallOK(w, m)
  <1>1. l \in Local /\ i \in Id /\ l.req.op \in {"put", "get", "exists", "delete"}
    <2>1. l.req.op # "list"
      BY DEF CallOK, Fits
    <2>2. QED
      BY <2>1, RequestOf DEF CallOK, FileOf
  <1>2. PICK h : h = [l EXCEPT !.id = i]
    OBVIOUS
  <1>3. /\ h \in Local /\ h.pc = l.pc /\ h.req = l.req /\ h.depth = l.depth
        /\ h.parent = l.parent /\ h.id = i /\ h.stack = l.stack
        /\ h.found = l.found /\ h.reply = l.reply
    BY <1>1, <1>2 DEF Local
  <1>4. CallOK(w, h)
    BY <1>3 DEF CallOK, WalkOK
  <1>5. CASE l.req.op = "exists"
    <2>1. m = Reply(h, "yes", None)
      BY <1>2, <1>5 DEF Known
    <2>2. QED
      BY <1>3, <1>4, <2>1, ReplyOK, Answers
  <1>6. CASE l.req.op # "exists"
    <2>1. PICK pc \in {"download", "remove", "version"} :
            /\ m = [h EXCEPT !.pc = pc]
            /\ l.req.op = "get" => pc = "download"
            /\ l.req.op = "delete" => pc = "remove"
            /\ l.req.op = "put" => pc = "version"
      BY <1>1, <1>2, <1>6 DEF Known
    <2>2. pc \in Label
      BY DEF Label
    <2>3. /\ m \in Local /\ m.pc = pc /\ m.req = l.req /\ m.id = i /\ m.stack = l.stack
          /\ m.reply = l.reply
      BY <1>3, <2>1, <2>2, GoesOn
    <2>4. Fits(m.pc, m.req.op)
      BY <1>1, <1>6, <2>1, <2>3 DEF Fits
    <2>5. QED
      BY <2>3, <2>4 DEF CallOK
  <1>7. QED
    BY <1>5, <1>6

\* The generators that are left are the first of the stack, and none that has an
\* item or a page to come is dropped.
LEMMA Resumes ==
  ASSUME NEW l \in Local, NEW stack \in Seq(FrameType), NEW m, m = Resume(l, stack)
  PROVE  /\ m \in Local /\ m.req = l.req /\ m.id = l.id /\ m.found = l.found
         /\ m.stack \in Seq(FrameType) /\ Len(m.stack) \in 0 .. Len(stack)
         /\ \A n \in 1 .. Len(m.stack) : m.stack[n] = stack[n]
         /\ \A n \in 1 .. Len(stack) :
              stack[n].page # {} \/ ~ stack[n].last => n <= Len(m.stack)
         /\ m.stack = <<>> => m = Reply([l EXCEPT !.stack = <<>>], "keys", l.found)
         /\ m.stack # <<>> =>
              /\ m.pc \in {"page", "item"} /\ m.reply = l.reply
              /\ m.pc = "item" <=> m.stack[Len(m.stack)].page # {}
  <1> DEFINE live == {n \in DOMAIN stack : stack[n].page # {} \/ ~ stack[n].last}
             left == IF live = {} THEN <<>> ELSE SubSeq(stack, 1, Max(live))
             h == [l EXCEPT !.stack = left]
  <1>1. Len(stack) \in Nat /\ DOMAIN stack = 1 .. Len(stack)
        /\ \A n \in 1 .. Len(stack) : stack[n] \in FrameType
    BY LenProperties, ElementOfSeq
  <1>2. live # {} => Max(live) \in live /\ \A n \in live : n <= Max(live)
    BY <1>1, Greatest
  <1>3. /\ left \in Seq(FrameType) /\ Len(left) \in 0 .. Len(stack)
        /\ \A n \in 1 .. Len(left) : left[n] = stack[n]
        /\ \A n \in live : n <= Len(left)
    <2>1. CASE live = {}
      BY <1>1, <2>1, EmptySeq
    <2>2. CASE live # {}
      <3>1. PICK last \in 1 .. Len(stack) : last = Max(live) /\ \A n \in live : n <= last
        BY <1>1, <1>2, <2>2
      <3>2. left = SubSeq(stack, 1, last)
        BY <2>2, <3>1
      <3>3. \A i \in 1 .. last : stack[i] \in FrameType
        BY <1>1
      <3>4. /\ SubSeq(stack, 1, last) \in Seq(FrameType) /\ Len(SubSeq(stack, 1, last)) = last
            /\ \A i \in 1 .. last : SubSeq(stack, 1, last)[i] = stack[i]
        BY <1>1, <3>3, SubSeqProperties
      <3>5. left \in Seq(FrameType) /\ Len(left) = last
            /\ \A i \in 1 .. last : left[i] = stack[i]
        BY <3>2, <3>4
      <3> HIDE DEF left, live
      <3>6. QED
        BY <1>1, <3>1, <3>5
    <2>3. QED
      BY <2>1, <2>2
  <1>4. m = CASE left = <<>> -> Reply(h, "keys", l.found)
              [] left # <<>> /\ Last(left).page = {} -> [h EXCEPT !.pc = "page"]
              [] OTHER -> [h EXCEPT !.pc = "item"]
    BY DEF Resume
  <1>5. Last(left) = left[Len(left)]
    BY DEF Last
  <1> HIDE DEF left
  <1>6. /\ h \in Local /\ h.req = l.req /\ h.id = l.id /\ h.found = l.found
        /\ h.stack = left /\ h.reply = l.reply
    BY <1>3 DEF Local
  <1> HIDE DEF h
  <1>7. CASE left = <<>>
    <2>1. m = Reply(h, "keys", l.found)
      BY <1>4, <1>7
    <2>2. [kind |-> "keys", bytes |-> l.found] \in Answer
      BY Answers DEF Local
    <2>3. m \in Local /\ m.req = l.req /\ m.id = l.id /\ m.found = l.found /\ m.stack = left
      <3>1. m \in Local /\ m.req = l.req /\ m.found = l.found /\ m.stack = left
        BY <1>6, <2>1, <2>2, Replies
      <3>2. m.id = l.id
        BY <1>6, <2>1 DEF Reply, Local
      <3>3. QED
        BY <3>1, <3>2
    <2>4. h = [l EXCEPT !.stack = <<>>]
      BY <1>7 DEF h
    <2>5. QED
      BY <1>1, <1>3, <1>7, <2>1, <2>3, <2>4
  <1>8. CASE left # <<>>
    <2>1. PICK pc \in {"page", "item"} :
            m = [h EXCEPT !.pc = pc] /\ (pc = "item" <=> left[Len(left)].page # {})
      BY <1>4, <1>5, <1>8
    <2>2. pc \in Label
      BY DEF Label
    <2>3. /\ m \in Local /\ m.pc = pc /\ m.req = l.req /\ m.id = l.id /\ m.found = l.found
          /\ m.stack = left /\ m.reply = l.reply
      BY <1>6, <2>1, <2>2, GoesOn
    <2>4. QED
      BY <1>1, <1>3, <1>8, <2>1, <2>3
  <1>9. QED
    BY <1>7, <1>8

\* A listing goes on with generators that know where they are.
LEMMA ResumeOK ==
  ASSUME NEW w \in Worker, NEW l \in Local, l.req \in Requests[w], l.req.op = "list",
         l.reply = None, NEW stack \in Seq(FrameType),
         \A n \in 1 .. Len(stack) : FrameOK(stack[n]),
         NEW m, m = Resume(l, stack)
  PROVE  CallOK(w, m)
  <1>1. l.req # None
    BY Constants, NoneAssumption
  <1>2. /\ m \in Local /\ m.req = l.req /\ Len(m.stack) \in 0 .. Len(stack)
        /\ \A n \in 1 .. Len(m.stack) : m.stack[n] = stack[n]
        /\ m.stack = <<>> => m = Reply([l EXCEPT !.stack = <<>>], "keys", l.found)
        /\ m.stack # <<>> => m.pc \in {"page", "item"} /\ m.reply = l.reply
    BY Resumes
  <1>3. \A n \in 1 .. Len(m.stack) : FrameOK(m.stack[n])
    <2>1. Len(stack) \in Nat
      BY LenProperties
    <2>2. QED
      BY <1>2, <2>1
  <1>4. CASE m.stack = <<>>
    <2>1. PICK h : h = [l EXCEPT !.stack = <<>>]
      OBVIOUS
    <2>2. h \in Local /\ h.found = l.found
      BY <2>1, EmptySeq DEF Local
    <2>3. [kind |-> "keys", bytes |-> l.found] \in Answer
      BY Answers DEF Local
    <2>4. m.pc = "done" /\ m.reply # None
      BY <1>2, <1>4, <2>1, <2>2, <2>3, Replies
    <2>5. QED
      BY <1>1, <1>2, <1>3, <2>4 DEF CallOK, Fits
  <1>5. CASE m.stack # <<>>
    BY <1>1, <1>2, <1>3, <1>5 DEF CallOK, Fits
  <1>6. QED
    BY <1>4, <1>5

\* The stack of a listing, with its top put back after a change.
PutBack(stack, top) == Front(stack) \o <<top>>

TopOnly(stack, top, s) ==
  /\ s[Len(stack)] = top
  /\ \A n \in 1 .. Len(stack) - 1 : s[n] = stack[n]

\* Only the top is another.
LEMMA TopChanged ==
  ASSUME NEW stack \in Seq(FrameType), stack # <<>>, NEW top \in FrameType,
         NEW s, s = PutBack(stack, top)
  PROVE  /\ s \in Seq(FrameType) /\ Len(s) = Len(stack) /\ TopOnly(stack, top, s)
         /\ Last(stack) = stack[Len(stack)] /\ Last(stack) \in FrameType
         /\ Len(stack) \in Nat /\ Len(stack) >= 1
  <1>1. /\ Len(stack) \in Nat /\ Len(stack) >= 1
        /\ \A n \in 1 .. Len(stack) : stack[n] \in FrameType
    BY LenProperties, ElementOfSeq, EmptySeq
  <1>2. PICK f : f = Front(stack)
    OBVIOUS
  <1>3. /\ f \in Seq(FrameType) /\ Len(f) = Len(stack) - 1
        /\ \A n \in 1 .. Len(stack) - 1 : f[n] = stack[n]
    <2>1. f = SubSeq(stack, 1, Len(stack) - 1)
      BY <1>2 DEF Front
    <2>2. /\ SubSeq(stack, 1, Len(stack) - 1) \in Seq(FrameType)
          /\ Len(SubSeq(stack, 1, Len(stack) - 1)) =
               IF 1 <= Len(stack) - 1 THEN (Len(stack) - 1) - 1 + 1 ELSE 0
          /\ \A n \in 1 .. (Len(stack) - 1) - 1 + 1 :
               SubSeq(stack, 1, Len(stack) - 1)[n] = stack[1 + n - 1]
      BY <1>1, SubSeqProperties
    <2>3. Len(stack) - 1 \in Nat /\ (Len(stack) - 1) - 1 + 1 = Len(stack) - 1
          /\ \A n \in 1 .. Len(stack) - 1 : 1 + n - 1 = n
      BY <1>1
    <2>4. Len(f) = Len(stack) - 1
      BY <2>1, <2>2, <2>3
    <2>5. QED
      BY <2>1, <2>2, <2>3, <2>4
  <1>4. s = Append(f, top)
    BY <1>2, <1>3, AppendIsConcat DEF PutBack
  <1>5. /\ s \in Seq(FrameType) /\ Len(s) = Len(f) + 1 /\ s[Len(f) + 1] = top
        /\ \A n \in 1 .. Len(f) : s[n] = f[n]
    <2>1. f \in Seq(FrameType)
      BY <1>3
    <2>2. /\ Append(f, top) \in Seq(FrameType) /\ Len(Append(f, top)) = Len(f) + 1
          /\ \A n \in 1 .. Len(f) : Append(f, top)[n] = f[n]
          /\ Append(f, top)[Len(f) + 1] = top
      BY <2>1, AppendProperties
    <2>3. QED
      BY <1>4, <2>2
  <1>6. Last(stack) = stack[Len(stack)] /\ Last(stack) \in FrameType
    BY <1>1 DEF Last
  <1>7. TopOnly(stack, top, s)
    BY <1>1, <1>3, <1>5 DEF TopOnly
  <1>8. QED
    BY <1>1, <1>3, <1>5, <1>6, <1>7

-----------------------------------------------------------------------------
(* Every step keeps the invariant *)

\* Steps that leave Box alone.
LEMMA MemoStep ==
  ASSUME IInv, UNCHANGED <<box, nextId>>, NEW w \in Worker, NEW m, CallOK(w, m), Run(w, m),
         \/ UNCHANGED _folder_cache
         \/ \E path \in FolderPath, i \in Id : FolderAt(i, path) /\ RememberFolder(w, path, i),
         \/ UNCHANGED _file_cache
         \/ \E k \in Key, i \in Id \cup {None} : (i = None \/ FileOf(i, k)) /\ Remember(w, k, i)
  PROVE  IInv'
  <1>1. TreeOK /\ TreeOK' /\ Keeps
    BY TreeAlone DEF IInv
  <1>2. CallOK(w, m)'
    BY <1>1, CallStays
  <1>3. FolderMemosOK'
    <2>1. CASE UNCHANGED _folder_cache
      BY <1>1, <2>1, MemosStay DEF IInv
    <2>2. ASSUME NEW path \in FolderPath, NEW i \in Id,
                 FolderAt(i, path), RememberFolder(w, path, i)
          PROVE  FolderMemosOK'
      <3>1. FolderAt(i, path)'
        BY <1>1, <2>2, FolderStays
      <3>2. QED
        BY <1>1, <2>2, <3>1, FolderRemembered DEF IInv
    <2>3. QED
      BY <2>1, <2>2
  <1>4. FileMemosOK'
    <2>1. CASE UNCHANGED _file_cache
      BY <1>1, <2>1, MemosStay DEF IInv
    <2>2. ASSUME NEW k \in Key, NEW i \in Id \cup {None},
                 i = None \/ FileOf(i, k), Remember(w, k, i)
          PROVE  FileMemosOK'
      <3>1. i = None \/ FileOf(i, k)'
        BY <1>1, <2>2, FileStays
      <3>2. QED
        BY <1>1, <2>2, <3>1, FileRemembered DEF IInv
    <2>3. QED
      BY <2>1, <2>2
  <1>5. QED
    BY <1>1, <1>2, <1>3, <1>4, Kept

\* What a listing of a folder finds under a name.
LEMMA Found ==
  ASSUME TreeOK, NEW parent, NEW path, FolderAt(parent, path), NEW name \in Segment,
         NEW kind \in {"folder", "file"}, NEW i, i = FindChild(parent, name, kind), i # None
  PROVE  i \in Id /\ box[i] # None /\ box[i].kind = kind /\ box[i].path = Append(path, name)
  <1>1. /\ i \in Id /\ box[i] # None /\ box[i].parent = parent /\ box[i].name = name
        /\ box[i].kind = kind
    BY DEF FindChild, Children
  <1>2. box[i].path = Append(Location(parent), name)
    BY <1>1 DEF TreeOK, ItemOK
  <1>3. QED
    BY <1>1, <1>2 DEF FolderAt

\* What is in the way of a new item.
LEMMA Taken ==
  ASSUME TreeOK, NEW parent, NEW path, FolderAt(parent, path), NEW name \in Segment,
         NEW i \in Children(parent, name)
  PROVE  i \in Id /\ box[i] # None /\ box[i].path = Append(path, name)
  <1>1. /\ i \in Id /\ box[i] # None /\ box[i].parent = parent /\ box[i].name = name
    BY DEF Children
  <1>2. box[i].path = Append(Location(parent), name)
    BY <1>1 DEF TreeOK, ItemOK
  <1>3. QED
    BY <1>1, <1>2 DEF FolderAt

\* What lies under a folder path is the folder, what lies under a key its file.
LEMMA KindAt ==
  ASSUME TreeOK, NEW i \in Id, box[i] # None
  PROVE  /\ \A path \in FolderPath : box[i].path = path => FolderAt(i, path)
         /\ \A k \in Key : box[i].path = Path(k) => FileOf(i, k) /\ box[i].kind = "file"
  <1>1. ItemOK(i) /\ box[i].kind \in {"folder", "file"}
    BY ItemType
  <1>2. box[i].path \in FolderPath => box[i].kind = "folder"
    BY <1>1, KeysAreFiles DEF ItemOK
  <1>3. \A k \in Key : box[i].path = Path(k) => box[i].kind = "file"
    BY <1>1, KeysAreFiles DEF ItemOK
  <1>4. QED
    BY <1>1, <1>2, <1>3 DEF FolderAt, FileOf, IsFolder, Location, ItemOK

\* The next folder of a key.
LEMMA NextFolder ==
  ASSUME NEW w \in Worker, NEW l, CallOK(w, l), l.pc \in {"walk", "create", "lookup"},
         l.depth < Len(Folder[l.req.key])
  PROVE  /\ l.req.key \in Key /\ l.depth \in Nat /\ WalkOK(l)
         /\ FolderAt(l.parent, Prefix(l.req.key, l.depth))
         /\ Folder[l.req.key][l.depth + 1] \in Segment
         /\ Prefix(l.req.key, l.depth + 1) \in FolderPath
         /\ Prefix(l.req.key, l.depth + 1) =
              Append(Prefix(l.req.key, l.depth), Folder[l.req.key][l.depth + 1])
  <1>1. WalkOK(l) /\ l.depth \in Nat
    BY DEF CallOK, Local
  <1>2. l.req.key \in Key
    BY <1>1 DEF WalkOK
  <1>3. QED
    BY <1>1, <1>2, PrefixStep DEF WalkOK

\* Box is empty and every process has its root folder at first.
LEMMA InitIInv == Init => IInv
  <1> SUFFICES ASSUME Init PROVE IInv
    OBVIOUS
  <1>1. TreeOK
    BY BoxAssumption DEF Init, TreeOK, Root, Id
  <1>2. Idle \in Local
    BY EmptySeq, BoxAssumption DEF Idle, Local, Label, Root, Id
  <1>3. ASSUME NEW w \in Worker PROVE CallOK(w, Idle)
    <2>1. Len(Idle.stack) = 0
      BY EmptySeq DEF Idle
    <2>2. QED
      BY <1>2, <2>1 DEF CallOK, Idle
  <1>4. FolderMemosOK /\ FileMemosOK
    BY DEF Init, FolderMemosOK, FileMemosOK
  <1>5. QED
    BY <1>1, <1>2, <1>3, <1>4 DEF Init, IInv

\* A call begins.
LEMMA CallStep ==
  ASSUME IInv, NEW w \in Worker, NEW r \in Requests[w], Call(w, r)
  PROVE  IInv'
  <1>1. r \in Request /\ r # None
    BY Constants, NoneAssumption
  <1>2. Idle \in Local /\ Len(Idle.stack) = 0
    BY EmptySeq, BoxAssumption DEF Idle, Local, Label, Root, Id
  <1>3. CASE r.op = "list"
    <2>1. PICK m : m = [Idle EXCEPT !.req = r, !.pc = "page", !.stack = <<Frame(Root, <<>>)>>]
                   /\ Run(w, m)
      BY <1>3 DEF Call
    <2>2. PICK f : f = Frame(Root, <<>>)
      OBVIOUS
    <2>3. f \in FrameType /\ f.folder = Root /\ f.path = <<>> /\ f.page = {}
      BY <2>2, EmptySeq, BoxAssumption DEF Frame, FrameType, Root, Id
    <2>4. FrameOK(f)
      BY <2>3, BoxAssumption DEF FrameOK, FolderAt, IsFolder, Location, Root, Id
    <2>5. <<f>> \in Seq(FrameType) /\ Len(<<f>>) = 1 /\ <<f>>[1] = f /\ <<f>> # <<>>
      BY <2>3
    <2>6. /\ m.pc = "page" /\ m.req = r /\ m.stack = <<f>> /\ m.reply = None
          /\ m \in Local
      BY <1>1, <1>2, <2>1, <2>2, <2>5 DEF Idle, Local, Label
    <2>7. \A n \in 1 .. Len(m.stack) : FrameOK(m.stack[n])
      BY <2>4, <2>5, <2>6
    <2>8. CallOK(w, m)
      BY <1>1, <1>3, <2>5, <2>6, <2>7 DEF CallOK, Fits
    <2>9. QED
      BY <2>1, <2>8, MemoStep DEF Call
  <1>4. CASE r.op # "list"
    <2>1. r.key \in Key /\ r.op \in {"put", "get", "exists", "delete"}
      BY <1>1, <1>4 DEF Request
    <2>2. PICK pc \in {"walk", "resolve"} :
            /\ Run(w, [Idle EXCEPT !.req = r, !.pc = pc])
            /\ r.op = "put" <=> pc = "walk"
      BY <1>4 DEF Call
    <2>3. PICK m : m = [Idle EXCEPT !.req = r, !.pc = pc]
      OBVIOUS
    <2>4. /\ m.pc = pc /\ m.req = r /\ m.depth = 0 /\ m.parent = Root /\ m.reply = None
          /\ m.stack = <<>> /\ m \in Local
      BY <1>1, <1>2, <2>3 DEF Idle, Local, Label
    <2>5. FolderAt(Root, Prefix(r.key, 0)) /\ 0 <= Len(Folder[r.key])
      BY <2>1, PrefixEnds, BoxAssumption DEF FolderAt, IsFolder, Location, Root, Id
    <2>6. WalkOK(m)
      BY <2>1, <2>4, <2>5 DEF WalkOK
    <2>7. CallOK(w, m)
      BY <1>1, <2>1, <2>2, <2>4, <2>6, EmptySeq DEF CallOK, Fits
    <2>8. QED
      BY <2>2, <2>3, <2>7, MemoStep DEF Call
  <1>5. QED
    BY <1>3, <1>4

\* A call returns.
LEMMA ReturnStep ==
  ASSUME IInv, NEW w \in Worker, Return(w)
  PROVE  IInv'
  <1>1. Idle \in Local /\ Len(Idle.stack) = 0
    BY EmptySeq, BoxAssumption DEF Idle, Local, Label, Root, Id
  <1>2. CallOK(w, Idle)
    BY <1>1 DEF CallOK, Idle
  <1>3. QED
    BY <1>2, MemoStep DEF Return

\* An API call fails before it takes effect.
LEMMA ApiRaisesStep ==
  ASSUME IInv, NEW w \in Worker, ApiRaises(w)
  PROVE  IInv'
  <1>1. PICK l, m : l = call[w] /\ m = Error(l) /\ Run(w, m) /\ l.pc # "idle" /\ CallOK(w, l)
    BY DEF ApiRaises, IInv
  <1>2. CallOK(w, m)
    BY <1>1, ErrorOK
  <1>3. QED
    BY <1>1, <1>2, MemoStep DEF ApiRaises

\* All folders of the key are resolved.
LEMMA WalkedStep ==
  ASSUME IInv, NEW w \in Worker, Walked(w)
  PROVE  IInv'
  <1>1. PICK l : l = call[w] /\ CallOK(w, l) /\ l.pc = "walk" /\ l.depth = Len(Folder[l.req.key])
    BY DEF Walked, IInv
  <1>2. PICK pc : /\ pc \in {"upload", "find"} /\ (pc = "upload" => l.req.op = "put")
                  /\ Run(w, [l EXCEPT !.pc = pc])
    BY <1>1 DEF Walked
  <1>3. PICK m : m = [l EXCEPT !.pc = pc] /\ Run(w, m)
    BY <1>2
  <1>4. /\ m \in Local /\ m.pc = pc /\ m.req = l.req /\ m.depth = l.depth
        /\ m.parent = l.parent /\ m.id = l.id /\ m.stack = l.stack /\ m.reply = l.reply
    <2>1. pc \in Label
      BY <1>2 DEF Label
    <2>2. QED
      BY <1>1, <1>3, <2>1, GoesOn DEF CallOK
  <1>5. WalkOK(l) /\ l.req.op # "list"
    BY <1>1 DEF CallOK, Fits
  <1>6. WalkOK(m)
    BY <1>1, <1>2, <1>4, <1>5 DEF WalkOK
  <1>7. Fits(m.pc, m.req.op)
    BY <1>2, <1>4, <1>5 DEF Fits
  <1>8. CallOK(w, m)
    BY <1>1, <1>2, <1>4, <1>6, <1>7 DEF CallOK
  <1>9. QED
    BY <1>3, <1>8, MemoStep DEF Walked

\* The next folder is memoized, found, to be created, or missing.
LEMMA WalkStep ==
  ASSUME IInv, NEW w \in Worker, Walk(w)
  PROVE  IInv'
  <1>1. PICK l : l = call[w] /\ CallOK(w, l) /\ l.pc = "walk" /\ l.depth < Len(Folder[l.req.key])
    BY DEF Walk, IInv
  <1>2. PICK k, n, path, name : /\ k = l.req.key /\ n = l.depth
                                /\ path = Prefix(k, n + 1) /\ name = Folder[k][n + 1]
    OBVIOUS
  <1>3. /\ k \in Key /\ FolderAt(l.parent, Prefix(k, n)) /\ name \in Segment
        /\ path \in FolderPath /\ path = Append(Prefix(k, n), name) /\ WalkOK(l) /\ n \in Nat
    BY <1>1, <1>2, NextFolder
  <1>4. PICK cached, found : /\ cached = _folder_cache[Home[w]][path]
                             /\ found = FindChild(l.parent, name, "folder")
    OBVIOUS
  <1>5. UNCHANGED <<box, nextId, _file_cache>>
    BY DEF Walk
  <1>6. CASE cached # None
    <2>1. PICK m : m = Enter(l, cached) /\ Run(w, m) /\ UNCHANGED _folder_cache
      BY <1>1, <1>2, <1>4, <1>6 DEF Walk
    <2>2. FolderAt(cached, path)
      BY <1>3, <1>4, <1>6, Constants DEF IInv, FolderMemosOK
    <2>3. CallOK(w, m)
      BY <1>1, <1>2, <2>1, <2>2, EnterOK
    <2>4. QED
      BY <1>5, <2>1, <2>3, MemoStep
  <1>7. CASE cached = None /\ found # None
    <2>1. PICK m : m = Enter(l, found) /\ Run(w, m) /\ RememberFolder(w, path, found)
      BY <1>1, <1>2, <1>4, <1>7 DEF Walk
    <2>2. found \in Id /\ box[found] # None /\ box[found].path = path
      BY <1>3, <1>4, <1>7, Found DEF IInv
    <2>3. FolderAt(found, path)
      BY <1>3, <2>2, KindAt DEF IInv
    <2>4. CallOK(w, m)
      BY <1>1, <1>2, <2>1, <2>3, EnterOK
    <2>5. QED
      BY <1>3, <1>5, <2>1, <2>2, <2>3, <2>4, MemoStep
  <1>8. CASE cached = None /\ found = None /\ l.req.op = "put"
    <2>1. PICK m : m = [l EXCEPT !.pc = "create"] /\ Run(w, m) /\ UNCHANGED _folder_cache
      BY <1>1, <1>2, <1>4, <1>8 DEF Walk
    <2>2. /\ m \in Local /\ m.pc = "create" /\ m.req = l.req /\ m.depth = l.depth
          /\ m.parent = l.parent /\ m.id = l.id /\ m.stack = l.stack /\ m.reply = l.reply
      BY <1>1, <2>1, GoesOn DEF CallOK, Label
    <2>3. WalkOK(m)
      BY <1>1, <1>3, <2>2 DEF WalkOK
    <2>4. CallOK(w, m)
      BY <1>1, <1>8, <2>2, <2>3 DEF CallOK, Fits
    <2>5. QED
      BY <1>5, <2>1, <2>4, MemoStep
  <1>9. CASE cached = None /\ found = None /\ l.req.op # "put"
    <2>1. PICK m : m = NotFound(l) /\ Run(w, m) /\ UNCHANGED _folder_cache
      BY <1>1, <1>2, <1>4, <1>9 DEF Walk
    <2>2. CallOK(w, m)
      BY <1>1, <2>1, NotFoundOK
    <2>3. QED
      BY <1>5, <2>1, <2>2, MemoStep
  <1>10. QED
    BY <1>6, <1>7, <1>8, <1>9

\* A call that has its answer is in order, wherever it came from.
LEMMA DoneOK ==
  ASSUME NEW w \in Worker, NEW l, CallOK(w, l), l.pc # "idle",
         NEW m \in Local, m.pc = "done", m.req = l.req, m.stack = l.stack, m.reply # None
  PROVE  CallOK(w, m)
  BY DEF CallOK, Fits

\* BoxAPIError, wherever it is raised.
LEMMA ErrorReplies ==
  ASSUME NEW l \in Local, NEW m, m = Error(l)
  PROVE  /\ m \in Local /\ m.pc = "done" /\ m.req = l.req /\ m.stack = l.stack
         /\ m.found = l.found /\ m.reply = [kind |-> "error", bytes |-> None]
         /\ m.reply # None
  BY Answers, Replies DEF Error

\* put creates the folder, or learns that another call did.
LEMMA CreateFolderStep ==
  ASSUME IInv, NEW w \in Worker, CreateFolder(w)
  PROVE  IInv'
  <1>1. PICK l : l = call[w] /\ CallOK(w, l) /\ l.pc = "create"
    BY DEF CreateFolder, IInv
  <1>2. l.depth < Len(Folder[l.req.key]) /\ l \in Local
    BY <1>1 DEF CallOK, WalkOK
  <1>3. PICK k, n, path, name : /\ k = l.req.key /\ n = l.depth
                                /\ path = Prefix(k, n + 1) /\ name = Folder[k][n + 1]
    OBVIOUS
  <1>4. /\ k \in Key /\ FolderAt(l.parent, Prefix(k, n)) /\ name \in Segment
        /\ path \in FolderPath /\ path = Append(Prefix(k, n), name) /\ WalkOK(l) /\ n \in Nat
    BY <1>1, <1>2, <1>3, NextFolder
  <1>5. TreeOK /\ FolderMemosOK /\ FileMemosOK
    BY DEF IInv
  <1>6. CASE Children(l.parent, name) = {}
    <2>1. PICK new : new = nextId
      OBVIOUS
    <2>2. /\ Create(l.parent, name, "folder", None)
          /\ \E m \in Outcomes(Enter(l, new)) :
               /\ Run(w, m)
               /\ IF m.pc = "walk" THEN RememberFolder(w, path, new)
                                   ELSE UNCHANGED _folder_cache
          /\ UNCHANGED _file_cache
      BY <1>1, <1>3, <1>6, <2>1 DEF CreateFolder
    <2>3. PICK p : p = Prefix(k, n) /\ FolderAt(l.parent, p) /\ path = Append(p, name)
      BY <1>4
    <2>4. /\ TreeOK' /\ Keeps /\ new \in Id /\ new # Root
          /\ box' = [box EXCEPT ![new] =
                       [parent |-> l.parent, name |-> name, kind |-> "folder", raw |-> None,
                        path |-> path]]
      BY <1>4, <1>5, <1>6, <2>1, <2>2, <2>3, CreateTree
    <2>5. /\ box'[new] # None /\ box'[new].kind = "folder" /\ box'[new].path = path
      <3>1. TreeOK' => (box'[new] # None => TRUE)
        OBVIOUS
      <3>2. PICK item : item = [parent |-> l.parent, name |-> name, kind |-> "folder",
                                raw |-> None, path |-> path]
        OBVIOUS
      <3>3. item \in Item
        BY <1>4, <3>2, FolderPathType DEF Item, FolderAt
      <3>4. box'[new] = item
        BY <1>5, <2>4, <3>2 DEF TreeOK
      <3>5. QED
        BY <3>2, <3>3, <3>4, NoneAssumption
    <2>6. FolderAt(new, path)'
      BY <2>4, <2>5 DEF FolderAt, IsFolder, Location
    <2>7. PICK e : /\ e = Enter(l, new)
                   /\ e \in Local /\ e.pc = "walk" /\ e.req = l.req /\ e.depth = l.depth + 1
                   /\ e.parent = new /\ e.id = l.id /\ e.stack = l.stack /\ e.reply = l.reply
      BY <1>2, <2>4, Enters
    <2>8. CallOK(w, l)'
      BY <1>1, <1>5, <2>4, CallStays
    <2>9. PICK m : /\ m \in {e, Error(e)} /\ Run(w, m)
                   /\ IF m.pc = "walk" THEN RememberFolder(w, path, new)
                                       ELSE UNCHANGED _folder_cache
      BY <2>2, <2>7 DEF Outcomes
    <2>10. FileMemosOK'
      BY <1>5, <2>2, <2>4, MemosStay
    <2>11. CASE m = e
      <3>1. FolderMemosOK'
        BY <1>4, <1>5, <2>4, <2>6, <2>7, <2>9, <2>11, FolderRemembered
      <3>2. WalkOK(e)'
        <4>1. l.depth + 1 <= Len(Folder[l.req.key])
          BY <1>2, <1>3, <1>4, PrefixEnds
        <4>2. FolderAt(new, Prefix(l.req.key, l.depth + 1))'
          BY <1>3, <2>6
        <4>3. QED
          BY <1>3, <1>4, <2>7, <4>1, <4>2 DEF WalkOK
      <3>3. l.req # None /\ l.req.op = "put"
        BY <1>1 DEF CallOK, Fits
      <3>4. CallOK(w, e)'
        BY <1>1, <2>7, <2>8, <3>2, <3>3 DEF CallOK, Fits
      <3>5. QED
        BY <2>4, <2>9, <2>10, <2>11, <3>1, <3>4, Kept
    <2>12. CASE m = Error(e)
      <3>1. m \in Local /\ m.pc = "done" /\ m.req = l.req /\ m.stack = l.stack /\ m.reply # None
        BY <2>7, <2>12, ErrorReplies
      <3>2. CallOK(w, m)
        BY <1>1, <3>1, DoneOK
      <3>3. CallOK(w, m)'
        BY <1>5, <2>4, <3>2, CallStays
      <3>4. FolderMemosOK'
        BY <1>5, <2>4, <2>9, <3>1, MemosStay
      <3>5. QED
        BY <2>4, <2>9, <2>10, <3>3, <3>4, Kept
    <2>13. QED
      BY <2>9, <2>11, <2>12
  <1>7. CASE Children(l.parent, name) # {}
    <2>1. /\ \/ Run(w, [l EXCEPT !.pc = "lookup"]) /\ UNCHANGED _folder_cache
             \/ \E i \in Children(l.parent, name) :
                  Run(w, Enter(l, i)) /\ RememberFolder(w, path, i)
          /\ UNCHANGED <<box, nextId, _file_cache>>
      BY <1>1, <1>3, <1>7 DEF CreateFolder
    <2>2. ASSUME NEW i \in Children(l.parent, name)
          PROVE  i \in Id /\ FolderAt(i, path)
      <3>1. i \in Id /\ box[i] # None /\ box[i].path = path
        BY <1>4, <1>5, Taken
      <3>2. QED
        BY <1>4, <1>5, <3>1, KindAt
    <2>3. CASE Run(w, [l EXCEPT !.pc = "lookup"]) /\ UNCHANGED _folder_cache
      <3>1. PICK m : m = [l EXCEPT !.pc = "lookup"] /\ Run(w, m) /\ UNCHANGED _folder_cache
        BY <2>3
      <3>2. /\ m \in Local /\ m.pc = "lookup" /\ m.req = l.req /\ m.depth = l.depth
            /\ m.parent = l.parent /\ m.id = l.id /\ m.stack = l.stack /\ m.reply = l.reply
        BY <1>2, <3>1, GoesOn DEF Label
      <3>3. \E i \in Id : FolderAt(i, Prefix(l.req.key, l.depth + 1))
        BY <1>3, <1>7, <2>2
      <3>4. WalkOK(m)
        BY <1>2, <1>4, <3>2, <3>3 DEF WalkOK
      <3>5. l.req # None /\ l.req.op = "put"
        BY <1>1 DEF CallOK, Fits
      <3>6. CallOK(w, m)
        BY <1>1, <3>2, <3>4, <3>5 DEF CallOK, Fits
      <3>7. QED
        BY <2>1, <3>1, <3>6, MemoStep
    <2>4. ASSUME NEW i \in Children(l.parent, name),
                 Run(w, Enter(l, i)), RememberFolder(w, path, i)
          PROVE  IInv'
      <3>1. i \in Id /\ FolderAt(i, path)
        BY <2>2
      <3>2. PICK m : m = Enter(l, i) /\ Run(w, m)
        BY <2>4
      <3>3. CallOK(w, m)
        BY <1>1, <1>2, <1>3, <3>1, <3>2, EnterOK
      <3>4. QED
        BY <1>4, <2>1, <2>4, <3>1, <3>2, <3>3, MemoStep
    <2>5. QED
      BY <2>1, <2>3, <2>4
  <1>8. QED
    BY <1>6, <1>7

\* put looks up the folder that another call created.
LEMMA LookupFolderStep ==
  ASSUME IInv, NEW w \in Worker, LookupFolder(w)
  PROVE  IInv'
  <1>1. PICK l : l = call[w] /\ CallOK(w, l) /\ l.pc = "lookup"
    BY DEF LookupFolder, IInv
  <1>2. l.depth < Len(Folder[l.req.key])
    BY <1>1 DEF CallOK, WalkOK
  <1>3. PICK k, n, path, name : /\ k = l.req.key /\ n = l.depth
                                /\ path = Prefix(k, n + 1) /\ name = Folder[k][n + 1]
    OBVIOUS
  <1>4. /\ k \in Key /\ FolderAt(l.parent, Prefix(k, n)) /\ name \in Segment
        /\ path \in FolderPath /\ path = Append(Prefix(k, n), name)
    BY <1>1, <1>2, <1>3, NextFolder
  <1>5. PICK found : found = FindChild(l.parent, name, "folder")
    OBVIOUS
  <1>6. UNCHANGED <<box, nextId, _file_cache>>
    BY DEF LookupFolder
  <1>7. CASE found = None
    <2>1. PICK m : m = Error(l) /\ Run(w, m) /\ UNCHANGED _folder_cache
      BY <1>1, <1>3, <1>5, <1>7 DEF LookupFolder
    <2>2. CallOK(w, m)
      BY <1>1, <2>1, ErrorOK
    <2>3. QED
      BY <1>6, <2>1, <2>2, MemoStep
  <1>8. CASE found # None
    <2>1. PICK m : m = Enter(l, found) /\ Run(w, m) /\ RememberFolder(w, path, found)
      BY <1>1, <1>3, <1>5, <1>8 DEF LookupFolder
    <2>2. found \in Id /\ box[found] # None /\ box[found].path = path
      BY <1>4, <1>5, <1>8, Found DEF IInv
    <2>3. FolderAt(found, path)
      BY <1>4, <2>2, KindAt DEF IInv
    <2>4. CallOK(w, m)
      BY <1>1, <1>2, <1>3, <2>1, <2>3, EnterOK
    <2>5. QED
      BY <1>4, <1>6, <2>1, <2>2, <2>3, <2>4, MemoStep
  <1>9. QED
    BY <1>7, <1>8

\* A call takes the file id from the memo, or begins to walk.
LEMMA ResolveStep ==
  ASSUME IInv, NEW w \in Worker, Resolve(w)
  PROVE  IInv'
  <1>1. PICK l : l = call[w] /\ CallOK(w, l) /\ l.pc = "resolve"
    BY DEF Resolve, IInv
  <1>2. PICK k, cached : k = l.req.key /\ cached = Memos(w)[k]
    OBVIOUS
  <1>3. WalkOK(l) /\ k \in Key /\ l \in Local /\ l.req.op # "list"
    BY <1>1, <1>2 DEF CallOK, WalkOK, Fits
  <1>4. CASE cached # None
    <2>1. PICK m : m = Known(l, cached) /\ Run(w, m)
      BY <1>1, <1>2, <1>4 DEF Resolve
    <2>2. FileOf(cached, k)
      BY <1>2, <1>3, <1>4, Constants DEF IInv, FileMemosOK, Memos
    <2>3. CallOK(w, m)
      BY <1>1, <1>2, <2>1, <2>2, KnownOK
    <2>4. QED
      BY <2>1, <2>3, MemoStep DEF Resolve
  <1>5. CASE cached = None
    <2>1. PICK m : m = [l EXCEPT !.pc = "walk"] /\ Run(w, m)
      BY <1>1, <1>2, <1>5 DEF Resolve
    <2>2. /\ m \in Local /\ m.pc = "walk" /\ m.req = l.req /\ m.depth = l.depth
          /\ m.parent = l.parent /\ m.id = l.id /\ m.stack = l.stack /\ m.reply = l.reply
      BY <1>3, <2>1, GoesOn DEF Label
    <2>3. WalkOK(m)
      BY <1>1, <1>3, <2>2 DEF WalkOK
    <2>4. CallOK(w, m)
      BY <1>1, <1>3, <2>2, <2>3 DEF CallOK, Fits
    <2>5. QED
      BY <2>1, <2>4, MemoStep DEF Resolve
  <1>6. QED
    BY <1>4, <1>5

\* A call finds the file in its folder, or none.
LEMMA FindStep ==
  ASSUME IInv, NEW w \in Worker, Find(w)
  PROVE  IInv'
  <1>1. PICK l : l = call[w] /\ CallOK(w, l) /\ l.pc = "find"
    BY DEF Find, IInv
  <1>2. PICK k, found : k = l.req.key /\ found = FindChild(l.parent, Name[k], "file")
    OBVIOUS
  <1>3. WalkOK(l) /\ k \in Key /\ l \in Local /\ l.req.op # "list"
    BY <1>1, <1>2 DEF CallOK, WalkOK, Fits
  <1>4. FolderAt(l.parent, Folder[k]) /\ Name[k] \in Segment
    BY <1>1, <1>2, <1>3, PrefixEnds, Constants DEF WalkOK
  <1>5. CASE found = None
    <2>1. PICK m : m = NotFound(l) /\ Run(w, m)
      BY <1>1, <1>2, <1>5 DEF Find
    <2>2. CallOK(w, m)
      BY <1>1, <2>1, NotFoundOK
    <2>3. QED
      BY <2>1, <2>2, MemoStep DEF Find
  <1>6. CASE found # None
    <2>1. PICK m : m = [l EXCEPT !.pc = "memo", !.id = found] /\ Run(w, m)
      BY <1>1, <1>2, <1>6 DEF Find
    <2>2. found \in Id /\ box[found] # None /\ box[found].path = Path(k)
      BY <1>2, <1>4, <1>6, Found DEF IInv, Path
    <2>3. FileOf(found, k)
      BY <1>3, <2>2, KindAt DEF IInv
    <2>4. /\ m \in Local /\ m.pc = "memo" /\ m.req = l.req /\ m.id = found
          /\ m.stack = l.stack /\ m.reply = l.reply
      <3>1. PICK e : e = [l EXCEPT !.pc = "memo", !.id = found]
        OBVIOUS
      <3>2. "memo" \in Label /\ l \in Local /\ found \in Id
        BY <1>3, <2>2 DEF Label
      <3>3. /\ e \in Local /\ e.pc = "memo" /\ e.req = l.req /\ e.id = found
            /\ e.stack = l.stack /\ e.reply = l.reply
        BY <3>1, <3>2 DEF Local
      <3>4. QED
        BY <2>1, <3>1, <3>3
    <2>5. CallOK(w, m)
      BY <1>1, <1>2, <1>3, <2>3, <2>4 DEF CallOK, Fits
    <2>6. QED
      BY <2>1, <2>5, MemoStep DEF Find
  <1>7. QED
    BY <1>5, <1>6

\* The file id found is memoized.
LEMMA MemoizeStep ==
  ASSUME IInv, NEW w \in Worker, Memo(w)
  PROVE  IInv'
  <1>1. PICK l, m : /\ l = call[w] /\ CallOK(w, l) /\ l.pc = "memo"
                    /\ m = Known(l, l.id) /\ Run(w, m)
    BY DEF Memo, IInv
  <1>2. FileOf(l.id, l.req.key) /\ l.id \in Id
    BY <1>1 DEF CallOK, FileOf
  <1>3. l.req.key \in Key
    BY <1>1, RequestOf DEF CallOK, Fits
  <1>4. CallOK(w, m)
    BY <1>1, <1>2, KnownOK
  <1>5. Remember(w, l.req.key, l.id)
    BY <1>1 DEF Memo
  <1>6. QED
    BY <1>1, <1>2, <1>3, <1>4, <1>5, MemoStep DEF Memo

\* put uploads a new file, or learns that the name is taken.
LEMMA UploadStep ==
  ASSUME IInv, NEW w \in Worker, Upload(w)
  PROVE  IInv'
  <1>1. PICK l : l = call[w] /\ CallOK(w, l) /\ l.pc = "upload"
    BY DEF Upload, IInv
  <1>2. PICK k, name : k = l.req.key /\ name = Name[k]
    OBVIOUS
  <1>3. WalkOK(l) /\ k \in Key /\ l \in Local /\ l.req.op = "put" /\ l.req # None
    BY <1>1, <1>2 DEF CallOK, WalkOK, Fits
  <1>4. FolderAt(l.parent, Folder[k]) /\ name \in Segment /\ l.req.raw \in Raw
    BY <1>1, <1>2, <1>3, PrefixEnds, Constants, RequestOf DEF WalkOK
  <1>5. PICK path : path = Folder[k] /\ FolderAt(l.parent, path) /\ Path(k) = Append(path, name)
    BY <1>2, <1>4 DEF Path
  <1>6. TreeOK /\ FolderMemosOK /\ FileMemosOK
    BY DEF IInv
  <1>7. UNCHANGED <<_folder_cache, _file_cache>>
    BY DEF Upload
  <1>8. CASE Children(l.parent, name) = {}
    <2>1. PICK new : new = nextId
      OBVIOUS
    <2>2. /\ Create(l.parent, name, "file", l.req.raw)
          /\ \E m \in Outcomes([l EXCEPT !.pc = "record", !.id = new]) : Run(w, m)
      BY <1>1, <1>2, <1>8, <2>1 DEF Upload
    <2>3. PICK raw \in Raw : raw = l.req.raw
      BY <1>4
    <2>4. /\ TreeOK' /\ Keeps /\ new \in Id /\ new # Root /\ nextId' = nextId + 1
          /\ box' = [box EXCEPT ![new] =
                       [parent |-> l.parent, name |-> name, kind |-> "file", raw |-> raw,
                        path |-> Append(path, name)]]
      BY <1>3, <1>4, <1>5, <1>6, <1>8, <2>1, <2>2, <2>3, CreateTree
    <2>5. box'[new].kind = "file" /\ box'[new].path = Path(k)
      BY <1>5, <1>6, <2>4 DEF TreeOK
    <2>6. FileOf(new, k)'
      <3>1. new < nextId'
        BY <1>6, <2>1, <2>4 DEF TreeOK
      <3>2. QED
        BY <2>4, <2>5, <3>1 DEF FileOf
    <2>7. PICK e : /\ e = [l EXCEPT !.pc = "record", !.id = new]
                   /\ e \in Local /\ e.pc = "record" /\ e.req = l.req /\ e.id = new
                   /\ e.stack = l.stack /\ e.reply = l.reply
      <3>1. PICK e : e = [l EXCEPT !.pc = "record", !.id = new]
        OBVIOUS
      <3>2. "record" \in Label /\ l \in Local /\ new \in Id
        BY <1>3, <2>4 DEF Label
      <3>3. /\ e \in Local /\ e.pc = "record" /\ e.req = l.req /\ e.id = new
            /\ e.stack = l.stack /\ e.reply = l.reply
        BY <3>1, <3>2 DEF Local
      <3>4. QED
        BY <3>1, <3>3
    <2>8. CallOK(w, l)'
      BY <1>1, <1>6, <2>4, CallStays
    <2>9. PICK m : m \in {e, Error(e)} /\ Run(w, m)
      BY <2>2, <2>7 DEF Outcomes
    <2>10. FileMemosOK' /\ FolderMemosOK'
      BY <1>6, <1>7, <2>4, MemosStay
    <2>11. CASE m = e
      <3>1. CallOK(w, e)'
        BY <1>1, <1>2, <1>3, <2>6, <2>7, <2>8 DEF CallOK, Fits
      <3>2. QED
        BY <2>4, <2>9, <2>10, <2>11, <3>1, Kept
    <2>12. CASE m = Error(e)
      <3>1. m \in Local /\ m.pc = "done" /\ m.req = l.req /\ m.stack = l.stack /\ m.reply # None
        BY <2>7, <2>12, ErrorReplies
      <3>2. CallOK(w, m)
        BY <1>1, <3>1, DoneOK
      <3>3. CallOK(w, m)'
        BY <1>6, <2>4, <3>2, CallStays
      <3>4. QED
        BY <2>4, <2>9, <2>10, <3>3, Kept
    <2>13. QED
      BY <2>9, <2>11, <2>12
  <1>9. CASE Children(l.parent, name) # {}
    <2>1. /\ \/ Run(w, Error(l))
             \/ \E i \in Children(l.parent, name) : Run(w, Known(l, i))
             \/ Memos(w)[k] # None /\ Run(w, Known(l, Memos(w)[k]))
             \/ Run(w, [l EXCEPT !.pc = "find"])
          /\ UNCHANGED <<box, nextId>>
      BY <1>1, <1>2, <1>9 DEF Upload
    <2>2. CASE Run(w, Error(l))
      <3>1. PICK m : m = Error(l) /\ Run(w, m)
        BY <2>2
      <3>2. CallOK(w, m)
        BY <1>1, <3>1, ErrorOK
      <3>3. QED
        BY <1>7, <2>1, <3>1, <3>2, MemoStep
    <2>3. ASSUME NEW i, FileOf(i, k), Run(w, Known(l, i))
          PROVE  IInv'
      <3>1. PICK m : m = Known(l, i) /\ Run(w, m)
        BY <2>3
      <3>2. CallOK(w, m)
        BY <1>1, <1>2, <2>3, <3>1, KnownOK
      <3>3. QED
        BY <1>7, <2>1, <3>1, <3>2, MemoStep
    <2>4. \A i \in Children(l.parent, name) : FileOf(i, k)
      <3>1. ASSUME NEW i \in Children(l.parent, name) PROVE FileOf(i, k)
        <4>1. i \in Id /\ box[i] # None /\ box[i].path = Append(path, name)
          BY <1>4, <1>5, <1>6, Taken
        <4>2. QED
          BY <1>3, <1>5, <1>6, <4>1, KindAt
      <3>2. QED
        BY <3>1
    <2>5. Memos(w)[k] # None => FileOf(Memos(w)[k], k)
      BY <1>3, <1>6, Constants DEF FileMemosOK, Memos
    <2>6. CASE Run(w, [l EXCEPT !.pc = "find"])
      <3>1. PICK m : m = [l EXCEPT !.pc = "find"] /\ Run(w, m)
        BY <2>6
      <3>2. /\ m \in Local /\ m.pc = "find" /\ m.req = l.req /\ m.depth = l.depth
            /\ m.parent = l.parent /\ m.id = l.id /\ m.stack = l.stack /\ m.reply = l.reply
        BY <1>3, <3>1, GoesOn DEF Label
      <3>3. WalkOK(m)
        BY <1>1, <1>3, <3>2 DEF WalkOK
      <3>4. CallOK(w, m)
        BY <1>1, <1>3, <3>2, <3>3 DEF CallOK, Fits
      <3>5. QED
        BY <1>7, <2>1, <3>1, <3>4, MemoStep
    <2>7. QED
      BY <2>1, <2>2, <2>3, <2>4, <2>5, <2>6
  <1>10. QED
    BY <1>8, <1>9

\* put stores another version of a file, if it is still there.
LEMMA VersionStep ==
  ASSUME IInv, NEW w \in Worker, Version(w)
  PROVE  IInv'
  <1>1. PICK l : l = call[w] /\ CallOK(w, l) /\ l.pc = "version"
    BY DEF Version, IInv
  <1>2. PICK k, i : k = l.req.key /\ i = l.id
    OBVIOUS
  <1>3. FileOf(i, k) /\ l \in Local /\ l.req.op = "put" /\ l.req # None
    BY <1>1, <1>2 DEF CallOK, Fits
  <1>4. k \in Key /\ l.req.raw \in Raw /\ i \in Id
    BY <1>1, <1>2, <1>3, RequestOf DEF FileOf
  <1>5. UNCHANGED <<nextId, _folder_cache, _file_cache>>
    BY DEF Version
  <1>6. CASE box[i] = None
    <2>1. PICK m : m = Error(l) /\ Run(w, m) /\ UNCHANGED box
      BY <1>1, <1>2, <1>6 DEF Version
    <2>2. CallOK(w, m)
      BY <1>1, <2>1, ErrorOK
    <2>3. QED
      BY <1>5, <2>1, <2>2, MemoStep
  <1>7. CASE box[i] # None
    <2>1. /\ box' = [box EXCEPT ![i].raw = l.req.raw]
          /\ \E m \in Outcomes([l EXCEPT !.pc = "record"]) : Run(w, m)
      BY <1>1, <1>2, <1>7 DEF Version
    <2>2. PICK e : e = [box[i] EXCEPT !.raw = l.req.raw]
      OBVIOUS
    <2>3. box[i] \in Item /\ box[i].kind = "file" /\ TreeOK /\ FolderMemosOK /\ FileMemosOK
      BY <1>3, <1>4, <1>7, ItemType DEF IInv, FileOf
    <2>4. /\ e \in Item /\ e.parent = box[i].parent /\ e.name = box[i].name
          /\ e.kind = box[i].kind /\ e.path = box[i].path /\ e.raw \in Raw
      BY <1>4, <2>2, <2>3 DEF Item
    <2>5. box' = [box EXCEPT ![i] = e]
      BY <2>1, <2>2
    <2>6. TreeOK' /\ Keeps
      BY <1>4, <1>5, <1>7, <2>3, <2>4, <2>5, FileTree
    <2>7. PICK f : /\ f = [l EXCEPT !.pc = "record"]
                   /\ f \in Local /\ f.pc = "record" /\ f.req = l.req /\ f.id = l.id
                   /\ f.stack = l.stack /\ f.reply = l.reply
      <3>1. PICK f : f = [l EXCEPT !.pc = "record"]
        OBVIOUS
      <3>2. "record" \in Label /\ l \in Local
        BY <1>3 DEF Label
      <3>3. /\ f \in Local /\ f.pc = "record" /\ f.req = l.req /\ f.id = l.id
            /\ f.stack = l.stack /\ f.reply = l.reply
        BY <3>1, <3>2, GoesOn
      <3>4. QED
        BY <3>1, <3>3
    <2>8. PICK m : m \in {f, Error(f)} /\ Run(w, m)
      BY <2>1, <2>7 DEF Outcomes
    <2>9. FileMemosOK' /\ FolderMemosOK'
      BY <1>5, <2>3, <2>6, MemosStay
    <2>10. CallOK(w, m)
      <3>1. CASE m = f
        BY <1>1, <1>3, <2>7, <3>1 DEF CallOK, Fits
      <3>2. CASE m = Error(f)
        <4>1. m \in Local /\ m.pc = "done" /\ m.req = l.req /\ m.stack = l.stack /\ m.reply # None
          BY <2>7, <3>2, ErrorReplies
        <4>2. QED
          BY <1>1, <4>1, DoneOK
      <3>3. QED
        BY <2>8, <3>1, <3>2
    <2>11. CallOK(w, m)'
      BY <2>3, <2>6, <2>10, CallStays
    <2>12. QED
      BY <2>6, <2>8, <2>9, <2>11, Kept
  <1>8. QED
    BY <1>6, <1>7

\* put memoizes the file it stored.
LEMMA RecordStep ==
  ASSUME IInv, NEW w \in Worker, Record(w)
  PROVE  IInv'
  <1>1. PICK l, m : /\ l = call[w] /\ CallOK(w, l) /\ l.pc = "record"
                    /\ m = Reply(l, "ok", None) /\ Run(w, m)
    BY DEF Record, IInv
  <1>2. FileOf(l.id, l.req.key) /\ l.id \in Id
    BY <1>1 DEF CallOK, FileOf
  <1>3. l.req.key \in Key
    BY <1>1, RequestOf DEF CallOK, Fits
  <1>4. CallOK(w, m)
    BY <1>1, ReplyOK, Answers
  <1>5. Remember(w, l.req.key, l.id)
    BY <1>1 DEF Record
  <1>6. QED
    BY <1>1, <1>2, <1>3, <1>4, <1>5, MemoStep DEF Record

\* get downloads the file, if it is still there.
LEMMA DownloadStep ==
  ASSUME IInv, NEW w \in Worker, Download(w)
  PROVE  IInv'
  <1>1. PICK l : l = call[w] /\ CallOK(w, l) /\ l.pc = "download"
    BY DEF Download, IInv
  <1>2. l.id \in Id
    BY <1>1 DEF CallOK, FileOf
  <1>3. CASE box[l.id] = None
    <2>1. PICK m : m = Error(l) /\ Run(w, m)
      BY <1>1, <1>3 DEF Download
    <2>2. CallOK(w, m)
      BY <1>1, <2>1, ErrorOK
    <2>3. QED
      BY <2>1, <2>2, MemoStep DEF Download
  <1>4. CASE box[l.id] # None
    <2>1. PICK m, raw : raw = box[l.id].raw /\ m = Reply(l, "bytes", raw) /\ Run(w, m)
      BY <1>1, <1>4 DEF Download
    <2>2. raw \in Raw \cup {None}
      BY <1>2, <1>4, <2>1, ItemType DEF IInv
    <2>3. CallOK(w, m)
      BY <1>1, <2>1, <2>2, ReplyOK, Answers
    <2>4. QED
      BY <2>1, <2>3, MemoStep DEF Download
  <1>5. QED
    BY <1>3, <1>4

\* delete removes the file.
LEMMA RemoveFileStep ==
  ASSUME IInv, NEW w \in Worker, RemoveFile(w)
  PROVE  IInv'
  <1>1. PICK l : l = call[w] /\ CallOK(w, l) /\ l.pc = "remove"
    BY DEF RemoveFile, IInv
  <1>2. PICK k, i : k = l.req.key /\ i = l.id
    OBVIOUS
  <1>3. FileOf(i, k) /\ l \in Local /\ l.req.op = "delete" /\ l.req # None /\ i \in Id
    BY <1>1, <1>2 DEF CallOK, Fits, FileOf
  <1>4. UNCHANGED <<nextId, _folder_cache, _file_cache>>
    BY DEF RemoveFile
  <1>5. TreeOK /\ FolderMemosOK /\ FileMemosOK
    BY DEF IInv
  <1>6. /\ box' = [box EXCEPT ![i] = None]
        /\ \E m \in Outcomes([l EXCEPT !.pc = "forget"]) : Run(w, m)
    BY <1>1, <1>2 DEF RemoveFile
  <1>7. TreeOK' /\ Keeps
    BY <1>3, <1>4, <1>5, <1>6, FileTree DEF FileOf
  <1>8. PICK f : /\ f = [l EXCEPT !.pc = "forget"]
                 /\ f \in Local /\ f.pc = "forget" /\ f.req = l.req /\ f.id = l.id
                 /\ f.stack = l.stack /\ f.reply = l.reply
    <2>1. PICK f : f = [l EXCEPT !.pc = "forget"]
      OBVIOUS
    <2>2. "forget" \in Label /\ l \in Local
      BY <1>3 DEF Label
    <2>3. /\ f \in Local /\ f.pc = "forget" /\ f.req = l.req /\ f.id = l.id
          /\ f.stack = l.stack /\ f.reply = l.reply
      BY <2>1, <2>2, GoesOn
    <2>4. QED
      BY <2>1, <2>3
  <1>9. PICK m : m \in {f, Error(f)} /\ Run(w, m)
    BY <1>6, <1>8 DEF Outcomes
  <1>10. FileMemosOK' /\ FolderMemosOK'
    BY <1>4, <1>5, <1>7, MemosStay
  <1>11. CallOK(w, m)
    <2>1. CASE m = f
      BY <1>1, <1>3, <1>8, <2>1 DEF CallOK, Fits
    <2>2. CASE m = Error(f)
      <3>1. m \in Local /\ m.pc = "done" /\ m.req = l.req /\ m.stack = l.stack /\ m.reply # None
        BY <1>8, <2>2, ErrorReplies
      <3>2. QED
        BY <1>1, <3>1, DoneOK
    <2>3. QED
      BY <1>9, <2>1, <2>2
  <1>12. CallOK(w, m)'
    BY <1>5, <1>7, <1>11, CallStays
  <1>13. QED
    BY <1>7, <1>9, <1>10, <1>12, Kept

\* delete drops the memo.
LEMMA ForgetStep ==
  ASSUME IInv, NEW w \in Worker, Forget(w)
  PROVE  IInv'
  <1>1. PICK l, m : /\ l = call[w] /\ CallOK(w, l) /\ l.pc = "forget"
                    /\ m = Reply(l, "ok", None) /\ Run(w, m)
    BY DEF Forget, IInv
  <1>2. l.req.key \in Key
    BY <1>1, RequestOf DEF CallOK, Fits
  <1>3. CallOK(w, m)
    BY <1>1, ReplyOK, Answers
  <1>4. Remember(w, l.req.key, None)
    BY <1>1 DEF Forget
  <1>5. QED
    BY <1>1, <1>2, <1>3, <1>4, MemoStep DEF Forget

\* A listing of a folder that has received a page.
LEMMA TurnOK ==
  ASSUME TreeOK, NEW frame \in FrameType, FrameOK(frame),
         NEW ids, ids \subseteq ToRead(frame), NEW marker \in Id, NEW last \in BOOLEAN,
         NEW t, t = Turn(frame, ids, marker, last)
  PROVE  t \in FrameType /\ FrameOK(t)
  <1>1. PICK page : page = {[id |-> i, name |-> box[i].name, kind |-> box[i].kind] : i \in ids}
    OBVIOUS
  <1>2. ASSUME NEW i \in ids
        PROVE  /\ i \in Id /\ box[i].name \in Segment /\ box[i].kind \in {"folder", "file"}
               /\ box[i].kind = "folder" => FolderAt(i, Append(frame.path, box[i].name))
    <2>1. i \in Id /\ box[i] # None /\ box[i].parent = frame.folder
      BY DEF ToRead
    <2>2. ItemOK(i) /\ box[i].name \in Segment /\ box[i].kind \in {"folder", "file"}
      BY <2>1, ItemType
    <2>3. Location(frame.folder) = frame.path
      BY DEF FrameOK, FolderAt
    <2>4. box[i].path = Append(frame.path, box[i].name) /\ i # Root
      BY <2>1, <2>2, <2>3 DEF ItemOK
    <2>5. QED
      BY <2>1, <2>2, <2>4 DEF FolderAt, IsFolder, Location
  <1>3. ASSUME NEW item \in page
        PROVE  /\ item \in [id : Id, name : Segment, kind : {"folder", "file"}]
               /\ item.kind = "folder" => FolderAt(item.id, Append(frame.path, item.name))
    <2>1. PICK i \in ids : item = [id |-> i, name |-> box[i].name, kind |-> box[i].kind]
      BY <1>1
    <2>2. QED
      BY <1>2, <2>1
  <1>4. t = [frame EXCEPT !.page = page, !.marker = marker, !.last = last]
    BY <1>1 DEF Turn
  <1>5. page \in SUBSET [id : Id, name : Segment, kind : {"folder", "file"}]
    BY <1>3
  <1>6. t \in FrameType /\ t.folder = frame.folder /\ t.path = frame.path /\ t.page = page
    BY <1>4, <1>5 DEF FrameType
  <1>7. QED
    BY <1>3, <1>6 DEF FrameOK

\* A listing, and the generator it works with.
LEMMA Listing ==
  ASSUME NEW w \in Worker, NEW l, CallOK(w, l), l.pc \in {"page", "item"},
         NEW frame, frame = Last(l.stack)
  PROVE  /\ l \in Local /\ l.req \in Requests[w] /\ l.req.op = "list" /\ l.reply = None
         /\ l.req.key \in Sought
         /\ l.stack \in Seq(FrameType) /\ l.stack # <<>>
         /\ frame \in FrameType /\ FrameOK(frame)
         /\ \A n \in 1 .. Len(l.stack) : FrameOK(l.stack[n])
  <1>1. l.stack \in Seq(FrameType) /\ l.stack # <<>> /\ l \in Local
    BY DEF CallOK, Local
  <1>2. Len(l.stack) \in Nat /\ Len(l.stack) >= 1
    BY <1>1, LenProperties, EmptySeq
  <1>3. frame = l.stack[Len(l.stack)] /\ Len(l.stack) \in 1 .. Len(l.stack)
    BY <1>2 DEF Last
  <1>4. frame \in FrameType
    BY <1>1, <1>3, ElementOfSeq
  <1>5. /\ l.req \in Requests[w] /\ l.req.op = "list" /\ l.reply = None
        /\ l.req.key \in Sought
    BY RequestOf DEF CallOK, Fits
  <1>6. \A n \in 1 .. Len(l.stack) : FrameOK(l.stack[n])
    BY DEF CallOK
  <1>7. QED
    BY <1>1, <1>3, <1>4, <1>5, <1>6

\* The generators of a listing are in order after the one at work has moved on.
LEMMA MovedOn ==
  ASSUME NEW stack \in Seq(FrameType), stack # <<>>,
         NEW top \in FrameType, FrameOK(top), NEW s, s = PutBack(stack, top),
         \A n \in 1 .. Len(stack) : FrameOK(stack[n])
  PROVE  /\ s \in Seq(FrameType)
         /\ \A n \in 1 .. Len(s) : FrameOK(s[n])
  <1>1. /\ s \in Seq(FrameType) /\ Len(s) = Len(stack)
        /\ Len(stack) \in Nat /\ Len(stack) >= 1
    BY TopChanged
  <1>2. TopOnly(stack, top, s)
    BY TopChanged
  <1>3. QED
    BY <1>1, <1>2 DEF TopOnly

\* The same where it has entered a folder.
LEMMA OneMore ==
  ASSUME NEW stack \in Seq(FrameType), \A n \in 1 .. Len(stack) : FrameOK(stack[n]),
         NEW top \in FrameType, FrameOK(top), NEW s, s = Append(stack, top)
  PROVE  /\ s \in Seq(FrameType)
         /\ \A n \in 1 .. Len(s) : FrameOK(s[n])
  <1>1. /\ Append(stack, top) \in Seq(FrameType)
        /\ Len(Append(stack, top)) = Len(stack) + 1
        /\ \A n \in 1 .. Len(stack) : Append(stack, top)[n] = stack[n]
        /\ Append(stack, top)[Len(stack) + 1] = top
    BY AppendProperties
  <1>2. Len(stack) \in Nat
    BY LenProperties
  <1>3. QED
    BY <1>1, <1>2

\* list receives a page.
LEMMA PageStep ==
  ASSUME IInv, NEW w \in Worker, Page(w)
  PROVE  IInv'
  <1>1. PICK l, frame : l = call[w] /\ CallOK(w, l) /\ l.pc = "page" /\ frame = Last(l.stack)
    BY DEF Page, IInv
  <1>2. /\ l \in Local /\ l.req \in Requests[w] /\ l.req.op = "list" /\ l.reply = None
        /\ l.stack \in Seq(FrameType) /\ l.stack # <<>>
        /\ frame \in FrameType /\ FrameOK(frame)
        /\ \A n \in 1 .. Len(l.stack) : FrameOK(l.stack[n])
    BY <1>1, Listing
  <1>3. ASSUME NEW ids, ids \subseteq ToRead(frame), NEW marker \in Id, NEW last \in BOOLEAN,
               NEW t, t = Turn(frame, ids, marker, last),
               Run(w, Resume(l, Front(l.stack) \o <<t>>))
        PROVE  IInv'
    <2>1. PICK s, m : s = PutBack(l.stack, t) /\ m = Resume(l, s) /\ Run(w, m)
      BY <1>3 DEF PutBack
    <2>2. t \in FrameType /\ FrameOK(t)
      BY <1>2, <1>3, TurnOK DEF IInv
    <2>3. s \in Seq(FrameType) /\ \A n \in 1 .. Len(s) : FrameOK(s[n])
      BY <1>2, <2>1, <2>2, MovedOn
    <2>4. CallOK(w, m)
      BY <1>2, <2>1, <2>3, ResumeOK
    <2>5. QED
      BY <2>1, <2>4, MemoStep DEF Page
  <1>4. frame.marker \in Id /\ ToRead(frame) \subseteq Id
    BY <1>2 DEF FrameType, ToRead
  <1>5. PICK rest : rest = ToRead(frame)
    OBVIOUS
  <1>6. CASE Run(w, Resume(l, Front(l.stack) \o <<Turn(frame, rest, frame.marker, TRUE)>>))
    <2>1. PICK t : t = Turn(frame, rest, frame.marker, TRUE)
      OBVIOUS
    <2>2. Run(w, Resume(l, Front(l.stack) \o <<t>>))
      BY <1>6, <2>1
    <2>3. QED
      BY <1>3, <1>4, <1>5, <2>1, <2>2
  <1>7. ASSUME NEW i \in rest, NEW upto, upto = {j \in rest : j <= i},
               Run(w, Resume(l, Front(l.stack) \o <<Turn(frame, upto, i, FALSE)>>))
        PROVE  IInv'
    <2>1. PICK t : t = Turn(frame, upto, i, FALSE)
      OBVIOUS
    <2>2. Run(w, Resume(l, Front(l.stack) \o <<t>>))
      BY <1>7, <2>1
    <2>3. upto \subseteq ToRead(frame) /\ i \in Id
      BY <1>4, <1>5, <1>7
    <2>4. QED
      BY <1>3, <2>1, <2>2, <2>3
  <1>8. QED
    BY <1>1, <1>5, <1>6, <1>7 DEF Page

\* list takes an item.
LEMMA ListItemStep ==
  ASSUME IInv, NEW w \in Worker, ListItem(w)
  PROVE  IInv'
  <1>1. PICK l, frame : l = call[w] /\ CallOK(w, l) /\ l.pc = "item" /\ frame = Last(l.stack)
    BY DEF ListItem, IInv
  <1>2. /\ l \in Local /\ l.req \in Requests[w] /\ l.req.op = "list" /\ l.reply = None
        /\ l.req.key \in Sought
        /\ l.stack \in Seq(FrameType) /\ l.stack # <<>>
        /\ frame \in FrameType /\ FrameOK(frame)
        /\ \A n \in 1 .. Len(l.stack) : FrameOK(l.stack[n])
    BY <1>1, Listing
  <1>3. UNCHANGED <<box, nextId, _file_cache>>
    BY DEF ListItem
  <1>4. PICK item \in frame.page :
          LET path == Append(frame.path, item.name)
              stack == Front(l.stack) \o <<[frame EXCEPT !.page = @ \ {item}]>>
          IN
          \/ /\ item.kind = "folder"
             /\ Run(w, Resume(l, Append(stack, Frame(item.id, path))))
             /\ \/ RememberFolder(w, path, item.id)
                \/ UNCHANGED _folder_cache
          \/ /\ Run(w, Resume(l, stack))
             /\ UNCHANGED _folder_cache
          \/ /\ Run(w, Resume([l EXCEPT !.found = @ \cup
                                 {k \in Under[l.req.key] :
                                    Folder[k] = frame.path /\ Name[k] = item.name}], stack))
             /\ UNCHANGED _folder_cache
    BY <1>1 DEF ListItem
  <1>5. PICK path, top, stack : /\ path = Append(frame.path, item.name)
                                /\ top = [frame EXCEPT !.page = @ \ {item}]
                                /\ stack = Front(l.stack) \o <<top>>
                                /\ stack = PutBack(l.stack, top)
    BY DEF PutBack
  <1>6. top \in FrameType /\ FrameOK(top)
    <2>1. PICK page : page = frame.page \ {item} /\ top = [frame EXCEPT !.page = page]
      BY <1>5
    <2>2. /\ top \in FrameType /\ top.folder = frame.folder /\ top.path = frame.path
          /\ top.page = page
      BY <1>2, <2>1 DEF FrameType
    <2>3. QED
      BY <1>2, <2>1, <2>2 DEF FrameOK
  <1>7. stack \in Seq(FrameType) /\ \A n \in 1 .. Len(stack) : FrameOK(stack[n])
    BY <1>2, <1>5, <1>6, MovedOn
  <1>8. CASE /\ item.kind = "folder"
             /\ Run(w, Resume(l, Append(stack, Frame(item.id, path))))
             /\ RememberFolder(w, path, item.id) \/ UNCHANGED _folder_cache
    <2>1. PICK f, s, m : /\ f = Frame(item.id, path) /\ s = Append(stack, f)
                         /\ m = Resume(l, s) /\ Run(w, m)
      BY <1>8
    <2>2. FolderAt(item.id, path) /\ item.id \in Id /\ item.name \in Segment
          /\ frame.path \in Seq(Segment)
      BY <1>2, <1>4, <1>5, <1>8 DEF FrameOK, FolderAt, FrameType
    <2>3. path \in Seq(Segment) /\ path # <<>>
      BY <1>5, <2>2, AppendProperties
    <2>4. f \in FrameType /\ f.folder = item.id /\ f.path = path /\ f.page = {}
      BY <2>1, <2>2, <2>3, BoxAssumption DEF Frame, FrameType, Root, Id
    <2>5. FrameOK(f)
      BY <2>2, <2>4 DEF FrameOK
    <2>6. s \in Seq(FrameType) /\ \A n \in 1 .. Len(s) : FrameOK(s[n])
      BY <1>7, <2>1, <2>4, <2>5, OneMore
    <2>7. CallOK(w, m)
      BY <1>2, <2>1, <2>6, ResumeOK
    <2>8. path \in FolderPath
      <3>1. /\ box[item.id] # None /\ box[item.id].kind = "folder"
            /\ box[item.id].path = path
        BY <2>2, <2>3, FolderPlace DEF IInv
      <3>2. QED
        BY <2>2, <3>1, ItemType DEF ItemOK, IInv
    <2>9. QED
      BY <1>3, <1>8, <2>1, <2>2, <2>7, <2>8, MemoStep
  <1>9. CASE Run(w, Resume(l, stack)) /\ UNCHANGED _folder_cache
    <2>1. PICK m : m = Resume(l, stack) /\ Run(w, m)
      BY <1>9
    <2>2. CallOK(w, m)
      BY <1>2, <1>7, <2>1, ResumeOK
    <2>3. QED
      BY <1>3, <1>9, <2>1, <2>2, MemoStep
  <1>10. CASE /\ Run(w, Resume([l EXCEPT !.found = @ \cup
                                  {k \in Under[l.req.key] :
                                     Folder[k] = frame.path /\ Name[k] = item.name}], stack))
              /\ UNCHANGED _folder_cache
    <2>1. PICK found : found = l.found \cup {k \in Under[l.req.key] :
                                     Folder[k] = frame.path /\ Name[k] = item.name}
      OBVIOUS
    <2>2. PICK h, m : /\ h = [l EXCEPT !.found = found]
                      /\ m = Resume(h, stack) /\ Run(w, m)
      BY <1>10, <2>1
    <2>3. found \in SUBSET Key
      <3>1. Under[l.req.key] \subseteq Key
        BY <1>2 DEF Under
      <3>2. QED
        BY <1>2, <2>1, <3>1 DEF Local
    <2>4. h \in Local /\ h.req = l.req /\ h.reply = l.reply
      BY <1>2, <2>2, <2>3 DEF Local
    <2>5. h.req \in Requests[w] /\ h.req.op = "list" /\ h.reply = None
      BY <1>2, <2>4
    <2>6. CallOK(w, m)
      BY <1>7, <2>2, <2>4, <2>5, ResumeOK
    <2>7. QED
      BY <1>3, <1>10, <2>2, <2>6, MemoStep
  <1>11. QED
    BY <1>4, <1>5, <1>8, <1>9, <1>10

\* Every step of the store.
LEMMA NextStep ==
  ASSUME IInv, [Next]_vars
  PROVE  IInv'
  <1>1. CASE UNCHANGED vars
    <2>1. TreeOK' /\ FolderMemosOK' /\ FileMemosOK' /\ Keeps
      BY <1>1, TreeAlone, MemosStay DEF vars, IInv
    <2>2. ASSUME NEW w \in Worker PROVE CallOK(w, call[w])'
      <3>1. PICK l : l = call[w] /\ CallOK(w, l) /\ l = call'[w]
        BY <1>1 DEF IInv, vars
      <3>2. CallOK(w, l)'
        BY <2>1, <3>1, CallStays DEF IInv
      <3>3. QED
        BY <3>1, <3>2
    <2>3. QED
      BY <1>1, <2>1, <2>2 DEF IInv, vars
  <1>2. ASSUME NEW w \in Worker, NEW r \in Requests[w], Call(w, r) PROVE IInv'
    BY <1>2, CallStep
  <1>3. ASSUME NEW w \in Worker, Step(w) PROVE IInv'
    <2>1. CASE Return(w)
      BY <2>1, ReturnStep
    <2>2. CASE ApiRaises(w)
      BY <2>2, ApiRaisesStep
    <2>3. CASE Walked(w)
      BY <2>3, WalkedStep
    <2>4. CASE Walk(w)
      BY <2>4, WalkStep
    <2>5. CASE CreateFolder(w)
      BY <2>5, CreateFolderStep
    <2>6. CASE LookupFolder(w)
      BY <2>6, LookupFolderStep
    <2>7. CASE Resolve(w)
      BY <2>7, ResolveStep
    <2>8. CASE Find(w)
      BY <2>8, FindStep
    <2>9. CASE Memo(w)
      BY <2>9, MemoizeStep
    <2>10. CASE Upload(w)
      BY <2>10, UploadStep
    <2>11. CASE Version(w)
      BY <2>11, VersionStep
    <2>12. CASE Record(w)
      BY <2>12, RecordStep
    <2>13. CASE Download(w)
      BY <2>13, DownloadStep
    <2>14. CASE RemoveFile(w)
      BY <2>14, RemoveFileStep
    <2>15. CASE Forget(w)
      BY <2>15, ForgetStep
    <2>16. CASE Page(w)
      BY <2>16, PageStep
    <2>17. CASE ListItem(w)
      BY <2>17, ListItemStep
    <2>18. QED
      BY <1>3, <2>1, <2>2, <2>3, <2>4, <2>5, <2>6, <2>7, <2>8, <2>9, <2>10, <2>11, <2>12,
         <2>13, <2>14, <2>15, <2>16, <2>17 DEF Step
  <1>4. QED
    BY <1>1, <1>2, <1>3 DEF Next

-----------------------------------------------------------------------------
(* What follows at any moment *)

\* The inductive invariant holds throughout, whatever the calls overtake and
\* whichever API calls fail.
THEOREM Invariance == Spec => []IInv
  <1>1. Init => IInv
    BY InitIInv
  <1>2. IInv /\ [Next]_vars => IInv'
    BY NextStep
  <1>3. QED
    BY <1>1, <1>2, PTL DEF Spec

\* Box, the memos and the local variables have the types that the code gives
\* them; an item lies in a folder older than itself; a call has an answer when it
\* is done and not before.
THEOREM TypeCorrect == Spec => []TypeOK
  <1>1. IInv => TypeOK
    <2> SUFFICES ASSUME IInv PROVE TypeOK
      OBVIOUS
    <2>1. \A i \in Id : box[i] # None => i < nextId /\ box[i].parent < i
      BY DEF IInv, TreeOK, ItemOK
    <2>2. \A w \in Worker : /\ call[w].pc = "idle" <=> call[w].req = None
                            /\ call[w].pc = "done" <=> call[w].reply # None
      BY DEF IInv, CallOK
    <2>3. QED
      BY <2>1, <2>2 DEF IInv, TreeOK, FolderMemosOK, FileMemosOK, TypeOK
  <1>2. QED
    BY <1>1, Invariance, PTL

\* _walk_folder, create_folder and the 409 that answers a racing writer leave one
\* tree: a memoized folder id is the only folder of its path, and every file in
\* Box is the only one of one of the keys.
THEOREM TreeStaysOne == Spec => []OneTree
  <1>1. IInv => OneTree
    <2> SUFFICES ASSUME IInv PROVE OneTree
      OBVIOUS
    <2>1. TreeOK
      BY DEF IInv
    <2>2. ASSUME NEW p \in Process, NEW path \in FolderPath,
                 NEW i, i = _folder_cache[p][path], i # None
          PROVE  FoldersAt(path) = {i}
      <3>1. FolderAt(i, path)
        BY <2>2 DEF IInv, FolderMemosOK
      <3>2. /\ i \in Id /\ box[i] # None /\ box[i].kind = "folder" /\ box[i].path = path
        BY <2>1, <3>1, FolderPlace, FolderPathType
      <3>3. ASSUME NEW j \in Id, box[j] # None, box[j].path = path PROVE j = i
        BY <2>1, <3>2, <3>3 DEF TreeOK
      <3>4. QED
        BY <3>2, <3>3 DEF FoldersAt, ItemsAt
    <2>3. ASSUME NEW i \in Id, box[i] # None, box[i].kind = "file"
          PROVE  \E k \in Key : FilesAt(k) = {i}
      <3>1. PICK k \in Key : box[i].path = Path(k)
        BY <2>1, <2>3, ItemType DEF ItemOK
      <3>2. ASSUME NEW j \in Id, box[j] # None, box[j].path = Path(k) PROVE j = i
        BY <2>1, <2>3, <3>1, <3>2 DEF TreeOK
      <3>3. QED
        BY <2>3, <3>1, <3>2 DEF FilesAt, ItemsAt
    <2>4. QED
      BY <2>2, <2>3 DEF OneTree
  <1>2. QED
    BY <1>1, Invariance, PTL

\* A memoized file id, stale as it may be, is never the id of another key's file.
THEOREM MemosStayOwn == Spec => []MemosOwn
  <1>1. IInv => MemosOwn
    <2> SUFFICES ASSUME IInv PROVE MemosOwn
      OBVIOUS
    <2>1. TreeOK
      BY DEF IInv
    <2>2. ASSUME NEW p \in Process, NEW k \in Key,
                 NEW i, i = _file_cache[p][k], i # None, box[i] # None
          PROVE  FilesAt(k) = {i}
      <3>1. i \in Id /\ box[i].kind = "file" /\ box[i].path = Path(k)
        BY <2>2 DEF IInv, FileMemosOK, FileOf
      <3>2. ASSUME NEW j \in Id, box[j] # None, box[j].path = Path(k) PROVE j = i
        BY <2>1, <2>2, <3>1, <3>2 DEF TreeOK
      <3>3. QED
        BY <2>2, <3>1, <3>2 DEF FilesAt, ItemsAt
    <2>3. QED
      BY <2>2 DEF MemosOwn
  <1>2. QED
    BY <1>1, Invariance, PTL
=============================================================================
