--------------------------- MODULE ReadBackProofs ---------------------------
(***************************************************************************)
(* What the check of a directory is worth, for any tree and any number of  *)
(* changes the user makes while it is packed, checked and removed.         *)
(***************************************************************************)
EXTENDS ReadBack, FiniteSetTheorems, TLAPS

-----------------------------------------------------------------------------
(* Nodes and paths *)

(* The kinds of nodes exclude each other, and their type tells which it is. *)
LEMMA NodeFacts ==
  /\ Dir \in Node /\ Fifo \in Node /\ Absent \in Node
  /\ Files \subseteq Node /\ Links \subseteq Node
  /\ \A n \in Node :
       /\ n = Dir <=> n.type = "dir"
       /\ n = Fifo <=> n.type = "fifo"
       /\ n = Absent <=> n.type = "none"
       /\ n \in Files <=> n.type = "file"
       /\ n \in Links <=> n.type = "link"
       /\ NotDir(n) <=> n # Dir /\ n # Absent
       /\ n.type \in {"dir", "fifo", "none", "file", "link"}
<1>1. /\ Dir.type = "dir" /\ Fifo.type = "fifo" /\ Absent.type = "none"
  BY DEF Dir, Fifo, Absent
<1>2. \A n \in Files : n.type = "file"
  BY DEF Files
<1>3. \A n \in Links : n.type = "link"
  BY DEF Links
<1>4. Node = Files \union Links \union {Dir, Fifo, Absent}
  BY DEF Node
<1> QED
  BY <1>1, <1>2, <1>3, <1>4 DEF NotDir

(* A path with something at it has directories above it, so nothing is     *)
(* looked up there through a link.                                         *)
LEMMA NothingThroughLinks ==
  ASSUME IsTree(disk), NEW p \in Paths, disk[p] # Absent
  PROVE  ~ThroughLink(p)
<1>1. SUFFICES ASSUME NEW l \in Paths, disk[l].type = "link", p \in Below[l]
               PROVE  FALSE
  BY DEF ThroughLink
<1>2. disk[l] = Dir
  BY <1>1 DEF IsTree
<1> QED
  BY <1>1, <1>2 DEF Dir

(* The disk after the user has changed it.                                 *)
LEMMA EditedDisk ==
  ASSUME IsTree(disk), NEW p \in Paths, NEW n \in Node, Edit(p, n)
  PROVE  /\ IsTree(disk')
         /\ disk'[p] = n
         /\ \A q \in Below[p] : disk'[q] = Absent
         /\ \A q \in Paths : q # p /\ q \notin Below[p] => disk'[q] = disk[q]
<1> USE ReadBackAssumption
<1>1. disk' = [q \in Paths |-> IF q = p THEN n
                               ELSE IF q \in Below[p] THEN Absent ELSE disk[q]]
  BY DEF Edit
<1>2. /\ disk'[p] = n
      /\ \A q \in Below[p] : disk'[q] = Absent
      /\ \A q \in Paths : q # p /\ q \notin Below[p] => disk'[q] = disk[q]
  BY <1>1
<1>3. disk' \in [Paths -> Node]
  BY <1>1, NodeFacts DEF IsTree
<1>4. ASSUME NEW a \in Paths, NEW q \in Below[a], disk'[q] # Absent
      PROVE  disk'[a] = Dir
  <2>1. q \notin Below[p] /\ q \in Paths
    BY <1>2, <1>4
  <2>2. a # p /\ a \notin Below[p]
    BY <1>4, <2>1
  <2>3. disk'[a] = disk[a]
    BY <1>2, <2>2
  <2>4. CASE q = p
    <3>1. disk[Parent[p]] = Dir /\ p # Root
      BY DEF Edit
    <3>2. Parent[p] = a \/ Parent[p] \in Below[a]
      BY <1>4, <2>4
    <3>3. Dir # Absent
      BY DEF Dir, Absent
    <3> QED
      BY <3>1, <3>2, <3>3, <2>3 DEF IsTree
  <2>5. CASE q # p
    BY <1>2, <1>4, <2>1, <2>3, <2>5 DEF IsTree
  <2> QED
    BY <2>4, <2>5
<1> QED
  BY <1>2, <1>3, <1>4 DEF IsTree

(* Taking something away that has nothing below it leaves a tree.          *)
LEMMA RemovedDisk ==
  ASSUME IsTree(disk), NEW p \in Paths, \A q \in Below[p] : disk[q] = Absent
  PROVE  IsTree([disk EXCEPT ![p] = Absent])
<1> DEFINE d == [disk EXCEPT ![p] = Absent]
<1>1. d \in [Paths -> Node]
  BY NodeFacts DEF IsTree
<1>2. d[p] = Absent /\ \A q \in Paths : q # p => d[q] = disk[q]
  BY DEF IsTree
<1>3. \A a \in Paths : \A q \in Below[a] : q \in Paths
  BY ReadBackAssumption
<1> HIDE DEF d
<1>4. ASSUME NEW a \in Paths, NEW q \in Below[a], d[q] # Absent
      PROVE  d[a] = Dir
  BY <1>2, <1>3, <1>4 DEF IsTree
<1> QED
  BY <1>1, <1>4 DEF IsTree, d

(* A directory with nothing in it has nothing below it.                    *)
LEMMA EmptyBelow ==
  ASSUME IsTree(disk), NEW p \in Paths, \A k \in Kids(p) : disk[k] = Absent
  PROVE  \A q \in Below[p] : disk[q] = Absent
<1>1. Dir # Absent
  BY DEF Dir, Absent
<1> QED
  BY <1>1, ReadBackAssumption DEF IsTree, Kids

-----------------------------------------------------------------------------
(* Types *)

(* Listings are of entries of the directory.                               *)
LEMMA ListingsOfKids ==
  ASSUME NEW d \in Paths, NEW l \in Listings(d), IsTree(disk)
  PROVE  /\ DOMAIN l \subseteq Kids(d)
         /\ DOMAIN l \subseteq Paths
         /\ \A q \in DOMAIN l : l[q] \in {"dir", "link", "file", "fifo"}
         /\ ~ByLink(d) =>
              /\ DOMAIN l = {k \in Kids(d) : disk[k] # Absent}
              /\ \A q \in DOMAIN l : l[q] = disk[q].type
<1>1. Kids(d) \subseteq Paths
  BY DEF Kids
<1>2. CASE ByLink(d)
  <2>1. PICK S \in SUBSET Kids(d) : l \in [S -> {"dir", "link", "file", "fifo"}]
    BY <1>2 DEF Listings
  <2> QED
    BY <1>1, <1>2, <2>1
<1>3. CASE ~ByLink(d)
  <2>1. l = [q \in {k \in Kids(d) : disk[k] # Absent} |-> disk[q].type]
    BY <1>3 DEF Listings
  <2>2. /\ DOMAIN l = {k \in Kids(d) : disk[k] # Absent}
        /\ \A q \in DOMAIN l : l[q] = disk[q].type
    BY <2>1
  <2>3. \A q \in DOMAIN l : disk[q] \in Node /\ disk[q] # Absent
    BY <1>1, <2>2 DEF IsTree
  <2> QED
    BY <1>1, <2>2, <2>3, NodeFacts
<1> QED
  BY <1>2, <1>3


(* Sequences, element by element.                                          *)
LEMMA ElementFacts ==
  ASSUME NEW S, NEW s \in Seq(S), NEW i \in 1 .. Len(s)
  PROVE  s[i] \in S
OBVIOUS

(* What appending does to a sequence.                                      *)
LEMMA AppendFacts ==
  ASSUME NEW S, NEW s \in Seq(S), NEW e \in S
  PROVE  /\ Append(s, e) \in Seq(S)
         /\ Len(Append(s, e)) = Len(s) + 1
         /\ Len(s) \in Nat
         /\ Append(s, e)[Len(s) + 1] = e
         /\ \A i \in 1 .. Len(s) : Append(s, e)[i] = s[i]
OBVIOUS

Types == {"dir", "link", "file", "fifo"}

(* Every variable stays within its type, whatever is changed meanwhile.    *)
THEOREM TypeCorrect == Spec => []TypeOK
<1> USE ReadBackAssumption
<1>1. Init => TypeOK
  <2> SUFFICES ASSUME Init PROVE TypeOK
    OBVIOUS
  <2>1. IsTree(disk)
    BY DEF Init
  <2>2. <<Root, "dir">> \in Paths \X {"dir", "link", "file", "fifo"}
    OBVIOUS
  <2>3. archive \in Seq(Entry) /\ at \in 0 .. Len(archive)
    BY DEF Init
  <2>4. edits \in 0 .. MaxEdits
    BY DEF Init
  <2> QED
    BY <2>1, <2>2, <2>3, <2>4 DEF Init, TypeOK, Running
<1>2. TypeOK /\ [Next]_vars => TypeOK'
  <2> SUFFICES ASSUME TypeOK, [Next]_vars PROVE TypeOK'
    OBVIOUS
  <2>w. ASSUME Watch PROVE gone' \in BOOLEAN
    BY <2>w DEF Watch
  <2>t. IsTree(disk)
    BY DEF TypeOK
  <2>1. ASSUME NEW p \in Paths, NEW type \in Types, Pack(p, type), Watch
        PROVE  TypeOK'
    <3> USE DEF Types
    <3>1. PICK n \in (IF type = "link" THEN Lstat(p) ELSE Opened(p)) :
            \/ /\ type = "dir" /\ n = Dir
               /\ \E l \in Listings(p) :
                    pending' = (pending \ {<<p, type>>})
                                 \union {<<q, l[q]>> : q \in DOMAIN l}
               /\ archive' = Append(archive, [path |-> p, node |-> n])
               /\ UNCHANGED pc
            \/ /\ IF type = "link" THEN n \in Links
                                   ELSE type # "dir" /\ n \in Files \union {Fifo}
               /\ pending' = pending \ {<<p, type>>}
               /\ archive' = Append(archive, [path |-> p, node |-> n])
               /\ UNCHANGED pc
            \/ pc' = "failed" /\ UNCHANGED <<pending, archive>>
      BY <2>1 DEF Pack
    <3>2. n \in Node
      BY <3>1, <2>t, NodeFacts DEF Lstat, Opened, IsTree
    <3>3. pending' \subseteq Paths \X {"dir", "link", "file", "fifo"}
      <4>1. ASSUME NEW l \in Listings(p), NEW q \in DOMAIN l
            PROVE  <<q, l[q]>> \in Paths \X {"dir", "link", "file", "fifo"}
        BY <4>1, <2>t, ListingsOfKids
      <4>2. pending \subseteq Paths \X {"dir", "link", "file", "fifo"}
        BY DEF TypeOK
      <4> QED
        BY <3>1, <4>1, <4>2
    <3>4. archive' \in Seq(Entry) /\ at \in 0 .. Len(archive')
      <4>1. [path |-> p, node |-> n] \in Entry
        BY <3>2 DEF Entry
      <4>2. archive \in Seq(Entry) /\ at \in 0 .. Len(archive)
        BY DEF TypeOK
      <4> HIDE DEF Types
      <4> DEFINE e == [path |-> p, node |-> n]
      <4>3. archive' = Append(archive, e) \/ archive' = archive
        BY <3>1
      <4> HIDE DEF e
      <4>4. e \in Entry
        BY <4>1 DEF e
      <4> QED
        BY <4>2, <4>3, <4>4, AppendFacts
    <3>5. pc' \in Running \union {"done", "failed"}
      BY <3>1 DEF TypeOK
    <3> QED
      BY <2>1, <2>w, <3>3, <3>4, <3>5 DEF Pack, TypeOK, IsTree
  <2>2. ASSUME Compare, Watch PROVE TypeOK'
    <3>1. archive[at + 1].path \in Paths /\ at + 1 \in 0 .. Len(archive)
      <4>1. archive \in Seq(Entry) /\ at \in 0 .. Len(archive)
        BY DEF TypeOK
      <4>2. at + 1 \in 1 .. Len(archive)
        BY <2>2, <4>1 DEF Compare
      <4>3. archive[at + 1] \in Entry
        BY <4>1, <4>2, ElementFacts
      <4> QED
        BY <4>2, <4>3 DEF Entry
    <3>2. at' \in 0 .. Len(archive) /\ seen' \subseteq Paths
      BY <2>2, <3>1 DEF Compare, TypeOK
    <3>3. pc' \in Running \union {"done", "failed"}
      BY <2>2 DEF Compare, TypeOK
    <3> QED
      BY <2>2, <2>w, <3>2, <3>3 DEF Compare, TypeOK, IsTree
  <2>3. ASSUME NEW d \in Paths, Count(d), Watch PROVE TypeOK'
    <3>1. stack' \subseteq Paths /\ onDisk' \subseteq Paths /\ files' = files
      BY <2>3, <2>t, ListingsOfKids DEF Count, ListNext, CountListed, TypeOK
    <3>2. pc' \in Running \union {"done", "failed"}
      BY <2>3 DEF Count, ListNext, TypeOK
    <3> QED
      BY <2>3, <2>w, <3>1, <3>2 DEF Count, TypeOK, IsTree
  <2>4. ASSUME NEW d \in Paths, Walk(d), Watch PROVE TypeOK'
    <3>1. stack' \subseteq Paths /\ files' \subseteq Paths /\ onDisk' = onDisk
      BY <2>4, <2>t, ListingsOfKids DEF Walk, ListNext, CollectFiles, TypeOK
    <3>2. pc' \in Running \union {"done", "failed"}
      BY <2>4 DEF Walk, ListNext, TypeOK
    <3> QED
      BY <2>4, <2>w, <3>1, <3>2 DEF Walk, TypeOK, IsTree
  <2>5. ASSUME PackEnds \/ CompareEnds \/ Verdict \/ WalkEnds \/ ShredEnds
                 \/ RemoveFails, Watch
        PROVE  TypeOK'
    <3>1. /\ pc' \in Running \union {"done", "failed"}
          /\ stack' \in {stack, {Root}}
          /\ UNCHANGED <<disk, pending, archive, at, seen, onDisk, files, outside,
                         edits, late, swapped>>
      <4>1. CASE PackEnds \/ CompareEnds \/ WalkEnds \/ ShredEnds \/ RemoveFails
        BY <4>1 DEF PackEnds, CompareEnds, WalkEnds, ShredEnds, RemoveFails, Running
      <4>2. CASE Verdict
        BY <4>2 DEF Verdict, Running
      <4> QED
        BY <2>5, <4>1, <4>2
    <3> QED
      BY <2>w, <2>5, <3>1 DEF TypeOK, IsTree
  <2>6. ASSUME NEW p \in Paths, ShredFile(p), Watch PROVE TypeOK'
    <3>1. ASSUME ~ThroughLink(p), Opened(p) \intersect Files # {}
          PROVE  \A q \in Below[p] : disk[q] = Absent
      <4>1. disk[p] # Dir
        BY <3>1, <2>t, NodeFacts DEF Opened, ByLink, IsTree
      <4> QED
        BY <4>1, <2>t DEF IsTree
    <3>2. IsTree(disk')
      <4>1. \/ disk' = disk
            \/ /\ disk' = [disk EXCEPT ![p] = Absent]
               /\ ~ThroughLink(p)
               /\ Opened(p) \intersect Files # {}
        BY <2>6 DEF ShredFile
      <4>2. CASE disk' = disk
        BY <2>t, <4>2 DEF IsTree
      <4>3. CASE disk' # disk
        <5>1. IsTree([disk EXCEPT ![p] = Absent])
          BY <2>t, <3>1, <4>1, <4>3, RemovedDisk
        <5> QED
          BY <4>1, <4>3, <5>1
      <4> QED
        BY <4>2, <4>3
    <3>3. /\ files' \subseteq Paths
          /\ outside' \in {"intact", "overwritten"}
          /\ pc' \in Running \union {"done", "failed"}
      BY <2>6 DEF ShredFile, TypeOK
    <3> QED
      BY <2>6, <2>w, <3>2, <3>3 DEF ShredFile, TypeOK
  <2>7. ASSUME NEW p \in Paths, Remove(p), Watch PROVE TypeOK'
    <3>1. IsTree(disk')
      BY <2>7, <2>t, EmptyBelow, RemovedDisk DEF Remove
    <3>2. pc' \in Running \union {"done", "failed"}
      BY <2>7 DEF Remove, TypeOK
    <3> QED
      BY <2>7, <2>w, <3>1, <3>2 DEF Remove, TypeOK
  <2>8. ASSUME NEW p \in Paths, NEW n \in Node, Edit(p, n), Watch PROVE TypeOK'
    <3>1. IsTree(disk')
      BY <2>8, <2>t, EditedDisk
    <3>2. edits' \in 0 .. MaxEdits /\ late' \subseteq Paths
      BY <2>8 DEF Edit, TypeOK
    <3>3. swapped' \in BOOLEAN
      BY <2>8 DEF Edit, TypeOK
    <3> QED
      BY <2>8, <2>w, <3>1, <3>2, <3>3 DEF Edit, TypeOK, progVars
  <2>9. CASE UNCHANGED vars
    BY <2>9 DEF TypeOK, IsTree, vars, progVars, histVars
  <2> QED
    BY <2>1, <2>2, <2>3, <2>4, <2>5, <2>6, <2>7, <2>8, <2>9 DEF Next, Step, Types
<1> QED
  BY <1>1, <1>2, PTL DEF Spec

-----------------------------------------------------------------------------
(* What the check knows *)

\* The stages before the tree is given up.
Checking == {"pack", "compare", "count"}

Stages ==
  /\ pc = "pack" => at = 0
  /\ pc \notin {"pack", "compare", "failed"} => at = Len(archive)
  /\ pc \in Checking => disk[Root] = Dir /\ files = {}

\* What is in the archive was there, and lies where it lay.
PackedExisted == \A i \in 1 .. Len(archive) : archive[i].node # Absent
InPlace == ~gone /\ pc \in Checking => ~Missing

\* seen is what was compared, and compared means equal.
SeenCompared ==
  seen = {archive[i].path : i \in {j \in 1 .. at : archive[j].node # Dir}}

Equal(i) ==
  /\ archive[i].node # Dir
  /\ NotDir(disk[archive[i].path])
  /\ archive[i].path \notin late
  => \/ archive[i].node = disk[archive[i].path]
     \/ disk[archive[i].path] \in Links /\ archive[i].node \in Files

ComparedEqual == ~gone => \A i \in 1 .. at : Equal(i)

\* What the count must not miss.
Owed(p) == NotDir(disk[p]) /\ (p \notin late \/ p \in seen)
Reached(p) == p \in onDisk \/ \E d \in stack : p \in Below[d]

CountReaches ==
  pc = "count" /\ ~gone => \A p \in Paths : Owed(p) => Reached(p)

PassedSeen ==
  pc \in {"walk", "shred", "remove"} /\ ~gone =>
    \A p \in Paths : NotDir(disk[p]) /\ p \notin late => p \in seen

CheckInv ==
  /\ Stages /\ PackedExisted /\ InPlace /\ SeenCompared
  /\ ComparedEqual /\ CountReaches /\ PassedSeen

(* What is in place at the end of a step under way is so by Watch.         *)
LEMMA WatchKeeps ==
  ASSUME Watch PROVE InPlace' /\ (gone => gone')
BY DEF Watch, InPlace, Checking

(* A step that leaves the disk, the archive and the history alone keeps    *)
(* what was compared.                                                      *)
LEMMA ComparedStays ==
  ASSUME CheckInv, Watch, UNCHANGED <<disk, archive, at, seen, late>>
  PROVE  /\ PackedExisted' /\ InPlace' /\ SeenCompared' /\ ComparedEqual'
BY WatchKeeps DEF CheckInv, PackedExisted, SeenCompared, ComparedEqual, Equal

(* Packing an entry keeps the invariant of the check.                      *)
LEMMA PackKeeps ==
  ASSUME TypeOK, CheckInv, NEW p \in Paths, NEW type \in Types, Pack(p, type), Watch
  PROVE  CheckInv'
<1>1. /\ pc = "pack" /\ at = 0 /\ pc' \in {"pack", "failed"}
      /\ UNCHANGED <<disk, at, seen, stack, onDisk, files, outside, late>>
  BY DEF Pack, CheckInv, Stages
<1>2. PICK n \in Node : archive' \in {archive, Append(archive, [path |-> p, node |-> n])}
                          /\ n # Absent
  <2>1. Dir # Absent /\ Fifo # Absent /\ Absent \notin Files /\ Absent \notin Links
        /\ Dir \in Node /\ Fifo \in Node /\ Links \subseteq Node /\ Files \subseteq Node
    BY NodeFacts
  <2> QED
    BY <2>1 DEF Pack
<1>3. PackedExisted'
  <2> DEFINE e == [path |-> p, node |-> n]
  <2>1. e \in Entry /\ e.node # Absent
    BY <1>2 DEF Entry
  <2>2. archive' = archive \/ archive' = Append(archive, e)
    BY <1>2
  <2> HIDE DEF e
  <2>3. archive \in Seq(Entry) /\ \A i \in 1 .. Len(archive) : archive[i].node # Absent
    BY DEF TypeOK, CheckInv, PackedExisted
  <2>4. CASE archive' = archive
    BY <2>3, <2>4 DEF PackedExisted
  <2>5. CASE archive' = Append(archive, e)
    <3>1. ASSUME NEW i \in 1 .. Len(archive') PROVE archive'[i].node # Absent
      <4>1. i \in 1 .. Len(archive) \/ i = Len(archive) + 1
        BY <2>3, <2>5, <2>1, <3>1, AppendFacts
      <4> QED
        BY <4>1, <2>1, <2>3, <2>5, AppendFacts
    <3> QED
      BY <3>1 DEF PackedExisted
  <2> QED
    BY <2>2, <2>4, <2>5
<1>4. SeenCompared'
  BY <1>1 DEF CheckInv, SeenCompared
<1>5. ComparedEqual'
  BY <1>1 DEF ComparedEqual
<1>6. Stages'
  BY <1>1 DEF CheckInv, Stages, Checking
<1> QED
  BY <1>1, <1>3, <1>4, <1>5, <1>6, WatchKeeps
     DEF CheckInv, CountReaches, PassedSeen

(* Comparing.  What is in place is not looked up through a link, unless it *)
(* is one itself, and then it has the contents that were packed.           *)
LEMMA CompareKeeps ==
  ASSUME TypeOK, CheckInv, Compare, Watch
  PROVE  CheckInv'
<1> DEFINE e == archive[at + 1]
<1>1. /\ pc = "compare" /\ pc' \in {"compare", "failed"}
      /\ UNCHANGED <<disk, archive, stack, onDisk, files, late>>
      /\ at \in Nat /\ at + 1 \in 1 .. Len(archive)
  BY DEF Compare, TypeOK
<1>2. e \in Entry /\ e.path \in Paths /\ e.node \in Node /\ e.node # Absent
  <2>1. e \in Entry
    BY <1>1, ElementFacts DEF TypeOK
  <2>2. e.path \in Paths /\ e.node \in Node
    BY <2>1 DEF Entry
  <2> QED
    BY <1>1, <2>1, <2>2 DEF CheckInv, PackedExisted
<1>3. PICK n \in (IF e.node \in Links THEN Lstat(e.path) ELSE Opened(e.path)) :
        /\ n = Fifo => e.node \in Links \union {Dir}
        /\ \/ /\ Matches(e.node, n)
              /\ at' = at + 1
              /\ seen' = IF e.node = Dir THEN seen ELSE seen \union {e.path}
              /\ UNCHANGED pc
           \/ pc' = "failed" /\ UNCHANGED <<at, seen>>
  BY DEF Compare
<1>4. CASE pc' = "failed" /\ UNCHANGED <<at, seen>>
  BY <1>1, <1>4, ComparedStays DEF CheckInv, Stages, Checking, CountReaches, PassedSeen
<1>5. CASE /\ Matches(e.node, n)
           /\ at' = at + 1
           /\ seen' = IF e.node = Dir THEN seen ELSE seen \union {e.path}
           /\ pc' = pc
  <2>1. SeenCompared'
    <3>1. 1 .. at' = (1 .. at) \union {at + 1}
      BY <1>1, <1>5
    <3>2. SeenCompared
      BY DEF CheckInv
    <3> QED
      BY <1>1, <1>5, <3>1, <3>2 DEF SeenCompared
  <2>2. ASSUME ~gone' PROVE Equal(at + 1)
    <3>1. ASSUME e.node # Dir, NotDir(disk[e.path])
          PROVE  e.node = disk[e.path] \/ (disk[e.path] \in Links /\ e.node \in Files)
      <4>1. IsTree(disk) /\ disk[e.path] \in Node /\ disk[e.path] # Absent
        BY <1>2, <3>1, NodeFacts DEF TypeOK, IsTree
      <4>2. ~ThroughLink(e.path)
        BY <1>2, <4>1, NothingThroughLinks
      <4>3. n = e.node
        BY <1>5, <3>1 DEF Matches
      <4>4. CASE e.node \in Links
        BY <1>3, <4>2, <4>3, <4>4 DEF Lstat
      <4>5. CASE e.node \notin Links
        <5>1. e.node # Fifo
          BY <1>3, <3>1, <4>3, <4>5
        <5>2. e.node \in Files
          BY <1>2, <3>1, <4>5, <5>1, NodeFacts
        <5> QED
          BY <1>3, <4>1, <4>2, <4>3, <4>5, <5>2, NodeFacts DEF Opened, ByLink
      <4> QED
        BY <4>4, <4>5
    <3> QED
      BY <3>1 DEF Equal
  <2>3. ComparedEqual'
    <3>1. ASSUME ~gone', NEW i \in 1 .. at' PROVE Equal(i)'
      <4>1. Equal(i)
        BY <1>1, <1>5, <2>2, <3>1, WatchKeeps DEF CheckInv, ComparedEqual
      <4> QED
        BY <1>1, <4>1 DEF Equal
    <3> QED
      BY <3>1 DEF ComparedEqual
  <2>4. Stages' /\ PackedExisted'
    BY <1>1, <1>5 DEF CheckInv, Stages, PackedExisted, Checking
  <2> QED
    BY <1>1, <1>5, <2>1, <2>3, <2>4, WatchKeeps DEF CheckInv, CountReaches, PassedSeen
<1> QED
  BY <1>3, <1>4, <1>5

(* The counting begins with everything still to be reached.                *)
LEMMA StagesChangeKeeps ==
  ASSUME TypeOK, CheckInv, PackEnds \/ CompareEnds, Watch
  PROVE  CheckInv'
<1>1. /\ UNCHANGED <<disk, archive, at, seen, onDisk, files, late>>
      /\ \/ pc = "pack" /\ pc' = "compare"
         \/ pc = "compare" /\ pc' = "count" /\ at = Len(archive) /\ stack' = {Root}
  BY DEF PackEnds, CompareEnds
<1>2. Stages'
  BY <1>1 DEF CheckInv, Stages, Checking
<1>3. CountReaches'
  <2>1. ASSUME pc' = "count", NEW p \in Paths, Owed(p)' PROVE Reached(p)'
    <3>1. disk[Root] = Dir /\ stack' = {Root} /\ NotDir(disk[p])
      BY <1>1, <2>1 DEF CheckInv, Stages, Checking, Owed
    <3>2. p # Root
      BY <3>1 DEF NotDir, Dir
    <3>3. p \in Below[Root]
      BY <3>2, ReadBackAssumption
    <3> QED
      BY <3>1, <3>3 DEF Reached
  <2> QED
    BY <2>1 DEF CountReaches
<1> QED
  BY <1>1, <1>2, <1>3, ComparedStays DEF CheckInv, PassedSeen

(* Listing a directory passes what it owes on to its entries.  What lies   *)
(* behind a link is not owed.                                              *)
LEMMA CountKeeps ==
  ASSUME TypeOK, CheckInv, NEW d \in Paths, Count(d), Watch
  PROVE  CheckInv'
<1>1. /\ pc = "count" /\ pc' \in {"count", "failed"} /\ d \in stack
      /\ UNCHANGED <<disk, archive, at, seen, files, late>>
  BY DEF Count, ListNext, CountListed
<1>2. CountReaches'
  <2>1. ASSUME pc' = "count", ~gone', NEW p \in Paths, Owed(p)' PROVE Reached(p)'
    <3>1. PICK l \in Listings(d) :
            /\ stack' = (stack \ {d}) \union {q \in DOMAIN l : l[q] = "dir"}
            /\ onDisk' = onDisk \union {q \in DOMAIN l : l[q] # "dir"}
      BY <1>1, <2>1 DEF Count, ListNext, CountListed
    <3>2. Owed(p) /\ NotDir(disk[p]) /\ Reached(p)
      <4>1. Owed(p)
        BY <1>1, <2>1 DEF Owed
      <4> QED
        BY <1>1, <2>1, <4>1, WatchKeeps DEF CheckInv, CountReaches, Owed
    <3>3. IsTree(disk) /\ disk[p] \in Node /\ disk[p] # Absent
          /\ disk[p].type # "dir"
      BY <3>2, NodeFacts DEF TypeOK, IsTree
    <3>4. CASE p \in onDisk \/ \E c \in stack \ {d} : p \in Below[c]
      BY <3>1, <3>4 DEF Reached
    <3>5. CASE p \in Below[d]
      <4>1. ~ThroughLink(d)
        <5>1. ASSUME NEW a \in Paths, disk[a].type = "link", d \in Below[a]
              PROVE  FALSE
          <6>1. p \in Below[a]
            BY <3>5, <5>1, ReadBackAssumption
          <6>2. disk[a] = Dir
            BY <3>3, <6>1 DEF IsTree
          <6> QED
            BY <5>1, <6>2 DEF Dir
        <5> QED
          BY <5>1 DEF ThroughLink
      <4>2. disk[d] = Dir
        BY <3>3, <3>5 DEF IsTree
      <4>3. ~ByLink(d)
        BY <4>1, <4>2 DEF ByLink, Dir
      <4>4. /\ DOMAIN l = {k \in Kids(d) : disk[k] # Absent}
            /\ \A q \in DOMAIN l : l[q] = disk[q].type
        BY <3>3, <4>3, ListingsOfKids
      <4>5. CASE p \in Kids(d)
        BY <3>1, <3>3, <4>4, <4>5 DEF Reached
      <4>6. ASSUME NEW k \in Kids(d), p \in Below[k] PROVE Reached(p)'
        <5>1. k \in Paths /\ disk[k] = Dir /\ Dir # Absent /\ Dir.type = "dir"
          BY <3>3, <4>6 DEF IsTree, Kids, Dir, Absent
        <5>2. k \in stack'
          BY <3>1, <4>4, <5>1
        <5> QED
          BY <4>6, <5>2 DEF Reached
      <4> QED
        BY <3>5, <4>5, <4>6, ReadBackAssumption
    <3> QED
      BY <3>2, <3>4, <3>5 DEF Reached
  <2> QED
    BY <2>1 DEF CountReaches
<1>3. Stages'
  BY <1>1 DEF CheckInv, Stages, Checking
<1> QED
  BY <1>1, <1>2, <1>3, ComparedStays DEF CheckInv, PassedSeen

(* What was compared and is in place has been counted: equal counts mean   *)
(* that nothing else was.                                                  *)
LEMMA VerdictKeeps ==
  ASSUME TypeOK, CheckInv, Verdict, Watch
  PROVE  CheckInv'
<1>1. /\ pc = "count" /\ pc' \in {"walk", "remove", "failed"} /\ stack = {}
      /\ UNCHANGED <<disk, archive, at, seen, onDisk, files, late>>
  BY DEF Verdict
<1>2. PassedSeen'
  <2>1. SUFFICES ASSUME pc' \in {"walk", "remove"}, ~gone
                 PROVE  \A p \in Paths : NotDir(disk[p]) /\ p \notin late => p \in seen
    BY <1>1, WatchKeeps DEF PassedSeen
  <2>2. Cardinality(seen) = Cardinality(onDisk)
    BY <2>1 DEF Verdict, SameCount
  <2>3. \A p \in Paths : Owed(p) => p \in onDisk
    BY <1>1, <2>1 DEF CheckInv, CountReaches, Reached
  <2>4. ASSUME NEW p \in seen PROVE p \in Paths /\ Owed(p)
    <3>1. PICK i \in 1 .. at : archive[i].node # Dir /\ archive[i].path = p
      BY <2>4 DEF CheckInv, SeenCompared
    <3>2. i \in 1 .. Len(archive)
      BY <3>1 DEF TypeOK
    <3>3. ~Missing
      BY <1>1, <2>1 DEF CheckInv, InPlace, Checking
    <3>4. NotDir(disk[p])
      BY <3>1, <3>2, <3>3 DEF Missing, Entries
    <3> QED
      BY <3>4 DEF Owed, TypeOK
  <2>5. seen \subseteq onDisk
    BY <2>3, <2>4
  <2>6. IsFiniteSet(onDisk)
    BY ReadBackAssumption, FS_Subset DEF TypeOK
  <2>7. seen = onDisk
    BY <2>2, <2>5, <2>6, FS_Subset
  <2> QED
    BY <2>3, <2>7 DEF Owed
<1>3. Stages'
  BY <1>1 DEF CheckInv, Stages, Checking
<1> QED
  BY <1>1, <1>2, <1>3, ComparedStays DEF CheckInv, CountReaches

(* The removal only takes things away.                                     *)
LEMMA RemovalKeeps ==
  ASSUME TypeOK, CheckInv, Watch,
         pc \in {"walk", "shred", "remove"},
         pc' \in {"walk", "shred", "remove", "done", "failed"},
         \A p \in Paths : disk'[p] = disk[p] \/ disk'[p] = Absent,
         UNCHANGED <<archive, at, seen, late>>
  PROVE  CheckInv'
<1>1. \A p \in Paths : NotDir(disk'[p]) => disk'[p] = disk[p]
  BY NodeFacts
<1>2. \A i \in 1 .. at : archive[i].path \in Paths
  <2>1. ASSUME NEW i \in 1 .. at PROVE archive[i] \in Entry
    <3>1. i \in 1 .. Len(archive)
      BY DEF TypeOK
    <3> QED
      BY <3>1, ElementFacts DEF TypeOK
  <2> QED
    BY <2>1 DEF Entry
<1>3. ComparedEqual'
  <2>1. ASSUME ~gone', NEW i \in 1 .. at PROVE Equal(i)'
    <3>1. Equal(i)
      BY <2>1, WatchKeeps DEF CheckInv, ComparedEqual
    <3> QED
      BY <1>1, <1>2, <3>1 DEF Equal
  <2> QED
    BY <2>1 DEF ComparedEqual
<1>4. PassedSeen'
  BY <1>1, WatchKeeps DEF CheckInv, PassedSeen
<1>5. /\ Stages' /\ PackedExisted' /\ SeenCompared' /\ CountReaches'
  BY DEF CheckInv, Stages, PackedExisted, SeenCompared, CountReaches, Checking
<1> QED
  BY <1>3, <1>4, <1>5, WatchKeeps DEF CheckInv

(* What the user changes had not been looked at, or counts as late.        *)
LEMMA EditKeeps ==
  ASSUME TypeOK, CheckInv, NEW p \in Paths, NEW n \in Node, Edit(p, n), Watch
  PROVE  CheckInv'
<1>1. /\ UNCHANGED <<pc, archive, at, seen, stack, onDisk, files>>
      /\ late' = IF Looked(p) THEN late \union {p} ELSE late
      /\ p # Root /\ late \subseteq late'
  BY DEF Edit, progVars
<1>2. /\ disk'[p] = n
      /\ \A q \in Below[p] : disk'[q] = Absent
      /\ \A q \in Paths : q # p /\ q \notin Below[p] => disk'[q] = disk[q]
  BY EditedDisk DEF TypeOK
<1>3. ~NotDir(Absent)
  BY DEF NotDir, Absent
<1>4. ASSUME NEW q \in Paths, NotDir(disk'[q]), q # p PROVE disk'[q] = disk[q]
  BY <1>2, <1>3, <1>4
<1>5. ASSUME NEW i \in 1 .. at PROVE archive[i].path \in Paths
  <2>1. i \in 1 .. Len(archive)
    BY DEF TypeOK
  <2>2. archive[i] \in Entry
    BY <2>1, ElementFacts DEF TypeOK
  <2> QED
    BY <2>2 DEF Entry
<1>6. ASSUME pc \notin {"pack", "compare", "failed"}, p \in Packed PROVE Looked(p)
  <2>1. at = Len(archive)
    BY <1>6 DEF CheckInv, Stages
  <2> QED
    BY <1>6, <2>1 DEF Packed, Entries, Looked
<1>7. ComparedEqual'
  <2>1. ASSUME ~gone', NEW i \in 1 .. at PROVE Equal(i)'
    <3>1. Equal(i)
      BY <2>1, WatchKeeps DEF CheckInv, ComparedEqual
    <3>2. archive[i].path = p => p \in late'
      BY <1>1 DEF Looked
    <3> QED
      BY <1>1, <1>4, <1>5, <3>1, <3>2 DEF Equal
  <2> QED
    BY <1>1, <2>1 DEF ComparedEqual
<1>8. CountReaches'
  <2>1. ASSUME pc = "count", ~gone', NEW q \in Paths, Owed(q)' PROVE Reached(q)
    <3>1. ~gone /\ \A x \in Paths : Owed(x) => Reached(x)
      BY <2>1, WatchKeeps DEF CheckInv, CountReaches
    <3>2. CASE q # p
      <4>1. Owed(q)
        BY <1>1, <1>4, <2>1, <3>2 DEF Owed
      <4> QED
        BY <3>1, <4>1
    <3>3. CASE q = p /\ p \in seen
      <4>1. PICK i \in 1 .. at : archive[i].node # Dir /\ archive[i].path = p
        BY <3>3 DEF CheckInv, SeenCompared
      <4>2. i \in 1 .. Len(archive)
        BY DEF TypeOK
      <4>3. ~Missing
        BY <2>1, <3>1 DEF CheckInv, InPlace, Checking
      <4>4. NotDir(disk[p])
        BY <4>1, <4>2, <4>3 DEF Missing, Entries
      <4> QED
        BY <3>1, <3>3, <4>4 DEF Owed
    <3>4. CASE q = p /\ p \notin seen
      <4>1. p \notin late'
        BY <1>1, <2>1, <3>4 DEF Owed
      <4>2. ~Looked(p)
        BY <1>1, <4>1
      <4>3. p \notin Packed
        BY <1>6, <2>1, <4>2
      <4> QED
        BY <2>1, <3>4, <4>2, <4>3 DEF Looked, Reached
    <3> QED
      BY <3>2, <3>3, <3>4
  <2> QED
    BY <1>1, <2>1 DEF CountReaches, Reached
<1>9. PassedSeen'
  <2>1. ASSUME pc \in {"walk", "shred", "remove"}, ~gone',
               NEW q \in Paths, NotDir(disk'[q]), q \notin late'
        PROVE  q \in seen
    <3>1. Looked(p)
      BY <1>6, <2>1 DEF Looked
    <3>2. q # p /\ q \notin late
      BY <1>1, <2>1, <3>1
    <3> QED
      BY <1>4, <2>1, <3>2, WatchKeeps DEF CheckInv, PassedSeen
  <2> QED
    BY <1>1, <2>1 DEF PassedSeen
<1>10. Stages'
  <2>1. Root \in Paths /\ Root \notin Below[p]
    BY ReadBackAssumption
  <2>2. disk'[Root] = disk[Root]
    BY <1>1, <1>2, <2>1
  <2> QED
    BY <1>1, <2>2 DEF CheckInv, Stages
<1> QED
  BY <1>1, <1>7, <1>8, <1>9, <1>10, WatchKeeps
     DEF CheckInv, PackedExisted, SeenCompared

(* The check knows what it needs to know, at every step.                   *)
THEOREM CheckInvariant == Spec => []CheckInv
<1>1. Init => CheckInv
  <2> SUFFICES ASSUME Init PROVE CheckInv
    OBVIOUS
  <2>1. disk[Root] = Dir
    BY ReadBackAssumption DEF Init
  <2>2. Len(archive) = 0 /\ 1 .. at = {} /\ Entries = {}
    BY DEF Init, Entries
  <2> QED
    BY <2>1, <2>2 DEF Init, CheckInv, Stages, PackedExisted, InPlace, Missing,
         SeenCompared, ComparedEqual, CountReaches, PassedSeen, Checking
<1>2. TypeOK /\ CheckInv /\ [Next]_vars => CheckInv'
  <2> SUFFICES ASSUME TypeOK, CheckInv, [Next]_vars PROVE CheckInv'
    OBVIOUS
  <2>1. ASSUME NEW p \in Paths, NEW type \in Types, Pack(p, type), Watch
        PROVE  CheckInv'
    BY <2>1, PackKeeps
  <2>2. ASSUME PackEnds \/ CompareEnds, Watch PROVE CheckInv'
    BY <2>2, StagesChangeKeeps
  <2>3. ASSUME Compare, Watch PROVE CheckInv'
    BY <2>3, CompareKeeps
  <2>4. ASSUME NEW d \in Paths, Count(d), Watch PROVE CheckInv'
    BY <2>4, CountKeeps
  <2>5. ASSUME Verdict, Watch PROVE CheckInv'
    BY <2>5, VerdictKeeps
  <2>6. ASSUME NEW d \in Paths, Walk(d), Watch PROVE CheckInv'
    BY <2>6, RemovalKeeps DEF Walk, ListNext
  <2>7. ASSUME WalkEnds \/ ShredEnds \/ RemoveFails, Watch PROVE CheckInv'
    BY <2>7, RemovalKeeps DEF WalkEnds, ShredEnds, RemoveFails
  <2>8. ASSUME NEW p \in Paths, ShredFile(p) \/ Remove(p), Watch PROVE CheckInv'
    <3>1. disk \in [Paths -> Node]
      BY DEF TypeOK, IsTree
    <3>2. \A q \in Paths : disk'[q] = disk[q] \/ disk'[q] = Absent
      BY <2>8, <3>1 DEF ShredFile, Remove
    <3> QED
      BY <2>8, <3>2, RemovalKeeps DEF ShredFile, Remove
  <2>9. ASSUME NEW p \in Paths, NEW n \in Node, Edit(p, n), Watch PROVE CheckInv'
    BY <2>9, EditKeeps
  <2>10. CASE UNCHANGED vars
    BY <2>10 DEF vars, progVars, histVars, CheckInv, Stages, PackedExisted,
         InPlace, Missing, Entries, SeenCompared, ComparedEqual, Equal,
         CountReaches, Owed, Reached, PassedSeen
  <2> QED
    BY <2>1, <2>2, <2>3, <2>4, <2>5, <2>6, <2>7, <2>8, <2>9, <2>10
       DEF Next, Step, Types
<1> QED
  BY <1>1, <1>2, TypeCorrect, PTL DEF Spec

(* Nothing is deleted on the strength of a weaker check (ops.rs): what the *)
(* removal takes away is in the archive as it is, or was changed after the *)
(* check had looked at it, unless something packed went meanwhile.         *)
THEOREM NothingLost == Spec => []RemovedIsSaved
<1>1. TypeOK /\ CheckInv => RemovedIsSaved
  <2>1. SUFFICES ASSUME TypeOK, CheckInv, pc \in {"walk", "shred", "remove"}, ~gone,
                        NEW p \in Paths, NotDir(disk[p]), p \notin late
                 PROVE  Saved(p)
    BY DEF RemovedIsSaved
  <2>2. p \in seen
    BY <2>1 DEF CheckInv, PassedSeen
  <2>3. PICK i \in 1 .. at : archive[i].node # Dir /\ archive[i].path = p
    BY <2>1, <2>2 DEF CheckInv, SeenCompared
  <2>4. archive[i] \in Entries
    BY <2>1 DEF TypeOK, Entries
  <2>5. Equal(i)
    BY <2>1 DEF CheckInv, ComparedEqual
  <2> QED
    BY <2>1, <2>3, <2>4, <2>5 DEF Saved, Equal
<1> QED
  BY <1>1, TypeCorrect, CheckInvariant, PTL

-----------------------------------------------------------------------------
(* What the removal touches *)

\* Nothing the removal has still to open leads elsewhere.
ListedPlain == pc \in {"walk", "shred"} => \A f \in Listed : ~ByLink(f)

PlainInv == ~swapped => outside = "intact" /\ ListedPlain

(* What is a directory or a file itself leads nowhere else.                *)
LEMMA PlainNodes ==
  ASSUME IsTree(disk), NEW q \in Paths, disk[q].type \in {"dir", "file", "fifo"}
  PROVE  ~ByLink(q)
<1>1. disk[q] # Absent /\ disk[q].type # "link"
  BY DEF Absent
<1> QED
  BY <1>1, NothingThroughLinks DEF ByLink

(* Taking things away makes no links.                                      *)
LEMMA NoNewLinks ==
  ASSUME \A q \in Paths : disk'[q] = disk[q] \/ disk'[q] = Absent,
         NEW p \in Paths, ~ByLink(p)
  PROVE  ~ByLink(p)'
BY DEF ByLink, ThroughLink, Absent

(* Links in a tree are not followed when it is shredded and removed,       *)
(* unless one takes the place of what was listed as a file or directory.   *)
THEOREM ElsewhereUntouched == Spec => []OutsideIntact
<1>1. Init => PlainInv
  BY DEF Init, PlainInv, ListedPlain
<1>2. TypeOK /\ CheckInv /\ PlainInv /\ [Next]_vars => PlainInv'
  <2> SUFFICES ASSUME TypeOK, CheckInv, PlainInv, [Next]_vars PROVE PlainInv'
    OBVIOUS
  <2>t. IsTree(disk)
    BY DEF TypeOK
  <2>1. ASSUME UNCHANGED <<outside, swapped>>, pc' \notin {"walk", "shred"}
        PROVE  PlainInv'
    BY <2>1 DEF PlainInv, ListedPlain
  <2>2. ASSUME Verdict PROVE PlainInv'
    <3>1. UNCHANGED <<disk, files, outside, swapped>> /\ files = {} /\ disk[Root] = Dir
      BY <2>2 DEF Verdict, CheckInv, Stages, Checking
    <3>2. ~ByLink(Root)
      BY <2>t, <3>1, PlainNodes, ReadBackAssumption DEF Dir
    <3>3. pc' \in {"walk", "shred"} => stack' = {Root} /\ ~ByLink(Root)'
      BY <2>2, <3>1, <3>2 DEF Verdict, ByLink, ThroughLink
    <3> QED
      BY <3>1, <3>3 DEF PlainInv, ListedPlain, Listed
  <2>3. ASSUME NEW d \in Paths, Walk(d) PROVE PlainInv'
    <3>1. /\ pc = "walk" /\ pc' \in {"walk", "failed"} /\ d \in stack
          /\ UNCHANGED <<disk, outside, swapped>>
      BY <2>3 DEF Walk, ListNext, CollectFiles
    <3>2. ASSUME ~swapped, pc' = "walk", NEW f \in Listed' PROVE ~ByLink(f)'
      <4>1. PICK l \in Listings(d) :
              /\ stack' = (stack \ {d}) \union {q \in DOMAIN l : l[q] = "dir"}
              /\ files' = files \union {q \in DOMAIN l : l[q] = "file"}
        BY <2>3, <3>1, <3>2 DEF Walk, ListNext, CollectFiles
      <4>2. ~ByLink(d) /\ \A g \in files \union stack : ~ByLink(g)
        BY <3>1, <3>2 DEF PlainInv, ListedPlain, Listed
      <4>3. ~ByLink(f)
        <5>1. CASE f \in files \union stack
          BY <4>2, <5>1
        <5>2. CASE f \in DOMAIN l /\ l[f] \in {"dir", "file"}
          BY <2>t, <4>2, <5>2, ListingsOfKids, PlainNodes
        <5> QED
          BY <3>2, <4>1, <5>1, <5>2 DEF Listed
      <4> QED
        BY <3>1, <4>3 DEF ByLink, ThroughLink
    <3> QED
      BY <3>1, <3>2 DEF PlainInv, ListedPlain
  <2>4. ASSUME WalkEnds PROVE PlainInv'
    BY <2>4 DEF WalkEnds, PlainInv, ListedPlain, Listed, ByLink, ThroughLink
  <2>5. ASSUME NEW p \in Paths, ShredFile(p) PROVE PlainInv'
    <3>1. /\ pc = "shred" /\ p \in files /\ files' \subseteq files
          /\ UNCHANGED swapped /\ files \subseteq Paths
          /\ ~ByLink(p) => outside' = outside
          /\ disk \in [Paths -> Node]
      BY <2>5 DEF ShredFile, TypeOK, IsTree
    <3>2. \A q \in Paths : disk'[q] = disk[q] \/ disk'[q] = Absent
      BY <2>5, <3>1 DEF ShredFile
    <3>3. ~swapped => \A g \in files : ~ByLink(g)
      BY <3>1 DEF PlainInv, ListedPlain, Listed
    <3>4. ~swapped => \A g \in files : ~ByLink(g)'
      BY <3>1, <3>2, <3>3, NoNewLinks
    <3>5. Listed' \subseteq files' \/ pc' \notin {"walk", "shred"}
      BY <2>5, <3>1 DEF ShredFile, Listed
    <3> QED
      BY <3>1, <3>3, <3>4, <3>5 DEF PlainInv, ListedPlain
  <2>6. ASSUME NEW p \in Paths, NEW n \in Node, Edit(p, n) PROVE PlainInv'
    <3>1. /\ UNCHANGED <<pc, stack, files, outside>>
          /\ swapped' = (swapped \/ (n \in Links /\ \E f \in Listed : f = p \/ f \in Below[p]))
      BY <2>6 DEF Edit, progVars
    <3>2. /\ disk'[p] = n
          /\ \A q \in Below[p] : disk'[q] = Absent
          /\ \A q \in Paths : q # p /\ q \notin Below[p] => disk'[q] = disk[q]
      BY <2>6, <2>t, EditedDisk
    <3>3. ASSUME NEW q \in Paths, disk'[q].type = "link"
          PROVE  disk[q].type = "link" \/ (q = p /\ n \in Links)
      <4>1. Absent.type # "link" /\ (n.type = "link" => n \in Links)
        BY NodeFacts
      <4> QED
        BY <3>2, <3>3, <4>1
    <3>4. ASSUME ~swapped', NEW f \in Listed, ~ByLink(f) PROVE ~ByLink(f)'
      <4>1. f \in Paths
        BY <3>4 DEF Listed, TypeOK
      <4> QED
        BY <3>1, <3>3, <3>4, <4>1 DEF ByLink, ThroughLink
    <3>5. Listed' = Listed
      BY <3>1 DEF Listed
    <3> QED
      BY <3>1, <3>4, <3>5 DEF PlainInv, ListedPlain
  <2>7. ASSUME NEW p \in Paths, NEW type \in Types, Pack(p, type) PROVE PlainInv'
    BY <2>1, <2>7 DEF Pack
  <2>8. ASSUME PackEnds \/ Compare \/ CompareEnds \/ ShredEnds \/ RemoveFails
        PROVE  PlainInv'
    BY <2>1, <2>8 DEF PackEnds, Compare, CompareEnds, ShredEnds, RemoveFails
  <2>9. ASSUME NEW d \in Paths, Count(d) PROVE PlainInv'
    BY <2>1, <2>9 DEF Count, ListNext
  <2>10. ASSUME NEW p \in Paths, Remove(p) PROVE PlainInv'
    BY <2>1, <2>10 DEF Remove
  <2>11. CASE UNCHANGED vars
    BY <2>11 DEF vars, progVars, histVars, PlainInv, ListedPlain, Listed,
         ByLink, ThroughLink
  <2> QED
    BY <2>2, <2>3, <2>4, <2>5, <2>6, <2>7, <2>8, <2>9, <2>10, <2>11
       DEF Next, Step, Types
<1>3. PlainInv => OutsideIntact
  BY DEF PlainInv, OutsideIntact
<1> QED
  BY <1>1, <1>2, <1>3, TypeCorrect, CheckInvariant, PTL DEF Spec

-----------------------------------------------------------------------------
(* The check of a tree nobody touches *)

\* The archive has what is there, and so has what is listed.
ArchiveExact ==
  pc \in Checking =>
    \A i \in 1 .. Len(archive) : archive[i].node = disk[archive[i].path]

PendingExact ==
  pc = "pack" =>
    \A p \in Paths, t \in Types : <<p, t>> \in pending =>
      disk[p] # Absent /\ disk[p].type = t

\* Whatever is there is packed or will be.
ToPack(p) == \E q \in Paths, t \in Types : <<q, t>> \in pending /\ (p = q \/ p \in Below[q])

PackReaches ==
  /\ pc = "pack" => \A p \in Paths : disk[p] # Absent => p \in Packed \/ ToPack(p)
  /\ pc \in {"compare", "count"} => \A p \in Paths : disk[p] # Absent => p \in Packed

\* Directories are counted as directories, and what is to be shredded is a file.
ListsExact ==
  /\ pc \in {"count", "walk"} => \A d \in stack : disk[d] = Dir
  /\ pc \in Checking => \A p \in onDisk : NotDir(disk[p])
  /\ pc \in {"walk", "shred"} => \A p \in files : disk[p] \in Files

Undisturbed ==
  /\ pc # "failed" /\ late = {} /\ ~gone
  /\ ArchiveExact /\ PendingExact /\ PackReaches /\ ListsExact

UndisturbedInv == edits = 0 => Undisturbed

(* What is in the archive as it lies on disk has not gone.                 *)
LEMMA NothingGone ==
  ASSUME TypeOK', CheckInv', ArchiveExact', Watch, ~gone
  PROVE  ~gone'
<1>1. SUFFICES ASSUME pc' \in Checking, Missing'
               PROVE  FALSE
  BY DEF Watch, Checking
<1>2. PICK i \in 1 .. Len(archive') :
        archive'[i].node # Dir /\ ~NotDir(disk'[archive'[i].path])
  BY <1>1 DEF Missing, Entries
<1>3. archive'[i].node = disk'[archive'[i].path] /\ archive'[i].node # Absent
  BY <1>1, <1>2 DEF ArchiveExact, CheckInv, PackedExisted
<1>4. archive'[i].node \in Node
  <2>1. archive' \in Seq(Entry)
    BY DEF TypeOK
  <2>2. archive'[i] \in Entry
    BY <1>2, <2>1, ElementFacts
  <2> QED
    BY <2>2 DEF Entry
<1> QED
  BY <1>2, <1>3, <1>4, NodeFacts

(* What is there is found as it is, unless it is opened through a link.    *)
LEMMA FoundAsIs ==
  ASSUME TypeOK, NEW p \in Paths, disk[p] # Absent
  PROVE  /\ disk[p] \in Node /\ ~ThroughLink(p)
         /\ Lstat(p) = {disk[p]}
         /\ disk[p] \notin Links => Opened(p) = {disk[p]} /\ ~ByLink(p)
<1>1. disk[p] \in Node /\ ~ThroughLink(p)
  BY NothingThroughLinks DEF TypeOK, IsTree
<1>2. disk[p] \notin Links => disk[p].type # "link"
  BY <1>1, NodeFacts
<1> QED
  BY <1>1, <1>2 DEF Lstat, Opened, ByLink

(* A directory that is there is listed as it is.                           *)
LEMMA ListedAsIs ==
  ASSUME TypeOK, NEW d \in Paths, disk[d] = Dir
  PROVE  /\ Opened(d) = {Dir}
         /\ \A l \in Listings(d) :
              /\ DOMAIN l = {k \in Kids(d) : disk[k] # Absent}
              /\ DOMAIN l \subseteq Paths
              /\ \A q \in DOMAIN l : /\ l[q] = disk[q].type /\ l[q] \in Types
                                     /\ disk[q] \in Node
<1>1. Dir # Absent /\ Dir \notin Links
  BY DEF Dir, Absent, Links
<1>2. Opened(d) = {Dir} /\ ~ByLink(d)
  BY <1>1, FoundAsIs
<1> QED
  BY <1>2, ListingsOfKids DEF TypeOK, IsTree, Types

(* Packing finds what was listed, and lists all there is.                  *)
LEMMA PackUndisturbed ==
  ASSUME TypeOK, CheckInv, Undisturbed, NEW p \in Paths, NEW type \in Types,
         Pack(p, type)
  PROVE  /\ pc' # "failed" /\ late' = {}
         /\ ArchiveExact' /\ PendingExact' /\ PackReaches' /\ ListsExact'
<1>1. /\ pc = "pack" /\ <<p, type>> \in pending /\ pc' \in {"pack", "failed"}
      /\ UNCHANGED <<disk, stack, onDisk, files, late>>
  BY DEF Pack
<1>2. disk[p] # Absent /\ disk[p].type = type
  BY <1>1 DEF Undisturbed, PendingExact
<1>3. /\ disk[p] \in Node
      /\ (IF type = "link" THEN Lstat(p) ELSE Opened(p)) = {disk[p]}
  BY <1>2, FoundAsIs, NodeFacts
<1>4. \/ /\ type = "dir" /\ disk[p] = Dir
         /\ \E l \in Listings(p) :
              pending' = (pending \ {<<p, type>>})
                           \union {<<q, l[q]>> : q \in DOMAIN l}
         /\ archive' = Append(archive, [path |-> p, node |-> disk[p]])
         /\ UNCHANGED pc
      \/ /\ type # "dir"
         /\ pending' = pending \ {<<p, type>>}
         /\ archive' = Append(archive, [path |-> p, node |-> disk[p]])
         /\ UNCHANGED pc
      \/ /\ CASE type = "dir"  -> disk[p] # Dir
               [] type = "link" -> disk[p] \notin Links
               [] OTHER         -> disk[p] \in {Dir, Absent}
         /\ pc' = "failed"
  <2>1. Dir \notin Links
    BY DEF Dir, Links
  <2> QED
    BY <1>3, <2>1 DEF Pack
<1>5. ~CASE type = "dir"  -> disk[p] # Dir
         [] type = "link" -> disk[p] \notin Links
         [] OTHER         -> disk[p] \in {Dir, Absent}
  BY <1>2, <1>3, NodeFacts DEF Types
<1> DEFINE e == [path |-> p, node |-> disk[p]]
<1>6. pc' = "pack" /\ archive' = Append(archive, e)
  BY <1>1, <1>4, <1>5
<1>7. e \in Entry /\ archive \in Seq(Entry) /\ e.path = p /\ e.node = disk[p]
  BY <1>3 DEF Entry, TypeOK
<1> HIDE DEF e
<1>8. /\ Len(archive') = Len(archive) + 1 /\ Len(archive) \in Nat
      /\ archive'[Len(archive) + 1] = e
      /\ \A i \in 1 .. Len(archive) : archive'[i] = archive[i]
  BY <1>6, <1>7, AppendFacts
<1>9. \A i \in 1 .. Len(archive') : i \in 1 .. Len(archive) \/ i = Len(archive) + 1
  BY <1>8
<1>10. ArchiveExact'
  BY <1>1, <1>7, <1>8, <1>9 DEF ArchiveExact, Undisturbed, Checking
<1>11. Packed \subseteq Packed' /\ p \in Packed'
  <2>1. Entries \subseteq Entries' /\ e \in Entries'
    BY <1>8 DEF Entries
  <2> QED
    BY <1>7, <2>1 DEF Packed
<1>12. PendingExact' /\ PackReaches'
  <2>1. CASE type # "dir" /\ pending' = pending \ {<<p, type>>}
    <3>1. PendingExact'
      BY <1>1, <1>6, <2>1 DEF PendingExact, Undisturbed
    <3>2. ASSUME NEW q \in Paths, disk[q] # Absent
          PROVE  q \in Packed' \/ ToPack(q)'
      <4>1. q \in Packed \/ ToPack(q)
        BY <1>1, <3>2 DEF PackReaches, Undisturbed
      <4>2. q \notin Below[p]
        BY <1>2, <2>1, <3>2 DEF TypeOK, IsTree, Dir
      <4>3. CASE ToPack(q) /\ q # p
        <5>1. PICK r \in Paths, t \in Types :
                <<r, t>> \in pending /\ (q = r \/ q \in Below[r])
          BY <4>3 DEF ToPack
        <5>2. r # p
          BY <4>2, <4>3, <5>1
        <5> QED
          BY <2>1, <5>1, <5>2 DEF ToPack
      <4> QED
        BY <1>11, <4>1, <4>3
    <3> QED
      BY <1>1, <1>6, <3>1, <3>2 DEF PackReaches
  <2>2. ASSUME disk[p] = Dir, NEW l \in Listings(p),
               pending' = (pending \ {<<p, type>>})
                            \union {<<q, l[q]>> : q \in DOMAIN l}
        PROVE  PendingExact' /\ PackReaches'
    <3>0. /\ DOMAIN l = {k \in Kids(p) : disk[k] # Absent}
          /\ DOMAIN l \subseteq Paths
          /\ \A q \in DOMAIN l : l[q] = disk[q].type /\ l[q] \in Types
      BY <2>2, ListedAsIs
    <3>1. PendingExact'
      BY <1>1, <1>6, <2>2, <3>0 DEF PendingExact, Undisturbed
    <3>2. ASSUME NEW q \in Paths, disk[q] # Absent
          PROVE  q \in Packed' \/ ToPack(q)'
      <4>1. q \in Packed \/ ToPack(q)
        BY <1>1, <3>2 DEF PackReaches, Undisturbed
      <4>2. CASE q \in Below[p]
        <5>1. PICK k \in Kids(p) : q = k \/ q \in Below[k]
          BY <4>2, ReadBackAssumption
        <5>2. disk[k] # Absent /\ k \in Paths
          BY <3>2, <5>1 DEF TypeOK, IsTree, Dir, Absent, Kids
        <5>3. <<k, l[k]>> \in pending' /\ l[k] \in Types
          BY <2>2, <3>0, <5>1, <5>2
        <5> QED
          BY <5>1, <5>2, <5>3 DEF ToPack
      <4>3. CASE ToPack(q) /\ q # p /\ q \notin Below[p]
        <5>1. PICK r \in Paths, t \in Types :
                <<r, t>> \in pending /\ (q = r \/ q \in Below[r])
          BY <4>3 DEF ToPack
        <5>2. r # p
          BY <4>3, <5>1
        <5> QED
          BY <2>2, <5>1, <5>2 DEF ToPack
      <4> QED
        BY <1>11, <4>1, <4>2, <4>3
    <3> QED
      BY <1>1, <1>6, <3>1, <3>2 DEF PackReaches
  <2> QED
    BY <1>4, <1>6, <2>1, <2>2
<1> QED
  BY <1>1, <1>6, <1>10, <1>12 DEF Undisturbed, ListsExact

(* Comparing finds every entry equal.                                      *)
LEMMA CompareUndisturbed ==
  ASSUME TypeOK, CheckInv, Undisturbed, Compare
  PROVE  pc' = pc
<1> DEFINE e == archive[at + 1]
<1>1. pc = "compare" /\ at + 1 \in 1 .. Len(archive)
  BY DEF Compare, TypeOK
<1>2. e \in Entry
  BY <1>1, ElementFacts DEF TypeOK
<1>3. e.path \in Paths /\ e.node = disk[e.path] /\ e.node # Absent
  BY <1>1, <1>2 DEF Undisturbed, ArchiveExact, CheckInv, PackedExisted, Checking,
     Entry
<1>4. (IF e.node \in Links THEN Lstat(e.path) ELSE Opened(e.path)) = {e.node}
  BY <1>3, FoundAsIs
<1>5. Matches(e.node, e.node)
  BY DEF Matches
<1> QED
  BY <1>4, <1>5 DEF Compare

(* Listing a directory finds it, and everything in it as it is.            *)
LEMMA ListUndisturbed ==
  ASSUME TypeOK, Undisturbed, NEW d \in Paths, UNCHANGED <<disk, late>>,
         Count(d) \/ Walk(d)
  PROVE  pc' = pc /\ ListsExact'
<1>1. d \in stack /\ pc \in {"count", "walk"}
  BY DEF Count, Walk, ListNext
<1>2. disk[d] = Dir
  BY <1>1 DEF Undisturbed, ListsExact
<1>3. PICK l \in Listings(d) :
        /\ stack' = (stack \ {d}) \union {q \in DOMAIN l : l[q] = "dir"}
        /\ CountListed(l) \/ CollectFiles(l)
        /\ pc = "count" => CountListed(l)
        /\ pc = "walk" => CollectFiles(l)
        /\ pc' = pc
  BY <1>2, ListedAsIs DEF Count, Walk, ListNext
<1>4. \A q \in DOMAIN l : /\ disk[q] \in Node /\ disk[q] # Absent
                          /\ l[q] = disk[q].type
  BY <1>2, ListedAsIs
<1>5. \A q \in DOMAIN l : /\ l[q] = "dir" => disk[q] = Dir
                          /\ l[q] # "dir" => NotDir(disk[q])
                          /\ l[q] = "file" => disk[q] \in Files
  BY <1>4, NodeFacts
<1> QED
  BY <1>1, <1>3, <1>5 DEF Undisturbed, ListsExact, CountListed, CollectFiles

(* The counts agree.                                                       *)
LEMMA VerdictUndisturbed ==
  ASSUME TypeOK, CheckInv, Undisturbed, Verdict
  PROVE  pc' # "failed"
<1>1. pc = "count" /\ stack = {} /\ at = Len(archive)
  BY DEF Verdict, CheckInv, Stages
<1>2. ASSUME NEW p \in onDisk PROVE p \in seen
  <2>1. p \in Paths /\ NotDir(disk[p])
    BY <1>1, <1>2 DEF TypeOK, Undisturbed, ListsExact, Checking
  <2>2. disk[p] # Absent /\ disk[p] # Dir
    BY <2>1 DEF NotDir, Absent, Dir
  <2>3. PICK i \in 1 .. Len(archive) : archive[i].path = p
    BY <1>1, <2>1, <2>2 DEF Undisturbed, PackReaches, Packed, Entries
  <2> QED
    BY <1>1, <2>2, <2>3 DEF Undisturbed, ArchiveExact, CheckInv, SeenCompared, Checking
<1>3. ASSUME NEW p \in seen PROVE p \in onDisk
  <2>1. PICK i \in 1 .. Len(archive) : archive[i].node # Dir /\ archive[i].path = p
    BY <1>1, <1>3 DEF CheckInv, SeenCompared
  <2>2. archive[i].node \in Node /\ archive[i].node # Absent /\ p \in Paths
    <3>1. archive[i] \in Entry
      BY <2>1, ElementFacts DEF TypeOK
    <3> QED
      BY <2>1, <3>1 DEF Entry, CheckInv, PackedExisted
  <2>3. NotDir(disk[p])
    BY <1>1, <2>1, <2>2, NodeFacts DEF Undisturbed, ArchiveExact, Checking
  <2> QED
    BY <1>1, <2>2, <2>3 DEF CheckInv, CountReaches, Owed, Reached, Undisturbed
<1>4. seen = onDisk
  BY <1>2, <1>3
<1> QED
  BY <1>4 DEF Verdict, SameCount

(* What is to be shredded opens as the file it is.                         *)
LEMMA ShredUndisturbed ==
  ASSUME TypeOK, Undisturbed, NEW p \in Paths, ShredFile(p)
  PROVE  pc' = pc /\ ListsExact'
<1>1. pc = "shred" /\ p \in files /\ disk[p] \in Files
  BY DEF ShredFile, Undisturbed, ListsExact
<1>2. disk[p] # Absent /\ disk[p] \notin Links /\ disk[p] \notin {Dir, Absent}
  BY <1>1 DEF Files, Links, Absent, Dir
<1>3. Opened(p) = {disk[p]} /\ ~ThroughLink(p)
  BY <1>2, FoundAsIs
<1>4. /\ pc' = pc /\ files' = files \ {p}
      /\ disk' = [disk EXCEPT ![p] = Absent]
  BY <1>2, <1>3 DEF ShredFile
<1> QED
  BY <1>1, <1>4 DEF Undisturbed, ListsExact, TypeOK, IsTree, Checking

(* A tree that nobody changes while it is packed and checked passes, and   *)
(* is removed to the end: the check refuses nothing that is equal.         *)
THEOREM NoFalseAlarm == Spec => []UndisturbedPasses
<1>1. Init => UndisturbedInv
  <2> SUFFICES ASSUME Init PROVE Undisturbed
    BY DEF UndisturbedInv
  <2>1. Len(archive) = 0 /\ archive = <<>> /\ disk[Root] = Dir /\ Root \in Paths
    BY ReadBackAssumption DEF Init
  <2>2. PendingExact
    BY <2>1 DEF Init, PendingExact, Dir, Absent
  <2>3. PackReaches
    BY <2>1, ReadBackAssumption DEF Init, PackReaches, ToPack, Types
  <2> QED
    BY <2>1, <2>2, <2>3 DEF Init, Undisturbed, ArchiveExact, ListsExact
<1>2. TypeOK /\ CheckInv /\ UndisturbedInv /\ [Next]_vars /\ TypeOK' /\ CheckInv'
        => UndisturbedInv'
  <2> SUFFICES ASSUME TypeOK, CheckInv, UndisturbedInv, [Next]_vars, TypeOK',
                      CheckInv', edits' = 0
               PROVE  Undisturbed'
    BY DEF UndisturbedInv
  <2>1. ASSUME NEW p \in Paths, NEW n \in Node, Edit(p, n) PROVE FALSE
    BY <2>1 DEF Edit, TypeOK
  <2>2. Undisturbed
    <3>1. edits = 0
      BY <2>1 DEF Next, Step, Pack, PackEnds, Compare, CompareEnds, Count, Verdict,
         Walk, WalkEnds, ShredFile, ShredEnds, Remove, RemoveFails, vars
    <3> QED
      BY <3>1 DEF UndisturbedInv
  <2>3. CASE UNCHANGED vars
    <3>1. UNCHANGED <<disk, pc, pending, archive, stack, onDisk, files, late, gone>>
      BY <2>3 DEF vars, progVars, histVars
    <3>2. PackReaches'
      BY <2>2, <3>1 DEF Undisturbed, PackReaches, Packed, Entries, ToPack
    <3> QED
      BY <2>2, <3>1, <3>2 DEF Undisturbed, ArchiveExact, PendingExact, ListsExact
  <2>4. SUFFICES ASSUME Step, Watch
                 PROVE  /\ pc' # "failed" /\ late' = {}
                        /\ ArchiveExact' /\ PendingExact' /\ PackReaches' /\ ListsExact'
    BY <2>1, <2>2, <2>3, NothingGone DEF Next, Undisturbed
  <2>5. ASSUME NEW p \in Paths, NEW type \in Types, Pack(p, type)
        PROVE  /\ pc' # "failed" /\ late' = {}
               /\ ArchiveExact' /\ PendingExact' /\ PackReaches' /\ ListsExact'
    BY <2>2, <2>5, PackUndisturbed
  \* The other steps leave the archive alone, and the disk until it is given up.
  <2>6. ASSUME UNCHANGED <<pending, archive, late>>, pc' # "failed", pc # "pack",
               pc' # "pack", pc' \in Checking => pc \in Checking /\ disk' = disk,
               pc' \in {"compare", "count"} => pc \in {"compare", "count"},
               ListsExact'
        PROVE  /\ pc' # "failed" /\ late' = {}
               /\ ArchiveExact' /\ PendingExact' /\ PackReaches' /\ ListsExact'
    BY <2>2, <2>6 DEF Undisturbed, ArchiveExact, PendingExact, PackReaches, Packed,
       Entries, Checking
  <2>7. CASE PackEnds
    <3>1. /\ pc = "pack" /\ pc' = "compare" /\ pending = {}
          /\ UNCHANGED <<disk, archive, late, onDisk>>
      BY <2>7 DEF PackEnds
    <3> QED
      BY <2>2, <3>1 DEF Undisturbed, ArchiveExact, PendingExact, PackReaches, ToPack,
         Packed, Entries, ListsExact, Checking
  <2>8. CASE Compare
    <3>1. pc' = pc /\ pc = "compare"
          /\ UNCHANGED <<disk, pending, archive, late, onDisk>>
      BY <2>2, <2>8, CompareUndisturbed DEF Compare
    <3> QED
      BY <2>2, <2>6, <3>1 DEF Compare, Undisturbed, ListsExact, Checking
  <2>9. CASE CompareEnds
    <3>1. /\ pc = "compare" /\ pc' = "count" /\ stack' = {Root}
          /\ UNCHANGED <<disk, pending, archive, late, onDisk>>
      BY <2>9 DEF CompareEnds
    <3>2. disk[Root] = Dir
      BY <3>1 DEF CheckInv, Stages, Checking
    <3> QED
      BY <2>2, <2>6, <3>1, <3>2 DEF Undisturbed, ListsExact, Checking
  <2>10. ASSUME NEW d \in Paths, Count(d) \/ Walk(d)
         PROVE  /\ pc' # "failed" /\ late' = {}
                /\ ArchiveExact' /\ PendingExact' /\ PackReaches' /\ ListsExact'
    <3>1. UNCHANGED <<disk, pending, archive, late>> /\ pc \in {"count", "walk"}
      BY <2>10 DEF Count, Walk
    <3>2. pc' = pc /\ ListsExact'
      BY <2>2, <2>10, <3>1, ListUndisturbed
    <3> QED
      BY <2>6, <3>1, <3>2 DEF Checking
  <2>11. CASE Verdict
    <3>1. /\ pc' \in {"walk", "remove"}
          /\ UNCHANGED <<disk, pending, archive, late, files>>
          /\ pc' = "walk" => stack' = {Root}
          /\ pc = "count"
      BY <2>2, <2>11, VerdictUndisturbed DEF Verdict
    <3>2. disk[Root] = Dir /\ files = {}
      BY <3>1 DEF CheckInv, Stages, Checking
    <3> QED
      BY <2>6, <3>1, <3>2 DEF ListsExact, Checking
  <2>12. CASE WalkEnds \/ ShredEnds
    <3>1. /\ UNCHANGED <<disk, pending, archive, late, files>>
          /\ \/ pc = "walk" /\ pc' = "shred"
             \/ pc = "shred" /\ pc' = "remove"
      BY <2>12 DEF WalkEnds, ShredEnds
    <3> QED
      BY <2>2, <2>6, <3>1 DEF Undisturbed, ListsExact, Checking
  <2>13. ASSUME NEW p \in Paths, ShredFile(p)
         PROVE  /\ pc' # "failed" /\ late' = {}
                /\ ArchiveExact' /\ PendingExact' /\ PackReaches' /\ ListsExact'
    <3>1. UNCHANGED <<pending, archive, late>> /\ pc = "shred"
      BY <2>13 DEF ShredFile
    <3> QED
      BY <2>2, <2>6, <2>13, <3>1, ShredUndisturbed DEF Checking
  <2>14. ASSUME NEW p \in Paths, Remove(p)
         PROVE  /\ pc' # "failed" /\ late' = {}
                /\ ArchiveExact' /\ PendingExact' /\ PackReaches' /\ ListsExact'
    <3>1. UNCHANGED <<pending, archive, late>> /\ pc = "remove" /\ pc' \in {"remove", "done"}
      BY <2>14 DEF Remove
    <3> QED
      BY <2>6, <3>1 DEF ListsExact, Checking
  <2>15. ~RemoveFails
    BY <2>2 DEF RemoveFails, Undisturbed
  <2> QED
    BY <2>4, <2>5, <2>7, <2>8, <2>9, <2>10, <2>11, <2>12, <2>13, <2>14, <2>15
       DEF Step, Types
<1>3. UndisturbedInv => UndisturbedPasses
  BY DEF UndisturbedInv, Undisturbed, UndisturbedPasses
<1> QED
  BY <1>1, <1>2, <1>3, TypeCorrect, CheckInvariant, PTL DEF Spec

=============================================================================
