------------------------------ MODULE ReadBack ------------------------------
(***************************************************************************)
(* A directory on its way into a container and off the disk: it is packed  *)
(* entry by entry, every entry of the archive is then held against the     *)
(* disk, the entries of both are counted, and the tree is removed.  The    *)
(* user goes on working in the tree meanwhile.                             *)
(*                                                                         *)
(* Abstractions.  A file is its contents, a symlink the text of its        *)
(* target.  Where a link leads is unknown: whatever is looked up through   *)
(* one may turn out to be anything.  Listing one directory is a step, so   *)
(* is reading or comparing one file.  Failures of the disk are module      *)
(* Ops's; here a step fails because of what it finds.                      *)
(***************************************************************************)
EXTENDS Integers, Sequences, FiniteSets

CONSTANTS
  Paths,       \* the directory and every path below it that is ever used
  Root,        \* the directory
  Parent,      \* of each path
  Below,       \* the paths below each path
  Contents,    \* what a file may hold
  Targets,     \* what a symlink may say
  StartTrees,  \* what the disk may hold in the beginning
  Shred,       \* whether --shred may be given
  MaxEdits     \* bound: changes the user makes

Dir    == [type |-> "dir", what |-> "-"]
Fifo   == [type |-> "fifo", what |-> "-"]
Absent == [type |-> "none", what |-> "-"]
Files  == [type : {"file"}, what : Contents]
Links  == [type : {"link"}, what : Targets]
Node   == Files \union Links \union {Dir, Fifo, Absent}

\* What the archive is made of.
Entry == [path : Paths, node : Node]

NotDir(n) == n.type \in {"file", "link", "fifo"}

\* What is there lies in a directory, and all above it are directories.
IsTree(d) ==
  /\ d \in [Paths -> Node]
  /\ \A p \in Paths : \A q \in Below[p] : d[q] # Absent => d[p] = Dir

\* The entries a directory may have.
Kids(d) == {p \in Paths \ {Root} : Parent[p] = d}

\* Below goes with Parent, seen from above and from below.
ASSUME ReadBackAssumption ==
  /\ IsFiniteSet(Paths)
  /\ Root \in Paths
  /\ Parent \in [Paths -> Paths]
  /\ Below \in [Paths -> SUBSET (Paths \ {Root})]
  /\ \A p \in Paths :
       /\ p \notin Below[p]
       /\ p # Root => p \in Below[Root]
       /\ Below[p] = Kids(p) \union UNION {Below[k] : k \in Kids(p)}
       /\ \A q \in Below[p] :
            /\ Below[q] \subseteq Below[p]
            /\ Parent[q] = p \/ Parent[q] \in Below[p]
  /\ \A d \in StartTrees : IsTree(d) /\ d[Root] = Dir
  /\ Shred \subseteq BOOLEAN
  /\ MaxEdits \in Nat

VARIABLES
  disk,      \* what lies at each path
  pc,        \* what the run is doing
  pending,   \* tar: the entries listed and not yet packed, with their types
  archive,   \* the entries of the archive
  at,        \* verify_directory: how many of them it has compared
  seen,      \* the paths it has counted among them
  stack,     \* the directories still to be listed
  onDisk,    \* the paths count_entries has counted
  files,     \* the files shred has still to overwrite
  outside,   \* what lies elsewhere: "intact" or "overwritten"
  edits,     \* the changes made so far
  late,      \* history: the paths changed after they had been looked at
  gone,      \* history: something packed went from its place before the end
             \* of the check
  swapped    \* history: a link took the place of something shred had listed

progVars == <<pc, pending, archive, at, seen, stack, onDisk, files, outside>>
histVars == <<late, gone, swapped>>
vars == <<disk, progVars, edits, histVars>>

-----------------------------------------------------------------------------
(* Looking things up *)

ThroughLink(p) == \E l \in Paths : disk[l].type = "link" /\ p \in Below[l]
ByLink(p) == disk[p].type = "link" \/ ThroughLink(p)

\* What lstat, read_link and the like find at p, and what open, stat and
\* is_dir find, which follow links.
Lstat(p)  == IF ThroughLink(p) THEN Node ELSE {disk[p]}
Opened(p) == IF ByLink(p) THEN Node \ Links ELSE {disk[p]}

\* The listings read_dir may give of the directory at p: names with types.
Listings(p) ==
  IF ByLink(p)
    THEN UNION {[S -> {"dir", "link", "file", "fifo"}] : S \in SUBSET Kids(p)}
    ELSE {[q \in {k \in Kids(p) : disk[k] # Absent} |-> disk[q].type]}

Entries == {archive[i] : i \in 1 .. Len(archive)}
Packed  == {e.path : e \in Entries}

Running == {"pack", "compare", "count", "walk", "shred", "remove"}

Init ==
  /\ disk \in StartTrees
  /\ pc = "pack"
  /\ pending = {<<Root, "dir">>}
  /\ archive = <<>>
  /\ at = 0
  /\ seen = {} /\ stack = {} /\ onDisk = {} /\ files = {}
  /\ outside = "intact"
  /\ edits = 0
  /\ late = {} /\ gone = FALSE /\ swapped = FALSE

-----------------------------------------------------------------------------
(* Packing *)

\* append_dir_all takes up one entry it has listed.  Links are not followed,
\* but what was listed as a file or directory is opened.
Pack(p, type) ==
  /\ pc = "pack"
  /\ <<p, type>> \in pending
  /\ \E n \in (IF type = "link" THEN Lstat(p) ELSE Opened(p)) :
       \/ /\ type = "dir" /\ n = Dir
          /\ \E l \in Listings(p) :
               pending' = (pending \ {<<p, type>>})
                            \union {<<q, l[q]>> : q \in DOMAIN l}
          /\ archive' = Append(archive, [path |-> p, node |-> n])
          /\ UNCHANGED pc
       \/ /\ IF type = "link" THEN n \in Links
                              ELSE type # "dir" /\ n \in Files \union {Fifo}
          /\ pending' = pending \ {<<p, type>>}
          /\ archive' = Append(archive, [path |-> p, node |-> n])
          /\ UNCHANGED pc
       \/ /\ CASE type = "dir"  -> n # Dir
               [] type = "link" -> n \notin Links
               [] OTHER         -> n \in {Dir, Absent}
          /\ pc' = "failed"
          /\ UNCHANGED <<pending, archive>>
  /\ UNCHANGED <<disk, at, seen, stack, onDisk, files, outside, edits, late, swapped>>

\* The container is complete, and read back.
PackEnds ==
  /\ pc = "pack"
  /\ pending = {}
  /\ pc' = "compare"
  /\ UNCHANGED <<disk, pending, archive, at, seen, stack, onDisk, files,
                 outside, edits, late, swapped>>

-----------------------------------------------------------------------------
(* verify_directory *)

\* What makes an entry pass.
Matches(packed, n) == IF packed = Dir THEN n = Dir ELSE n = packed

\* One entry of the archive.  Opening a FIFO waits for somebody to write.
Compare ==
  /\ pc = "compare"
  /\ at < Len(archive)
  /\ LET e == archive[at + 1]
     IN \E n \in (IF e.node \in Links THEN Lstat(e.path) ELSE Opened(e.path)) :
          /\ n = Fifo => e.node \in Links \union {Dir}
          /\ \/ /\ Matches(e.node, n)
                /\ at' = at + 1
                /\ seen' = IF e.node = Dir THEN seen ELSE seen \union {e.path}
                /\ UNCHANGED pc
             \/ /\ ~Matches(e.node, n)
                /\ pc' = "failed"
                /\ UNCHANGED <<at, seen>>
  /\ UNCHANGED <<disk, pending, archive, stack, onDisk, files, outside, edits,
                 late, swapped>>

CompareEnds ==
  /\ pc = "compare"
  /\ at = Len(archive)
  /\ pc' = "count"
  /\ stack' = {Root}
  /\ UNCHANGED <<disk, pending, archive, at, seen, onDisk, files, outside,
                 edits, late, swapped>>

\* A directory is taken off the stack and listed, or cannot be.
ListNext(d, Visit(_)) ==
  /\ d \in stack
  /\ \E n \in Opened(d) :
       \/ /\ n = Dir
          /\ \E l \in Listings(d) :
               /\ stack' = (stack \ {d}) \union {q \in DOMAIN l : l[q] = "dir"}
               /\ Visit(l)
          /\ UNCHANGED pc
       \/ /\ n # Dir
          /\ pc' = "failed"
          /\ UNCHANGED <<stack, onDisk, files>>

\* Mutant: directories count as well.
CountEverything(l) ==
  /\ onDisk' = onDisk \union DOMAIN l
  /\ UNCHANGED files

\* Everything that is not a directory, so symlinks count as themselves.
CountListed(l) ==
  /\ onDisk' = onDisk \union {q \in DOMAIN l : l[q] # "dir"}
  /\ UNCHANGED files

\* count_entries, one directory.
Count(d) ==
  /\ pc = "count"
  /\ ListNext(d, CountListed)
  /\ UNCHANGED <<disk, pending, archive, at, seen, outside, edits, late, swapped>>

\* Mutant: only what is in the archive is looked at.
SameCountAlways == TRUE

SameCount == Cardinality(seen) = Cardinality(onDisk)

\* Mutant: when the counts differ they are made again.
VerdictCountsAgain ==
  /\ pc = "count"
  /\ stack = {}
  /\ SameCount
  /\ \/ TRUE \in Shred /\ pc' = "walk" /\ stack' = {Root}
     \/ FALSE \in Shred /\ pc' = "remove" /\ UNCHANGED stack
  /\ UNCHANGED <<disk, pending, archive, at, seen, onDisk, files, outside,
                 edits, late, swapped>>

\* The counts agree, or the source is kept.
Verdict ==
  /\ pc = "count"
  /\ stack = {}
  /\ \/ SameCount /\ TRUE \in Shred /\ pc' = "walk" /\ stack' = {Root}
     \/ SameCount /\ FALSE \in Shred /\ pc' = "remove" /\ UNCHANGED stack
     \/ ~SameCount /\ pc' = "failed" /\ UNCHANGED stack
  /\ UNCHANGED <<disk, pending, archive, at, seen, onDisk, files, outside,
                 edits, late, swapped>>

-----------------------------------------------------------------------------
(* The source goes *)

\* Mutant: whether it is a file is asked of what a link leads to.
CollectFilesFollowing(l) ==
  /\ files' = files \union {q \in DOMAIN l : l[q] \in {"file", "link"}}
  /\ UNCHANGED onDisk

\* walkdir_files: only what is a file itself.
CollectFiles(l) ==
  /\ files' = files \union {q \in DOMAIN l : l[q] = "file"}
  /\ UNCHANGED onDisk

Walk(d) ==
  /\ pc = "walk"
  /\ ListNext(d, CollectFiles)
  /\ UNCHANGED <<disk, pending, archive, at, seen, outside, edits, late, swapped>>

WalkEnds ==
  /\ pc = "walk"
  /\ stack = {}
  /\ pc' = "shred"
  /\ UNCHANGED <<disk, pending, archive, at, seen, stack, onDisk, files,
                 outside, edits, late, swapped>>

\* shred_file opens the path, which follows links, overwrites what it finds
\* and removes the path.
ShredFile(p) ==
  /\ pc = "shred"
  /\ p \in files
  /\ \E n \in Opened(p) :
       \/ /\ n \in Files
          /\ files' = files \ {p}
          /\ outside' = IF ByLink(p) THEN "overwritten" ELSE outside
          /\ disk' = IF ThroughLink(p) THEN disk ELSE [disk EXCEPT ![p] = Absent]
          /\ UNCHANGED pc
       \/ /\ n \in {Dir, Absent}
          /\ pc' = "failed"
          /\ UNCHANGED <<disk, files, outside>>
  /\ UNCHANGED <<pending, archive, at, seen, stack, onDisk, edits, late, swapped>>

ShredEnds ==
  /\ pc = "shred"
  /\ files = {}
  /\ pc' = "remove"
  /\ UNCHANGED <<disk, pending, archive, at, seen, stack, onDisk, files,
                 outside, edits, late, swapped>>

\* Mutant: a directory goes before what is in it.
RemoveFromTheTop(p) ==
  /\ pc = "remove"
  /\ disk[p] # Absent
  /\ disk' = [disk EXCEPT ![p] = Absent]
  /\ pc' = IF p = Root THEN "done" ELSE pc
  /\ UNCHANGED <<pending, archive, at, seen, stack, onDisk, files, outside,
                 edits, late, swapped>>

\* remove_dir_all takes one thing that has nothing in it, links as such.
Remove(p) ==
  /\ pc = "remove"
  /\ disk[p] # Absent
  /\ \A q \in Kids(p) : disk[q] = Absent
  /\ disk' = [disk EXCEPT ![p] = Absent]
  /\ pc' = IF p = Root THEN "done" ELSE pc
  /\ UNCHANGED <<pending, archive, at, seen, stack, onDisk, files, outside,
                 edits, late, swapped>>

\* A directory that was emptied has something in it again.
RemoveFails ==
  /\ pc = "remove"
  /\ late # {}
  /\ pc' = "failed"
  /\ UNCHANGED <<disk, pending, archive, at, seen, stack, onDisk, files,
                 outside, edits, late, swapped>>

-----------------------------------------------------------------------------
(* The user *)

\* The check has compared p, or counted the directory p lies in.
Looked(p) ==
  \/ \E i \in 1 .. at : archive[i].path = p
  \/ /\ p \notin Packed
     /\ pc \notin {"pack", "compare"}
     /\ ~(pc = "count" /\ \E d \in stack : p \in Below[d])

\* What shred knows of the tree and has still to open.
Listed == files \union (IF pc = "walk" THEN stack ELSE {})

\* Something is created at p, changed, or removed with all below it.
Edit(p, n) ==
  /\ pc \in Running
  /\ edits < MaxEdits
  /\ edits' = edits + 1
  /\ p # Root
  /\ disk[Parent[p]] = Dir
  /\ n # disk[p]
  /\ disk' = [q \in Paths |-> IF q = p THEN n
                              ELSE IF q \in Below[p] THEN Absent ELSE disk[q]]
  /\ late' = IF Looked(p) THEN late \union {p} ELSE late
  /\ swapped' = (swapped \/ (n \in Links /\ \E f \in Listed : f = p \/ f \in Below[p]))
  /\ UNCHANGED progVars

-----------------------------------------------------------------------------

\* Something was packed that does not, or no longer, lie at its place.
Missing == \E e \in Entries : e.node # Dir /\ ~NotDir(disk[e.path])

Step ==
  \/ \E p \in Paths : \E type \in {"dir", "link", "file", "fifo"} : Pack(p, type)
  \/ PackEnds
  \/ Compare
  \/ CompareEnds
  \/ \E d \in Paths : Count(d)
  \/ Verdict
  \/ \E d \in Paths : Walk(d)
  \/ WalkEnds
  \/ \E p \in Paths : ShredFile(p)
  \/ ShredEnds
  \/ \E p \in Paths : Remove(p)
  \/ RemoveFails

\* Every step is watched, as long as the check is under way.
Watch == gone' = (gone \/ (pc' \in {"pack", "compare", "count"} /\ Missing'))

Next ==
  \/ Step /\ Watch
  \/ \E p \in Paths, n \in Node : Edit(p, n) /\ Watch

\* The run waits for nobody, but where it opens a FIFO.
Spec == Init /\ [][Next]_vars /\ WF_vars(Step /\ Watch)

-----------------------------------------------------------------------------
(* Properties *)

TypeOK ==
  /\ IsTree(disk)
  /\ pc \in Running \union {"done", "failed"}
  /\ pending \subseteq Paths \X {"dir", "link", "file", "fifo"}
  /\ archive \in Seq(Entry)
  /\ at \in 0 .. Len(archive)
  /\ seen \subseteq Paths /\ stack \subseteq Paths
  /\ onDisk \subseteq Paths /\ files \subseteq Paths
  /\ outside \in {"intact", "overwritten"}
  /\ edits \in 0 .. MaxEdits
  /\ late \subseteq Paths
  /\ gone \in BOOLEAN /\ swapped \in BOOLEAN

\* The archive has what lies at p.  A link that has taken a file's place
\* counts as what it leads to: the file was compared through it.
Saved(p) ==
  \E e \in Entries :
    /\ e.path = p
    /\ \/ e.node = disk[p]
       \/ disk[p] \in Links /\ e.node \in Files

(* ops.rs: "Nothing is deleted on the strength of a weaker check."  When   *)
(* the removal has begun, whatever is not a directory and still there is   *)
(* in the archive as it is, or was changed after the check had looked at   *)
(* it.  The one way around is that something already packed goes while the *)
(* check is under way, which makes up for a file that was never packed.    *)
RemovedIsSaved ==
  pc \in {"walk", "shred", "remove"} /\ ~gone =>
    \A p \in Paths : NotDir(disk[p]) /\ p \notin late => Saved(p)

(* The check finds no difference where there is none: entries are counted  *)
(* alike in the archive and on disk, whatever the tree is made of.         *)
UndisturbedPasses == edits = 0 => pc # "failed"

(* Removing a tree touches nothing outside of it: links in it are not      *)
(* followed, unless the user makes one of what was listed already.         *)
OutsideIntact == swapped \/ outside = "intact"

NoFifo == \A p \in Paths : disk[p] # Fifo

(* The run comes to its end while no FIFO lies in the tree, however the    *)
(* user changes it.                                                        *)
RunEnds == []NoFifo => <>(pc \in {"done", "failed"})

=============================================================================
