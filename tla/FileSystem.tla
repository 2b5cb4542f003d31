----------------------------- MODULE FileSystem -----------------------------
(***************************************************************************)
(* The file system as the program relies on it: names in directories that  *)
(* lead to inodes, and what of both a crash may leave behind.  It is not   *)
(* part of the repository; it is modelled from the calls in ops.rs         *)
(* (create_new, rename, remove_file, remove_dir_all, sync_all on files and *)
(* on directories).                                                        *)
(*                                                                         *)
(* Durability.  Changes of one directory reach the disk in order and each  *)
(* as a whole, so a crash leaves some state the directory has had since it *)
(* was last synced.  Two directories are independent.  What was written to *)
(* an inode is certain only once the inode is synced.                      *)
(***************************************************************************)
EXTENDS Integers, FiniteSets

CONSTANTS
  Dirs,       \* directories
  Names,      \* file names
  Inodes,     \* files and whole directory trees
  Contents    \* what an inode may hold

None == -1

ASSUME InodesAssumption == None \notin Inodes

VARIABLES
  entry,      \* the inode each path leads to, or None
  content,    \* what each inode holds
  saved,      \* what each inode may hold after a crash
  onDisk      \* the states each directory may be in after a crash

fsVars == <<entry, content, saved, onDisk>>

Path == Dirs \X Names

Exists(p) == entry[p] # None

\* The names of directory d when the paths lead where e says.
Listing(e, d) == [n \in Names |-> e[<<d, n>>]]

FsTypeOK ==
  /\ entry \in [Path -> Inodes \union {None}]
  /\ content \in [Inodes -> Contents]
  /\ saved \in [Inodes -> SUBSET Contents]
  /\ onDisk \in [Dirs -> SUBSET [Names -> Inodes \union {None}]]

\* All there is at the start is on disk.
FsInit(e, c) ==
  /\ entry = e
  /\ content = c
  /\ saved = [i \in Inodes |-> {c[i]}]
  /\ onDisk = [d \in Dirs |-> {Listing(e, d)}]

-----------------------------------------------------------------------------
(* Changes of names.  Each touches one directory and keeps the inodes.     *)

ChangeNames(d, e) ==
  /\ entry' = e
  /\ onDisk' = [onDisk EXCEPT ![d] = @ \union {Listing(e, d)}]

Unlink(p) == ChangeNames(p[1], [entry EXCEPT ![p] = None])

\* p and q lie in one directory.
Rename(p, q) ==
  ChangeNames(q[1], [entry EXCEPT ![p] = None, ![q] = entry[p]])

SyncDir(d) ==
  /\ onDisk' = [onDisk EXCEPT ![d] = {Listing(entry, d)}]
  /\ UNCHANGED entry

(* Changes of what an inode holds *)

Write(i, c) ==
  /\ content' = [content EXCEPT ![i] = c]
  /\ saved' = [saved EXCEPT ![i] = @ \union {c}]

WriteSynced(i, c) ==
  /\ content' = [content EXCEPT ![i] = c]
  /\ saved' = [saved EXCEPT ![i] = {c}]

\* A new file or directory i at p.
Create(p, i, c) ==
  /\ ChangeNames(p[1], [entry EXCEPT ![p] = i])
  /\ WriteSynced(i, c)

-----------------------------------------------------------------------------

\* Every directory falls back to a state it may have on disk, every inode to
\* something it may hold there.
FsCrash ==
  /\ \E s \in [Dirs -> UNION {onDisk[d] : d \in Dirs}] :
       /\ \A d \in Dirs : s[d] \in onDisk[d]
       /\ entry' = [p \in Path |-> s[p[1]][p[2]]]
       /\ onDisk' = [d \in Dirs |-> {s[d]}]
  /\ LET Unsure == {i \in Inodes : saved[i] # {content[i]}}
     IN \E c \in [Unsure -> UNION {saved[i] : i \in Unsure}] :
          /\ \A i \in Unsure : c[i] \in saved[i]
          /\ content' = [i \in Inodes |->
                           IF i \in Unsure THEN c[i] ELSE content[i]]
  /\ saved' = [i \in Inodes |-> {content'[i]}]

=============================================================================
