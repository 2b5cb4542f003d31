----------------------------- MODULE OpsProofs ------------------------------
(***************************************************************************)
(* Proofs about encrypting and decrypting, for any commands, paths, names  *)
(* and any number of runs, edits and crashes: the types, that no half      *)
(* written file ever has a name of its own, that a run that ends leaves no *)
(* scratch file, that -k and --no-verify keep the input, and that without  *)
(* -f nothing is overwritten.                                              *)
(***************************************************************************)
EXTENDS Ops, SequenceTheorems, TLAPS

-----------------------------------------------------------------------------
(* Inodes, names and contents *)

(* Scratch files are inodes of their own, and None is not one of them.     *)
LEMMA InodeFacts ==
  /\ None \notin Inodes
  /\ DataInode \in Inodes /\ StrayInode \in Inodes
  /\ \A r \in Runs : r \in Inodes /\ r # DataInode /\ r # StrayInode
BY OpsAssumption, InodesAssumption DEF None, DataInode, StrayInode, Runs

(* A path is the user's or that of a scratch file.                         *)
LEMMA PathFacts ==
  /\ \A p \in UserPath : /\ p \in Path /\ p[1] \in Dirs /\ p[2] \in UserNames
                         /\ p = <<p[1], p[2]>>
  /\ \A p \in Path : /\ p[1] \in Dirs /\ p[2] \in Names /\ p = <<p[1], p[2]>>
                     /\ p \in UserPath \/ \E r \in Runs : p[2] = ScratchName[r]
  /\ \A d \in Dirs, r \in Runs : <<d, ScratchName[r]>> \in Path \ UserPath
  /\ \A r \in Runs : ScratchName[r] \in Names \ UserNames
BY OpsAssumption DEF UserPath, UserNames, Scratches, Path

(* What is made from scratch is something a file may hold.                 *)
LEMMA PlainType ==
  ASSUME NEW kind \in {"file", "dir"}, NEW data \in -3 .. MaxEdits + 1
  PROVE  Plain(kind, data) \in Contents
<1>1. <<>> \in [1 .. 0 -> Layer]
  BY EmptySeq, LenProperties
<1>2. <<>> \in Layers
  <2>1. 0 \in 0 .. MaxLayers
    BY OpsAssumption
  <2> QED
    BY <1>1, <2>1 DEF Layers
<1> QED
  BY <1>2, OpsAssumption DEF Plain, OpsContents

(* A layer more, and a layer less.                                         *)
LEMMA SealedType ==
  ASSUME NEW c \in Contents, Len(c.layers) < MaxLayers,
         NEW r \in Runs, NEW n \in UserNames
  PROVE  Sealed(c, r, n) \in Contents
<1>1. PICK k \in 0 .. MaxLayers : c.layers \in [1 .. k -> Layer]
  BY OpsAssumption DEF OpsContents, Layers
<1>2. /\ c.layers \in Seq(Layer) /\ Len(c.layers) = k
  BY <1>1
<1> DEFINE l == [dek |-> r, name |-> n]
<1>3. l \in Layer
  BY DEF Layer
<1>4. <<l>> \o c.layers \in [1 .. k + 1 -> Layer]
  <2>1. <<l>> \in Seq(Layer) /\ Len(<<l>>) = 1
    BY <1>3
  <2>2. <<l>> \o c.layers \in Seq(Layer) /\ Len(<<l>> \o c.layers) = k + 1
    BY <1>2, <2>1, ConcatProperties
  <2> QED
    BY <2>2, LenProperties
<1>5. <<l>> \o c.layers \in Layers
  BY <1>2, <1>4, OpsAssumption DEF Layers
<1> QED
  BY <1>5, OpsAssumption DEF Sealed, OpsContents

(* What is inside a container is something a file may hold.                *)
LEMMA InsideType ==
  ASSUME NEW c \in Contents, IsContainer(c)
  PROVE  /\ Inside(c) \in Contents /\ Inside(c).data = c.data
         /\ Inside(c).kind = c.kind
         /\ c.layers[1].name \in UserNames
<1>1. PICK k \in 0 .. MaxLayers : c.layers \in [1 .. k -> Layer]
  BY OpsAssumption DEF OpsContents, Layers
<1>2. /\ c.layers \in Seq(Layer) /\ Len(c.layers) = k /\ k > 0
  BY <1>1 DEF IsContainer
<1>3. Tail(c.layers) \in [1 .. k - 1 -> Layer]
  <2>1. Tail(c.layers) \in Seq(Layer) /\ Len(Tail(c.layers)) = k - 1
    BY <1>2, HeadTailProperties, EmptySeq
  <2> QED
    BY <2>1, LenProperties
<1>4. Tail(c.layers) \in Layers
  <2>1. k - 1 \in 0 .. MaxLayers
    BY <1>2, OpsAssumption
  <2> QED
    BY <1>3, <2>1 DEF Layers
<1>5. c.layers[1] \in Layer
  BY <1>1, <1>2
<1> QED
  BY <1>4, <1>5, OpsAssumption DEF Inside, OpsContents, Layer

-----------------------------------------------------------------------------
(* Types *)

EntryType == entry \in [Path -> Inodes \union {None}]
DiskType == onDisk \in [Dirs -> SUBSET [Names -> Inodes \union {None}]]

(* What the calls that change names leave is well typed.                   *)
LEMMA ChangeNamesType ==
  ASSUME FsTypeOK, NEW d \in Dirs, NEW e \in [Path -> Inodes \union {None}],
         ChangeNames(d, e)
  PROVE  EntryType' /\ DiskType'
<1>1. Listing(e, d) \in [Names -> Inodes \union {None}]
  BY DEF Listing, Path
<1> QED
  BY <1>1 DEF ChangeNames, FsTypeOK, EntryType, DiskType

(* Each of these calls.                                                    *)
LEMMA NamesType ==
  /\ \A p \in Path : FsTypeOK /\ Unlink(p) => EntryType' /\ DiskType'
  /\ \A p, q \in Path : FsTypeOK /\ Rename(p, q) => EntryType' /\ DiskType'
  /\ \A d \in Dirs : FsTypeOK /\ SyncDir(d) => EntryType' /\ DiskType'
  /\ FsTypeOK /\ UNCHANGED <<entry, onDisk>> => EntryType' /\ DiskType'
<1>1. ASSUME NEW p \in Path, FsTypeOK, Unlink(p)
      PROVE  EntryType' /\ DiskType'
  <2>1. [entry EXCEPT ![p] = None] \in [Path -> Inodes \union {None}]
    BY <1>1 DEF FsTypeOK
  <2> QED
    BY <1>1, <2>1, PathFacts, ChangeNamesType DEF Unlink
<1>2. ASSUME NEW p \in Path, NEW q \in Path, FsTypeOK, Rename(p, q)
      PROVE  EntryType' /\ DiskType'
  <2>1. [entry EXCEPT ![p] = None, ![q] = entry[p]]
          \in [Path -> Inodes \union {None}]
    BY <1>2 DEF FsTypeOK
  <2> QED
    BY <1>2, <2>1, PathFacts, ChangeNamesType DEF Rename
<1>3. ASSUME NEW d \in Dirs, FsTypeOK, SyncDir(d)
      PROVE  EntryType' /\ DiskType'
  <2>1. Listing(entry, d) \in [Names -> Inodes \union {None}]
    BY <1>3 DEF Listing, Path, FsTypeOK
  <2> QED
    BY <1>3, <2>1 DEF SyncDir, FsTypeOK, EntryType, DiskType
<1> QED
  BY <1>1, <1>2, <1>3 DEF FsTypeOK, EntryType, DiskType

InodeType == content \in [Inodes -> Contents] /\ saved \in [Inodes -> SUBSET Contents]

(* And of the calls that change what an inode holds.                       *)
LEMMA WriteType ==
  ASSUME FsTypeOK, NEW i \in Inodes, NEW c \in Contents,
         Write(i, c) \/ WriteSynced(i, c)
  PROVE  InodeType'
BY DEF Write, WriteSynced, FsTypeOK, InodeType

(* Creating a file keeps the types.                                        *)
LEMMA CreateType ==
  ASSUME FsTypeOK, NEW p \in Path, NEW i \in Inodes, NEW c \in Contents,
         Create(p, i, c)
  PROVE  FsTypeOK'
<1>1. [entry EXCEPT ![p] = i] \in [Path -> Inodes \union {None}]
  BY DEF FsTypeOK
<1>2. EntryType' /\ DiskType'
  BY <1>1, PathFacts, ChangeNamesType DEF Create
<1>3. InodeType'
  BY WriteType DEF Create
<1> QED
  BY <1>2, <1>3 DEF FsTypeOK, EntryType, DiskType, InodeType

(* So does a crash.                                                        *)
LEMMA CrashType ==
  ASSUME FsTypeOK, FsCrash
  PROVE  FsTypeOK'
<1>1. EntryType' /\ DiskType'
  <2>1. PICK s \in [Dirs -> UNION {onDisk[d] : d \in Dirs}] :
          /\ \A d \in Dirs : s[d] \in onDisk[d]
          /\ entry' = [p \in Path |-> s[p[1]][p[2]]]
          /\ onDisk' = [d \in Dirs |-> {s[d]}]
    BY DEF FsCrash
  <2>2. \A d \in Dirs : s[d] \in [Names -> Inodes \union {None}]
    BY <2>1 DEF FsTypeOK
  <2>3. \A p \in Path : s[p[1]][p[2]] \in Inodes \union {None}
    BY <2>2, PathFacts
  <2> QED
    BY <2>1, <2>2, <2>3 DEF EntryType, DiskType
<1>2. InodeType'
  <2>1. \A i \in Inodes : content'[i] \in Contents
    BY DEF FsCrash, FsTypeOK
  <2>2. content' \in [Inodes -> Contents]
    BY <2>1 DEF FsCrash
  <2> QED
    BY <2>1, <2>2 DEF FsCrash, InodeType
<1> QED
  BY <1>1, <1>2 DEF FsTypeOK, EntryType, DiskType, InodeType

(* A run's paths are in their places.                                      *)
LEMMA JobFacts ==
  ASSUME TypeOK, NEW r \in Runs
  PROVE  /\ In(r) \in UserPath /\ Out(r) \in UserPath
         /\ Tmp(r) \in Path \ UserPath
         /\ Kind(r) \in {"file", "dir"}
         /\ In(r) # Tmp(r) /\ Out(r) # Tmp(r)
<1>1. In(r) \in UserPath /\ Out(r) \in UserPath /\ Kind(r) \in {"file", "dir"}
  BY OpsAssumption DEF TypeOK, Jobs, In, Out, Kind
<1>2. Tmp(r) \in Path \ UserPath
  BY <1>1, PathFacts DEF Tmp
<1> QED
  BY <1>1, <1>2

(* The job that a command sets up.                                         *)
LEMMA NewJobType ==
  ASSUME NEW c \in Commands, NEW o \in UserPath,
         NEW k \in {"file", "dir"}, NEW f \in Inodes \union {None}
  PROVE  [cmd |-> c, out |-> o, fd |-> f, kind |-> k] \in Jobs
BY DEF Jobs

(* A run that decrypts has its container open until all is unpacked.       *)
ContainerOpen ==
  \A r \in Runs : pc[r] \in {"create", "copy"} /\ IsDecrypt(r) =>
    job[r].fd \in Inodes

(* The steps of one run keep the types.                                    *)
LEMMA RunType ==
  ASSUME TypeOK, ContainerOpen, NEW r \in Runs,
         \/ Refuse(r)
         \/ \E c \in Commands : EncryptBegin(r, c) \/ DecryptBegin(r, c)
         \/ StepOf(r)
  PROVE  TypeOK'
<1>0. /\ FsTypeOK /\ pc \in [Runs -> Steps] /\ job \in [Runs -> Jobs]
      /\ version \in DataVersions /\ promised \in 1 .. version
      /\ waived \in BOOLEAN /\ crashes \in 0 .. MaxCrashes
      /\ strangers \in 0 .. MaxStrangers
  BY DEF TypeOK
<1>j. /\ In(r) \in UserPath /\ Out(r) \in UserPath /\ Tmp(r) \in Path
      /\ In(r) \in Path /\ Out(r) \in Path
      /\ Kind(r) \in {"file", "dir"} /\ r \in Inodes
  BY JobFacts, PathFacts, InodeFacts
<1>k. \A p \in Path : Exists(p) => /\ entry[p] \in Inodes
                                   /\ content[entry[p]] \in Contents
  BY <1>0 DEF FsTypeOK, Exists
\* A run's steps count nothing, and go to some step.
<1>a. ASSUME FsTypeOK', job' \in [Runs -> Jobs], waived' \in BOOLEAN,
             UNCHANGED envButWaived,
             \E step \in Steps : Go(r, step)
      PROVE  TypeOK'
  BY <1>0, <1>a DEF TypeOK, Go, envButWaived
\* Steps that change names only.
<1>n. ASSUME EntryType', DiskType', UNCHANGED <<content, saved>>
      PROVE  FsTypeOK'
  BY <1>0, <1>n DEF FsTypeOK, EntryType, DiskType
\* Steps that write only.
<1>w. ASSUME InodeType', UNCHANGED <<entry, onDisk>>
      PROVE  FsTypeOK'
  BY <1>0, <1>w DEF FsTypeOK, InodeType
<1>1. CASE Refuse(r)
  BY <1>0, <1>1, <1>a DEF Refuse, Steps, fsVars, envVars, envButWaived, FsTypeOK
<1>2. ASSUME NEW c \in Commands, EncryptBegin(r, c)
      PROVE  TypeOK'
  <2> DEFINE o == IF c.output = NoPath
                    THEN <<c.in[1], ContainerName[c.in[2]]>> ELSE c.output
  <2> DEFINE k == KindOf(content[entry[c.in]])
  <2> DEFINE j == [cmd |-> c, out |-> o, fd |-> None, kind |-> k]
  <2>1. /\ job' = [job EXCEPT ![r] = j] /\ Go(r, "create")
        /\ UNCHANGED <<fsVars, envVars>>
    BY <1>2, Zenon DEF EncryptBegin
  <2>2. c.in \in UserPath /\ c.output \in UserPath \union {NoPath}
    BY OpsAssumption
  <2>3. ContainerName[c.in[2]] \in UserNames /\ c.in[1] \in Dirs
    BY <2>2, PathFacts, OpsAssumption DEF UserNames
  <2>4. o \in UserPath
    BY <2>2, <2>3 DEF UserPath
  <2>5. j \in Jobs
    <3>1. k \in {"file", "dir"}
      BY DEF KindOf
    <3> HIDE DEF o, k
    <3> QED
      BY <2>4, <3>1, NewJobType
  <2> HIDE DEF j
  <2>6. job' \in [Runs -> Jobs]
    BY <1>0, <2>1, <2>5
  <2> QED
    <3>1. FsTypeOK' /\ waived' \in BOOLEAN
      BY <1>0, <2>1 DEF fsVars, envVars, FsTypeOK
    <3>2. UNCHANGED envButWaived
      BY <2>1 DEF envVars, envButWaived
    <3> QED
      BY <1>a, <2>1, <2>6, <3>1, <3>2 DEF Steps
<1>3. ASSUME NEW c \in Commands, DecryptBegin(r, c)
      PROVE  TypeOK'
  <2> DEFINE o == IF c.output = NoPath
                    THEN <<c.in[1], content[entry[c.in]].layers[1].name>>
                    ELSE c.output
  <2> DEFINE k == KindOf(Inside(content[entry[c.in]]))
  <2> DEFINE j == [cmd |-> c, out |-> o, fd |-> entry[c.in], kind |-> k]
  <2>1. /\ job' = [job EXCEPT ![r] = j] /\ Go(r, "create")
        /\ Exists(c.in) /\ IsContainer(content[entry[c.in]])
        /\ UNCHANGED <<fsVars, envVars>>
    BY <1>3, Zenon DEF DecryptBegin
  <2>2. c.in \in UserPath /\ c.output \in UserPath \union {NoPath}
    BY OpsAssumption
  <2>3. /\ content[entry[c.in]] \in Contents /\ c.in[1] \in Dirs
        /\ entry[c.in] \in Inodes
    BY <1>k, <2>1, <2>2, PathFacts
  <2>4. content[entry[c.in]].layers[1].name \in UserNames
    BY <2>1, <2>3, InsideType
  <2>5. o \in UserPath
    <3> DEFINE n == content[entry[c.in]].layers[1].name
    <3> HIDE DEF n
    <3> QED
      BY <2>2, <2>3, <2>4 DEF UserPath, n
  <2>6. j \in Jobs
    <3>1. k \in {"file", "dir"}
      BY DEF KindOf
    <3> HIDE DEF o, k
    <3> QED
      BY <2>3, <2>5, <3>1, NewJobType
  <2> HIDE DEF j
  <2>7. job' \in [Runs -> Jobs]
    BY <1>0, <2>1, <2>6
  <2> QED
    <3>1. FsTypeOK' /\ waived' \in BOOLEAN
      BY <1>0, <2>1 DEF fsVars, envVars, FsTypeOK
    <3>2. UNCHANGED envButWaived
      BY <2>1 DEF envVars, envButWaived
    <3> QED
      BY <1>a, <2>1, <2>7, <3>1, <3>2 DEF Steps
<1>4. CASE CreateScratch(r)
  <2>1. Plain(IF IsDecrypt(r) THEN Kind(r) ELSE "file", Partial) \in Contents
    BY <1>j, PlainType, OpsAssumption DEF Partial
  <2>2. FsTypeOK'
    BY <1>0, <1>j, <1>4, <2>1, CreateType DEF CreateScratch
  <2> QED
    BY <1>0, <1>4, <2>2, <1>a DEF CreateScratch, Steps, envVars, envButWaived
<1>5. CASE Pack(r)
  <2>1. /\ content[entry[In(r)]] \in Contents
        /\ Len(content[entry[In(r)]].layers) < MaxLayers
        /\ In(r)[2] \in UserNames
    BY <1>5, <1>j, <1>k, PathFacts DEF Pack
  <2>2. Sealed(content[entry[In(r)]], r, In(r)[2]) \in Contents
    BY <2>1, SealedType
  <2>3. InodeType'
    BY <1>0, <1>5, <1>j, <2>2, WriteType DEF Pack
  <2> QED
    BY <1>0, <1>5, <2>3, <1>w, <1>a DEF Pack, Steps, envVars, envButWaived
<1>6. CASE Unpack(r)
  <2>1. job[r].fd \in Inodes /\ IsContainer(content[job[r].fd])
    BY <1>6 DEF Unpack, ContainerOpen
  <2>2. PICK c : c = Inside(content[job[r].fd]) /\ (Write(r, c) \/ WriteSynced(r, c))
    BY <1>6 DEF Unpack
  <2>3. c \in Contents
    BY <1>0, <2>1, <2>2, InsideType DEF FsTypeOK
  <2>4. InodeType'
    BY <1>0, <1>j, <2>2, <2>3, WriteType
  <2> QED
    BY <1>0, <1>6, <2>4, <1>w, <1>a DEF Unpack, Steps, envVars, envButWaived
<1>7. CASE Fail(r)
  <2>1. EntryType' /\ DiskType'
    BY <1>0, <1>j, <1>7, NamesType DEF Fail
  <2> QED
    BY <1>0, <1>7, <2>1, <1>n, <1>a DEF Fail, Steps, envVars, envButWaived
<1>8. CASE Clear(r)
  <2>1. EntryType' /\ DiskType'
    BY <1>0, <1>j, <1>8, NamesType DEF Clear
  <2>2. waived' \in BOOLEAN
    BY <1>0, <1>8 DEF Clear, GivesUp
  <2> QED
    BY <1>0, <1>8, <2>1, <2>2, <1>n, <1>a DEF Clear, Steps
<1>9. CASE Move(r)
  <2>1. EntryType' /\ DiskType'
    BY <1>0, <1>j, <1>9, NamesType DEF Move
  <2>2. AfterMove(r) \in Steps
    BY DEF AfterMove, Steps
  <2>3. waived' \in BOOLEAN
    BY <1>0, <1>9 DEF Move, GivesUp
  <2> QED
    BY <1>0, <1>9, <2>1, <2>2, <2>3, <1>n, <1>a DEF Move
<1>10. CASE MoveFails(r)
  BY <1>0, <1>10, <1>a
     DEF MoveFails, Steps, fsVars, envVars, envButWaived, FsTypeOK
<1>11. CASE Verify(r)
  BY <1>0, <1>11, <1>a
     DEF Verify, Steps, fsVars, envVars, envButWaived, FsTypeOK
<1>12. CASE VerifyFails(r)
  BY <1>0, <1>12, <1>a
     DEF VerifyFails, Steps, fsVars, envVars, envButWaived, FsTypeOK
<1>13. CASE SyncParent(r)
  <2>1. EntryType' /\ DiskType'
    BY <1>0, <1>j, <1>13, NamesType, PathFacts DEF SyncParent
  <2>2. waived' \in BOOLEAN
    BY <1>0, <1>13, OpsAssumption DEF SyncParent
  <2> QED
    BY <1>0, <1>13, <2>1, <2>2, <1>n, <1>a DEF SyncParent, Steps
<1>14. CASE RemoveInput(r)
  <2>1. EntryType' /\ DiskType'
    BY <1>0, <1>j, <1>14, NamesType DEF RemoveInput
  <2> QED
    BY <1>0, <1>14, <2>1, <1>n, <1>a DEF RemoveInput, Steps, envVars, envButWaived
<1>15. CASE Destroy(r)
  <2>1. PICK c \in Contents : Write(entry[In(r)], c)
    BY <1>15, PlainType, OpsAssumption DEF Destroy, Noise, Gutted
  <2>2. entry[In(r)] \in Inodes
    BY <1>15, <1>j, <1>k DEF Destroy, FileAt, DirAt
  <2>3. InodeType'
    BY <1>0, <2>1, <2>2, WriteType
  <2> QED
    BY <1>0, <1>15, <2>3, <1>w, <1>a DEF Destroy, Steps, envVars, envButWaived
<1>16. CASE UnlinkRest(r)
  <2>1. EntryType' /\ DiskType'
    BY <1>0, <1>j, <1>16, NamesType DEF UnlinkRest
  <2> QED
    BY <1>0, <1>16, <2>1, <1>n, <1>a DEF UnlinkRest, Steps, envVars, envButWaived
<1>17. CASE RemoveFails(r)
  BY <1>0, <1>17, <1>a
     DEF RemoveFails, Steps, fsVars, envVars, envButWaived, FsTypeOK
<1> QED
  BY <1>1, <1>2, <1>3, <1>4, <1>5, <1>6, <1>7, <1>8, <1>9, <1>10, <1>11,
     <1>12, <1>13, <1>14, <1>15, <1>16, <1>17 DEF StepOf

(* The environment keeps them.                                             *)
LEMMA AroundType ==
  ASSUME TypeOK,
         \/ Crash
         \/ \E p \in UserPath : Edit(p) \/ Stranger(p)
         \/ UNCHANGED vars
  PROVE  TypeOK'
<1>0. /\ FsTypeOK /\ pc \in [Runs -> Steps] /\ job \in [Runs -> Jobs]
      /\ version \in DataVersions /\ promised \in 1 .. version
      /\ waived \in BOOLEAN /\ crashes \in 0 .. MaxCrashes
      /\ strangers \in 0 .. MaxStrangers
  BY DEF TypeOK
<1>1. CASE Crash
  <2>1. FsTypeOK'
    BY <1>0, <1>1, CrashType DEF Crash
  <2>2. crashes' \in 0 .. MaxCrashes
    BY <1>0, <1>1, OpsAssumption DEF Crash
  <2>3. pc' \in [Runs -> Steps]
    BY <1>0, <1>1 DEF Crash, Steps
  <2> QED
    BY <1>0, <1>1, <2>1, <2>2, <2>3 DEF Crash, TypeOK
<1>2. ASSUME NEW p \in UserPath, Edit(p)
      PROVE  TypeOK'
  <2>1. /\ entry[p] \in Inodes /\ content[entry[p]] \in Contents
        /\ version \in 1 .. MaxEdits
    BY <1>0, <1>2, PathFacts, OpsAssumption
       DEF Edit, Exists, FsTypeOK, DataVersions
  <2>2. PICK c : /\ c = [content[entry[p]] EXCEPT !.data = version + 1]
                 /\ WriteSynced(entry[p], c)
    BY <1>2 DEF Edit
  <2>3. c \in Contents
    <3> DEFINE x == content[entry[p]]
    <3>1. /\ x.kind \in {"file", "dir"} /\ x.layers \in Layers
          /\ x = [kind |-> x.kind, data |-> x.data, layers |-> x.layers]
      BY <2>1, OpsAssumption DEF OpsContents
    <3>2. c = [kind |-> x.kind, data |-> version + 1, layers |-> x.layers]
      BY <2>2, <3>1
    <3>3. version + 1 \in -3 .. MaxEdits + 1
      BY <2>1, OpsAssumption
    <3> QED
      BY <3>1, <3>2, <3>3, OpsAssumption DEF OpsContents
  <2>4. InodeType'
    BY <1>0, <2>1, <2>2, <2>3, WriteType
  <2>5. EntryType' /\ DiskType'
    BY <1>0, <1>2, NamesType, PathFacts DEF Edit
  <2>6. FsTypeOK'
    BY <2>4, <2>5 DEF FsTypeOK, EntryType, DiskType, InodeType
  <2>7. version' \in DataVersions /\ promised' \in 1 .. version'
    BY <1>0, <1>2, <2>1, OpsAssumption DEF Edit, DataVersions
  <2> QED
    BY <1>0, <1>2, <2>6, <2>7 DEF Edit, TypeOK, runVars
<1>3. ASSUME NEW p \in UserPath, Stranger(p)
      PROVE  TypeOK'
  <2>1. Plain("file", Other) \in Contents
    BY PlainType, OpsAssumption DEF Other
  <2>2. FsTypeOK'
    BY <1>0, <1>3, <2>1, CreateType, PathFacts, InodeFacts DEF Stranger
  <2>3. strangers' \in 0 .. MaxStrangers
    BY <1>0, <1>3, OpsAssumption DEF Stranger
  <2> QED
    BY <1>0, <1>3, <2>2, <2>3 DEF Stranger, TypeOK, runVars
<1>4. CASE UNCHANGED vars
  BY <1>0, <1>4 DEF vars, fsVars, runVars, envVars, TypeOK, FsTypeOK
<1> QED
  BY <1>1, <1>2, <1>3, <1>4

(* No step closes a container too early.                                   *)
LEMMA OpenStep ==
  ASSUME TypeOK, ContainerOpen, [Next]_vars
  PROVE  ContainerOpen'
<1>0. /\ pc \in [Runs -> Steps] /\ job \in [Runs -> Jobs]
  BY DEF TypeOK
<1>a. ASSUME job' = job,
             \A q \in Runs : pc'[q] \in {"create", "copy"} =>
                               pc[q] \in {"create", "copy"}
      PROVE  ContainerOpen'
  BY <1>a DEF ContainerOpen, IsDecrypt
<1>1. ASSUME NEW r \in Runs, NEW c \in Commands, EncryptBegin(r, c)
      PROVE  ContainerOpen'
  <2>1. /\ job'[r].cmd.op = "encrypt"
        /\ \A q \in Runs \ {r} : job'[q] = job[q] /\ pc'[q] = pc[q]
    BY <1>0, <1>1 DEF EncryptBegin, Go
  <2> QED
    BY <2>1 DEF ContainerOpen, IsDecrypt
<1>2. ASSUME NEW r \in Runs, NEW c \in Commands, DecryptBegin(r, c)
      PROVE  ContainerOpen'
  <2>1. /\ job'[r].fd = entry[c.in]
        /\ \A q \in Runs \ {r} : job'[q] = job[q] /\ pc'[q] = pc[q]
    BY <1>0, <1>2 DEF DecryptBegin, Go
  <2>2. entry[c.in] \in Inodes
    BY <1>2, PathFacts, OpsAssumption DEF DecryptBegin, Exists, TypeOK, FsTypeOK
  <2> QED
    BY <2>1, <2>2 DEF ContainerOpen, IsDecrypt
<1>3. ASSUME NEW r \in Runs, Refuse(r) \/ StepOf(r)
      PROVE  ContainerOpen'
  <2>1. job' = job
    BY <1>3 DEF Refuse, StepOf, CreateScratch, Pack, Unpack, Fail, Clear, Move,
         MoveFails, Verify, VerifyFails, SyncParent, RemoveInput, Destroy,
         UnlinkRest, RemoveFails
  <2>2. PICK step \in Steps : Go(r, step) /\ (step = "create" => FALSE)
                              /\ (step = "copy" => pc[r] = "create")
    BY <1>3 DEF Refuse, StepOf, CreateScratch, Pack, Unpack, Fail, Clear, Move,
         MoveFails, Verify, VerifyFails, SyncParent, RemoveInput, Destroy,
         UnlinkRest, RemoveFails, AfterMove, Steps
  <2>3. /\ pc'[r] = step
        /\ \A q \in Runs \ {r} : pc'[q] = pc[q]
    BY <1>0, <2>2 DEF Go
  <2> QED
    BY <1>a, <2>1, <2>2, <2>3
<1>4. CASE Crash
  BY <1>0, <1>4, <1>a DEF Crash, Active
<1>5. ASSUME NEW p \in UserPath, Edit(p) \/ Stranger(p)
      PROVE  ContainerOpen'
  BY <1>5, <1>a DEF Edit, Stranger, runVars
<1>6. CASE UNCHANGED vars
  BY <1>6, <1>a DEF vars, runVars
<1> QED
  BY <1>1, <1>2, <1>3, <1>4, <1>5, <1>6 DEF Next

(* The types hold in the beginning.                                        *)
LEMMA InitType == Init => TypeOK /\ ContainerOpen
<1> SUFFICES ASSUME Init
             PROVE  TypeOK /\ ContainerOpen
  OBVIOUS
<1>1. /\ Plain(StartKind, 1) \in Contents
      /\ Plain("file", Other) \in Contents
      /\ Plain("file", Partial) \in Contents
  BY PlainType, OpsAssumption DEF Other, Partial
<1>2. /\ entry \in [Path -> Inodes \union {None}]
      /\ content \in [Inodes -> Contents]
  BY <1>1, InodeFacts DEF Init, FsInit
<1>3. saved \in [Inodes -> SUBSET Contents]
  BY <1>2 DEF Init, FsInit
<1>4. onDisk \in [Dirs -> SUBSET [Names -> Inodes \union {None}]]
  <2>1. \A d \in Dirs : Listing(entry, d) \in [Names -> Inodes \union {None}]
    BY <1>2 DEF Listing, Path
  <2>2. onDisk = [d \in Dirs |-> {Listing(entry, d)}]
    BY DEF Init, FsInit
  <2> QED
    BY <2>1, <2>2
<1>5. job \in [Runs -> Jobs]
  <2>1. PICK c \in Commands :
          job = [r \in Runs |-> [cmd |-> c, out |-> Home, kind |-> "file", fd |-> None]]
    BY OpsAssumption DEF Init
  <2> QED
    BY <2>1, OpsAssumption DEF Jobs
<1>6. /\ pc = [r \in Runs |-> "idle"] /\ version = 1 /\ promised = 1
      /\ waived = FALSE /\ crashes = 0 /\ strangers = 0
  BY DEF Init
<1>7. TypeOK
  <2>1. /\ version \in DataVersions /\ promised \in 1 .. version
        /\ crashes \in 0 .. MaxCrashes /\ strangers \in 0 .. MaxStrangers
    BY <1>6, OpsAssumption DEF DataVersions
  <2>2. pc \in [Runs -> Steps] /\ waived \in BOOLEAN
    BY <1>6 DEF Steps
  <2> QED
    BY <1>2, <1>3, <1>4, <1>5, <2>1, <2>2 DEF TypeOK, FsTypeOK
<1> QED
  BY <1>6, <1>7 DEF ContainerOpen

(* Whatever the commands, and whatever fails or is changed, every variable *)
(* stays within its type.                                                  *)
THEOREM TypeCorrect == Spec => []TypeOK
<1> DEFINE IInv == TypeOK /\ ContainerOpen
<1>1. Init => IInv
  BY InitType
<1>2. IInv /\ [Next]_vars => IInv'
  <2> SUFFICES ASSUME TypeOK, ContainerOpen, [Next]_vars
               PROVE  TypeOK' /\ ContainerOpen'
    OBVIOUS
  <2>1. TypeOK'
    BY RunType, AroundType DEF Next
  <2> QED
    BY <2>1, OpenStep
<1> QED
  BY <1>1, <1>2, PTL DEF Spec

-----------------------------------------------------------------------------
(* Where names lead *)

\* Name n in directory d may lead to inode i, now or after a crash.
Leads(d, n, i) == \E s \in onDisk[d] : s[n] = i

\* What a path leads to now is among what it may lead to after a crash.
Coherent == \A d \in Dirs, n \in Names : Leads(d, n, entry[<<d, n>>])

\* No file gets a name it may not have had before.
NamesShrink ==
  /\ Coherent'
  /\ \A d \in Dirs, n \in Names, i \in Inodes : Leads(d, n, i)' => Leads(d, n, i)

(* A change of names in d gives d the state it leads to now, and leaves    *)
(* the other directories.                                                  *)
LEMMA ChangeNamesLeads ==
  ASSUME FsTypeOK, Coherent, NEW d \in Dirs,
         NEW e \in [Path -> Inodes \union {None}],
         \A q \in Path : q[1] # d => e[q] = entry[q],
         ChangeNames(d, e)
  PROVE  /\ Coherent'
         /\ \A v : \A b \in Dirs, n \in Names :
              Leads(b, n, v)' => Leads(b, n, v) \/ (b = d /\ e[<<d, n>>] = v)
<1>1. /\ entry' = e
      /\ onDisk'[d] = onDisk[d] \union {Listing(e, d)}
      /\ \A b \in Dirs \ {d} : onDisk'[b] = onDisk[b]
  BY DEF ChangeNames, FsTypeOK
<1>2. \A n \in Names : Listing(e, d)[n] = e[<<d, n>>]
  BY DEF Listing
<1>3. ASSUME NEW b \in Dirs, NEW n \in Names
      PROVE  Leads(b, n, entry[<<b, n>>])'
  <2>1. CASE b = d
    BY <1>1, <1>2, <2>1 DEF Leads
  <2>2. CASE b # d
    <3>1. entry'[<<b, n>>] = entry[<<b, n>>]
      BY <1>1, <2>2 DEF Path
    <3> QED
      BY <1>1, <2>2, <3>1 DEF Leads, Coherent
  <2> QED
    BY <2>1, <2>2
<1>4. ASSUME NEW b \in Dirs, NEW n \in Names, NEW v, Leads(b, n, v)'
      PROVE  Leads(b, n, v) \/ (b = d /\ e[<<d, n>>] = v)
  BY <1>1, <1>2, <1>4 DEF Leads
<1> QED
  BY <1>3, <1>4 DEF Coherent

(* Taking a name away makes no name lead to an inode anew.                 *)
LEMMA UnlinkLeads ==
  ASSUME FsTypeOK, Coherent, NEW p \in Path, Unlink(p)
  PROVE  /\ NamesShrink
         /\ \A v : \A d \in Dirs, n \in Names :
              Leads(d, n, v)' => Leads(d, n, v) \/ (<<d, n>> = p /\ v = None)
<1> DEFINE e == [entry EXCEPT ![p] = None]
<1>1. /\ e \in [Path -> Inodes \union {None}] /\ p[1] \in Dirs
      /\ \A q \in Path : q[1] # p[1] => e[q] = entry[q]
      /\ \A q \in Path : q # p => e[q] = entry[q]
      /\ e[p] = None
  BY PathFacts DEF FsTypeOK
<1>2. ChangeNames(p[1], e)
  BY DEF Unlink
<1>3. /\ Coherent'
      /\ \A v : \A b \in Dirs, n \in Names :
           Leads(b, n, v)' => Leads(b, n, v) \/ (b = p[1] /\ e[<<p[1], n>>] = v)
  <2> HIDE DEF e
  <2> QED
    BY <1>1, <1>2, ChangeNamesLeads
<1>4. ASSUME NEW n \in Names, NEW v, e[<<p[1], n>>] = v
      PROVE  Leads(p[1], n, v) \/ (<<p[1], n>> = p /\ v = None)
  <2>1. <<p[1], n>> \in Path
    BY <1>1 DEF Path
  <2> HIDE DEF e
  <2> QED
    BY <1>1, <1>4, <2>1 DEF Coherent
<1>5. \A v : \A d \in Dirs, n \in Names :
        Leads(d, n, v)' => Leads(d, n, v) \/ (<<d, n>> = p /\ v = None)
  <2> SUFFICES ASSUME NEW v, NEW d \in Dirs, NEW n \in Names, Leads(d, n, v)'
               PROVE  Leads(d, n, v) \/ (<<d, n>> = p /\ v = None)
    OBVIOUS
  <2>1. Leads(d, n, v) \/ (d = p[1] /\ e[<<p[1], n>>] = v)
    <3> HIDE DEF e
    <3> QED
      BY <1>3
  <2>2. CASE d = p[1] /\ e[<<p[1], n>>] = v
    BY <1>4, <2>2
  <2> QED
    BY <2>1, <2>2
<1> QED
  BY <1>3, <1>5, InodeFacts DEF NamesShrink

(* A rename makes only the new name lead to the file.                      *)
LEMMA RenameLeads ==
  ASSUME FsTypeOK, Coherent, NEW p \in Path, NEW q \in Path, p[1] = q[1],
         Rename(p, q)
  PROVE  /\ Coherent'
         /\ \A v : \A d \in Dirs, n \in Names :
              Leads(d, n, v)' => \/ Leads(d, n, v)
                                 \/ <<d, n>> = p /\ v = None
                                 \/ <<d, n>> = q /\ v = entry[p]
<1> DEFINE e == [entry EXCEPT ![p] = None, ![q] = entry[p]]
<1>1. /\ e \in [Path -> Inodes \union {None}] /\ q[1] \in Dirs
      /\ \A x \in Path : x[1] # q[1] => e[x] = entry[x]
      /\ \A x \in Path : x # q /\ x # p => e[x] = entry[x]
      /\ e[q] = entry[p]
      /\ e[p] \in {None, entry[p]}
  BY PathFacts DEF FsTypeOK
<1>2. ChangeNames(q[1], e)
  BY DEF Rename
<1>3. /\ Coherent'
      /\ \A v : \A b \in Dirs, n \in Names :
           Leads(b, n, v)' => Leads(b, n, v) \/ (b = q[1] /\ e[<<q[1], n>>] = v)
  <2> HIDE DEF e
  <2> QED
    BY <1>1, <1>2, ChangeNamesLeads
<1>4. ASSUME NEW n \in Names, NEW v, e[<<q[1], n>>] = v
      PROVE  \/ Leads(q[1], n, v)
             \/ <<q[1], n>> = p /\ v = None
             \/ <<q[1], n>> = q /\ v = entry[p]
  <2>1. <<q[1], n>> \in Path /\ p = <<p[1], p[2]>> /\ p[1] \in Dirs /\ p[2] \in Names
    BY <1>1, PathFacts DEF Path
  <2>2. Leads(p[1], p[2], entry[p])
    BY <2>1 DEF Coherent
  <2> HIDE DEF e
  <2> QED
    BY <1>1, <1>4, <2>1, <2>2 DEF Coherent
<1>5. ASSUME NEW v, NEW d \in Dirs, NEW n \in Names, Leads(d, n, v)'
      PROVE  \/ Leads(d, n, v)
             \/ <<d, n>> = p /\ v = None
             \/ <<d, n>> = q /\ v = entry[p]
  <2>1. Leads(d, n, v) \/ (d = q[1] /\ e[<<q[1], n>>] = v)
    <3> HIDE DEF e
    <3> QED
      BY <1>3, <1>5
  <2>2. CASE d = q[1] /\ e[<<q[1], n>>] = v
    BY <1>4, <2>2
  <2> QED
    BY <2>1, <2>2
<1> QED
  BY <1>3, <1>5

(* Creating makes only the new name lead to the inode.                     *)
LEMMA CreateLeads ==
  ASSUME FsTypeOK, Coherent, NEW p \in Path, NEW f \in Inodes, NEW c,
         Create(p, f, c)
  PROVE  /\ Coherent'
         /\ \A v : \A d \in Dirs, n \in Names :
              Leads(d, n, v)' => Leads(d, n, v) \/ (<<d, n>> = p /\ f = v)
<1> DEFINE e == [entry EXCEPT ![p] = f]
<1>1. /\ e \in [Path -> Inodes \union {None}] /\ p[1] \in Dirs
      /\ \A x \in Path : x[1] # p[1] => e[x] = entry[x]
      /\ \A x \in Path : x # p => e[x] = entry[x]
      /\ e[p] = f
  BY PathFacts DEF FsTypeOK
<1>2. ChangeNames(p[1], e)
  BY DEF Create
<1>3. /\ Coherent'
      /\ \A v : \A b \in Dirs, n \in Names :
           Leads(b, n, v)' => Leads(b, n, v) \/ (b = p[1] /\ e[<<p[1], n>>] = v)
  <2> HIDE DEF e
  <2> QED
    BY <1>1, <1>2, ChangeNamesLeads
<1>4. ASSUME NEW n \in Names, NEW v, e[<<p[1], n>>] = v
      PROVE  Leads(p[1], n, v) \/ (<<p[1], n>> = p /\ f = v)
  <2>1. <<p[1], n>> \in Path
    BY <1>1 DEF Path
  <2> HIDE DEF e
  <2> QED
    BY <1>1, <1>4, <2>1 DEF Coherent
<1>5. ASSUME NEW v, NEW d \in Dirs, NEW n \in Names, Leads(d, n, v)'
      PROVE  Leads(d, n, v) \/ (<<d, n>> = p /\ f = v)
  <2>1. Leads(d, n, v) \/ (d = p[1] /\ e[<<p[1], n>>] = v)
    <3> HIDE DEF e
    <3> QED
      BY <1>3, <1>5
  <2>2. CASE d = p[1] /\ e[<<p[1], n>>] = v
    BY <1>4, <2>2
  <2> QED
    BY <2>1, <2>2
<1> QED
  BY <1>3, <1>5

(* A sync makes names lead to less.                                        *)
LEMMA SyncLeads ==
  ASSUME FsTypeOK, Coherent, NEW d \in Dirs, SyncDir(d)
  PROVE  /\ NamesShrink
         /\ \A v : \A b \in Dirs, n \in Names : Leads(b, n, v)' => Leads(b, n, v)
         /\ \A v : \A n \in Names : Leads(d, n, v)' => v = entry[<<d, n>>]
<1>1. /\ entry' = entry
      /\ onDisk'[d] = {Listing(entry, d)}
      /\ \A b \in Dirs \ {d} : onDisk'[b] = onDisk[b]
      /\ \A n \in Names : Listing(entry, d)[n] = entry[<<d, n>>]
  BY DEF SyncDir, FsTypeOK, Listing
<1>2. ASSUME NEW b \in Dirs, NEW n \in Names
      PROVE  Leads(b, n, entry[<<b, n>>])'
  <2>1. CASE b = d
    BY <1>1, <2>1 DEF Leads
  <2>2. CASE b # d
    BY <1>1, <2>2 DEF Leads, Coherent
  <2> QED
    BY <2>1, <2>2
<1>3. \A v : \A n \in Names : Leads(d, n, v)' => v = entry[<<d, n>>]
  BY <1>1 DEF Leads
<1>4. ASSUME NEW b \in Dirs, NEW n \in Names, NEW v, Leads(b, n, v)'
      PROVE  Leads(b, n, v)
  <2>1. CASE b = d
    BY <1>3, <1>4, <2>1 DEF Coherent
  <2>2. CASE b # d
    BY <1>1, <1>4, <2>2 DEF Leads
  <2> QED
    BY <2>1, <2>2
<1> QED
  BY <1>2, <1>3, <1>4 DEF NamesShrink, Coherent

(* So does a crash.                                                        *)
LEMMA CrashLeads ==
  ASSUME FsTypeOK, FsCrash
  PROVE  /\ NamesShrink
         /\ \A v : \A d \in Dirs, n \in Names : Leads(d, n, v)' => Leads(d, n, v)
<1>1. PICK s \in [Dirs -> UNION {onDisk[d] : d \in Dirs}] :
        /\ \A d \in Dirs : s[d] \in onDisk[d]
        /\ entry' = [p \in Path |-> s[p[1]][p[2]]]
        /\ onDisk' = [d \in Dirs |-> {s[d]}]
  BY DEF FsCrash
<1>2. \A d \in Dirs, n \in Names : entry'[<<d, n>>] = s[d][n]
  <2>1. \A d \in Dirs, n \in Names : <<d, n>> \in Path
    BY DEF Path
  <2> QED
    BY <1>1, <2>1
<1>3. \A d \in Dirs, n \in Names : Leads(d, n, entry[<<d, n>>])'
  BY <1>1, <1>2 DEF Leads
<1>4. \A v : \A d \in Dirs, n \in Names : Leads(d, n, v)' => Leads(d, n, v)
  BY <1>1 DEF Leads
<1> QED
  BY <1>3, <1>4 DEF NamesShrink, Coherent

(* Steps that leave the names alone change nothing here.                   *)
LEMMA SameLeads ==
  ASSUME Coherent, UNCHANGED <<entry, onDisk>>
  PROVE  NamesShrink
BY DEF Coherent, NamesShrink, Leads

-----------------------------------------------------------------------------
(* Scratch files and their names *)

\* Until its scratch file is in place.
Early == {"idle", "create", "copy", "clear", "rename"}

\* Only the scratch file of run r has the name of it, in whatever directory,
\* and it has no other name before it is moved.
OwnNames ==
  /\ \A d \in Dirs, r \in Runs, i \in Inodes :
       Leads(d, ScratchName[r], i) => i = r
  /\ \A p \in UserPath, r \in Runs :
       Leads(p[1], p[2], r) => pc[r] \notin Early

NameInv == TypeOK /\ ContainerOpen /\ Coherent /\ OwnNames

(* No run gets back to before its scratch file is in place.                *)
LEMMA EarlyStep ==
  ASSUME TypeOK, [Next]_vars, NEW r \in Runs, pc'[r] \in Early
  PROVE  pc[r] \in Early
<1>0. pc \in [Runs -> Steps]
  BY DEF TypeOK
<1>1. ASSUME NEW q \in Runs, NEW c \in Commands,
             EncryptBegin(q, c) \/ DecryptBegin(q, c)
      PROVE  pc[r] \in Early
  BY <1>0, <1>1 DEF EncryptBegin, DecryptBegin, MayStart, Go, Early
<1>2. ASSUME NEW q \in Runs, Refuse(q)
      PROVE  pc[r] \in Early
  BY <1>0, <1>2 DEF Refuse, Go, Early
<1>3. ASSUME NEW q \in Runs, StepOf(q)
      PROVE  pc[r] \in Early
  <2>1. CASE CreateScratch(q) \/ Pack(q) \/ Unpack(q) \/ Clear(q) \/ Move(q)
    BY <1>0, <2>1
       DEF CreateScratch, Pack, Unpack, Clear, Move, Go, Early, AfterMove
  <2>2. CASE \/ Fail(q) \/ MoveFails(q) \/ Verify(q) \/ VerifyFails(q)
             \/ SyncParent(q) \/ RemoveInput(q) \/ Destroy(q)
             \/ UnlinkRest(q) \/ RemoveFails(q)
    BY <1>0, <2>2
       DEF Fail, MoveFails, Verify, VerifyFails, SyncParent, RemoveInput, Destroy,
           UnlinkRest, RemoveFails, Go, Early
  <2> QED
    BY <1>3, <2>1, <2>2 DEF StepOf
<1>4. CASE Crash
  BY <1>0, <1>4 DEF Crash, Early
<1>5. ASSUME NEW p \in UserPath, Edit(p) \/ Stranger(p)
      PROVE  pc[r] \in Early
  BY <1>5 DEF Edit, Stranger, runVars
<1>6. CASE UNCHANGED vars
  BY <1>6 DEF vars, runVars
<1> QED
  BY <1>1, <1>2, <1>3, <1>4, <1>5, <1>6 DEF Next

\* The steps that give something a name.
Naming ==
  \/ \E r \in Runs : CreateScratch(r) \/ Move(r)
  \/ \E p \in UserPath : Stranger(p)

(* The other steps make no name lead anywhere new.                         *)
LEMMA OtherSteps ==
  ASSUME TypeOK, Coherent, [Next]_vars, ~Naming
  PROVE  NamesShrink
<1>0. FsTypeOK
  BY DEF TypeOK
<1>1. ASSUME UNCHANGED fsVars
      PROVE  NamesShrink
  <2>1. UNCHANGED <<entry, onDisk>>
    BY <1>1 DEF fsVars
  <2> QED
    BY <2>1, SameLeads
<1>2. ASSUME NEW r \in Runs,
             Refuse(r) \/ \E c \in Commands : EncryptBegin(r, c) \/ DecryptBegin(r, c)
      PROVE  NamesShrink
  BY <1>1, <1>2 DEF Refuse, EncryptBegin, DecryptBegin
<1>3. ASSUME NEW r \in Runs, StepOf(r)
      PROVE  NamesShrink
  <2>j. /\ In(r) \in Path /\ Out(r) \in Path /\ Tmp(r) \in Path
        /\ Out(r)[1] \in Dirs
    BY JobFacts, PathFacts
  <2>1. CASE Pack(r) \/ Unpack(r) \/ Destroy(r)
    BY <2>1, SameLeads DEF Pack, Unpack, Destroy
  <2>2. CASE Fail(r)
    BY <1>0, <2>j, <2>2, SameLeads, UnlinkLeads DEF Fail
  <2>3. CASE Clear(r)
    BY <1>0, <2>j, <2>3, SameLeads, UnlinkLeads DEF Clear
  <2>4. CASE SyncParent(r)
    BY <1>0, <2>j, <2>4, SameLeads, SyncLeads DEF SyncParent
  <2>5. CASE RemoveInput(r) \/ UnlinkRest(r)
    BY <1>0, <2>j, <2>5, UnlinkLeads DEF RemoveInput, UnlinkRest
  <2>6. CASE MoveFails(r) \/ Verify(r) \/ VerifyFails(r) \/ RemoveFails(r)
    BY <1>1, <2>6 DEF MoveFails, Verify, VerifyFails, RemoveFails
  <2> QED
    BY <1>3, <2>1, <2>2, <2>3, <2>4, <2>5, <2>6 DEF StepOf, Naming
<1>4. CASE Crash
  BY <1>0, <1>4, CrashLeads DEF Crash
<1>5. ASSUME NEW p \in UserPath, Edit(p)
      PROVE  NamesShrink
  BY <1>0, <1>5, SyncLeads, PathFacts DEF Edit
<1>6. CASE UNCHANGED vars
  BY <1>1, <1>6 DEF vars
<1> QED
  BY <1>2, <1>3, <1>4, <1>5, <1>6 DEF Next, Naming

(* No step makes a scratch file known too early.                           *)
LEMMA NameStep ==
  ASSUME NameInv, [Next]_vars
  PROVE  NameInv'
<1>0. FsTypeOK /\ TypeOK /\ ContainerOpen /\ Coherent /\ OwnNames
  BY DEF NameInv, TypeOK
<1>t. TypeOK' /\ ContainerOpen'
  BY <1>0, RunType, AroundType, OpenStep DEF Next
<1>1. CASE ~Naming
  <2>1. NamesShrink
    BY <1>0, <1>1, OtherSteps
  <2>2. \A d \in Dirs, r \in Runs, i \in Inodes :
          Leads(d, ScratchName[r], i)' => i = r
    BY <1>0, <2>1, PathFacts DEF NamesShrink, OwnNames
  <2>3. ASSUME NEW p \in UserPath, NEW r \in Runs, Leads(p[1], p[2], r)'
        PROVE  pc'[r] \notin Early
    <3>1. Leads(p[1], p[2], r)
      BY <2>1, <2>3, PathFacts, InodeFacts DEF NamesShrink, UserNames
    <3> QED
      BY <1>0, <3>1, EarlyStep DEF OwnNames
  <2> QED
    BY <1>t, <2>1, <2>2, <2>3 DEF NameInv, OwnNames, NamesShrink
<1>2. ASSUME NEW r \in Runs, CreateScratch(r)
      PROVE  NameInv'
  <2>1. /\ Tmp(r) \in Path /\ r \in Inodes
        /\ Tmp(r)[2] = ScratchName[r] /\ Tmp(r) \notin UserPath
    BY <1>0, JobFacts, InodeFacts DEF Tmp
  <2>2. /\ Coherent'
        /\ \A d \in Dirs, n \in Names, i \in Inodes :
             Leads(d, n, i)' => Leads(d, n, i) \/ (<<d, n>> = Tmp(r) /\ r = i)
    BY <1>0, <1>2, <2>1, CreateLeads DEF CreateScratch
  <2>3. ASSUME NEW d \in Dirs, NEW q \in Runs, NEW i \in Inodes,
               Leads(d, ScratchName[q], i)'
        PROVE  i = q
    <3>1. Leads(d, ScratchName[q], i) \/ (ScratchName[q] = ScratchName[r] /\ i = r)
      BY <2>1, <2>2, <2>3, PathFacts
    <3> QED
      BY <1>0, <3>1, OpsAssumption DEF OwnNames
  <2>4. ASSUME NEW p \in UserPath, NEW q \in Runs, Leads(p[1], p[2], q)'
        PROVE  pc'[q] \notin Early
    <3>1. Leads(p[1], p[2], q)
      BY <2>1, <2>2, <2>4, PathFacts, InodeFacts DEF UserNames
    <3>2. pc'[q] \in Early => pc[q] \in Early
      BY <1>0, EarlyStep
    <3> QED
      BY <1>0, <3>1, <3>2 DEF OwnNames
  <2> QED
    BY <1>t, <2>2, <2>3, <2>4 DEF NameInv, OwnNames
<1>3. ASSUME NEW r \in Runs, Move(r)
      PROVE  NameInv'
  <2>1. /\ Tmp(r) \in Path /\ r \in Inodes
        /\ Tmp(r) = <<Out(r)[1], ScratchName[r]>>
        /\ Out(r) \in UserPath /\ Out(r) \in Path
        /\ Tmp(r)[1] = Out(r)[1] /\ Out(r)[1] \in Dirs
    BY <1>0, JobFacts, InodeFacts, PathFacts DEF Tmp
  <2>2. /\ Coherent'
        /\ \A d \in Dirs, n \in Names, i \in Inodes :
             Leads(d, n, i)' => Leads(d, n, i) \/ (<<d, n>> = Out(r) /\ entry[Tmp(r)] = i)
    BY <1>0, <1>3, <2>1, RenameLeads, InodeFacts DEF Move
  <2>3. ASSUME NEW i \in Inodes, entry[Tmp(r)] = i
        PROVE  i = r
    <3>1. Leads(Out(r)[1], ScratchName[r], i)
      BY <1>0, <2>1, <2>3, InodeFacts, PathFacts DEF Coherent, Exists
    <3> QED
      BY <1>0, <2>1, <3>1 DEF OwnNames
  <2>4. ASSUME NEW d \in Dirs, NEW q \in Runs, NEW i \in Inodes,
               Leads(d, ScratchName[q], i)'
        PROVE  i = q
    <3>1. <<d, ScratchName[q]>> # Out(r)
      BY <2>1, PathFacts
    <3>2. Leads(d, ScratchName[q], i)
      BY <2>2, <2>4, <3>1, PathFacts
    <3> QED
      BY <1>0, <3>2 DEF OwnNames
  <2>5. ASSUME NEW p \in UserPath, NEW q \in Runs, Leads(p[1], p[2], q)'
        PROVE  pc'[q] \notin Early
    <3>1. Leads(p[1], p[2], q) \/ q = r
      BY <2>2, <2>3, <2>5, PathFacts, InodeFacts DEF UserNames
    <3>2. pc'[q] \in Early => pc[q] \in Early
      BY <1>0, EarlyStep
    <3>3. pc'[r] \notin Early
      BY <1>0, <1>3 DEF Move, Go, AfterMove, Early, TypeOK
    <3> QED
      BY <1>0, <3>1, <3>2, <3>3 DEF OwnNames
  <2> QED
    BY <1>t, <2>2, <2>4, <2>5 DEF NameInv, OwnNames
<1>4. ASSUME NEW x \in UserPath, Stranger(x)
      PROVE  NameInv'
  <2>1. x \in Path /\ StrayInode \in Inodes
    BY PathFacts, InodeFacts
  <2>2. /\ Coherent'
        /\ \A d \in Dirs, n \in Names, i \in Inodes :
             Leads(d, n, i)' => Leads(d, n, i) \/ (<<d, n>> = x /\ StrayInode = i)
    BY <1>0, <1>4, <2>1, CreateLeads DEF Stranger
  <2>3. ASSUME NEW d \in Dirs, NEW q \in Runs, NEW i \in Inodes,
               Leads(d, ScratchName[q], i)'
        PROVE  i = q
    <3>1. <<d, ScratchName[q]>> # x
      BY PathFacts
    <3>2. Leads(d, ScratchName[q], i)
      BY <2>2, <2>3, <3>1, PathFacts
    <3> QED
      BY <1>0, <3>2 DEF OwnNames
  <2>4. ASSUME NEW p \in UserPath, NEW q \in Runs, Leads(p[1], p[2], q)'
        PROVE  pc'[q] \notin Early
    <3>1. Leads(p[1], p[2], q)
      BY <2>2, <2>4, PathFacts, InodeFacts DEF UserNames
    <3>2. pc'[q] \in Early => pc[q] \in Early
      BY <1>0, EarlyStep
    <3> QED
      BY <1>0, <3>1, <3>2 DEF OwnNames
  <2> QED
    BY <1>t, <2>2, <2>3, <2>4 DEF NameInv, OwnNames
<1> QED
  BY <1>1, <1>2, <1>3, <1>4 DEF Naming

(* In the beginning there are no scratch files.                            *)
LEMMA InitNames == Init => NameInv
<1> SUFFICES ASSUME Init
             PROVE  NameInv
  OBVIOUS
<1>1. \A d \in Dirs, n \in Names :
        Listing(entry, d)[n] = entry[<<d, n>>] /\ onDisk[d] = {Listing(entry, d)}
  BY DEF Init, FsInit, Listing
<1>2. \A i : \A d \in Dirs, n \in Names : Leads(d, n, i) <=> entry[<<d, n>>] = i
  <2> SUFFICES ASSUME NEW i, NEW d \in Dirs, NEW n \in Names
               PROVE  Leads(d, n, i) <=> entry[<<d, n>>] = i
    OBVIOUS
  <2>1. onDisk[d] = {Listing(entry, d)} /\ Listing(entry, d)[n] = entry[<<d, n>>]
    BY <1>1
  <2> QED
    BY <2>1 DEF Leads
<1>3. \A d \in Dirs, n \in Names :
        entry[<<d, n>>] = IF <<d, n>> = Home THEN DataInode
                          ELSE IF <<d, n>> \in Stray THEN StrayInode ELSE None
  BY DEF Init, FsInit, Path
<1>4. \A d \in Dirs, r \in Runs : <<d, ScratchName[r]>> # Home
                                  /\ <<d, ScratchName[r]>> \notin Stray
  BY PathFacts, OpsAssumption
<1>5. \A d \in Dirs, r \in Runs, i \in Inodes : ~Leads(d, ScratchName[r], i)
  <2>1. \A r \in Runs : ScratchName[r] \in Names
    BY PathFacts
  <2>2. \A d \in Dirs, r \in Runs : entry[<<d, ScratchName[r]>>] = None
    BY <1>3, <1>4, <2>1
  <2>3. ASSUME NEW d \in Dirs, NEW r \in Runs, NEW i \in Inodes,
               Leads(d, ScratchName[r], i)
        PROVE  FALSE
    <3>1. entry[<<d, ScratchName[r]>>] = i
      BY <1>2, <2>1, <2>3
    <3> QED
      BY <2>2, <3>1, InodeFacts
  <2> QED
    BY <2>3
<1>6. \A p \in UserPath, r \in Runs : ~Leads(p[1], p[2], r)
  BY <1>2, <1>3, PathFacts, InodeFacts DEF UserNames
<1>7. Coherent
  BY <1>2 DEF Coherent
<1> QED
  BY <1>5, <1>6, <1>7, InitType DEF NameInv, OwnNames

(* NameInv always holds.                                                   *)
LEMMA NamesKept == Spec => []NameInv
<1>1. Init => NameInv
  BY InitNames
<1>2. NameInv /\ [Next]_vars => NameInv'
  BY NameStep
<1> QED
  BY <1>1, <1>2, PTL DEF Spec

-----------------------------------------------------------------------------
(* Nothing is left over *)

\* As long as nothing has crashed, a scratch file lies next to the output of
\* its run, which is still at it, or was when the file could not be moved.
Tidy ==
  crashes = 0 =>
    \A d \in Dirs, r \in Runs :
      Exists(<<d, ScratchName[r]>>) =>
        Tmp(r) = <<d, ScratchName[r]>>
          /\ pc[r] \in {"copy", "clear", "rename", "stranded"}

(* What a step does to the names of scratch files when it is not made to   *)
(* touch them.                                                             *)
LEMMA TidyStep ==
  ASSUME NameInv, Tidy, [Next]_vars
  PROVE  Tidy'
<1>0. /\ TypeOK /\ FsTypeOK /\ pc \in [Runs -> Steps] /\ job \in [Runs -> Jobs]
      /\ crashes \in 0 .. MaxCrashes
  BY DEF NameInv, TypeOK
<1>s. \A d \in Dirs, r \in Runs :
        /\ <<d, ScratchName[r]>> \in Path
        /\ \A p \in UserPath : <<d, ScratchName[r]>> # p
  BY PathFacts
\* Steps that move or remove at most user names, and none of a scratch file.
<1>a. ASSUME crashes' = crashes, job' = job,
             \A d \in Dirs, r \in Runs :
               entry'[<<d, ScratchName[r]>>] \in {None, entry[<<d, ScratchName[r]>>]},
             NEW q \in Runs,
             \A r \in Runs \ {q} : pc'[r] = pc[r],
             pc'[q] \in {"copy", "clear", "rename", "stranded"}
               \/ pc[q] \notin {"copy", "clear", "rename", "stranded"}
               \/ entry'[Tmp(q)] = None
      PROVE  Tidy'
  BY <1>a DEF Tidy, Exists, Tmp, Out
<1>1. ASSUME NEW r \in Runs, Refuse(r)
      PROVE  Tidy'
  <2>1. /\ pc[r] = "idle" /\ entry' = entry /\ job' = job /\ crashes' = crashes
        /\ \A q \in Runs \ {r} : pc'[q] = pc[q]
    BY <1>0, <1>1 DEF Refuse, MayStart, Go, fsVars, envVars
  <2> QED
    BY <1>a, <2>1
<1>2. ASSUME NEW r \in Runs, NEW c \in Commands, EncryptBegin(r, c) \/ DecryptBegin(r, c)
      PROVE  Tidy'
  <2>1. /\ pc[r] = "idle" /\ entry' = entry /\ crashes' = crashes
        /\ \A q \in Runs \ {r} : pc'[q] = pc[q] /\ job'[q] = job[q]
    BY <1>0, <1>2 DEF EncryptBegin, DecryptBegin, MayStart, Go, fsVars, envVars
  <2>2. crashes = 0 => \A d \in Dirs : ~Exists(<<d, ScratchName[r]>>)
    BY <2>1 DEF Tidy
  <2> QED
    BY <2>1, <2>2 DEF Tidy, Exists, Tmp, Out
<1>3. ASSUME NEW r \in Runs, StepOf(r)
      PROVE  Tidy'
  <2>j. /\ In(r) \in UserPath /\ Out(r) \in UserPath /\ Tmp(r) \in Path
        /\ Tmp(r) = <<Out(r)[1], ScratchName[r]>> /\ Out(r)[1] \in Dirs
        /\ In(r) \in Path /\ Out(r) \in Path
    BY <1>0, JobFacts, PathFacts DEF Tmp
  <2>e. entry \in [Path -> Inodes \union {None}]
    BY <1>0 DEF FsTypeOK
  <2>1. CASE CreateScratch(r)
    <3>1. /\ entry' = [entry EXCEPT ![Tmp(r)] = r]
          /\ crashes' = crashes /\ job' = job /\ pc'[r] = "copy"
          /\ \A q \in Runs \ {r} : pc'[q] = pc[q]
          /\ pc[r] = "create"
      BY <1>0, <2>1 DEF CreateScratch, Create, ChangeNames, Go, envVars
    <3>2. ASSUME NEW d \in Dirs, NEW q \in Runs, crashes' = 0,
                 Exists(<<d, ScratchName[q]>>)'
          PROVE  /\ Tmp(q)' = <<d, ScratchName[q]>>
                 /\ pc'[q] \in {"copy", "clear", "rename", "stranded"}
      <4>1. CASE <<d, ScratchName[q]>> = Tmp(r)
        <5>1. q = r
          BY <2>j, <4>1, OpsAssumption
        <5> QED
          BY <3>1, <4>1, <5>1 DEF Tmp, Out
      <4>2. CASE <<d, ScratchName[q]>> # Tmp(r)
        <5>1. entry'[<<d, ScratchName[q]>>] = entry[<<d, ScratchName[q]>>]
          BY <1>s, <2>e, <3>1, <4>2
        <5>2. Tmp(q) = <<d, ScratchName[q]>>
                /\ pc[q] \in {"copy", "clear", "rename", "stranded"}
          BY <3>1, <3>2, <5>1 DEF Tidy, Exists
        <5> QED
          BY <3>1, <5>2 DEF Tmp, Out
      <4> QED
        BY <4>1, <4>2
    <3> QED
      BY <3>2 DEF Tidy
  <2>2. CASE Pack(r) \/ Unpack(r) \/ MoveFails(r)
    BY <1>0, <1>a, <2>2
       DEF Pack, Unpack, MoveFails, Go, envVars, envButWaived, fsVars
  <2>3. CASE Fail(r)
    <3>1. entry' = [entry EXCEPT ![Tmp(r)] = None]
            \/ (entry' = entry /\ entry[Tmp(r)] = None)
      BY <2>3 DEF Fail, Unlink, ChangeNames, Exists
    <3> QED
      BY <1>0, <1>a, <1>s, <2>e, <2>j, <2>3, <3>1 DEF Fail, Go, envVars
  <2>4. CASE Clear(r)
    <3>1. entry' = [entry EXCEPT ![Out(r)] = None] \/ entry' = entry
      BY <2>4 DEF Clear, Unlink, ChangeNames
    <3> QED
      BY <1>0, <1>a, <1>s, <2>e, <2>j, <2>4, <3>1 DEF Clear, Go, envVars, envButWaived
  <2>5. CASE Move(r)
    <3>1. entry' = [entry EXCEPT ![Tmp(r)] = None, ![Out(r)] = entry[Tmp(r)]]
      BY <2>5 DEF Move, Rename, ChangeNames
    <3>2. entry'[Tmp(r)] = None
      BY <1>0, <2>e, <2>j, <3>1, JobFacts
    <3>3. \A d \in Dirs, q \in Runs :
            entry'[<<d, ScratchName[q]>>] \in {None, entry[<<d, ScratchName[q]>>]}
      BY <1>s, <2>e, <2>j, <3>1
    <3> QED
      BY <1>0, <1>a, <2>5, <3>2, <3>3 DEF Move, Go, envVars, envButWaived
  <2>6. CASE \/ Verify(r) \/ VerifyFails(r) \/ SyncParent(r) \/ Destroy(r)
             \/ RemoveFails(r)
    <3>1. /\ pc[r] \notin {"copy", "clear", "rename", "stranded"}
          /\ entry' = entry /\ job' = job /\ crashes' = crashes
          /\ \A q \in Runs \ {r} : pc'[q] = pc[q]
      BY <1>0, <2>6
         DEF Verify, VerifyFails, SyncParent, SyncDir, Destroy, RemoveFails, Go,
             envVars, envButWaived, fsVars
    <3> QED
      BY <1>a, <3>1
  <2>7. CASE RemoveInput(r) \/ UnlinkRest(r)
    <3>1. entry' = [entry EXCEPT ![In(r)] = None]
      BY <2>7 DEF RemoveInput, UnlinkRest, Unlink, ChangeNames
    <3> QED
      BY <1>0, <1>a, <1>s, <2>e, <2>j, <2>7, <3>1
         DEF RemoveInput, UnlinkRest, Go, envVars
  <2> QED
    BY <1>3, <2>1, <2>2, <2>3, <2>4, <2>5, <2>6, <2>7 DEF StepOf
<1>4. CASE Crash
  BY <1>0, <1>4 DEF Crash, Tidy
<1>5. ASSUME NEW p \in UserPath, Edit(p)
      PROVE  Tidy'
  BY <1>5 DEF Edit, SyncDir, runVars, Tidy, Exists, Tmp, Out
<1>6. ASSUME NEW p \in UserPath, Stranger(p)
      PROVE  Tidy'
  <2>1. /\ entry' = [entry EXCEPT ![p] = StrayInode]
        /\ pc' = pc /\ job' = job /\ crashes' = crashes
    BY <1>6 DEF Stranger, Create, ChangeNames, runVars
  <2>2. \A d \in Dirs, r \in Runs :
          entry'[<<d, ScratchName[r]>>] = entry[<<d, ScratchName[r]>>]
    BY <1>0, <1>6, <1>s, <2>1 DEF FsTypeOK
  <2> QED
    BY <2>1, <2>2 DEF Tidy, Exists, Tmp, Out
<1>7. CASE UNCHANGED vars
  BY <1>7 DEF vars, fsVars, runVars, envVars, Tidy, Exists, Tmp, Out
<1> QED
  BY <1>1, <1>2, <1>3, <1>4, <1>5, <1>6, <1>7 DEF Next

(* Whatever runs overlap, fail or are overtaken by other programs: without *)
(* a crash, a run that has ended has left no scratch file, which may hold  *)
(* plaintext, unless it failed while moving it.                            *)
THEOREM NothingLeftOver == Spec => []NoLeftovers
<1>1. Init => Tidy
  <2> SUFFICES ASSUME Init, NEW d \in Dirs, NEW r \in Runs
               PROVE  ~Exists(<<d, ScratchName[r]>>)
    BY DEF Tidy
  <2>1. <<d, ScratchName[r]>> \in Path \ UserPath
    BY PathFacts
  <2>2. entry[<<d, ScratchName[r]>>] = None
    BY <2>1, OpsAssumption DEF Init, FsInit
  <2> QED
    BY <2>2 DEF Exists
<1>2. NameInv /\ Tidy /\ [Next]_vars => Tidy'
  BY TidyStep
<1>3. NameInv /\ Tidy => NoLeftovers
  <2> SUFFICES ASSUME NameInv, Tidy, crashes = 0,
                      NEW r \in Runs, pc[r] \in {"done", "failed"}
               PROVE  ~Exists(Tmp(r))
    BY DEF NoLeftovers
  <2>1. Out(r)[1] \in Dirs
    BY JobFacts, PathFacts DEF NameInv
  <2> QED
    BY <2>1 DEF Tidy, Tmp
<1> QED
  BY <1>1, <1>2, <1>3, NamesKept, PTL DEF Spec

-----------------------------------------------------------------------------
(* The input stays *)

\* What a command replaces with -f is not its input.
ForcedElsewhere ==
  \A c \in Commands : c.force =>
    IF c.output # NoPath THEN c.output # c.in
    ELSE c.op = "encrypt" /\ ContainerName[c.in[2]] # c.in[2]

\* Until a run has ended its output is not its input, and it only gets to the
\* removal of an input that it need not keep.
InputSafe ==
  \A r \in Runs :
    /\ pc[r] \in {"create", "copy", "clear", "rename"} => Out(r) # In(r)
    /\ pc[r] = "verify" => IsEncrypt(r) /\ job[r].cmd.verify
    /\ pc[r] \in {"sync", "remove", "unlink"} => ~KeepsInput(r)

(* A run that may not touch its input does not get to the removal.         *)
LEMMA InputSafeStep ==
  ASSUME ForcedElsewhere, TypeOK, InputSafe, [Next]_vars
  PROVE  InputSafe'
<1>0. pc \in [Runs -> Steps] /\ job \in [Runs -> Jobs]
  BY DEF TypeOK
\* Where a job begins is what counts, and the way to the removal.
<1>a. ASSUME NEW r \in Runs, job' = job, \A q \in Runs \ {r} : pc'[q] = pc[q],
             \/ pc'[r] \in {"copy", "clear", "rename"}
                  /\ pc[r] \in {"create", "copy", "clear", "rename"}
             \/ pc'[r] \in {"sync", "remove", "unlink"} /\ ~KeepsInput(r)
             \/ pc'[r] = "verify" /\ IsEncrypt(r) /\ job[r].cmd.verify
             \/ pc'[r] \notin {"create", "copy", "clear", "rename", "verify",
                               "sync", "remove", "unlink"}
      PROVE  InputSafe'
  BY <1>a DEF InputSafe, Out, In, KeepsInput, IsEncrypt
<1>1. ASSUME NEW r \in Runs, Refuse(r)
      PROVE  InputSafe'
  BY <1>0, <1>1, <1>a DEF Refuse, Go
<1>2. ASSUME NEW r \in Runs, NEW c \in Commands, EncryptBegin(r, c) \/ DecryptBegin(r, c)
      PROVE  InputSafe'
  <2>1. PICK o, k, f :
          /\ job' = [job EXCEPT ![r] = [cmd |-> c, out |-> o, fd |-> f, kind |-> k]]
          /\ Free(o, c.force)
          /\ IF c.output # NoPath THEN o = c.output
             ELSE c.op = "encrypt" => o = <<c.in[1], ContainerName[c.in[2]]>>
    BY <1>2 DEF EncryptBegin, DecryptBegin
  <2>2. Exists(c.in) /\ Go(r, "create")
    BY <1>2 DEF EncryptBegin, DecryptBegin
  <2>3. o # c.in
    <3>1. CASE c.force
      BY <2>1, <3>1 DEF ForcedElsewhere
    <3>2. CASE ~c.force
      BY <2>1, <2>2, <3>2 DEF Free
    <3> QED
      BY <3>1, <3>2
  <2>4. /\ job'[r] = [cmd |-> c, out |-> o, fd |-> f, kind |-> k]
        /\ \A q \in Runs \ {r} : job'[q] = job[q] /\ pc'[q] = pc[q]
        /\ pc'[r] = "create"
    BY <1>0, <2>1, <2>2 DEF Go
  <2>5. job'[r].out # job'[r].cmd.in
    BY <2>3, <2>4
  <2> QED
    BY <2>4, <2>5 DEF InputSafe, Out, In, KeepsInput, IsEncrypt
<1>3. ASSUME NEW r \in Runs, StepOf(r)
      PROVE  InputSafe'
  <2>1. CASE CreateScratch(r) \/ Pack(r) \/ Unpack(r) \/ Clear(r)
    BY <1>0, <1>a, <2>1 DEF CreateScratch, Pack, Unpack, Clear, Go
  <2>2. CASE Fail(r) \/ MoveFails(r) \/ VerifyFails(r) \/ RemoveInput(r)
             \/ UnlinkRest(r) \/ RemoveFails(r)
    BY <1>0, <1>a, <2>2
       DEF Fail, MoveFails, VerifyFails, RemoveInput, UnlinkRest, RemoveFails, Go
  <2>3. CASE Move(r)
    BY <1>0, <1>a, <2>3 DEF Move, AfterMove, Go, KeepsInput, IsEncrypt
  <2>4. CASE Verify(r)
    BY <1>0, <1>a, <2>4 DEF Verify, Go, KeepsInput, InputSafe
  <2>5. CASE SyncParent(r) \/ Destroy(r)
    BY <1>0, <1>a, <2>5 DEF SyncParent, Destroy, Go, InputSafe
  <2> QED
    BY <1>3, <2>1, <2>2, <2>3, <2>4, <2>5 DEF StepOf
<1>4. CASE Crash
  BY <1>0, <1>4 DEF Crash, InputSafe, Out, In, KeepsInput, IsEncrypt
<1>5. ASSUME NEW p \in UserPath, Edit(p) \/ Stranger(p)
      PROVE  InputSafe'
  BY <1>5 DEF Edit, Stranger, runVars, InputSafe, Out, In, KeepsInput, IsEncrypt
<1>6. CASE UNCHANGED vars
  BY <1>6 DEF vars, runVars, InputSafe, Out, In, KeepsInput, IsEncrypt
<1> QED
  BY <1>1, <1>2, <1>3, <1>4, <1>5, <1>6 DEF Next

(* No path of the user's leads to a scratch file before it is moved.       *)
LEMMA NotYetThere ==
  ASSUME NameInv, NEW r \in Runs, pc[r] \in Early, NEW p \in UserPath
  PROVE  entry[p] # r
<1>1. p = <<p[1], p[2]>> /\ p[1] \in Dirs /\ p[2] \in UserNames /\ p[2] \in Names
  BY PathFacts DEF UserNames
<1>2. Leads(p[1], p[2], entry[p])
  BY <1>1 DEF NameInv, Coherent
<1> QED
  BY <1>1, <1>2 DEF NameInv, OwnNames

(* Only the removal touches the input of a run.                            *)
LEMMA InputTouched ==
  ASSUME NameInv, InputSafe, [Next]_vars, NEW r \in Runs,
         RunSteps(r), InputGoes(r)
  PROVE  RemoveInput(r) \/ Destroy(r) \/ UnlinkRest(r)
<1> SUFFICES ASSUME ~(RemoveInput(r) \/ Destroy(r) \/ UnlinkRest(r))
             PROVE  ~InputGoes(r)
  OBVIOUS
<1>0. /\ TypeOK /\ FsTypeOK /\ pc \in [Runs -> Steps]
      /\ entry \in [Path -> Inodes \union {None}]
      /\ content \in [Inodes -> Contents]
  BY DEF NameInv, TypeOK, FsTypeOK
<1>j. /\ In(r) \in UserPath /\ In(r) \in Path /\ Out(r) \in Path /\ Tmp(r) \in Path
      /\ In(r) # Tmp(r) /\ r \in Inodes
  BY <1>0, JobFacts, PathFacts, InodeFacts
<1>a. ASSUME entry'[In(r)] = entry[In(r)],
             Exists(In(r)) => content'[entry[In(r)]] = content[entry[In(r)]]
      PROVE  ~InputGoes(r)
  BY <1>a, Zenon DEF InputGoes
<1>1. ASSUME Refuse(r) \/ \E c \in Commands : EncryptBegin(r, c) \/ DecryptBegin(r, c)
      PROVE  ~InputGoes(r)
  BY <1>1, <1>a DEF Refuse, EncryptBegin, DecryptBegin, fsVars
<1>2. ASSUME StepOf(r)
      PROVE  ~InputGoes(r)
  <2>1. CASE CreateScratch(r)
    <3>1. /\ entry' = [entry EXCEPT ![Tmp(r)] = r]
          /\ \E c : content' = [content EXCEPT ![r] = c]
      BY <2>1 DEF CreateScratch, Create, ChangeNames, WriteSynced
    <3>2. Exists(In(r)) => entry[In(r)] # r
      BY <1>j, <2>1, NotYetThere DEF CreateScratch, Early
    <3> QED
      BY <1>0, <1>a, <1>j, <3>1, <3>2 DEF Exists
  <2>2. CASE Pack(r) \/ Unpack(r)
    <3>1. /\ entry' = entry
          /\ \E c : content' = [content EXCEPT ![r] = c]
      BY <2>2 DEF Pack, Unpack, Write, WriteSynced
    <3>2. Exists(In(r)) => entry[In(r)] # r
      BY <1>j, <2>2, NotYetThere DEF Pack, Unpack, Early
    <3> QED
      BY <1>0, <1>a, <1>j, <3>1, <3>2 DEF Exists
  <2>3. CASE Fail(r)
    <3>1. /\ entry' = [entry EXCEPT ![Tmp(r)] = None] \/ entry' = entry
          /\ content' = content
      BY <2>3 DEF Fail, Unlink, ChangeNames
    <3> QED
      BY <1>0, <1>a, <1>j, <3>1
  <2>4. CASE Clear(r)
    <3>1. /\ entry' = [entry EXCEPT ![Out(r)] = None] \/ entry' = entry
          /\ content' = content /\ Out(r) # In(r)
      BY <2>4 DEF Clear, Unlink, ChangeNames, InputSafe
    <3> QED
      BY <1>0, <1>a, <1>j, <3>1
  <2>5. CASE Move(r)
    <3>1. /\ entry' = [entry EXCEPT ![Tmp(r)] = None, ![Out(r)] = entry[Tmp(r)]]
          /\ content' = content /\ Out(r) # In(r)
      BY <2>5 DEF Move, Rename, ChangeNames, InputSafe
    <3> QED
      BY <1>0, <1>a, <1>j, <3>1
  <2>6. CASE MoveFails(r) \/ Verify(r) \/ VerifyFails(r)
    BY <1>a, <2>6 DEF MoveFails, Verify, VerifyFails, fsVars
  <2>7. CASE SyncParent(r) \/ RemoveFails(r)
    BY <1>a, <2>7 DEF SyncParent, SyncDir, RemoveFails, fsVars
  <2> QED
    BY <1>2, <2>1, <2>2, <2>3, <2>4, <2>5, <2>6, <2>7 DEF StepOf
<1>3. ASSUME NEW q \in Runs \ {r},
             \/ Refuse(q) \/ StepOf(q)
             \/ \E c \in Commands : EncryptBegin(q, c) \/ DecryptBegin(q, c)
      PROVE  FALSE
  <2>1. \E step : Go(q, step)
    <3>1. Refuse(q) \/ (\E c \in Commands : EncryptBegin(q, c) \/ DecryptBegin(q, c))
            => \E step : Go(q, step)
      BY DEF Refuse, EncryptBegin, DecryptBegin
    <3>2. StepOf(q) => \E step : Go(q, step)
      BY DEF StepOf, CreateScratch, Pack, Unpack, Fail, Clear, Move, MoveFails,
             Verify, VerifyFails, SyncParent, RemoveInput, Destroy, UnlinkRest,
             RemoveFails
    <3> QED
      BY <1>3, <3>1, <3>2, Zenon
  <2>2. pc'[r] = pc[r]
    BY <1>0, <2>1 DEF Go
  <2> QED
    BY <2>2 DEF RunSteps
<1>4. CASE Crash
  BY <1>0, <1>4 DEF Crash, RunSteps
<1>5. ASSUME NEW p \in UserPath, Edit(p) \/ Stranger(p)
      PROVE  FALSE
  BY <1>5 DEF Edit, Stranger, runVars, RunSteps
<1>6. CASE UNCHANGED vars
  BY <1>6 DEF vars, runVars, RunSteps
<1> QED
  BY <1>1, <1>2, <1>3, <1>4, <1>5, <1>6 DEF Next

(* No step of a run that keeps its input touches it.                       *)
LEMMA KeptStep ==
  ASSUME NameInv, InputSafe, [Next]_vars, NEW r \in Runs,
         RunSteps(r), KeepsInput(r)
  PROVE  ~InputGoes(r)
BY InputTouched DEF RemoveInput, Destroy, UnlinkRest, InputSafe

(* -k keeps the input in place, and so does --no-verify, whatever fails    *)
(* and whatever other runs do meanwhile, when what -f may replace is never *)
(* the input itself.                                                       *)
THEOREM KeptInput == ForcedElsewhere => (Spec => KeptInputUntouched)
<1> SUFFICES ASSUME ForcedElsewhere
             PROVE  Spec => KeptInputUntouched
  OBVIOUS
<1>1. Init => InputSafe
  BY DEF Init, InputSafe
<1>2. NameInv /\ InputSafe /\ [Next]_vars => InputSafe'
  BY InputSafeStep DEF NameInv
<1>3. NameInv /\ InputSafe /\ [Next]_vars =>
        [\A r \in Runs : RunSteps(r) /\ KeepsInput(r) => ~InputGoes(r)]_vars
  BY KeptStep
<1> QED
  BY <1>1, <1>2, <1>3, NamesKept, PTL DEF Spec, KeptInputUntouched

-----------------------------------------------------------------------------
(* Nothing is overwritten *)

\* Runs are started in order, one after the other.
OneByOne ==
  /\ \A q, r \in Runs : q < r /\ pc[r] # "idle" => pc[q] # "idle"
  /\ \A q, r \in Runs : Active(q) /\ Active(r) => q = r

\* What has come to lie at the output of a run that found nothing there was
\* put there by another program.
OutputFree ==
  \A r \in Runs :
    pc[r] \in {"create", "copy", "clear", "rename"} /\ ~job[r].cmd.force
      /\ Exists(Out(r))
      => strangers > 0 /\ entry[Out(r)] = StrayInode

(* Runs that do not overlap stay that way.                                 *)
LEMMA OneByOneStep ==
  ASSUME ~Concurrent, TypeOK, OneByOne, [Next]_vars
  PROVE  OneByOne'
<1>0. pc \in [Runs -> Steps] /\ \A r \in Runs : r \in Int
  BY DEF TypeOK, Runs
\* A run that goes on, or that starts as the next one.
<1>a. ASSUME NEW r \in Runs, \A q \in Runs \ {r} : pc'[q] = pc[q],
             Active(r) \/ MayStart(r), pc'[r] # "idle"
      PROVE  OneByOne'
  <2>1. CASE Active(r)
    <3>1. pc[r] # "idle"
      BY <2>1 DEF Active
    <3> QED
      BY <1>a, <2>1, <3>1 DEF OneByOne, Active
  <2>2. CASE MayStart(r)
    <3>1. /\ pc[r] = "idle"
          /\ \A q \in Runs : q < r => pc[q] # "idle" /\ ~Active(q)
      BY <2>2 DEF MayStart
    <3>2. \A q \in Runs : q > r => pc[q] = "idle"
      BY <3>1, <1>0 DEF OneByOne
    <3>3. \A q \in Runs \ {r} : ~Active(q) /\ ~Active(q)'
      <4>1. \A q \in Runs \ {r} : q < r \/ q > r
        BY <1>0
      <4> QED
        BY <1>a, <3>1, <3>2, <4>1 DEF Active
    <3>4. \A q, s \in Runs : Active(q)' /\ Active(s)' => q = s
      BY <3>3
    <3>5. \A q, s \in Runs : q < s /\ pc'[s] # "idle" => pc'[q] # "idle"
      <4> SUFFICES ASSUME NEW q \in Runs, NEW s \in Runs, q < s, pc'[s] # "idle"
                   PROVE  pc'[q] # "idle"
        OBVIOUS
      <4>1. CASE s = r
        BY <1>0, <1>a, <3>1, <4>1
      <4>2. CASE s # r
        <5>0. ~(s > r)
          BY <1>a, <3>2, <4>2
        <5>1. s < r /\ q < r /\ q # r
          BY <1>0, <4>2, <5>0
        <5> QED
          BY <1>a, <3>1, <5>1
      <4> QED
        BY <4>1, <4>2
    <3> QED
      BY <3>4, <3>5 DEF OneByOne
  <2> QED
    BY <1>a, <2>1, <2>2
<1>1. ASSUME NEW r \in Runs,
             Refuse(r) \/ \E c \in Commands : EncryptBegin(r, c) \/ DecryptBegin(r, c)
      PROVE  OneByOne'
  BY <1>0, <1>1, <1>a DEF Refuse, EncryptBegin, DecryptBegin, Go
<1>2. ASSUME NEW r \in Runs, StepOf(r)
      PROVE  OneByOne'
  <2>1. Active(r)
    BY <1>2 DEF StepOf, CreateScratch, Pack, Unpack, Fail, Clear, Move, MoveFails,
         Verify, VerifyFails, SyncParent, RemoveInput, Destroy, UnlinkRest,
         RemoveFails, Armed, Active
  <2>2. \E step \in Steps \ {"idle"} : Go(r, step)
    BY <1>2 DEF StepOf, CreateScratch, Pack, Unpack, Fail, Clear, Move, MoveFails,
         Verify, VerifyFails, SyncParent, RemoveInput, Destroy, UnlinkRest,
         RemoveFails, AfterMove, Steps
  <2> QED
    BY <1>0, <1>a, <2>1, <2>2 DEF Go
<1>3. CASE Crash
  <2>1. \A r \in Runs : /\ pc'[r] = "idle" <=> pc[r] = "idle"
                        /\ ~Active(r)'
    BY <1>0, <1>3 DEF Crash, Active
  <2> QED
    BY <2>1 DEF OneByOne
<1>4. ASSUME pc' = pc
      PROVE  OneByOne'
  BY <1>4 DEF OneByOne, Active
<1> QED
  BY <1>1, <1>2, <1>3, <1>4 DEF Next, Edit, Stranger, vars, runVars

(* Nobody but other programs gets in the way of such a run.                *)
LEMMA OutputFreeStep ==
  ASSUME ~Concurrent, NameInv, OneByOne, OutputFree, [Next]_vars
  PROVE  OutputFree'
<1>0. /\ TypeOK /\ pc \in [Runs -> Steps] /\ job \in [Runs -> Jobs]
      /\ entry \in [Path -> Inodes \union {None}]
      /\ strangers \in Nat /\ \A r \in Runs : r \in Int
  BY OpsAssumption DEF NameInv, TypeOK, FsTypeOK, Runs
<1>a. ASSUME NEW r \in Runs,
             pc'[r] \in {"create", "copy", "clear", "rename"} =>
               /\ pc[r] \in {"create", "copy", "clear", "rename"}
               /\ entry'[Out(r)] \in {None, entry[Out(r)]},
             job' = job, strangers' = strangers,
             \A q \in Runs \ {r} : pc'[q] \notin {"create", "copy", "clear", "rename"}
      PROVE  OutputFree'
  BY <1>a DEF OutputFree, Out, Exists
\* While a run takes a step, no other is under way.
<1>b. ASSUME NEW r \in Runs, Active(r) \/ MayStart(r),
             NEW q \in Runs \ {r}
      PROVE  pc[q] \notin {"create", "copy", "clear", "rename"}
  <2>1. ~Active(q)
    <3>1. CASE Active(r)
      BY <3>1 DEF OneByOne
    <3>2. CASE MayStart(r)
      <4>1. q < r \/ q > r
        BY <1>0
      <4> QED
        BY <3>2, <4>1, <1>0 DEF MayStart, OneByOne, Active
    <3> QED
      BY <1>b, <3>1, <3>2
  <2> QED
    BY <2>1 DEF Active
<1>1. ASSUME NEW r \in Runs, Refuse(r)
      PROVE  OutputFree'
  BY <1>0, <1>1, <1>a, <1>b DEF Refuse, Go, envVars
<1>2. ASSUME NEW r \in Runs, NEW c \in Commands, EncryptBegin(r, c) \/ DecryptBegin(r, c)
      PROVE  OutputFree'
  <2>1. PICK o, k, f :
          /\ job' = [job EXCEPT ![r] = [cmd |-> c, out |-> o, fd |-> f, kind |-> k]]
          /\ Free(o, c.force)
    BY <1>2 DEF EncryptBegin, DecryptBegin
  <2>2. /\ job'[r].out = o /\ job'[r].cmd.force = c.force
        /\ \A q \in Runs \ {r} : job'[q] = job[q]
    BY <1>0, <2>1
  <2>3. /\ MayStart(r) /\ Go(r, "create") /\ entry' = entry
    BY <1>2 DEF EncryptBegin, DecryptBegin, fsVars
  <2>4. \A q \in Runs \ {r} : pc'[q] \notin {"create", "copy", "clear", "rename"}
    BY <1>0, <1>b, <2>3 DEF Go
  <2> QED
    BY <2>1, <2>2, <2>3, <2>4 DEF OutputFree, Out, Exists, Free
<1>3. ASSUME NEW r \in Runs, StepOf(r)
      PROVE  OutputFree'
  <2>j. /\ Out(r) \in Path /\ Tmp(r) \in Path /\ Out(r) # Tmp(r)
    BY <1>0, JobFacts, PathFacts
  <2>0. Active(r) /\ job' = job /\ strangers' = strangers
    BY <1>3 DEF StepOf, CreateScratch, Pack, Unpack, Fail, Clear, Move, MoveFails,
         Verify, VerifyFails, SyncParent, RemoveInput, Destroy, UnlinkRest,
         RemoveFails, Armed, Active, envVars, envButWaived
  <2>o. ASSUME \E step : Go(r, step)
        PROVE  \A q \in Runs \ {r} :
                 pc'[q] \notin {"create", "copy", "clear", "rename"}
    BY <1>0, <1>b, <2>0, <2>o DEF Go
  <2>1. CASE CreateScratch(r)
    <3>1. entry' = [entry EXCEPT ![Tmp(r)] = r]
      BY <2>1 DEF CreateScratch, Create, ChangeNames
    <3> QED
      BY <1>0, <1>a, <2>j, <2>0, <2>o, <2>1, <3>1 DEF CreateScratch
  <2>2. CASE Pack(r) \/ Unpack(r)
    BY <1>0, <1>a, <2>0, <2>o, <2>2 DEF Pack, Unpack
  <2>3. CASE Clear(r)
    <3>1. entry' = [entry EXCEPT ![Out(r)] = None] \/ entry' = entry
      BY <2>3 DEF Clear, Unlink, ChangeNames
    <3> QED
      BY <1>0, <1>a, <2>j, <2>0, <2>o, <2>3, <3>1 DEF Clear
  <2>4. CASE \/ Fail(r) \/ Move(r) \/ MoveFails(r) \/ Verify(r) \/ VerifyFails(r)
             \/ SyncParent(r) \/ RemoveInput(r) \/ Destroy(r) \/ UnlinkRest(r)
             \/ RemoveFails(r)
    <3>1. \E step \in Steps \ {"create", "copy", "clear", "rename"} : Go(r, step)
      BY <2>4 DEF Fail, Move, MoveFails, Verify, VerifyFails, SyncParent,
           RemoveInput, Destroy, UnlinkRest, RemoveFails, AfterMove, Steps
    <3>2. pc'[r] \notin {"create", "copy", "clear", "rename"}
      BY <1>0, <3>1 DEF Go
    <3> QED
      BY <1>a, <2>0, <2>o, <3>1, <3>2
  <2> QED
    BY <1>3, <2>1, <2>2, <2>3, <2>4 DEF StepOf
<1>4. CASE Crash
  BY <1>0, <1>4 DEF Crash, OutputFree, Active
<1>5. ASSUME NEW p \in UserPath, Edit(p)
      PROVE  OutputFree'
  BY <1>5 DEF Edit, SyncDir, runVars, OutputFree, Out, Exists
<1>6. ASSUME NEW p \in UserPath, Stranger(p)
      PROVE  OutputFree'
  <2>1. /\ entry' = [entry EXCEPT ![p] = StrayInode]
        /\ pc' = pc /\ job' = job /\ strangers' = strangers + 1
    BY <1>6 DEF Stranger, Create, ChangeNames, runVars
  <2>2. \A r \in Runs : entry'[Out(r)] \in {StrayInode, entry[Out(r)]}
    BY <1>0, <2>1, JobFacts, PathFacts
  <2> QED
    BY <1>0, <2>1, <2>2 DEF OutputFree, Out, Exists
<1>7. CASE UNCHANGED vars
  BY <1>7 DEF vars, fsVars, runVars, envVars, OutputFree, Out, Exists
<1> QED
  BY <1>1, <1>2, <1>3, <1>4, <1>5, <1>6, <1>7 DEF Next

(* When runs do not overlap, a run without -f replaces nothing that was    *)
(* there, although it looks long before it moves: only what another        *)
(* program has put there meanwhile.                                        *)
THEOREM NothingReplaced == ~Concurrent => (Spec => NothingOverwritten)
<1> SUFFICES ASSUME ~Concurrent
             PROVE  Spec => NothingOverwritten
  OBVIOUS
<1>1. Init => OneByOne /\ OutputFree
  BY DEF Init, OneByOne, OutputFree, Active
<1>2. NameInv /\ OneByOne /\ OutputFree /\ [Next]_vars => (OneByOne /\ OutputFree)'
  BY OneByOneStep, OutputFreeStep DEF NameInv
<1>3. OutputFree =>
        [\A r \in Runs :
           RunSteps(r) /\ pc[r] = "rename" /\ ~job[r].cmd.force /\ Exists(Out(r))
             => \/ entry'[Out(r)] = entry[Out(r)]
                \/ strangers > 0 /\ entry[Out(r)] = StrayInode]_vars
  BY DEF OutputFree
<1> QED
  BY <1>1, <1>2, <1>3, NamesKept, PTL DEF Spec, NothingOverwritten

-----------------------------------------------------------------------------
(* Files appear whole *)

\* Inode i is half written, or may be after a crash.
Partially(i) == \E c \in saved[i] : c.data = Partial

\* While there are only files: what is half written has no layers yet.
OnlyFiles ==
  /\ \A i \in Inodes : content[i] \in saved[i]
  /\ \A i \in Inodes : \A c \in saved[i] :
       c.kind = "file" /\ (c.data = Partial => c.layers = <<>>)
  /\ \A r \in Runs : Kind(r) = "file"

\* No path of the user's leads to anything half written, and what is about to
\* be moved is complete and synced.
ShownWhole ==
  /\ \A p \in UserPath, i \in Inodes : Leads(p[1], p[2], i) => ~Partially(i)
  /\ \A r \in Runs : pc[r] \in {"clear", "rename"} => ~Partially(r)

WholeInv == NameInv /\ OnlyFiles /\ ShownWhole

\* What may lie in an inode, if something has been written there.
Written(i, c) ==
  /\ content' = [content EXCEPT ![i] = c]
  /\ saved'[i] \subseteq saved[i] \union {c} /\ c \in saved'[i]
  /\ \A j \in Inodes \ {i} : saved'[j] = saved[j]

(* Both ways of writing change one inode.                                  *)
LEMMA WriteLeaves ==
  ASSUME FsTypeOK, NEW i \in Inodes, NEW c, Write(i, c) \/ WriteSynced(i, c)
  PROVE  Written(i, c)
BY DEF Write, WriteSynced, Written, FsTypeOK

(* Writing what is not half written keeps everything whole.                *)
LEMMA WriteWhole ==
  ASSUME WholeInv, NEW i \in Inodes, NEW c, Written(i, c),
         c.kind = "file", c.data # Partial,
         \A r \in Runs : Kind(r)' = Kind(r)
  PROVE  /\ OnlyFiles'
         /\ \A j \in Inodes : Partially(j)' => Partially(j)
<1>0. content \in [Inodes -> Contents]
  BY DEF WholeInv, NameInv, TypeOK, FsTypeOK
<1>1. \A j \in Inodes : \A x \in saved'[j] : x \in saved[j] \/ x = c
  BY DEF Written
<1>2. \A j \in Inodes : content'[j] \in saved'[j]
  <2>1. ASSUME NEW j \in Inodes
        PROVE  content'[j] \in saved'[j]
    <3>1. CASE j = i
      BY <1>0, <3>1 DEF Written
    <3>2. CASE j # i
      BY <1>0, <3>2 DEF Written, WholeInv, OnlyFiles
    <3> QED
      BY <3>1, <3>2
  <2> QED
    BY <2>1
<1>3. OnlyFiles'
  BY <1>1, <1>2 DEF WholeInv, OnlyFiles
<1>4. \A j \in Inodes : Partially(j)' => Partially(j)
  BY <1>1 DEF Partially
<1> QED
  BY <1>3, <1>4

(* What the user can reach is whole.                                       *)
LEMMA ReachedWhole ==
  ASSUME WholeInv, NEW p \in UserPath, Exists(p)
  PROVE  /\ entry[p] \in Inodes /\ ~Partially(entry[p])
         /\ content[entry[p]] \in Contents
         /\ content[entry[p]].data # Partial
         /\ content[entry[p]].kind = "file"
<1>1. /\ p \in Path /\ p = <<p[1], p[2]>> /\ p[1] \in Dirs /\ p[2] \in Names
  BY PathFacts DEF UserNames
<1>2. entry[p] \in Inodes /\ content[entry[p]] \in Contents
  BY <1>1 DEF WholeInv, NameInv, TypeOK, FsTypeOK, Exists
<1>3. Leads(p[1], p[2], entry[p])
  BY <1>1 DEF WholeInv, NameInv, Coherent
<1>4. ~Partially(entry[p])
  BY <1>2, <1>3 DEF WholeInv, ShownWhole
<1>5. content[entry[p]] \in saved[entry[p]]
  BY <1>2 DEF WholeInv, OnlyFiles
<1> QED
  BY <1>2, <1>4, <1>5 DEF Partially, WholeInv, OnlyFiles

(* No step shows anything half written.                                    *)
LEMMA WholeStep ==
  ASSUME WholeInv, [Next]_vars
  PROVE  WholeInv'
<1>0. /\ NameInv /\ TypeOK /\ FsTypeOK /\ OnlyFiles /\ ShownWhole
      /\ pc \in [Runs -> Steps] /\ job \in [Runs -> Jobs] /\ Coherent
  BY DEF WholeInv, NameInv, TypeOK
<1>n. NameInv'
  BY <1>0, NameStep
<1>u. \A p \in UserPath : p[1] \in Dirs /\ p[2] \in Names
  BY PathFacts DEF UserNames
\* Steps that write nothing half, and move no scratch file.
<1>a. ASSUME NamesShrink, OnlyFiles',
             \A i \in Inodes : Partially(i)' => Partially(i),
             \A r \in Runs : pc'[r] \in {"clear", "rename"} =>
               pc[r] \in {"clear", "rename"} \/ ~Partially(r)'
      PROVE  WholeInv'
  <2>1. \A p \in UserPath, i \in Inodes : Leads(p[1], p[2], i)' => ~Partially(i)'
    BY <1>0, <1>a, <1>u DEF NamesShrink, ShownWhole
  <2>2. \A r \in Runs : pc'[r] \in {"clear", "rename"} => ~Partially(r)'
    BY <1>0, <1>a, InodeFacts DEF ShownWhole
  <2> QED
    BY <1>n, <1>a, <2>1, <2>2 DEF WholeInv, ShownWhole
\* Steps that write nothing.
<1>b. ASSUME NamesShrink, content' = content, saved' = saved,
             \A r \in Runs : Kind(r)' = "file",
             \A r \in Runs : pc'[r] \in {"clear", "rename"} =>
               pc[r] \in {"clear", "rename"}
      PROVE  WholeInv'
  <2>1. OnlyFiles'
    BY <1>0, <1>b DEF OnlyFiles
  <2>2. \A i \in Inodes : Partially(i)' => Partially(i)
    BY <1>b DEF Partially
  <2> QED
    BY <1>a, <1>b, <2>1, <2>2
<1>s. ~Naming => NamesShrink
  BY <1>0, OtherSteps
<1>1. ASSUME NEW r \in Runs, Refuse(r)
      PROVE  WholeInv'
  <2>1. NamesShrink
    BY <1>0, <1>1, SameLeads DEF Refuse, fsVars
  <2> QED
    BY <1>0, <1>1, <1>b, <2>1 DEF Refuse, Go, fsVars, OnlyFiles, Kind
<1>2. ASSUME NEW r \in Runs, NEW c \in Commands, EncryptBegin(r, c) \/ DecryptBegin(r, c)
      PROVE  WholeInv'
  <2>1. NamesShrink
    BY <1>0, <1>2, SameLeads DEF EncryptBegin, DecryptBegin, fsVars
  <2>2. c.in \in UserPath /\ Exists(c.in)
    BY <1>2, OpsAssumption DEF EncryptBegin, DecryptBegin
  <2>3. content[entry[c.in]] \in Contents /\ content[entry[c.in]].kind = "file"
    BY <2>2, ReachedWhole
  <2>4. PICK o, x, f : job' = [job EXCEPT ![r] =
                         [cmd |-> c, out |-> o, fd |-> f, kind |-> KindOf(x)]]
                       /\ x.kind = "file"
    <3>1. CASE EncryptBegin(r, c)
      BY <2>3, <3>1 DEF EncryptBegin
    <3>2. CASE DecryptBegin(r, c)
      <4>1. Inside(content[entry[c.in]]).kind = "file"
        BY <2>3, <3>2, InsideType DEF DecryptBegin
      <4> QED
        BY <3>2, <4>1 DEF DecryptBegin
    <3> QED
      BY <1>2, <3>1, <3>2
  <2>5. KindOf(x) = "file"
    BY <2>4 DEF KindOf, IsDir
  <2>6. \A q \in Runs : Kind(q)' = "file"
    BY <1>0, <2>4, <2>5 DEF Kind, OnlyFiles
  <2> QED
    BY <1>0, <1>2, <1>b, <2>1, <2>6 DEF EncryptBegin, DecryptBegin, Go, fsVars
<1>3. ASSUME NEW r \in Runs, StepOf(r)
      PROVE  WholeInv'
  <2>j. /\ In(r) \in UserPath /\ Out(r) \in UserPath /\ Tmp(r) \in Path
        /\ Out(r) \in Path /\ r \in Inodes /\ Tmp(r)[1] = Out(r)[1]
        /\ Tmp(r) = <<Out(r)[1], ScratchName[r]>> /\ Out(r)[1] \in Dirs
        /\ Tmp(r) \notin UserPath
    BY <1>0, JobFacts, PathFacts, InodeFacts DEF Tmp
  <2>k. \A q \in Runs : Kind(q)' = Kind(q) /\ Kind(q)' = "file"
    BY <1>0, <1>3
       DEF StepOf, CreateScratch, Pack, Unpack, Fail, Clear, Move, MoveFails,
           Verify, VerifyFails, SyncParent, RemoveInput, Destroy, UnlinkRest,
           RemoveFails, Kind, OnlyFiles
  <2>1. CASE CreateScratch(r)
    <3> DEFINE c == Plain("file", Partial)
    <3>1. /\ pc[r] = "create" /\ pc'[r] = "copy"
          /\ \A q \in Runs \ {r} : pc'[q] = pc[q]
          /\ Create(Tmp(r), r, c)
      BY <1>0, <2>1 DEF CreateScratch, Go, OnlyFiles
    <3>2. /\ content' = [content EXCEPT ![r] = c]
          /\ saved' = [saved EXCEPT ![r] = {c}]
      BY <3>1 DEF Create, WriteSynced
    <3>3. OnlyFiles'
      <4>1. c.kind = "file" /\ c.layers = <<>>
        BY DEF Plain
      <4> HIDE DEF c
      <4>2. \A i \in Inodes : content'[i] \in saved'[i]
        BY <1>0, <2>j, <3>2 DEF OnlyFiles, FsTypeOK
      <4>3. \A i \in Inodes : \A x \in saved'[i] : x = c \/ x \in saved[i]
        BY <1>0, <2>j, <3>2 DEF FsTypeOK
      <4> QED
        BY <1>0, <2>k, <4>1, <4>2, <4>3 DEF OnlyFiles
    <3>4. \A d \in Dirs, n \in Names, i \in Inodes :
            Leads(d, n, i)' => Leads(d, n, i) \/ (<<d, n>> = Tmp(r) /\ r = i)
      BY <1>0, <2>j, <3>1, CreateLeads
    <3>5. ASSUME NEW p \in UserPath, NEW i \in Inodes, Leads(p[1], p[2], i)'
          PROVE  ~Partially(i)'
      <4>1. Leads(p[1], p[2], i)
        BY <1>u, <2>j, <3>4, <3>5, PathFacts
      <4>2. i # r
        BY <1>0, <3>1, <4>1 DEF NameInv, OwnNames, Early
      <4>3. saved'[i] = saved[i]
        BY <1>0, <3>2, <4>2 DEF FsTypeOK
      <4> QED
        BY <1>0, <4>1, <4>3 DEF ShownWhole, Partially
    <3>6. ASSUME NEW q \in Runs, pc'[q] \in {"clear", "rename"}
          PROVE  ~Partially(q)'
      <4>1. q # r /\ pc[q] \in {"clear", "rename"} /\ q \in Inodes
        BY <3>1, <3>6, InodeFacts
      <4>2. saved'[q] = saved[q]
        BY <1>0, <3>2, <4>1 DEF FsTypeOK
      <4> QED
        BY <1>0, <4>1, <4>2 DEF ShownWhole, Partially
    <3> QED
      BY <1>n, <3>3, <3>5, <3>6 DEF WholeInv, ShownWhole
  <2>2. CASE Pack(r) \/ Unpack(r)
    <3>1. PICK c : /\ WriteSynced(r, c)
                   /\ c.kind = "file" /\ c.data # Partial
      <4>1. CASE Pack(r)
        <5> DEFINE s == content[entry[In(r)]]
        <5>1. s \in Contents /\ s.kind = "file" /\ s.data # Partial
          BY <2>j, <4>1, ReachedWhole DEF Pack
        <5>2. WriteSynced(r, Sealed(s, r, In(r)[2]))
          BY <4>1 DEF Pack
        <5>3. Sealed(s, r, In(r)[2]).kind = "file"
              /\ Sealed(s, r, In(r)[2]).data # Partial
          <6> HIDE DEF s
          <6> QED
            BY <5>1, OpsAssumption DEF Sealed, OpsContents
        <5> QED
          BY <5>2, <5>3
      <4>2. CASE Unpack(r)
        <5> DEFINE s == content[job[r].fd]
        <5>1. /\ job[r].fd \in Inodes /\ IsContainer(s)
              /\ WriteSynced(r, Inside(s))
          BY <1>0, <4>2 DEF Unpack, NameInv, ContainerOpen, OnlyFiles
        <5>2. s \in Contents /\ s \in saved[job[r].fd]
          BY <1>0, <5>1 DEF FsTypeOK, OnlyFiles
        <5>3. s.kind = "file" /\ s.data # Partial
          BY <1>0, <5>1, <5>2 DEF OnlyFiles, IsContainer
        <5>4. Inside(s).kind = "file" /\ Inside(s).data # Partial
          <6> HIDE DEF s
          <6> QED
            BY <5>1, <5>2, <5>3, InsideType
        <5> QED
          BY <5>1, <5>4
      <4> QED
        BY <2>2, <4>1, <4>2
    <3>2. Written(r, c)
      BY <1>0, <2>j, <3>1, WriteLeaves
    <3>3. OnlyFiles' /\ \A j \in Inodes : Partially(j)' => Partially(j)
      BY <2>j, <2>k, <3>1, <3>2, WriteWhole
    <3>4. ~Partially(r)'
      BY <1>0, <2>j, <3>1 DEF WriteSynced, Partially, FsTypeOK
    <3>5. \A q \in Runs \ {r} : pc'[q] = pc[q]
      BY <1>0, <2>2 DEF Pack, Unpack, Go
    <3>6. NamesShrink
      BY <1>0, <2>2, SameLeads DEF Pack, Unpack
    <3> QED
      BY <1>a, <3>3, <3>4, <3>5, <3>6
  <2>3. CASE Clear(r)
    <3>1. /\ content' = content /\ saved' = saved
          /\ pc[r] = "clear" /\ \A q \in Runs \ {r} : pc'[q] = pc[q]
      BY <1>0, <2>3 DEF Clear, Go
    <3>2. NamesShrink
      BY <1>0, <2>3, <2>j, SameLeads, UnlinkLeads DEF Clear
    <3> QED
      BY <1>b, <2>k, <3>1, <3>2
  <2>4. CASE Move(r)
    <3>1. /\ content' = content /\ saved' = saved
          /\ pc[r] = "rename" /\ pc'[r] \notin {"clear", "rename"}
          /\ \A q \in Runs \ {r} : pc'[q] = pc[q]
          /\ Rename(Tmp(r), Out(r))
      BY <1>0, <2>4 DEF Move, Go, AfterMove
    <3>2. \A d \in Dirs, n \in Names, i \in Inodes :
            Leads(d, n, i)' =>
              Leads(d, n, i) \/ (<<d, n>> = Out(r) /\ entry[Tmp(r)] = i)
      BY <1>0, <2>j, <3>1, RenameLeads, InodeFacts
    <3>3. \A i \in Inodes : Partially(i)' <=> Partially(i)
      BY <3>1 DEF Partially
    <3>4. ASSUME NEW p \in UserPath, NEW i \in Inodes, Leads(p[1], p[2], i)'
          PROVE  ~Partially(i)'
      <4>1. Leads(p[1], p[2], i) \/ entry[Tmp(r)] = i
        BY <1>u, <3>2, <3>4
      <4>2. CASE Leads(p[1], p[2], i)
        BY <1>0, <3>3, <4>2 DEF ShownWhole
      <4>3. CASE entry[Tmp(r)] = i
        <5>1. Leads(Out(r)[1], ScratchName[r], i)
          BY <1>0, <2>j, <4>3, InodeFacts, PathFacts DEF Coherent, Exists
        <5>2. i = r
          BY <1>0, <2>j, <5>1 DEF NameInv, OwnNames
        <5> QED
          BY <1>0, <3>1, <3>3, <5>2 DEF ShownWhole
      <4> QED
        BY <4>1, <4>2, <4>3
    <3>5. \A q \in Runs : pc'[q] \in {"clear", "rename"} => ~Partially(q)'
      BY <1>0, <3>1, <3>3, InodeFacts DEF ShownWhole
    <3>6. OnlyFiles'
      BY <1>0, <2>k, <3>1 DEF OnlyFiles
    <3> QED
      BY <1>n, <3>4, <3>5, <3>6 DEF WholeInv, ShownWhole
  <2>5. CASE Destroy(r)
    <3>1. /\ Kind(r) = "file" /\ Exists(In(r))
          /\ Write(entry[In(r)], Plain("file", Noise))
      BY <1>0, <2>5 DEF Destroy, OnlyFiles, FileAt
    <3>2. entry[In(r)] \in Inodes
      BY <2>j, <3>1, ReachedWhole
    <3>3. Plain("file", Noise).kind = "file" /\ Plain("file", Noise).data # Partial
      BY DEF Plain, Noise, Partial
    <3>4. OnlyFiles' /\ \A j \in Inodes : Partially(j)' => Partially(j)
      BY <1>0, <2>k, <3>1, <3>2, <3>3, WriteLeaves, WriteWhole
    <3>5. NamesShrink /\ \A q \in Runs :
            pc'[q] \in {"clear", "rename"} => pc[q] \in {"clear", "rename"}
      BY <1>0, <2>5, SameLeads DEF Destroy, Go
    <3> QED
      BY <1>a, <3>4, <3>5
  <2>6. CASE \/ Fail(r) \/ MoveFails(r) \/ Verify(r) \/ VerifyFails(r)
             \/ SyncParent(r) \/ RemoveInput(r) \/ UnlinkRest(r) \/ RemoveFails(r)
    <3>1. content' = content /\ saved' = saved
      BY <2>6 DEF Fail, MoveFails, Verify, VerifyFails, SyncParent, RemoveInput,
           UnlinkRest, RemoveFails, fsVars
    <3>2. \A q \in Runs :
            pc'[q] \in {"clear", "rename"} => pc[q] \in {"clear", "rename"}
      BY <1>0, <2>6
         DEF Fail, MoveFails, Verify, VerifyFails, SyncParent, RemoveInput,
             UnlinkRest, RemoveFails, Go
    <3>3. NamesShrink
      <4>1. In(r) \in Path
        BY <2>j, PathFacts
      <4>2. CASE Fail(r) \/ SyncParent(r)
        BY <1>0, <2>j, <4>2, SameLeads, UnlinkLeads, SyncLeads DEF Fail, SyncParent
      <4>3. CASE RemoveInput(r) \/ UnlinkRest(r)
        BY <1>0, <4>1, <4>3, UnlinkLeads DEF RemoveInput, UnlinkRest
      <4>4. CASE MoveFails(r) \/ Verify(r) \/ VerifyFails(r) \/ RemoveFails(r)
        BY <1>0, <4>4, SameLeads DEF MoveFails, Verify, VerifyFails, RemoveFails, fsVars
      <4> QED
        BY <2>6, <4>2, <4>3, <4>4
    <3> QED
      BY <1>b, <2>k, <3>1, <3>2, <3>3
  <2> QED
    BY <1>3, <2>1, <2>2, <2>3, <2>4, <2>5, <2>6 DEF StepOf
<1>4. CASE Crash
  <2>1. NamesShrink
    BY <1>0, <1>4, CrashLeads DEF Crash
  <2>2. \A i \in Inodes : content'[i] \in saved[i] /\ saved'[i] = {content'[i]}
    BY <1>0, <1>4 DEF Crash, FsCrash, OnlyFiles
  <2>3. OnlyFiles'
    BY <1>0, <1>4, <2>2 DEF OnlyFiles, Crash, Kind
  <2>4. \A i \in Inodes : Partially(i)' => Partially(i)
    BY <2>2 DEF Partially
  <2>5. \A q \in Runs :
          pc'[q] \in {"clear", "rename"} => pc[q] \in {"clear", "rename"}
    BY <1>0, <1>4 DEF Crash
  <2> QED
    BY <1>a, <2>1, <2>3, <2>4, <2>5
<1>5. ASSUME NEW p \in UserPath, Edit(p)
      PROVE  WholeInv'
  <2> DEFINE s == content[entry[p]]
  <2>1. /\ entry[p] \in Inodes /\ s \in Contents /\ s.kind = "file"
    BY <1>5, ReachedWhole DEF Edit
  <2>2. PICK c : /\ c = [s EXCEPT !.data = version + 1]
                 /\ WriteSynced(entry[p], c)
    BY <1>5 DEF Edit
  <2>3. version + 1 # Partial
    BY <1>0, OpsAssumption DEF TypeOK, DataVersions, Partial
  <2>4. c.kind = "file" /\ c.data # Partial
    <3> HIDE DEF s
    <3> QED
      BY <2>1, <2>2, <2>3, OpsAssumption DEF OpsContents
  <2>5. pc' = pc /\ \A q \in Runs : Kind(q)' = Kind(q)
    BY <1>5 DEF Edit, runVars, Kind
  <2>6. OnlyFiles' /\ \A j \in Inodes : Partially(j)' => Partially(j)
    <3>1. Written(entry[p], c)
      BY <1>0, <2>1, <2>2, WriteLeaves
    <3> QED
      BY <2>1, <2>4, <2>5, <3>1, WriteWhole
  <2>7. NamesShrink
    BY <1>0, <1>5, <1>u, SyncLeads DEF Edit
  <2> QED
    BY <1>a, <2>5, <2>6, <2>7
<1>6. ASSUME NEW x \in UserPath, Stranger(x)
      PROVE  WholeInv'
  <2>1. x \in Path /\ StrayInode \in Inodes
    BY PathFacts, InodeFacts
  <2>2. /\ Create(x, StrayInode, Plain("file", Other))
        /\ pc' = pc /\ \A q \in Runs : Kind(q)' = Kind(q)
    BY <1>6 DEF Stranger, runVars, Kind
  <2>3. Plain("file", Other).kind = "file" /\ Plain("file", Other).data # Partial
    BY DEF Plain, Other, Partial
  <2>4. OnlyFiles' /\ \A j \in Inodes : Partially(j)' => Partially(j)
    BY <1>0, <2>1, <2>2, <2>3, WriteLeaves, WriteWhole DEF Create
  <2>5. ~Partially(StrayInode)'
    BY <1>0, <2>1, <2>2, <2>3 DEF Create, WriteSynced, Partially, FsTypeOK
  <2>6. \A d \in Dirs, n \in Names, i \in Inodes :
          Leads(d, n, i)' => Leads(d, n, i) \/ (<<d, n>> = x /\ StrayInode = i)
    BY <1>0, <2>1, <2>2, CreateLeads
  <2>7. \A p \in UserPath, i \in Inodes : Leads(p[1], p[2], i)' => ~Partially(i)'
    BY <1>0, <1>u, <2>4, <2>5, <2>6 DEF ShownWhole
  <2>8. \A q \in Runs : pc'[q] \in {"clear", "rename"} => ~Partially(q)'
    BY <1>0, <2>2, <2>4, InodeFacts DEF ShownWhole
  <2> QED
    BY <1>n, <2>4, <2>7, <2>8 DEF WholeInv, ShownWhole
<1>7. CASE UNCHANGED vars
  <2>1. NamesShrink
    BY <1>0, <1>7, SameLeads DEF vars, fsVars
  <2> QED
    BY <1>0, <1>7, <1>b, <2>1 DEF vars, fsVars, runVars, Kind, OnlyFiles
<1> QED
  BY <1>1, <1>2, <1>3, <1>4, <1>5, <1>6, <1>7 DEF Next

(* In the beginning nothing the user can see is half written.              *)
LEMMA InitWhole ==
  ASSUME StartKind = "file"
  PROVE  Init => WholeInv
<1> SUFFICES ASSUME Init
             PROVE  WholeInv
  OBVIOUS
<1>1. /\ \A i \in Inodes : saved[i] = {content[i]}
      /\ \A i \in Inodes : /\ content[i].kind = "file" /\ content[i].layers = <<>>
                           /\ i \notin Runs => content[i].data # Partial
  <2>1. /\ Plain(StartKind, 1) = [kind |-> "file", data |-> 1, layers |-> <<>>]
        /\ Plain("file", Other) = [kind |-> "file", data |-> Other, layers |-> <<>>]
        /\ Plain("file", Partial) = [kind |-> "file", data |-> Partial, layers |-> <<>>]
    BY DEF Plain
  <2>2. \A i \in Inodes : i \in Runs \/ i = DataInode \/ i = StrayInode
    BY OpsAssumption DEF Runs, DataInode, StrayInode
  <2>3. Other # Partial /\ 1 # Partial
    BY DEF Other, Partial
  <2> QED
    BY <2>1, <2>2, <2>3 DEF Init, FsInit
<1>2. OnlyFiles
  BY <1>1 DEF Init, OnlyFiles, Kind
<1>3. NameInv
  BY InitNames
<1>4. \A r \in Runs : pc[r] = "idle"
  BY DEF Init
<1>5. \A p \in UserPath, i \in Inodes : Leads(p[1], p[2], i) => ~Partially(i)
  <2>1. \A p \in UserPath, i \in Inodes : Leads(p[1], p[2], i) => i \notin Runs
    BY <1>3, <1>4 DEF NameInv, OwnNames, Early
  <2> QED
    BY <1>1, <2>1 DEF Partially
<1> QED
  BY <1>2, <1>3, <1>4, <1>5 DEF WholeInv, ShownWhole

(* Where the data is a file: whatever the machine does, and whoever looks  *)
(* at whatever moment, a name of the user's never leads to a file that is  *)
(* not complete.                                                           *)
THEOREM FilesAppearWhole == StartKind = "file" => (Spec => []NamesShowWholeFiles)
<1> SUFFICES ASSUME StartKind = "file"
             PROVE  Spec => []NamesShowWholeFiles
  OBVIOUS
<1>1. Init => WholeInv
  BY InitWhole
<1>2. WholeInv /\ [Next]_vars => WholeInv'
  BY WholeStep
<1>3. WholeInv => NamesShowWholeFiles
  BY ReachedWhole DEF NamesShowWholeFiles
<1> QED
  BY <1>1, <1>2, <1>3, PTL DEF Spec

=============================================================================
