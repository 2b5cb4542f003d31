----------------------------- MODULE DataProofs -----------------------------
(***************************************************************************)
(* Proofs about the user's data, in three parts.                           *)
(*                                                                         *)
(* The input of a run goes only for its replacement.  Until the removal    *)
(* the run keeps track of where its files are and what it has found out    *)
(* about them: a run that encrypts has seen that the container holds the   *)
(* source, a run that decrypts has its container still open.  That this    *)
(* stays true while the user edits, other programs create files and the    *)
(* machine crashes rests on two things: nothing is newer than the newest   *)
(* version, and the data lies in one place.                                *)
(*                                                                         *)
(* The data survives every failure, edit and crash, as long as something   *)
(* is promised.  At any moment there is a path that no run is about to     *)
(* remove and that leads to the data whatever a crash may do; each step    *)
(* either leaves that path alone or comes with another.  There runs do not *)
(* overlap, the data is a file, and -f is used only to encrypt and not     *)
(* with the input as output.  The README says what happens else.           *)
(*                                                                         *)
(* And the runs implement module Replacement.  The sets of places a crash  *)
(* may leave the data at come from one state on disk per directory and one *)
(* fate per inode that is not synced; a step adds to these sets, takes     *)
(* from them or settles them only as the replacement may.                  *)
(***************************************************************************)
EXTENDS OpsProofs

-----------------------------------------------------------------------------
(* Versions and places *)

\* What is there is among what a crash may leave, nothing is newer than the
\* newest, and what is unrelated never becomes data.
Timely ==
  /\ \A i \in Inodes : content[i] \in saved[i]
  /\ \A i \in Inodes : \A c \in saved[i] : c.data <= version
  /\ \A c \in saved[StrayInode] : c.data <= Other

\* The user's data and the scratch files have one place each.
OnePlace ==
  \A p \in UserPath :
    /\ Leads(p[1], p[2], DataInode) => p = Home
    /\ \A r \in Runs : Leads(p[1], p[2], r) => p = Out(r)

\* An inode is written with something that is no newer than allowed.
WritesTimely(i, c) ==
  Written(i, c) /\ c.data <= version' /\ (i = StrayInode => c.data <= Other)

(* Such a write keeps Timely.                                              *)
LEMMA WriteTimely ==
  ASSUME TypeOK, Timely, version' \in Int, version <= version',
         NEW i \in Inodes, NEW c, WritesTimely(i, c)
  PROVE  Timely'
<1>0. content \in [Inodes -> Contents] /\ saved \in [Inodes -> SUBSET Contents]
      /\ version \in Int
  BY OpsAssumption DEF TypeOK, FsTypeOK, DataVersions
<1>1. \A j \in Inodes : \A x \in saved'[j] : (x = c /\ i = j) \/ x \in saved[j]
  BY DEF WritesTimely, Written
<1>2. ASSUME NEW j \in Inodes
      PROVE  content'[j] \in saved'[j]
  <2>1. CASE j = i
    BY <1>0, <2>1 DEF WritesTimely, Written
  <2>2. CASE j # i
    BY <1>0, <2>2 DEF WritesTimely, Written, Timely
  <2> QED
    BY <2>1, <2>2
<1>3. ASSUME NEW j \in Inodes, NEW x \in saved'[j]
      PROVE  x.data <= version'
  <2>1. CASE x = c
    BY <2>1 DEF WritesTimely
  <2>2. CASE x \in saved[j]
    <3>1. x.data <= version /\ x.data \in Int
      BY <1>0, <2>2, OpsAssumption DEF Timely, OpsContents
    <3> QED
      BY <1>0, <3>1
  <2> QED
    BY <1>1, <1>3, <2>1, <2>2
<1>4. \A x \in saved'[StrayInode] : x.data <= Other
  BY <1>1, InodeFacts DEF WritesTimely, Timely
<1> QED
  BY <1>2, <1>3, <1>4 DEF Timely

(* No step makes anything newer than it may be.                            *)
LEMMA TimelyStep ==
  ASSUME NameInv, Timely, [Next]_vars
  PROVE  Timely'
<1>0. /\ TypeOK /\ FsTypeOK /\ ContainerOpen
      /\ content \in [Inodes -> Contents] /\ saved \in [Inodes -> SUBSET Contents]
      /\ version \in Int /\ version >= 1
      /\ \A i \in Inodes : content[i].data \in Int /\ content[i].data <= version
  <2>1. TypeOK /\ FsTypeOK /\ ContainerOpen
    BY DEF NameInv, TypeOK
  <2>2. content \in [Inodes -> Contents] /\ saved \in [Inodes -> SUBSET Contents]
        /\ version \in Int /\ version >= 1
    BY <2>1, OpsAssumption DEF TypeOK, FsTypeOK, DataVersions
  <2> QED
    BY <2>1, <2>2, OpsAssumption DEF Timely, OpsContents
<1>u. ASSUME content' = content, saved' = saved, version' = version
      PROVE  Timely'
  BY <1>u, Zenon DEF Timely
<1>1. ASSUME NEW r \in Runs,
             Refuse(r) \/ \E c \in Commands : EncryptBegin(r, c) \/ DecryptBegin(r, c)
      PROVE  Timely'
  BY <1>1, <1>u DEF Refuse, EncryptBegin, DecryptBegin, fsVars, envVars
<1>2. ASSUME NEW r \in Runs, StepOf(r)
      PROVE  Timely'
  <2>j. In(r) \in Path /\ r \in Inodes /\ r # StrayInode
    BY <1>0, JobFacts, PathFacts, InodeFacts
  <2>v. version' = version
    BY <1>2 DEF StepOf, CreateScratch, Pack, Unpack, Fail, Clear, Move, MoveFails,
         Verify, VerifyFails, SyncParent, RemoveInput, Destroy, UnlinkRest,
         RemoveFails, envVars, envButWaived
  <2>w. ASSUME NEW i \in Inodes, NEW c, Write(i, c) \/ WriteSynced(i, c),
               c.data <= version, i = StrayInode => c.data <= Other
        PROVE  Timely'
    BY <1>0, <2>v, <2>w, WriteLeaves, WriteTimely DEF WritesTimely
  <2>1. CASE CreateScratch(r)
    <3>1. PICK k : Create(Tmp(r), r, Plain(k, Partial))
      BY <2>1 DEF CreateScratch
    <3>2. Plain(k, Partial).data <= version
      BY <1>0 DEF Plain, Partial
    <3> QED
      BY <2>j, <2>w, <3>1, <3>2 DEF Create
  <2>2. CASE Pack(r)
    <3> DEFINE c == content[entry[In(r)]]
    <3>1. c \in Contents /\ c.data <= version
      BY <1>0, <2>j, <2>2 DEF Pack, FsTypeOK, Exists
    <3>2. WriteSynced(r, Sealed(c, r, In(r)[2]))
      BY <2>2 DEF Pack
    <3>3. Sealed(c, r, In(r)[2]).data = c.data
      <4> HIDE DEF c
      <4> QED
        BY <3>1, OpsAssumption DEF Sealed, OpsContents
    <3> HIDE DEF c
    <3> QED
      BY <2>j, <2>w, <3>1, <3>2, <3>3
  <2>3. CASE Unpack(r)
    <3> DEFINE c == content[job[r].fd]
    <3>1. c \in Contents /\ c.data <= version /\ IsContainer(c)
      BY <1>0, <2>3 DEF Unpack, ContainerOpen
    <3>2. Write(r, Inside(c)) \/ WriteSynced(r, Inside(c))
      BY <2>3 DEF Unpack
    <3> HIDE DEF c
    <3>3. Inside(c).data = c.data
      BY <3>1, InsideType
    <3> QED
      BY <2>j, <2>w, <3>1, <3>2, <3>3
  <2>4. CASE Destroy(r)
    <3>1. PICK c : Write(entry[In(r)], c) /\ c.data \in {Noise, Gutted}
      BY <2>4 DEF Destroy, Plain
    <3>2. c.data <= version /\ c.data <= Other
      BY <1>0, <3>1 DEF Noise, Gutted, Other
    <3>3. entry[In(r)] \in Inodes
      BY <1>0, <2>j, <2>4 DEF Destroy, FileAt, DirAt, Exists, FsTypeOK
    <3> QED
      BY <2>w, <3>1, <3>2, <3>3
  <2>5. CASE \/ Fail(r) \/ Clear(r) \/ Move(r) \/ MoveFails(r) \/ Verify(r)
             \/ VerifyFails(r) \/ SyncParent(r) \/ RemoveInput(r)
             \/ UnlinkRest(r) \/ RemoveFails(r)
    BY <1>u, <2>v, <2>5
       DEF Fail, Clear, Move, MoveFails, Verify, VerifyFails, SyncParent,
           RemoveInput, UnlinkRest, RemoveFails, fsVars
  <2> QED
    BY <1>2, <2>1, <2>2, <2>3, <2>4, <2>5 DEF StepOf
<1>3. CASE Crash
  <2> DEFINE u == {i \in Inodes : saved[i] # {content[i]}}
  <2>1. PICK c \in [u -> UNION {saved[i] : i \in u}] :
          /\ \A i \in u : c[i] \in saved[i]
          /\ content' = [i \in Inodes |-> IF i \in u THEN c[i] ELSE content[i]]
    BY <1>3 DEF Crash, FsCrash
  <2>4. saved' = [i \in Inodes |-> {content'[i]}]
    BY <1>3 DEF Crash, FsCrash
  <2>3. \A i \in Inodes : content'[i] \in saved[i] /\ saved'[i] = {content'[i]}
    BY <2>1, <2>4 DEF Timely
  <2>2. version' = version
    BY <1>3 DEF Crash
  <2> QED
    BY <2>2, <2>3, InodeFacts DEF Timely
<1>4. ASSUME NEW p \in UserPath, Edit(p)
      PROVE  Timely'
  <2>1. /\ entry[p] \in Inodes /\ content[entry[p]] \in Contents
        /\ content[entry[p]].data = version /\ version' = version + 1
    BY <1>0, <1>4, PathFacts DEF Edit, Exists, FsTypeOK
  <2>2. PICK c : /\ c = [content[entry[p]] EXCEPT !.data = version + 1]
                 /\ WriteSynced(entry[p], c)
    BY <1>4 DEF Edit
  <2>3. c.data = version + 1
    BY <2>1, <2>2, OpsAssumption DEF OpsContents
  <2>4. entry[p] # StrayInode
    BY <1>0, <2>1, InodeFacts DEF Timely, Other
  <2>5. Written(entry[p], c)
    BY <1>0, <2>1, <2>2, WriteLeaves
  <2>6. WritesTimely(entry[p], c)
    BY <1>0, <2>1, <2>3, <2>4, <2>5 DEF WritesTimely
  <2>7. version' \in Int /\ version <= version'
    BY <1>0, <2>1
  <2> QED
    BY <1>0, <2>1, <2>6, <2>7, WriteTimely
<1>5. ASSUME NEW p \in UserPath, Stranger(p)
      PROVE  Timely'
  <2>1. WriteSynced(StrayInode, Plain("file", Other)) /\ version' = version
    BY <1>5 DEF Stranger, Create
  <2>2. Plain("file", Other).data <= version /\ Plain("file", Other).data <= Other
    BY <1>0 DEF Plain, Other
  <2> QED
    BY <1>0, <2>1, <2>2, InodeFacts, WriteLeaves, WriteTimely DEF WritesTimely
<1>6. CASE UNCHANGED vars
  BY <1>6, <1>u DEF vars, fsVars, envVars
<1> QED
  BY <1>1, <1>2, <1>3, <1>4, <1>5, <1>6 DEF Next

(* No step gives the data or a scratch file a second place.                *)
LEMMA OnePlaceStep ==
  ASSUME NameInv, OnePlace, [Next]_vars
  PROVE  OnePlace'
<1>0. /\ TypeOK /\ FsTypeOK /\ Coherent /\ OwnNames /\ job \in [Runs -> Jobs]
  BY DEF NameInv, TypeOK
<1>u. \A p \in UserPath : p[1] \in Dirs /\ p[2] \in Names
  BY PathFacts DEF UserNames
<1>a. ASSUME \A p \in UserPath, i \in Inodes : Leads(p[1], p[2], i)' => Leads(p[1], p[2], i),
             \A r \in Runs : Out(r)' = Out(r) \/ pc[r] = "idle"
      PROVE  OnePlace'
  BY <1>0, <1>a, InodeFacts DEF OnePlace, OwnNames, Early
<1>s. ~Naming => \A p \in UserPath, i \in Inodes :
                   Leads(p[1], p[2], i)' => Leads(p[1], p[2], i)
  BY <1>0, <1>u, OtherSteps DEF NamesShrink
<1>j. \A r \in Runs : Out(r)' = Out(r) \/ pc[r] = "idle"
  <2>1. ASSUME NEW q \in Runs, NEW c \in Commands, EncryptBegin(q, c) \/ DecryptBegin(q, c)
        PROVE  \A r \in Runs : Out(r)' = Out(r) \/ pc[r] = "idle"
    BY <1>0, <2>1 DEF EncryptBegin, DecryptBegin, MayStart, Out
  <2>2. ASSUME job' = job
        PROVE  \A r \in Runs : Out(r)' = Out(r)
    BY <2>2 DEF Out
  <2> QED
    BY <2>1, <2>2
       DEF Next, Refuse, StepOf, CreateScratch, Pack, Unpack, Fail, Clear, Move,
           MoveFails, Verify, VerifyFails, SyncParent, RemoveInput, Destroy,
           UnlinkRest, RemoveFails, Crash, Edit, Stranger, runVars, vars
<1>1. CASE ~Naming
  BY <1>1, <1>a, <1>s, <1>j
<1>2. ASSUME NEW r \in Runs, CreateScratch(r)
      PROVE  OnePlace'
  <2>1. Tmp(r) \in Path \ UserPath /\ r \in Inodes
    BY <1>0, JobFacts, InodeFacts
  <2>2. \A v : \A d \in Dirs, n \in Names :
          Leads(d, n, v)' => Leads(d, n, v) \/ (<<d, n>> = Tmp(r) /\ r = v)
    BY <1>0, <1>2, <2>1, CreateLeads DEF CreateScratch
  <2>3. \A p \in UserPath, i \in Inodes : Leads(p[1], p[2], i)' => Leads(p[1], p[2], i)
    BY <1>u, <2>1, <2>2, PathFacts
  <2> QED
    BY <1>a, <1>j, <2>3
<1>3. ASSUME NEW r \in Runs, Move(r)
      PROVE  OnePlace'
  <2>1. /\ Tmp(r) \in Path /\ r \in Inodes
        /\ Tmp(r) = <<Out(r)[1], ScratchName[r]>>
        /\ Out(r) \in UserPath /\ Out(r) \in Path
        /\ Tmp(r)[1] = Out(r)[1] /\ Out(r)[1] \in Dirs
    BY <1>0, JobFacts, InodeFacts, PathFacts DEF Tmp
  <2>2. \A v : \A d \in Dirs, n \in Names :
          Leads(d, n, v)' => \/ Leads(d, n, v)
                             \/ <<d, n>> = Tmp(r) /\ v = None
                             \/ <<d, n>> = Out(r) /\ v = entry[Tmp(r)]
    BY <1>0, <1>3, <2>1, RenameLeads DEF Move
  <2>3. ASSUME NEW i \in Inodes, entry[Tmp(r)] = i
        PROVE  i = r
    <3>1. Leads(Out(r)[1], ScratchName[r], i)
      BY <1>0, <2>1, <2>3, PathFacts DEF Coherent
    <3> QED
      BY <1>0, <2>1, <3>1 DEF OwnNames
  <2>4. \A p \in UserPath, i \in Inodes :
          Leads(p[1], p[2], i)' => Leads(p[1], p[2], i) \/ (p = Out(r) /\ i = r)
    BY <1>u, <2>2, <2>3, PathFacts, InodeFacts
  <2>5. \A q \in Runs : Out(q)' = Out(q)
    BY <1>3 DEF Move, Out
  <2> QED
    BY <2>4, <2>5, InodeFacts DEF OnePlace
<1>4. ASSUME NEW x \in UserPath, Stranger(x)
      PROVE  OnePlace'
  <2>1. x \in Path /\ StrayInode \in Inodes
    BY PathFacts, InodeFacts
  <2>2. \A v : \A d \in Dirs, n \in Names :
          Leads(d, n, v)' => Leads(d, n, v) \/ (<<d, n>> = x /\ StrayInode = v)
    BY <1>0, <1>4, <2>1, CreateLeads DEF Stranger
  <2>3. \A q \in Runs : Out(q)' = Out(q)
    BY <1>4 DEF Stranger, runVars, Out
  <2>4. \A p \in UserPath, i \in Inodes :
          Leads(p[1], p[2], i)' => Leads(p[1], p[2], i) \/ i = StrayInode
    BY <1>u, <2>2
  <2>5. DataInode # StrayInode
    BY OpsAssumption DEF DataInode, StrayInode
  <2> QED
    BY <2>3, <2>4, <2>5, InodeFacts DEF OnePlace
<1> QED
  BY <1>1, <1>2, <1>3, <1>4 DEF Naming

-----------------------------------------------------------------------------
(* What a run knows of its files *)

\* What the source holds is what run r packed, or the user has changed it
\* since: then nothing else is as new, and what was packed is what is promised.
Matching(r) ==
  LET packed == Inside(content[r])
      input == content[entry[In(r)]]
  IN \/ packed = input
     \/ /\ ChangedFrom(packed, input) /\ Newest(packed)
        /\ \A i \in Inodes \ {entry[In(r)]} : content[i].data < version

\* The container that run r decrypts is still where it was opened.
StillOpen(r) ==
  /\ Exists(In(r)) /\ entry[In(r)] = job[r].fd /\ job[r].fd # r
  /\ IsContainer(content[job[r].fd])

\* Where run r has its scratch file, and what it has found out about its input.
Track(r) ==
  /\ pc[r] \in {"copy", "clear", "rename"} => entry[Tmp(r)] = r
  /\ pc[r] \in {"verify", "sync", "remove", "unlink"} =>
       entry[Out(r)] = r /\ Out(r) # In(r)
  /\ pc[r] \in {"verify", "unlink"} => IsEncrypt(r)
  /\ IsDecrypt(r)
       /\ pc[r] \in {"create", "copy", "clear", "rename", "sync", "remove"} =>
       StillOpen(r)
  /\ IsDecrypt(r) /\ pc[r] \in {"clear", "rename", "sync", "remove"} =>
       ChangedFrom(Inside(content[job[r].fd]), content[r])
  /\ IsEncrypt(r) /\ pc[r] \in {"sync", "remove"} =>
       Exists(In(r)) /\ ReadsAs(r, Inside(content[r])) /\ Matching(r)
  /\ pc[r] = "unlink" => Remains(r)

AllTracked == \A r \in Runs : Track(r)

\* All of it: what is needed to trust the removal.
GoesInv == NameInv /\ InputSafe /\ OneByOne /\ Timely /\ OnePlace /\ AllTracked

(* A run that is not under way has nothing to keep track of.               *)
LEMMA TrackIdle ==
  ASSUME NEW r \in Runs, ~Active(r)
  PROVE  Track(r)
BY DEF Track, Active

(* While one run takes a step, the others are not under way.               *)
LEMMA OthersWait ==
  ASSUME OneByOne, TypeOK, NEW r \in Runs, Active(r) \/ (MayStart(r) /\ ~Concurrent),
         NEW q \in Runs \ {r}
  PROVE  ~Active(q)
<1>0. r \in Int /\ q \in Int
  BY DEF Runs
<1>1. CASE Active(r)
  BY <1>1 DEF OneByOne
<1>2. CASE MayStart(r) /\ ~Concurrent
  <2>1. q < r \/ q > r
    BY <1>0
  <2> QED
    BY <1>2, <2>1 DEF MayStart, OneByOne, Active
<1> QED
  BY <1>1, <1>2

(* What the user changes is still what it has become.                      *)
LEMMA EditedFrom ==
  ASSUME version \in Int, version >= 1, NEW s \in Contents, NEW t \in Contents,
         ChangedFrom(s, t), t.data = version
  PROVE  ChangedFrom(s, [t EXCEPT !.data = version + 1])
<1> DEFINE u == [t EXCEPT !.data = version + 1]
<1>0. s \in OpsContents /\ t \in OpsContents
  BY OpsAssumption
<1>1. u.data = version + 1
  BY <1>0 DEF OpsContents
<1>2. u = [s EXCEPT !.data = version + 1]
  <2>1. CASE t = s
    BY <2>1
  <2>2. CASE t = [s EXCEPT !.data = t.data]
    BY <1>0, <2>2 DEF OpsContents
  <2> QED
    BY <2>1, <2>2 DEF ChangedFrom
<1>3. s.data \in 1 .. version + 1
  BY <1>0 DEF ChangedFrom, OpsContents
<1> HIDE DEF u
<1>4. ChangedFrom(s, u)
  BY <1>1, <1>2, <1>3 DEF ChangedFrom
<1> QED
  BY <1>4 DEF u

(* The steps of a run keep track of its files.                             *)
LEMMA TrackOwn ==
  ASSUME NameInv, InputSafe, NEW r \in Runs, Track(r), StepOf(r)
  PROVE  Track(r)'
<1>0. /\ TypeOK /\ FsTypeOK /\ pc \in [Runs -> Steps] /\ job \in [Runs -> Jobs]
      /\ entry \in [Path -> Inodes \union {None}]
      /\ content \in [Inodes -> Contents]
  BY DEF NameInv, TypeOK, FsTypeOK
<1>j. /\ In(r) \in Path /\ Out(r) \in Path /\ Tmp(r) \in Path
      /\ In(r) \in UserPath
      /\ In(r) # Tmp(r) /\ Out(r) # Tmp(r) /\ r \in Inodes /\ None \notin Inodes
  BY <1>0, JobFacts, PathFacts, InodeFacts
<1>c. job' = job
  BY DEF StepOf, CreateScratch, Pack, Unpack, Fail, Clear, Move, MoveFails,
     Verify, VerifyFails, SyncParent, RemoveInput, Destroy, UnlinkRest,
     RemoveFails
<1>s. /\ In(r)' = In(r) /\ Out(r)' = Out(r) /\ Tmp(r)' = Tmp(r)
      /\ IsEncrypt(r)' = IsEncrypt(r) /\ IsDecrypt(r)' = IsDecrypt(r)
      /\ job'[r].fd = job[r].fd
  BY <1>c DEF In, Out, Tmp, IsEncrypt, IsDecrypt
<1>k. ~(IsEncrypt(r) /\ IsDecrypt(r))
  BY DEF IsEncrypt, IsDecrypt
\* The container stays where it is.
<1>o. ASSUME StillOpen(r), entry'[In(r)] = entry[In(r)],
             \A i \in Inodes \ {r} : content'[i] = content[i]
      PROVE  StillOpen(r)' /\ content'[job[r].fd] = content[job[r].fd]
  <2>1. job[r].fd \in Inodes \ {r}
    BY <1>0, <1>j, <1>o DEF StillOpen, Exists
  <2> QED
    BY <1>o, <1>s, <2>1 DEF StillOpen, Exists
<1>1. CASE CreateScratch(r)
  <2>1. /\ pc[r] = "create" /\ pc'[r] = "copy"
        /\ entry' = [entry EXCEPT ![Tmp(r)] = r]
        /\ \A i \in Inodes \ {r} : content'[i] = content[i]
    BY <1>0, <1>1, <1>j
       DEF CreateScratch, Create, ChangeNames, WriteSynced, Go
  <2>2. entry'[Tmp(r)] = r /\ entry'[In(r)] = entry[In(r)]
    BY <1>0, <1>j, <2>1
  <2> QED
    BY <1>s, <1>o, <2>1, <2>2 DEF Track
<1>2. CASE Pack(r)
  <2>1. /\ pc[r] = "copy" /\ pc'[r] = "rename" /\ IsEncrypt(r) /\ entry' = entry
    BY <1>0, <1>2 DEF Pack, Go
  <2> QED
    BY <1>s, <1>k, <2>1 DEF Track
<1>3. CASE Unpack(r)
  <2>1. /\ pc[r] = "copy" /\ pc'[r] \in {"clear", "rename"} /\ IsDecrypt(r)
        /\ entry' = entry
        /\ content' = [content EXCEPT ![r] = Inside(content[job[r].fd])]
    BY <1>0, <1>3 DEF Unpack, Go, Write, WriteSynced
  <2>2. /\ content'[r] = Inside(content[job[r].fd])
        /\ \A i \in Inodes \ {r} : content'[i] = content[i]
    BY <1>0, <1>j, <2>1
  <2>3. StillOpen(r)' /\ content'[job[r].fd] = content[job[r].fd]
    BY <1>o, <2>1, <2>2 DEF Track
  <2>4. ChangedFrom(Inside(content'[job[r].fd]), content'[r])
    BY <2>2, <2>3 DEF ChangedFrom
  <2> QED
    BY <1>s, <1>k, <2>1, <2>3, <2>4 DEF Track
<1>4. CASE Clear(r)
  <2>1. /\ pc[r] = "clear" /\ pc'[r] = "rename" /\ content' = content
        /\ entry' = entry \/ entry' = [entry EXCEPT ![Out(r)] = None]
        /\ Out(r) # In(r)
    BY <1>0, <1>4 DEF Clear, Go, Unlink, ChangeNames, InputSafe
  <2>2. entry'[Tmp(r)] = entry[Tmp(r)] /\ entry'[In(r)] = entry[In(r)]
    BY <1>0, <1>j, <2>1
  <2>3. StillOpen(r) => StillOpen(r)'
    BY <1>o, <2>1, <2>2
  <2> QED
    BY <1>s, <2>1, <2>2, <2>3 DEF Track
<1>5. CASE Move(r)
  <2>1. /\ pc[r] = "rename" /\ content' = content /\ Out(r) # In(r)
        /\ entry' = [entry EXCEPT ![Tmp(r)] = None, ![Out(r)] = entry[Tmp(r)]]
        /\ pc'[r] = "done" \/ (pc'[r] = "verify" /\ IsEncrypt(r))
             \/ (pc'[r] = "sync" /\ ~IsEncrypt(r))
    BY <1>0, <1>5 DEF Move, Go, Rename, ChangeNames, InputSafe, AfterMove
  <2>2. entry'[Out(r)] = r /\ entry'[In(r)] = entry[In(r)]
    BY <1>0, <1>j, <2>1 DEF Track
  <2>3. StillOpen(r) => StillOpen(r)'
    BY <1>o, <2>1, <2>2
  <2> QED
    BY <1>s, <2>1, <2>2, <2>3 DEF Track
<1>6. CASE Verify(r)
  <2>1. /\ pc[r] = "verify" /\ pc'[r] \in {"done", "sync"} /\ IsEncrypt(r)
        /\ ReadsBack(r) /\ entry' = entry /\ content' = content
        /\ entry[Out(r)] = r /\ Out(r) # In(r)
    BY <1>0, <1>6 DEF Verify, Go, fsVars, Track
  <2>2. /\ Exists(In(r)) /\ ReadsAs(r, content[entry[In(r)]])
        /\ Inside(content[r]) = content[entry[In(r)]]
    BY <2>1 DEF ReadsBack, ReadsAs
  <2>3. (Exists(In(r)) /\ ReadsAs(r, Inside(content[r])) /\ Matching(r))'
    BY <1>c, <2>1, <2>2
       DEF Exists, In, Out, Kind, ReadsAs, Matching
  <2> QED
    BY <1>s, <1>k, <2>1, <2>3 DEF Track
<1>7. CASE SyncParent(r)
  <2>1. /\ pc[r] = "sync" /\ pc'[r] = "remove" /\ entry' = entry
        /\ content' = content /\ promised' = promised /\ version' = version
    BY <1>0, <1>7 DEF SyncParent, SyncDir, Go, envButWaived
  <2>2. StillOpen(r) => StillOpen(r)'
    BY <1>o, <2>1
  <2>3. ReadsAs(r, Inside(content[r])) => ReadsAs(r, Inside(content[r]))'
    BY <1>c, <2>1 DEF Exists, In, Out, Kind, ReadsAs
  <2>4. Matching(r) => Matching(r)'
    BY <1>s, <2>1 DEF Matching, Newest
  <2> QED
    BY <1>s, <2>1, <2>2, <2>3, <2>4 DEF Track, Exists
<1>8. CASE Destroy(r)
  <2>1. /\ pc[r] = "remove" /\ pc'[r] = "unlink" /\ IsEncrypt(r) /\ entry' = entry
        /\ Exists(In(r))
        /\ \E c : /\ content' = [content EXCEPT ![entry[In(r)]] = c]
                  /\ c.data \in {Noise, Gutted}
    BY <1>0, <1>8 DEF Destroy, Go, FileAt, DirAt, Write, Plain
  <2>2. entry[In(r)] \in Inodes
    BY <1>0, <1>j, <2>1 DEF Exists
  <2>3. Remains(r)'
    BY <1>0, <1>s, <2>1, <2>2 DEF Remains, Exists
  <2> QED
    BY <1>s, <1>k, <2>1, <2>3 DEF Track
<1>9. CASE \/ Fail(r) \/ MoveFails(r) \/ VerifyFails(r) \/ RemoveInput(r)
           \/ UnlinkRest(r) \/ RemoveFails(r)
  <2>1. ~Active(r)'
    BY <1>0, <1>9 DEF Fail, MoveFails, VerifyFails, RemoveInput, UnlinkRest,
         RemoveFails, Go, Active
  <2> QED
    BY <2>1 DEF Track, Active
<1> QED
  BY <1>1, <1>2, <1>3, <1>4, <1>5, <1>6, <1>7, <1>8, <1>9 DEF StepOf

(* So does its beginning.                                                  *)
LEMMA TrackBegin ==
  ASSUME NameInv, NEW r \in Runs, NEW c \in Commands,
         EncryptBegin(r, c) \/ DecryptBegin(r, c)
  PROVE  Track(r)'
<1>0. /\ pc \in [Runs -> Steps] /\ job \in [Runs -> Jobs] /\ pc[r] = "idle"
  BY DEF NameInv, TypeOK, EncryptBegin, DecryptBegin, MayStart
<1>1. CASE EncryptBegin(r, c)
  <2>1. pc'[r] = "create" /\ job'[r].cmd = c /\ c.op = "encrypt"
    BY <1>0, <1>1 DEF EncryptBegin, Go
  <2> QED
    BY <2>1 DEF Track, IsDecrypt, IsEncrypt
<1>2. CASE DecryptBegin(r, c)
  <2>1. /\ pc'[r] = "create" /\ job'[r].cmd = c /\ job'[r].fd = entry[c.in]
        /\ Exists(c.in) /\ IsContainer(content[entry[c.in]])
        /\ entry' = entry /\ content' = content
    BY <1>0, <1>2 DEF DecryptBegin, Go, fsVars
  <2>2. c.in \in UserPath
    BY OpsAssumption
  <2>3. entry[c.in] # r
    BY <1>0, <2>2, NotYetThere DEF Early
  <2> QED
    BY <2>1, <2>3 DEF Track, StillOpen, In, Exists
<1> QED
  BY <1>1, <1>2

(* The user may change the input or the output of a run, but no container. *)
LEMMA TrackEdit ==
  ASSUME NameInv, Timely, OnePlace, NEW r \in Runs, Track(r),
         NEW p \in UserPath, Edit(p)
  PROVE  Track(r)'
<1>0. /\ TypeOK /\ entry \in [Path -> Inodes \union {None}]
      /\ content \in [Inodes -> Contents] /\ version \in Int /\ version >= 1
      /\ promised \in Int /\ promised <= version
      /\ \A i \in Inodes : content[i].data \in Int /\ content[i].data <= version
  <2>1. /\ TypeOK /\ entry \in [Path -> Inodes \union {None}]
        /\ content \in [Inodes -> Contents] /\ saved \in [Inodes -> SUBSET Contents]
        /\ version \in Int /\ version >= 1 /\ promised \in Int /\ promised <= version
    BY OpsAssumption DEF NameInv, TypeOK, FsTypeOK, DataVersions
  <2>2. \A i \in Inodes : content[i].data \in Int /\ content[i].data <= version
    BY <2>1, OpsAssumption DEF Timely, OpsContents
  <2> QED
    BY <2>1, <2>2
<1>j. /\ In(r) \in UserPath /\ In(r) \in Path /\ r \in Inodes /\ None \notin Inodes
      /\ p \in Path
  BY <1>0, JobFacts, PathFacts, InodeFacts
<1> DEFINE i == entry[p]
<1> DEFINE c == [content[i] EXCEPT !.data = version + 1]
<1>1. /\ i \in Inodes /\ ~IsContainer(content[i]) /\ content[i].data = version
      /\ content' = [content EXCEPT ![i] = c]
      /\ entry' = entry /\ version' = version + 1
      /\ pc' = pc /\ job' = job
      /\ promised' = promised \/ ~Compared(p)
    BY <1>0, <1>j DEF Edit, SyncDir, WriteSynced, runVars, Exists
<1>2. /\ content[i] \in Contents /\ content'[i] = c
      /\ \A k \in Inodes \ {i} : content'[k] = content[k]
  BY <1>0, <1>1
<1>s. /\ In(r)' = In(r) /\ Out(r)' = Out(r) /\ Tmp(r)' = Tmp(r)
      /\ IsEncrypt(r)' = IsEncrypt(r) /\ IsDecrypt(r)' = IsDecrypt(r)
      /\ Kind(r)' = Kind(r) /\ job'[r].fd = job[r].fd
  BY <1>1 DEF In, Out, Tmp, IsEncrypt, IsDecrypt, Kind
<1>e. \A k \in Inodes : IsContainer(content[k]) => content'[k] = content[k]
  BY <1>1, <1>2
<1>f. ASSUME StillOpen(r)
      PROVE  /\ StillOpen(r)'
             /\ content'[job[r].fd] = content[job[r].fd]
             /\ content[job[r].fd] \in Contents
  <2>1. job[r].fd \in Inodes
    BY <1>0, <1>j, <1>f DEF StillOpen, Exists
  <2>2. content'[job[r].fd] = content[job[r].fd]
    BY <1>e, <1>f, <2>1 DEF StillOpen
  <2> QED
    BY <1>0, <1>1, <1>s, <1>f, <2>1, <2>2 DEF StillOpen, Exists
\* What has come of something is changed, or is not touched.
<1>g. ASSUME NEW s \in Contents, NEW k \in Inodes, ChangedFrom(s, content[k])
      PROVE  ChangedFrom(s, content'[k])
  <2>1. CASE k = i
    <3>1. ChangedFrom(s, [content[k] EXCEPT !.data = version + 1])
      BY <1>0, <1>1, <1>g, <2>1, EditedFrom
    <3> QED
      BY <1>2, <2>1, <3>1
  <2>2. CASE k # i
    BY <1>2, <1>g, <2>2
  <2> QED
    BY <2>1, <2>2
<1>3. ASSUME IsDecrypt(r), pc[r] \in {"clear", "rename", "sync", "remove"}
      PROVE  ChangedFrom(Inside(content[job[r].fd]), content[r])'
  <2>1. StillOpen(r) /\ ChangedFrom(Inside(content[job[r].fd]), content[r])
    BY <1>3 DEF Track
  <2>2. Inside(content[job[r].fd]) \in Contents
    BY <1>f, <2>1, InsideType DEF StillOpen
  <2>3. ChangedFrom(Inside(content[job[r].fd]), content'[r])
    BY <1>g, <1>j, <2>1, <2>2
  <2> QED
    BY <1>f, <1>s, <2>1, <2>3
<1>4. ASSUME IsEncrypt(r), pc[r] \in {"sync", "remove"}
      PROVE  /\ Exists(In(r))' /\ ReadsAs(r, Inside(content[r]))'
             /\ Matching(r)'
  <2>1. /\ Exists(In(r)) /\ ReadsAs(r, Inside(content[r])) /\ Matching(r)
        /\ entry[Out(r)] = r
    BY <1>4 DEF Track
  <2>2. IsContainer(content[r]) /\ content'[r] = content[r]
    BY <1>e, <1>j, <2>1 DEF ReadsAs
  <2>3. Exists(In(r))' /\ ReadsAs(r, Inside(content[r]))'
    BY <1>1, <1>s, <2>1, <2>2 DEF Exists, ReadsAs
  <2> DEFINE k == entry[In(r)]
  <2> DEFINE packed == Inside(content[r])
  <2>4. k \in Inodes /\ packed \in Contents
    BY <1>0, <1>j, <2>1, <2>2, InsideType DEF Exists
  <2>5. Matching(r)'
    <3>1. CASE i = k
      <4>1. In(r) = p
        <5>1. /\ Leads(p[1], p[2], i) /\ Leads(In(r)[1], In(r)[2], i)
          BY <1>j, <3>1, PathFacts DEF NameInv, Coherent
        <5>2. i # StrayInode
          BY <1>0, <1>1, InodeFacts DEF Timely, Other
        <5>3. i = DataInode \/ i \in Runs
          <6> HIDE DEF i
          <6> QED
            BY <1>1, <5>2, OpsAssumption DEF Runs, DataInode, StrayInode
        <5> QED
          BY <1>j, <5>1, <5>3 DEF OnePlace
      <4>2. promised' = promised
        BY <1>1, <1>4, <4>1 DEF Compared
      <4>3. ChangedFrom(packed, content[k])
        BY <2>1 DEF Matching, ChangedFrom
      <4>4. ChangedFrom(packed, content'[k])
        BY <1>g, <2>4, <4>3
      <4>5. packed.data >= promised
        <5>1. CASE packed = content[k]
          BY <1>0, <1>1, <3>1, <5>1
        <5>2. CASE packed # content[k]
          BY <2>1, <5>2 DEF Matching, Newest
        <5> QED
          BY <5>1, <5>2
      <4>6. \A x \in Inodes \ {k} : content'[x].data < version'
        BY <1>0, <1>1, <1>2, <3>1
      <4> QED
        BY <1>1, <1>s, <2>2, <4>2, <4>4, <4>5, <4>6 DEF Matching, Newest
    <3>2. CASE i # k
      <4>1. packed = content[k]
        BY <1>0, <1>1, <2>1, <3>2 DEF Matching
      <4>2. content'[k] = content[k]
        BY <1>2, <2>4, <3>2
      <4> QED
        BY <1>1, <1>s, <2>2, <4>1, <4>2 DEF Matching
    <3> QED
      BY <3>1, <3>2
  <2> QED
    BY <2>3, <2>5
<1>5. ASSUME pc[r] = "unlink"
      PROVE  Remains(r)'
  <2>1. Exists(In(r)) /\ content[entry[In(r)]].data \in {Noise, Gutted}
    BY <1>5 DEF Track, Remains
  <2>2. entry[In(r)] \in Inodes /\ entry[In(r)] # i
    BY <1>0, <1>1, <1>j, <2>1 DEF Exists, Noise, Gutted
  <2> QED
    BY <1>1, <1>2, <1>s, <2>1, <2>2 DEF Remains, Exists
<1> QED
  <2> HIDE DEF i, c
  <2>1. /\ pc'[r] = pc[r] /\ entry' = entry
    BY <1>1
  <2> QED
    BY <1>s, <1>f, <1>3, <1>4, <1>5, <2>1 DEF Track

(* What another program creates is nothing of a run's.                     *)
LEMMA TrackStranger ==
  ASSUME NameInv, Timely, NEW r \in Runs, Track(r), NEW x \in UserPath, Stranger(x)
  PROVE  Track(r)'
<1>0. /\ TypeOK /\ entry \in [Path -> Inodes \union {None}]
      /\ content \in [Inodes -> Contents] /\ version \in Int /\ version >= 1
  BY OpsAssumption DEF NameInv, TypeOK, FsTypeOK, DataVersions
<1>j. /\ In(r) \in Path /\ Out(r) \in Path /\ Tmp(r) \in Path \ UserPath
      /\ x \in Path /\ r \in Inodes /\ r # StrayInode /\ None \notin Inodes
      /\ StrayInode \in Inodes
  BY <1>0, JobFacts, PathFacts, InodeFacts
<1>1. /\ entry' = [entry EXCEPT ![x] = StrayInode]
      /\ content' = [content EXCEPT ![StrayInode] = Plain("file", Other)]
      /\ ~Exists(x) /\ \A q \in Path : entry[q] # StrayInode
      /\ pc' = pc /\ job' = job /\ version' = version /\ promised' = promised
  BY DEF Stranger, Create, ChangeNames, WriteSynced, runVars
<1>2. /\ \A q \in Path : Exists(q) => /\ entry'[q] = entry[q]
                                      /\ entry[q] \in Inodes \ {StrayInode}
      /\ entry'[Tmp(r)] = entry[Tmp(r)]
      /\ \A i \in Inodes \ {StrayInode} : content'[i] = content[i]
      /\ content'[r] = content[r]
  BY <1>0, <1>1, <1>j DEF Exists
<1>s. /\ In(r)' = In(r) /\ Out(r)' = Out(r) /\ Tmp(r)' = Tmp(r)
      /\ IsEncrypt(r)' = IsEncrypt(r) /\ IsDecrypt(r)' = IsDecrypt(r)
      /\ Kind(r)' = Kind(r) /\ job'[r].fd = job[r].fd /\ pc'[r] = pc[r]
  BY <1>1 DEF In, Out, Tmp, IsEncrypt, IsDecrypt, Kind
<1>3. entry[Out(r)] = r => Exists(Out(r)) /\ entry'[Out(r)] = r
  BY <1>2, <1>j DEF Exists
<1>4. StillOpen(r) => StillOpen(r)' /\ content'[job[r].fd] = content[job[r].fd]
  BY <1>2, <1>s, <1>j DEF StillOpen, Exists
<1>5. Exists(In(r)) => /\ Exists(In(r))' /\ entry'[In(r)] = entry[In(r)]
                       /\ content'[entry[In(r)]] = content[entry[In(r)]]
  BY <1>2, <1>s, <1>j DEF Exists
<1>6. ASSUME entry[Out(r)] = r, ReadsAs(r, Inside(content[r]))
      PROVE  ReadsAs(r, Inside(content[r]))'
  BY <1>2, <1>3, <1>6, <1>s DEF ReadsAs, Exists
<1>7. ASSUME Exists(In(r)), Matching(r)
      PROVE  Matching(r)'
  <2>1. \A i \in Inodes \ {entry[In(r)]} :
          content[i].data < version => content'[i].data < version'
    <3>1. Plain("file", Other).data < version
      BY <1>0 DEF Plain, Other
    <3>2. content'[StrayInode] = Plain("file", Other)
      BY <1>0, <1>1, <1>j
    <3> QED
      BY <1>1, <1>2, <3>1, <3>2
  <2> QED
    BY <1>1, <1>2, <1>5, <1>7, <1>s, <2>1 DEF Matching, Newest
<1>8. Remains(r) => Remains(r)'
  BY <1>5, <1>s DEF Remains
<1> QED
  BY <1>2, <1>3, <1>4, <1>5, <1>6, <1>7, <1>8, <1>s DEF Track

(* Each run keeps track of its files, whatever step is taken.              *)
LEMMA TrackStep ==
  ASSUME ~Concurrent, NameInv, InputSafe, OneByOne, Timely, OnePlace, AllTracked,
         [Next]_vars
  PROVE  AllTracked'
<1>0. TypeOK /\ pc \in [Runs -> Steps]
  BY DEF NameInv, TypeOK
<1>a. ASSUME NEW r \in Runs, Active(r) \/ MayStart(r),
             \A q \in Runs \ {r} : pc'[q] = pc[q], Track(r)'
      PROVE  AllTracked'
  <2>1. \A q \in Runs \ {r} : ~Active(q)'
    BY <1>0, <1>a, OthersWait DEF Active
  <2> QED
    BY <1>a, <2>1 DEF AllTracked, Track, Active
<1>1. ASSUME NEW r \in Runs, Refuse(r)
      PROVE  AllTracked'
  <2>1. Track(r)' /\ MayStart(r)
    BY <1>0, <1>1 DEF Refuse, Go, Track
  <2> QED
    BY <1>0, <1>1, <1>a, <2>1 DEF Refuse, Go
<1>2. ASSUME NEW r \in Runs, NEW c \in Commands, EncryptBegin(r, c) \/ DecryptBegin(r, c)
      PROVE  AllTracked'
  <2>1. Track(r)'
    BY <1>2, TrackBegin
  <2> QED
    BY <1>0, <1>2, <1>a, <2>1 DEF EncryptBegin, DecryptBegin, Go
<1>3. ASSUME NEW r \in Runs, StepOf(r)
      PROVE  AllTracked'
  <2>1. Track(r)'
    BY <1>3, TrackOwn DEF AllTracked
  <2>2. Active(r) /\ \E step : Go(r, step)
    BY <1>3 DEF StepOf, CreateScratch, Pack, Unpack, Fail, Clear, Move, MoveFails,
         Verify, VerifyFails, SyncParent, RemoveInput, Destroy, UnlinkRest,
         RemoveFails, Armed, Active
  <2>3. \A q \in Runs \ {r} : pc'[q] = pc[q]
    BY <1>0, <2>2 DEF Go
  <2> QED
    BY <1>a, <2>1, <2>2, <2>3
<1>4. CASE Crash
  BY <1>0, <1>4 DEF Crash, AllTracked, Track, Active
<1>5. ASSUME NEW p \in UserPath, Edit(p) \/ Stranger(p)
      PROVE  AllTracked'
  <2> SUFFICES ASSUME NEW r \in Runs
               PROVE  Track(r)'
    BY DEF AllTracked
  <2>1. Track(r)
    BY DEF AllTracked
  <2>2. CASE Edit(p)
    BY <2>1, <2>2, TrackEdit
  <2>3. CASE Stranger(p)
    BY <2>1, <2>3, TrackStranger
  <2> QED
    BY <1>5, <2>2, <2>3
<1>6. CASE UNCHANGED vars
  BY <1>6 DEF vars, fsVars, runVars, envVars, AllTracked, Track, StillOpen, Matching,
     ReadsAs, Remains, Exists, Newest, In, Out, Tmp, Kind, IsEncrypt, IsDecrypt
<1> QED
  BY <1>1, <1>2, <1>3, <1>4, <1>5, <1>6 DEF Next

-----------------------------------------------------------------------------
(* The removal *)

(* In the beginning the data is in its place, and no run has done anything.*)
LEMMA InitGoes == Init => GoesInv
<1> SUFFICES ASSUME Init
             PROVE  GoesInv
  OBVIOUS
<1>1. NameInv
  BY InitNames
<1>2. InputSafe /\ OneByOne /\ AllTracked
  BY DEF Init, InputSafe, OneByOne, AllTracked, Track, Active
<1>3. Timely
  <2>1. \A i \in Inodes : saved[i] = {content[i]} /\ content[i].data <= version
    BY DEF Init, FsInit, Plain, Other, Partial
  <2>2. content[StrayInode].data <= Other
    BY InodeFacts, OpsAssumption DEF Init, FsInit, Plain, Other, StrayInode, DataInode
  <2> QED
    BY <2>1, <2>2, InodeFacts DEF Timely
<1>4. OnePlace
  <2>1. ASSUME NEW p \in UserPath, NEW i \in Inodes, Leads(p[1], p[2], i)
        PROVE  i = entry[p]
    <3>1. /\ p[1] \in Dirs /\ p[2] \in Names /\ p = <<p[1], p[2]>>
      BY PathFacts DEF UserNames
    <3>2. onDisk[p[1]] = {Listing(entry, p[1])}
      BY <3>1 DEF Init, FsInit
    <3> QED
      BY <2>1, <3>1, <3>2 DEF Leads, Listing
  <2>2. \A p \in UserPath : /\ entry[p] = DataInode => p = Home
                            /\ \A r \in Runs : entry[p] # r
    <3>1. \A p \in UserPath :
            entry[p] = IF p = Home THEN DataInode
                       ELSE IF p \in Stray THEN StrayInode ELSE None
      BY PathFacts DEF Init, FsInit
    <3>2. /\ DataInode # StrayInode /\ DataInode # None
          /\ \A r \in Runs : r # DataInode /\ r # StrayInode /\ r # None
      BY OpsAssumption DEF DataInode, StrayInode, Runs, None
    <3> QED
      BY <3>1, <3>2
  <2> QED
    BY <2>1, <2>2, InodeFacts DEF OnePlace
<1> QED
  BY <1>1, <1>2, <1>3, <1>4 DEF GoesInv

(* The step that first touches the input finds its replacement.            *)
LEMMA GoesStep ==
  ASSUME GoesInv, [Next]_vars, NEW r \in Runs,
         RunSteps(r), InputGoes(r), ~Remains(r)
  PROVE  Replaced(r)
<1>0. /\ NameInv /\ Track(r) /\ r \in Inodes /\ None \notin Inodes
      /\ Exists(In(r))
  BY InodeFacts DEF GoesInv, AllTracked, InputGoes
<1>1. RemoveInput(r) \/ Destroy(r)
  <2>1. RemoveInput(r) \/ Destroy(r) \/ UnlinkRest(r)
    BY InputTouched DEF GoesInv
  <2> QED
    BY <1>0, <2>1 DEF UnlinkRest, Track
<1>2. /\ pc[r] = "remove" /\ entry[Out(r)] = r /\ Exists(Out(r))
  BY <1>0, <1>1 DEF RemoveInput, Destroy, Track, Exists
<1>3. CASE IsEncrypt(r)
  <2>1. ReadsAs(r, Inside(content[r])) /\ Matching(r)
    BY <1>0, <1>2, <1>3 DEF Track
  <2>2. IsContainer(content[r])
    BY <1>2, <2>1 DEF ReadsAs
  <2>3. /\ ChangedFrom(Inside(content[r]), content[entry[In(r)]])
        /\ \/ Inside(content[r]) = content[entry[In(r)]]
           \/ Newest(Inside(content[r]))
    BY <2>1 DEF Matching, ChangedFrom
  <2> QED
    BY <1>0, <1>2, <1>3, <2>1, <2>2, <2>3 DEF Replaced
<1>4. CASE ~IsEncrypt(r)
  <2>1. IsDecrypt(r)
    <3>1. job[r].cmd \in Commands
      BY <1>0 DEF NameInv, TypeOK, Jobs
    <3> QED
      BY <1>4, <3>1, OpsAssumption DEF IsEncrypt, IsDecrypt
  <2>2. StillOpen(r) /\ ChangedFrom(Inside(content[job[r].fd]), content[r])
    BY <1>0, <1>2, <2>1 DEF Track
  <2> QED
    BY <1>0, <1>2, <1>4, <2>2 DEF Replaced, StillOpen, IsDir
<1> QED
  BY <1>3, <1>4

(* No step loses track.                                                    *)
LEMMA GoesKept ==
  ASSUME ~Concurrent, ForcedElsewhere, GoesInv, [Next]_vars
  PROVE  GoesInv'
<1>1. NameInv' /\ InputSafe' /\ OneByOne'
  BY NameStep, InputSafeStep, OneByOneStep DEF GoesInv, NameInv
<1>2. Timely' /\ OnePlace' /\ AllTracked'
  BY TimelyStep, OnePlaceStep, TrackStep DEF GoesInv
<1> QED
  BY <1>1, <1>2 DEF GoesInv

(* When runs do not overlap, and what -f replaces is never the input: the  *)
(* input is first touched when its replacement is in place and holds just  *)
(* that, whatever fails or crashes and whatever the user and other         *)
(* programs change in between.                                             *)
THEOREM InputGoneForReplacement ==
  ~Concurrent /\ ForcedElsewhere => (Spec => InputGoesForItsReplacement)
<1> SUFFICES ASSUME ~Concurrent, ForcedElsewhere
             PROVE  Spec => InputGoesForItsReplacement
  OBVIOUS
<1>1. Init => GoesInv
  BY InitGoes
<1>2. GoesInv /\ [Next]_vars => GoesInv'
  BY GoesKept
<1>3. GoesInv /\ [Next]_vars =>
        [\A r \in Runs : RunSteps(r) /\ InputGoes(r) /\ ~Remains(r)
                           => Replaced(r)]_vars
  BY GoesStep
<1> QED
  BY <1>1, <1>2, <1>3, PTL DEF Spec, InputGoesForItsReplacement


-----------------------------------------------------------------------------
(* Where the data is sure to be *)

\* Path p leads to the newest data, and will after a crash.
Sure(p) ==
  \A i \in Inodes \union {None} :
    Leads(p[1], p[2], i) => i # None /\ \A c \in saved[i] : Newest(c)

\* No run is removing what lies at p.
Spared(p) == \A r \in Runs : pc[r] \in {"remove", "unlink"} => p # In(r)

KeptSomewhere == waived \/ \E p \in UserPath : Sure(p) /\ Spared(p)

\* What a run moves into place is on disk, and nothing has to go for it.
Synced ==
  \A r \in Runs :
    /\ pc[r] # "clear"
    /\ pc[r] \in {"rename", "verify", "sync"} => saved[r] = {content[r]}

SurvivalInv == GoesInv /\ OutputFree /\ WholeInv /\ Synced /\ KeptSomewhere

\* Only to encrypt anything is replaced.
ForcedToEncrypt == \A c \in Commands : c.force => c.op = "encrypt"

(* The data is at a path that leads to it for sure.                        *)
LEMMA SureFacts ==
  ASSUME NameInv, Timely, NEW p \in UserPath, Sure(p)
  PROVE  /\ Exists(p) /\ entry[p] \in Inodes /\ Newest(content[entry[p]])
         /\ ~Leads(p[1], p[2], StrayInode)
<1>0. /\ entry \in [Path -> Inodes \union {None}] /\ content \in [Inodes -> Contents]
      /\ promised \in Int /\ promised >= 1
  BY OpsAssumption DEF NameInv, TypeOK, FsTypeOK, DataVersions
<1>1. /\ p \in Path /\ p = <<p[1], p[2]>> /\ p[1] \in Dirs /\ p[2] \in Names
  BY PathFacts DEF UserNames
<1>2. Leads(p[1], p[2], entry[p])
  BY <1>1 DEF NameInv, Coherent
<1>3. entry[p] \in Inodes \union {None}
  BY <1>0, <1>1
<1>4. entry[p] # None /\ entry[p] \in Inodes /\ \A c \in saved[entry[p]] : Newest(c)
  BY <1>2, <1>3 DEF Sure
<1>5. Newest(content[entry[p]])
  BY <1>4 DEF Timely
<1>6. ~Leads(p[1], p[2], StrayInode)
  <2>1. SUFFICES ASSUME Leads(p[1], p[2], StrayInode)
                 PROVE  FALSE
    OBVIOUS
  <2>2. Newest(content[StrayInode]) /\ content[StrayInode].data <= Other
        /\ content[StrayInode].data \in Int
    BY <1>0, <2>1, InodeFacts, OpsAssumption DEF Sure, Timely, OpsContents
  <2> QED
    BY <1>0, <2>2 DEF Newest, Other
<1> QED
  BY <1>4, <1>5, <1>6 DEF Exists

(* A path stays sure if it leads nowhere else and nothing older is written *)
(* to where it leads.                                                      *)
LEMMA StaysSure ==
  ASSUME NEW p \in UserPath, Sure(p), promised' = promised,
         \A i \in Inodes \union {None} : Leads(p[1], p[2], i)' => Leads(p[1], p[2], i),
         \A i \in Inodes : Leads(p[1], p[2], i) =>
           \A c \in saved'[i] : c \in saved[i] \/ c.data >= promised
  PROVE  Sure(p)'
BY DEF Sure, Newest

(* Where a run writes its scratch file no path of the user's leads to.     *)
LEMMA ScratchApart ==
  ASSUME NameInv, NEW r \in Runs, pc[r] \in Early, NEW p \in UserPath
  PROVE  ~Leads(p[1], p[2], r)
BY DEF NameInv, OwnNames

(* Another path than the input's does not lead to what the input holds.    *)
LEMMA InputApart ==
  ASSUME NameInv, Timely, OnePlace, NEW r \in Runs, Exists(In(r)),
         NEW p \in UserPath, Sure(p), p # In(r)
  PROVE  ~Leads(p[1], p[2], entry[In(r)])
<1>0. TypeOK /\ FsTypeOK /\ Coherent
  BY DEF NameInv, TypeOK
<1>1. /\ In(r) \in UserPath /\ In(r) \in Path
      /\ In(r) = <<In(r)[1], In(r)[2]>> /\ In(r)[1] \in Dirs /\ In(r)[2] \in Names
  BY <1>0, JobFacts, PathFacts DEF UserNames
<1>2. Leads(In(r)[1], In(r)[2], entry[In(r)]) /\ entry[In(r)] \in Inodes
  BY <1>0, <1>1 DEF Coherent, Exists, FsTypeOK
<1>3. entry[In(r)] = DataInode \/ entry[In(r)] \in Runs \/ entry[In(r)] = StrayInode
  BY <1>2, OpsAssumption DEF Runs, DataInode, StrayInode
<1> QED
  BY <1>1, <1>2, <1>3, SureFacts DEF OnePlace

-----------------------------------------------------------------------------
(* What is moved is on disk *)

(* Packing and restoring a file end with a sync, and until the move nobody *)
(* else writes to the scratch file but the user, who syncs.                *)
LEMMA SyncedStep ==
  ASSUME ~Concurrent, ForcedToEncrypt, WholeInv, OneByOne, Synced, [Next]_vars
  PROVE  Synced'
<1>0. /\ TypeOK /\ FsTypeOK /\ pc \in [Runs -> Steps] /\ job \in [Runs -> Jobs]
      /\ content \in [Inodes -> Contents] /\ saved \in [Inodes -> SUBSET Contents]
      /\ entry \in [Path -> Inodes \union {None}]
  BY DEF WholeInv, NameInv, TypeOK, FsTypeOK
<1>i. \A r \in Runs : r \in Inodes
  BY InodeFacts
\* A run that does not write goes on, or ends; the others are not under way.
<1>a. ASSUME NEW r \in Runs, Active(r) \/ MayStart(r),
             \A q \in Runs \ {r} : pc'[q] = pc[q], pc'[r] # "clear",
             pc'[r] \in {"rename", "verify", "sync"} => saved'[r] = {content'[r]}
      PROVE  Synced'
  <2>1. \A q \in Runs \ {r} : ~Active(q)
    BY <1>0, <1>a, OthersWait
  <2>2. \A q \in Runs \ {r} : pc'[q] \notin {"clear", "rename", "verify", "sync"}
    BY <1>a, <2>1 DEF Active
  <2> QED
    BY <1>a, <2>2 DEF Synced
<1>1. ASSUME NEW r \in Runs,
             Refuse(r) \/ \E c \in Commands : EncryptBegin(r, c) \/ DecryptBegin(r, c)
      PROVE  Synced'
  BY <1>0, <1>1, <1>a DEF Refuse, EncryptBegin, DecryptBegin, Go
<1>2. ASSUME NEW r \in Runs, StepOf(r)
      PROVE  Synced'
  <2>1. Active(r)
    BY <1>2 DEF StepOf, CreateScratch, Pack, Unpack, Fail, Clear, Move, MoveFails,
         Verify, VerifyFails, SyncParent, RemoveInput, Destroy, UnlinkRest,
         RemoveFails, Armed, Active
  <2>2. CASE Pack(r)
    <3>1. \E c : WriteSynced(r, c) /\ Go(r, "rename")
      BY <2>2 DEF Pack
    <3>2. saved'[r] = {content'[r]}
      BY <1>0, <1>i, <3>1 DEF WriteSynced
    <3> QED
      BY <1>0, <1>a, <2>1, <3>1, <3>2 DEF Go
  <2>3. CASE Unpack(r)
    <3>1. job[r].cmd \in Commands /\ ~job[r].cmd.force /\ Kind(r) = "file"
      BY <1>0, <2>3 DEF Unpack, IsDecrypt, Jobs, ForcedToEncrypt, WholeInv, OnlyFiles
    <3>2. \E c : WriteSynced(r, c) /\ Go(r, "rename")
      BY <2>3, <3>1 DEF Unpack
    <3>3. saved'[r] = {content'[r]}
      BY <1>0, <1>i, <3>2 DEF WriteSynced
    <3> QED
      BY <1>0, <1>a, <2>1, <3>2, <3>3 DEF Go
  <2>4. CASE CreateScratch(r) \/ Destroy(r)
    <3>1. Go(r, "copy") \/ Go(r, "unlink")
      BY <2>4 DEF CreateScratch, Destroy
    <3> QED
      BY <1>0, <1>a, <2>1, <3>1 DEF Go
  <2>5. CASE \/ Fail(r) \/ Clear(r) \/ Move(r) \/ MoveFails(r) \/ Verify(r)
             \/ VerifyFails(r) \/ SyncParent(r) \/ RemoveInput(r)
             \/ UnlinkRest(r) \/ RemoveFails(r)
    <3>1. content' = content /\ saved' = saved
      BY <2>5 DEF Fail, Clear, Move, MoveFails, Verify, VerifyFails, SyncParent,
           RemoveInput, UnlinkRest, RemoveFails, fsVars
    <3>2. \E step : Go(r, step) /\ step # "clear"
                    /\ (step \in {"rename", "verify", "sync"} =>
                          pc[r] \in {"clear", "rename", "verify", "sync"})
      BY <2>5 DEF Fail, Clear, Move, MoveFails, Verify, VerifyFails, SyncParent,
           RemoveInput, UnlinkRest, RemoveFails, AfterMove
    <3> QED
      BY <1>0, <1>a, <2>1, <3>1, <3>2 DEF Go, Synced
  <2> QED
    BY <1>2, <2>2, <2>3, <2>4, <2>5 DEF StepOf
<1>3. CASE Crash
  BY <1>0, <1>3 DEF Crash, Synced, Active
<1>4. ASSUME NEW i \in Inodes, NEW c, WriteSynced(i, c), pc' = pc
      PROVE  Synced'
  <2>1. \A j \in Inodes : \/ content'[j] = content[j] /\ saved'[j] = saved[j]
                          \/ saved'[j] = {content'[j]}
    BY <1>0, <1>4 DEF WriteSynced
  <2> QED
    BY <1>i, <1>4, <2>1 DEF Synced
<1>5. ASSUME NEW p \in UserPath, Edit(p)
      PROVE  Synced'
  <2>1. entry[p] \in Inodes
    BY <1>0, <1>5, PathFacts DEF Edit, Exists
  <2> QED
    BY <1>4, <1>5, <2>1 DEF Edit, runVars
<1>6. ASSUME NEW p \in UserPath, Stranger(p)
      PROVE  Synced'
  BY <1>4, <1>6, InodeFacts DEF Stranger, Create, runVars
<1>7. CASE UNCHANGED vars
  BY <1>7 DEF vars, fsVars, runVars, Synced
<1> QED
  BY <1>1, <1>2, <1>3, <1>5, <1>6, <1>7 DEF Next

-----------------------------------------------------------------------------
(* No step loses the data *)

\* A step of run r that begins no removal.
StillSpares(r) ==
  /\ job' = job
  /\ \A q \in Runs \ {r} : pc'[q] = pc[q]
  /\ pc'[r] \in {"remove", "unlink"} => pc[r] \in {"remove", "unlink"}

(* Such a step spares what was spared.                                     *)
LEMMA SparesOn ==
  ASSUME NEW r \in Runs, StillSpares(r), NEW p \in UserPath, Spared(p)
  PROVE  Spared(p)'
BY DEF StillSpares, Spared, In

(* Writing to a scratch file, and taking its name away.                    *)
LEMMA ScratchKeeps ==
  ASSUME NameInv, KeptSomewhere, NEW r \in Runs,
         CreateScratch(r) \/ Pack(r) \/ Unpack(r) \/ Fail(r)
  PROVE  KeptSomewhere'
<1>0. /\ TypeOK /\ FsTypeOK /\ Coherent /\ pc \in [Runs -> Steps]
      /\ saved \in [Inodes -> SUBSET Contents]
  BY DEF NameInv, TypeOK, FsTypeOK
<1>j. /\ Tmp(r) \in Path \ UserPath /\ r \in Inodes
      /\ Tmp(r) = <<Out(r)[1], ScratchName[r]>> /\ Tmp(r)[1] \in Dirs
  BY <1>0, JobFacts, PathFacts, InodeFacts DEF Tmp
<1>1. promised' = promised /\ waived' = waived /\ StillSpares(r)
  BY <1>0 DEF CreateScratch, Pack, Unpack, Fail, envVars, StillSpares, Go
<1>2. ASSUME NEW p \in UserPath, Sure(p)
      PROVE  Sure(p)'
  <2>1. /\ p = <<p[1], p[2]>> /\ p[1] \in Dirs /\ p[2] \in Names
        /\ <<p[1], p[2]>> # Tmp(r)
    BY <1>j, PathFacts DEF UserNames
  <2>2. CASE CreateScratch(r)
    <3>1. PICK c : Create(Tmp(r), r, c)
      BY <2>2 DEF CreateScratch
    <3>2. \A v : Leads(p[1], p[2], v)' => Leads(p[1], p[2], v)
      BY <1>0, <1>j, <2>1, <3>1, CreateLeads
    <3>3. ~Leads(p[1], p[2], r)
      BY <2>2, ScratchApart DEF CreateScratch, Early
    <3>4. \A i \in Inodes \ {r} : saved'[i] = saved[i]
      BY <1>0, <1>j, <3>1 DEF Create, WriteSynced
    <3> QED
      BY <1>1, <1>2, <3>2, <3>3, <3>4, StaysSure
  <2>3. CASE Pack(r) \/ Unpack(r)
    <3>1. /\ pc[r] = "copy" /\ UNCHANGED <<entry, onDisk>>
          /\ \E c : Write(r, c) \/ WriteSynced(r, c)
      BY <2>3 DEF Pack, Unpack
    <3>2. \A v : Leads(p[1], p[2], v)' => Leads(p[1], p[2], v)
      BY <3>1 DEF Leads
    <3>3. ~Leads(p[1], p[2], r)
      BY <3>1, ScratchApart DEF Early
    <3>4. \A i \in Inodes \ {r} : saved'[i] = saved[i]
      BY <1>0, <1>j, <3>1 DEF Write, WriteSynced
    <3> QED
      BY <1>1, <1>2, <3>2, <3>3, <3>4, StaysSure
  <2>4. CASE Fail(r)
    <3>1. /\ Unlink(Tmp(r)) \/ UNCHANGED <<entry, onDisk>>
          /\ saved' = saved
      BY <2>4 DEF Fail
    <3>2. \A v : Leads(p[1], p[2], v)' => Leads(p[1], p[2], v)
      <4>1. CASE Unlink(Tmp(r))
        BY <1>0, <1>j, <2>1, <4>1, UnlinkLeads
      <4>2. CASE UNCHANGED <<entry, onDisk>>
        BY <4>2 DEF Leads
      <4> QED
        BY <3>1, <4>1, <4>2
    <3> QED
      BY <1>1, <1>2, <3>1, <3>2, StaysSure
  <2> QED
    BY <2>2, <2>3, <2>4
<1> QED
  BY <1>1, <1>2, SparesOn DEF KeptSomewhere

(* A move puts the newest data in the place of the newest data, unless the *)
(* promise ends: what is in the way of a run that found its output free is *)
(* another program's, and with -f nothing newer is replaced by older data. *)
LEMMA MoveKeeps ==
  ASSUME SurvivalInv, NEW r \in Runs, Move(r)
  PROVE  KeptSomewhere'
<1>0. /\ NameInv /\ TypeOK /\ FsTypeOK /\ Coherent /\ Timely
      /\ pc \in [Runs -> Steps] /\ content \in [Inodes -> Contents]
      /\ promised \in Int /\ promised >= 1
  BY OpsAssumption DEF SurvivalInv, GoesInv, NameInv, TypeOK, FsTypeOK, DataVersions
<1>j. /\ Tmp(r) \in Path \ UserPath /\ Out(r) \in UserPath /\ Out(r) \in Path
      /\ r \in Inodes /\ Tmp(r)[1] = Out(r)[1]
  BY <1>0, JobFacts, PathFacts, InodeFacts DEF Tmp
<1>1. /\ pc[r] = "rename" /\ promised' = promised /\ StillSpares(r)
      /\ saved' = saved /\ waived' = (waived \/ GivesUp(r))
      /\ entry[Tmp(r)] = r /\ saved[r] = {content[r]}
  BY <1>0 DEF Move, envButWaived, StillSpares, Go, AfterMove, SurvivalInv, GoesInv,
     AllTracked, Track, Synced
<1>2. \A v : \A d \in Dirs, n \in Names :
        Leads(d, n, v)' => \/ Leads(d, n, v)
                           \/ <<d, n>> = Tmp(r) /\ v = None
                           \/ <<d, n>> = Out(r) /\ v = r
  BY <1>0, <1>1, <1>j, RenameLeads DEF Move
<1>3. ASSUME NEW p \in UserPath, Sure(p), ~waived'
      PROVE  Sure(p)'
  <2>1. /\ p = <<p[1], p[2]>> /\ p[1] \in Dirs /\ p[2] \in Names
        /\ <<p[1], p[2]>> # Tmp(r)
    BY <1>j, PathFacts DEF UserNames
  <2>2. \A v : Leads(p[1], p[2], v)' => Leads(p[1], p[2], v) \/ (p = Out(r) /\ v = r)
    BY <1>2, <2>1
  <2>3. CASE p # Out(r)
    BY <1>1, <1>3, <2>2, <2>3, StaysSure
  <2>4. CASE p = Out(r)
    <3>1. Exists(Out(r)) /\ Newest(content[entry[Out(r)]]) /\ entry[Out(r)] # StrayInode
      <4>1. Leads(p[1], p[2], entry[p])
        BY <1>0, <2>1 DEF Coherent
      <4> QED
        BY <1>0, <1>3, <2>4, <4>1, SureFacts
    <3>2. job[r].cmd.force
      BY <1>1, <3>1 DEF SurvivalInv, OutputFree
    <3>3. Newest(content[r])
      BY <1>1, <1>3, <3>1, <3>2 DEF GivesUp
    <3> QED
      BY <1>1, <1>3, <2>2, <3>3, <1>j, InodeFacts DEF Sure, Newest
  <2> QED
    BY <2>3, <2>4
<1> QED
  BY <1>1, <1>3, SparesOn DEF KeptSomewhere, SurvivalInv

(* Before the removal begins the output becomes a sure place, if the input *)
(* was one: it is on disk under its name, and as new as the input.         *)
LEMMA SyncKeeps ==
  ASSUME SurvivalInv, NEW r \in Runs, SyncParent(r)
  PROVE  KeptSomewhere'
<1>0. /\ NameInv /\ TypeOK /\ FsTypeOK /\ Coherent /\ Timely
      /\ pc \in [Runs -> Steps] /\ content \in [Inodes -> Contents]
      /\ entry \in [Path -> Inodes \union {None}]
      /\ promised \in Int /\ promised >= 1
  BY OpsAssumption DEF SurvivalInv, GoesInv, NameInv, TypeOK, FsTypeOK, DataVersions
<1>j. /\ Out(r) \in UserPath /\ Out(r)[1] \in Dirs /\ Out(r)[2] \in UserNames
      /\ Out(r)[2] \in Names /\ Out(r) = <<Out(r)[1], Out(r)[2]>>
      /\ In(r) \in UserPath /\ In(r) \in Path /\ r \in Inodes
  BY <1>0, JobFacts, PathFacts, InodeFacts DEF UserNames
<1>1. /\ pc[r] = "sync" /\ pc'[r] = "remove" /\ job' = job
      /\ \A q \in Runs \ {r} : pc'[q] = pc[q]
      /\ promised' = promised /\ saved' = saved
      /\ waived' = (waived \/ job[r].cmd.blind)
  BY <1>0 DEF SyncParent, envButWaived, Go
<1>2. CASE waived'
  BY <1>2 DEF KeptSomewhere
<1>3. CASE ~waived'
  <2>1. SyncDir(Out(r)[1])
    BY <1>1, <1>3 DEF SyncParent
  <2>2. PICK p \in UserPath : Sure(p) /\ Spared(p)
    BY <1>1, <1>3 DEF SurvivalInv, KeptSomewhere
  <2>3. /\ p[1] \in Dirs /\ p[2] \in Names
    BY PathFacts DEF UserNames
  <2>4. CASE p # In(r)
    <3>1. Sure(p)'
      BY <1>0, <1>1, <1>j, <2>1, <2>2, <2>3, SyncLeads, StaysSure
    <3>2. Spared(p)'
      BY <1>1, <2>2, <2>4 DEF Spared, In
    <3> QED
      BY <3>1, <3>2 DEF KeptSomewhere
  <2>5. CASE p = In(r)
    <3>1. /\ Track(r) /\ entry[Out(r)] = r /\ Out(r) # In(r)
          /\ saved[r] = {content[r]}
      BY <1>1 DEF SurvivalInv, GoesInv, AllTracked, Track, Synced
    <3>2. /\ entry[In(r)] \in Inodes /\ Newest(content[entry[In(r)]])
          /\ content[entry[In(r)]] \in Contents /\ content[r] \in Contents
      BY <1>0, <1>j, <2>2, <2>5, SureFacts
    <3>3. Newest(content[r])
      <4>1. CASE IsEncrypt(r)
        <5>1. ReadsAs(r, Inside(content[r])) /\ Matching(r)
          BY <1>1, <3>1, <4>1 DEF Track
        <5>2. IsContainer(content[r])
          BY <3>1, <5>1 DEF ReadsAs
        <5>3. Inside(content[r]).data = content[r].data
          BY <3>2, <5>2, InsideType
        <5>4. Newest(Inside(content[r]))
          BY <3>2, <5>1 DEF Matching
        <5> QED
          BY <5>3, <5>4 DEF Newest
      <4>2. CASE IsDecrypt(r)
        <5>1. StillOpen(r) /\ ChangedFrom(Inside(content[job[r].fd]), content[r])
          BY <1>1, <3>1, <4>2 DEF Track
        <5>2. /\ content[job[r].fd] \in Contents /\ IsContainer(content[job[r].fd])
              /\ Newest(content[job[r].fd])
          BY <3>2, <5>1 DEF StillOpen
        <5>3. /\ Inside(content[job[r].fd]).data = content[job[r].fd].data
              /\ content[job[r].fd].data \in Int /\ content[r].data \in Int
          BY <3>2, <5>2, InsideType, OpsAssumption DEF OpsContents
        <5>4. content[r].data >= content[job[r].fd].data
          BY <5>1, <5>3 DEF ChangedFrom
        <5> QED
          BY <1>0, <5>2, <5>3, <5>4 DEF Newest
      <4> QED
        BY <1>0, <4>1, <4>2, OpsAssumption DEF TypeOK, Jobs, IsEncrypt, IsDecrypt
    <3>4. \A v : Leads(Out(r)[1], Out(r)[2], v)' => v = r
      <4>1. Out(r)' = Out(r)
        BY <1>1 DEF Out
      <4>2. \A v : \A n \in Names :
              Leads(Out(r)[1], n, v)' => v = entry[<<Out(r)[1], n>>]
        <5> DEFINE d == Out(r)[1]
        <5>1. d \in Dirs /\ SyncDir(d) /\ d' = d
          BY <1>j, <2>1, <4>1
        <5> HIDE DEF d
        <5>2. \A v : \A n \in Names : Leads(d, n, v)' => v = entry[<<d, n>>]
          BY <1>0, <5>1, SyncLeads DEF Leads
        <5> QED
          BY <5>2 DEF d
      <4> QED
        BY <1>j, <3>1, <4>1, <4>2 DEF Leads
    <3>5. Sure(Out(r))'
      <4>1. ASSUME NEW i \in Inodes \union {None}, Leads(Out(r)[1], Out(r)[2], i)'
            PROVE  i # None /\ \A c \in saved'[i] : c.data >= promised'
        BY <1>1, <1>j, <3>1, <3>3, <3>4, <4>1, InodeFacts DEF Newest
      <4>2. Out(r)' = Out(r)
        BY <1>1 DEF Out
      <4> QED
        BY <4>1, <4>2 DEF Sure, Newest
    <3>6. Spared(Out(r))'
      <4>1. Active(r)
        BY <1>1 DEF Active
      <4>2. \A q \in Runs \ {r} : ~Active(q)
        BY <1>0, <4>1, OthersWait DEF SurvivalInv, GoesInv
      <4>3. \A q \in Runs : pc'[q] \in {"remove", "unlink"} => q = r
        BY <1>1, <4>2 DEF Active
      <4> QED
        BY <1>1, <3>1, <4>3 DEF Spared, In, Out
    <3>7. Out(r)' = Out(r)
      BY <1>1 DEF Out
    <3> DEFINE o == Out(r)
    <3>8. o \in UserPath /\ Sure(o)' /\ Spared(o)'
      BY <1>j, <3>5, <3>6
    <3> QED
      BY <3>7, <3>8 DEF KeptSomewhere
  <2> QED
    BY <2>4, <2>5
<1> QED
  BY <1>2, <1>3

(* A removal takes away the input alone, and that is not where the data is *)
(* sure to be.                                                             *)
LEMMA RemovalKeeps ==
  ASSUME SurvivalInv, NEW r \in Runs, RemoveInput(r) \/ Destroy(r) \/ UnlinkRest(r)
  PROVE  KeptSomewhere'
<1>0. /\ NameInv /\ TypeOK /\ FsTypeOK /\ Coherent /\ Timely /\ OnePlace
      /\ pc \in [Runs -> Steps]
      /\ entry \in [Path -> Inodes \union {None}]
      /\ saved \in [Inodes -> SUBSET Contents]
  BY DEF SurvivalInv, GoesInv, NameInv, TypeOK, FsTypeOK
<1>j. In(r) \in Path
  BY <1>0, JobFacts, PathFacts
<1>1. /\ promised' = promised /\ waived' = waived /\ StillSpares(r)
      /\ pc[r] \in {"remove", "unlink"} /\ Exists(In(r))
  BY <1>0 DEF RemoveInput, Destroy, UnlinkRest, envVars, StillSpares, Go, FileAt, DirAt
<1>2. ASSUME NEW p \in UserPath, Sure(p), Spared(p)
      PROVE  Sure(p)'
  <2>1. /\ p = <<p[1], p[2]>> /\ p[1] \in Dirs /\ p[2] \in Names /\ p # In(r)
    BY <1>1, <1>2, PathFacts DEF UserNames, Spared
  <2>2. CASE RemoveInput(r) \/ UnlinkRest(r)
    <3>1. Unlink(In(r)) /\ saved' = saved
      BY <2>2 DEF RemoveInput, UnlinkRest
    <3>2. \A v : Leads(p[1], p[2], v)' => Leads(p[1], p[2], v)
      BY <1>0, <1>j, <2>1, <3>1, UnlinkLeads
    <3> QED
      BY <1>1, <1>2, <3>1, <3>2, StaysSure
  <2>3. CASE Destroy(r)
    <3>1. UNCHANGED <<entry, onDisk>> /\ \E c : Write(entry[In(r)], c)
      BY <2>3 DEF Destroy
    <3>2. \A v : Leads(p[1], p[2], v)' => Leads(p[1], p[2], v)
      BY <3>1 DEF Leads
    <3>3. ~Leads(p[1], p[2], entry[In(r)])
      BY <1>0, <1>1, <1>2, <2>1, InputApart
    <3>4. entry[In(r)] \in Inodes
      BY <1>0, <1>1, <1>j DEF Exists
    <3>5. \A i \in Inodes \ {entry[In(r)]} : saved'[i] = saved[i]
      BY <1>0, <3>1, <3>4 DEF Write
    <3> QED
      BY <1>1, <1>2, <3>2, <3>3, <3>5, StaysSure
  <2> QED
    BY <2>2, <2>3
<1> QED
  BY <1>1, <1>2, SparesOn DEF KeptSomewhere, SurvivalInv

(* The user saves at once: a change that is promised lies where it was     *)
(* made, and one behind the comparison leaves the promise as it was.       *)
LEMMA EditKeeps ==
  ASSUME SurvivalInv, NEW x \in UserPath, Edit(x)
  PROVE  KeptSomewhere'
<1>0. /\ NameInv /\ TypeOK /\ FsTypeOK /\ Coherent /\ Timely
      /\ entry \in [Path -> Inodes \union {None}]
      /\ content \in [Inodes -> Contents] /\ saved \in [Inodes -> SUBSET Contents]
      /\ version \in Int /\ promised \in Int /\ promised <= version
  BY OpsAssumption DEF SurvivalInv, GoesInv, NameInv, TypeOK, FsTypeOK, DataVersions
<1>j. /\ x \in Path /\ x = <<x[1], x[2]>> /\ x[1] \in Dirs /\ x[2] \in Names
  BY PathFacts DEF UserNames
<1> DEFINE c == [content[entry[x]] EXCEPT !.data = version + 1]
<1>1. /\ entry[x] \in Inodes /\ WriteSynced(entry[x], c) /\ SyncDir(x[1])
      /\ pc' = pc /\ job' = job /\ waived' = waived
      /\ promised' = IF Compared(x) THEN promised ELSE version + 1
  BY <1>0, <1>j DEF Edit, Exists, runVars
<1>2. c.data = version + 1
  <2>1. content[entry[x]] \in OpsContents
    BY <1>0, <1>1, OpsAssumption
  <2> QED
    BY <2>1 DEF OpsContents
<1> HIDE DEF c
<1>3. /\ saved'[entry[x]] = {c}
      /\ \A i \in Inodes \ {entry[x]} : saved'[i] = saved[i]
  BY <1>0, <1>1 DEF WriteSynced
<1>4. CASE Compared(x)
  <2>1. ASSUME NEW p \in UserPath, Sure(p), Spared(p)
        PROVE  Sure(p)' /\ Spared(p)'
    <3>1. p[1] \in Dirs /\ p[2] \in Names
      BY PathFacts DEF UserNames
    <3>2. \A v : Leads(p[1], p[2], v)' => Leads(p[1], p[2], v)
      BY <1>0, <1>1, <1>j, <3>1, SyncLeads
    <3>3. \A i \in Inodes : \A y \in saved'[i] : y \in saved[i] \/ y.data >= promised
      BY <1>0, <1>2, <1>3
    <3>4. Sure(p)'
      BY <1>1, <1>4, <2>1, <3>2, <3>3, StaysSure
    <3> QED
      BY <1>1, <2>1, <3>4 DEF Spared, In
  <2> QED
    BY <1>1, <2>1 DEF KeptSomewhere, SurvivalInv
<1>5. CASE ~Compared(x)
  <2>1. \A v : Leads(x[1], x[2], v)' => v = entry[x]
    BY <1>0, <1>1, <1>j, SyncLeads
  <2>2. Sure(x)'
    BY <1>0, <1>1, <1>2, <1>3, <1>5, <2>1, InodeFacts DEF Sure, Newest
  <2>3. Spared(x)'
    BY <1>1, <1>5 DEF Compared, Spared, In
  <2> QED
    BY <2>2, <2>3 DEF KeptSomewhere
<1> QED
  BY <1>4, <1>5

(* Another program creates its files where nothing is, and a crash leaves  *)
(* of the sure places what is sure.                                        *)
LEMMA AroundKeeps ==
  ASSUME SurvivalInv, Crash \/ \E x \in UserPath : Stranger(x)
  PROVE  KeptSomewhere'
<1>0. /\ NameInv /\ TypeOK /\ FsTypeOK /\ Coherent /\ Timely
      /\ pc \in [Runs -> Steps] /\ saved \in [Inodes -> SUBSET Contents]
  BY DEF SurvivalInv, GoesInv, NameInv, TypeOK, FsTypeOK
<1>1. /\ promised' = promised /\ waived' = waived /\ job' = job
      /\ \A q \in Runs : pc'[q] = pc[q] \/ pc'[q] = "crashed"
  BY <1>0 DEF Crash, Stranger, runVars
<1>2. ASSUME NEW p \in UserPath, Sure(p)
      PROVE  Sure(p)'
  <2>1. /\ p = <<p[1], p[2]>> /\ p[1] \in Dirs /\ p[2] \in Names
    BY PathFacts DEF UserNames
  <2>2. CASE Crash
    <3>1. \A v : Leads(p[1], p[2], v)' => Leads(p[1], p[2], v)
      BY <1>0, <2>1, <2>2, CrashLeads DEF Crash
    <3>2. \A i \in Inodes : \A c \in saved'[i] : c \in saved[i]
      <4> DEFINE u == {i \in Inodes : saved[i] # {content[i]}}
      <4>1. PICK f \in [u -> UNION {saved[i] : i \in u}] :
              /\ \A i \in u : f[i] \in saved[i]
              /\ content' = [i \in Inodes |-> IF i \in u THEN f[i] ELSE content[i]]
        BY <2>2 DEF Crash, FsCrash
      <4>2. saved' = [i \in Inodes |-> {content'[i]}]
        BY <2>2 DEF Crash, FsCrash
      <4> QED
        BY <1>0, <4>1, <4>2 DEF Timely
    <3> QED
      BY <1>1, <1>2, <3>1, <3>2, StaysSure
  <2>3. ASSUME NEW x \in UserPath, Stranger(x)
        PROVE  Sure(p)'
    <3>1. x \in Path /\ StrayInode \in Inodes /\ x # p
      BY <1>0, <1>2, <2>3, PathFacts, InodeFacts, SureFacts DEF Stranger
    <3>2. \A v : Leads(p[1], p[2], v)' => Leads(p[1], p[2], v)
      BY <1>0, <2>1, <2>3, <3>1, CreateLeads DEF Stranger
    <3>3. ~Leads(p[1], p[2], StrayInode)
      BY <1>0, <1>2, SureFacts
    <3>4. \A i \in Inodes \ {StrayInode} : saved'[i] = saved[i]
      BY <1>0, <2>3, <3>1 DEF Stranger, Create, WriteSynced
    <3> QED
      BY <1>1, <1>2, <3>2, <3>3, <3>4, StaysSure
  <2> QED
    BY <2>2, <2>3
<1>3. ASSUME NEW p \in UserPath, Spared(p)
      PROVE  Spared(p)'
  BY <1>1, <1>3 DEF Spared, In
<1> QED
  BY <1>1, <1>2, <1>3 DEF KeptSomewhere, SurvivalInv

(* Each step leaves the data somewhere.                                    *)
LEMMA KeptSomewhereStep ==
  ASSUME SurvivalInv, [Next]_vars
  PROVE  KeptSomewhere'
<1>0. NameInv /\ pc \in [Runs -> Steps] /\ KeptSomewhere
  BY DEF SurvivalInv, GoesInv, NameInv, TypeOK
<1>a. ASSUME UNCHANGED <<entry, onDisk, saved, promised, waived>>,
             \A p \in UserPath : Spared(p) => Spared(p)'
      PROVE  KeptSomewhere'
  BY <1>0, <1>a DEF KeptSomewhere, Sure, Leads, Newest
<1>1. ASSUME NEW r \in Runs,
             Refuse(r) \/ \E c \in Commands : EncryptBegin(r, c) \/ DecryptBegin(r, c)
      PROVE  KeptSomewhere'
  <2>1. /\ UNCHANGED <<fsVars, envVars>>
        /\ \A q \in Runs \ {r} : pc'[q] = pc[q] /\ job'[q] = job[q]
        /\ pc'[r] \in {"failed", "create"}
    BY <1>0, <1>1 DEF SurvivalInv, GoesInv, NameInv, TypeOK, Refuse, EncryptBegin,
       DecryptBegin, Go
  <2> QED
    BY <1>a, <2>1 DEF Spared, In, fsVars, envVars
<1>2. ASSUME NEW r \in Runs, StepOf(r)
      PROVE  KeptSomewhere'
  <2>1. CASE CreateScratch(r) \/ Pack(r) \/ Unpack(r) \/ Fail(r)
    BY <1>0, <2>1, ScratchKeeps
  <2>2. CASE Clear(r)
    BY <2>2 DEF Clear, SurvivalInv, Synced
  <2>3. CASE Move(r)
    BY <2>3, MoveKeeps
  <2>4. CASE SyncParent(r)
    BY <2>4, SyncKeeps
  <2>5. CASE RemoveInput(r) \/ Destroy(r) \/ UnlinkRest(r)
    BY <2>5, RemovalKeeps
  <2>6. CASE MoveFails(r) \/ Verify(r) \/ VerifyFails(r) \/ RemoveFails(r)
    <3>1. UNCHANGED <<fsVars, envVars>> /\ StillSpares(r)
      BY <1>0, <2>6 DEF MoveFails, Verify, VerifyFails, RemoveFails, Go, StillSpares
    <3> QED
      BY <1>a, <3>1, SparesOn DEF fsVars, envVars
  <2> QED
    BY <1>2, <2>1, <2>2, <2>3, <2>4, <2>5, <2>6 DEF StepOf
<1>3. CASE UNCHANGED vars
  BY <1>a, <1>3 DEF vars, fsVars, runVars, envVars, Spared, In
<1> QED
  BY <1>1, <1>2, <1>3, EditKeeps, AroundKeeps DEF Next

-----------------------------------------------------------------------------
(* The data survives *)

(* In the beginning the data is at its path, and certain.                  *)
LEMMA InitSurvival ==
  ASSUME StartKind = "file", Init
  PROVE  SurvivalInv
<1>1. GoesInv /\ OutputFree /\ Synced
  BY InitGoes DEF Init, OutputFree, Synced
<1>2. WholeInv
  BY InitWhole
<1>3. Sure(Home)
  <2>1. /\ Home \in UserPath /\ Home \in Path /\ Home = <<Home[1], Home[2]>>
        /\ Home[1] \in Dirs /\ Home[2] \in Names
    BY OpsAssumption, PathFacts DEF UserNames
  <2>2. entry[Home] = DataInode /\ onDisk[Home[1]] = {Listing(entry, Home[1])}
    BY <2>1 DEF Init, FsInit
  <2>3. \A i : Leads(Home[1], Home[2], i) => i = DataInode
    BY <2>1, <2>2 DEF Leads, Listing
  <2>4. saved[DataInode] = {Plain(StartKind, 1)} /\ promised = 1
    BY InodeFacts DEF Init, FsInit
  <2>5. \A c \in saved[DataInode] : Newest(c)
    BY <2>4 DEF Plain, Newest
  <2> QED
    BY <2>3, <2>5, InodeFacts DEF Sure
<1>4. Spared(Home)
  BY DEF Init, Spared
<1> QED
  BY <1>1, <1>2, <1>3, <1>4, OpsAssumption DEF SurvivalInv, KeptSomewhere

(* No step breaks what that rests on.                                      *)
LEMMA SurvivalStep ==
  ASSUME ~Concurrent, ForcedElsewhere, ForcedToEncrypt, SurvivalInv, [Next]_vars
  PROVE  SurvivalInv'
<1>1. GoesInv'
  BY GoesKept DEF SurvivalInv
<1>2. OutputFree' /\ Synced'
  BY OutputFreeStep, SyncedStep DEF SurvivalInv, GoesInv
<1>3. WholeInv'
  BY WholeStep DEF SurvivalInv
<1>4. KeptSomewhere'
  BY KeptSomewhereStep
<1> QED
  BY <1>1, <1>2, <1>3, <1>4 DEF SurvivalInv

(* "Nothing is deleted on trust", for files and runs that do not overlap:  *)
(* the newest data can be had from some path, whatever fails, is changed   *)
(* or crashes, unless the user gave up the promise.                        *)
THEOREM DataIsSafe ==
  /\ ~Concurrent /\ StartKind = "file"
  /\ ForcedElsewhere /\ ForcedToEncrypt
  => (Spec => []DataSurvives)
<1> SUFFICES ASSUME ~Concurrent, StartKind = "file", ForcedElsewhere, ForcedToEncrypt
             PROVE  Spec => []DataSurvives
  OBVIOUS
<1>1. Init => SurvivalInv
  BY InitSurvival
<1>2. SurvivalInv /\ [Next]_vars => SurvivalInv'
  BY SurvivalStep
<1>3. SurvivalInv => DataSurvives
  BY SureFacts DEF SurvivalInv, GoesInv, KeptSomewhere, DataSurvives, Held
<1> QED
  BY <1>1, <1>2, <1>3, PTL DEF Spec

-----------------------------------------------------------------------------
(* What a crash may leave *)

\* A state of each directory that may be on disk, the inodes that hold the
\* newest data whatever becomes of them, those that may hold it, what the
\* unsure ones come to, and where the data is then.
Outcomes == {s \in [Dirs -> UNION {onDisk[d] : d \in Dirs}] :
               \A d \in Dirs : s[d] \in onDisk[d]}
Certain  == {i \in Inodes : \A c \in saved[i] : Newest(c)}
Possible == {i \in Inodes : \E c \in saved[i] : Newest(c)}
Fates    == {good \in SUBSET Possible : Certain \subseteq good}
At(s, good) == {p \in UserPath : s[p[1]][p[2]] \in good}

\* What a directory shows now is one of the states it may be in on disk.
Listed == \A d \in Dirs : Listing(entry, d) \in onDisk[d]

\* Until a removal is done the data is sure to be somewhere else.
RefInv == SurvivalInv /\ Listed

(* The sets of paths a crash may leave the data at, in these terms.        *)
LEMMA AfterIs ==
  Timely => \A S : S \in After <=> \E s \in Outcomes, good \in Fates : S = At(s, good)
<1> SUFFICES ASSUME Timely
             PROVE  \A S : S \in After <=>
                            \E s \in Outcomes, good \in Fates : S = At(s, good)
  OBVIOUS
<1> DEFINE unsure == Possible \ Certain
<1>1. Certain \subseteq Possible
  BY DEF Timely, Certain, Possible
<1>2. \A S : S \in After <=> \E s \in Outcomes, lucky \in SUBSET unsure :
                               S = At(s, Certain \union lucky)
  BY DEF After, Outcomes, Certain, Possible, At
<1>3. \A lucky \in SUBSET unsure : Certain \union lucky \in Fates
  BY <1>1 DEF Fates
<1>4. \A good \in Fates : /\ good \ Certain \in SUBSET unsure
                          /\ Certain \union (good \ Certain) = good
  BY DEF Fates
<1> HIDE DEF unsure
<1>5. ASSUME NEW S, S \in After
      PROVE  \E s \in Outcomes, good \in Fates : S = At(s, good)
  <2>1. PICK s \in Outcomes : \E lucky \in SUBSET unsure :
               S = At(s, Certain \union lucky)
    BY <1>2, <1>5
  <2> QED
    BY <1>3, <2>1
<1>6. ASSUME NEW s \in Outcomes, NEW good \in Fates
      PROVE  At(s, good) \in After
  <2>1. At(s, good) = At(s, Certain \union (good \ Certain))
    BY <1>4
  <2> QED
    BY <1>2, <1>4, <2>1
<1> QED
  BY <1>5, <1>6

(* Where the data is now is where a crash may leave it.                    *)
LEMMA HeldIn ==
  FsTypeOK /\ Timely /\ Listed => Held \in After
<1> SUFFICES ASSUME FsTypeOK, Timely, Listed
             PROVE  Held \in After
  OBVIOUS
<1> DEFINE s == [d \in Dirs |-> Listing(entry, d)]
           good == {i \in Inodes : Newest(content[i])}
<1>1. s \in Outcomes
  BY DEF Listed, Outcomes
<1>2. good \in Fates
  BY DEF Timely, Fates, Certain, Possible
<1>3. \A p \in UserPath : s[p[1]][p[2]] = entry[p] /\ entry[p] \in Inodes \union {None}
  BY PathFacts DEF Listing, UserNames, FsTypeOK
<1>4. At(s, good) = Held
  <2> HIDE DEF s
  <2> QED
    BY <1>3, InodeFacts DEF At, Held, Exists
<1> HIDE DEF s, good
<1> QED
  BY <1>1, <1>2, <1>4, AfterIs

(* When all is on disk a crash changes nothing.                            *)
LEMMA AllSaved ==
  FsTypeOK /\ (\A i \in Inodes : saved[i] = {content[i]})
           /\ (\A d \in Dirs : onDisk[d] = {Listing(entry, d)})
    => After = {Held}
<1> SUFFICES ASSUME FsTypeOK, \A i \in Inodes : saved[i] = {content[i]},
                    \A d \in Dirs : onDisk[d] = {Listing(entry, d)}
             PROVE  After = {Held}
  OBVIOUS
<1>1. \A i \in Inodes : content[i] \in saved[i]
  OBVIOUS
<1> DEFINE good == {i \in Inodes : Newest(content[i])}
<1>2. Certain = good /\ Possible = good
  BY DEF Certain, Possible
<1>3. \A s \in Outcomes : \A p \in UserPath : s[p[1]][p[2]] = entry[p]
  BY PathFacts DEF Outcomes, Listing, UserNames
<1>4. \A p \in UserPath : entry[p] \in Inodes \union {None}
  BY PathFacts DEF FsTypeOK
<1>5. \A s \in Outcomes : At(s, good) = Held
  BY <1>3, <1>4, InodeFacts DEF At, Held, Exists
<1>6. [d \in Dirs |-> Listing(entry, d)] \in Outcomes
  BY DEF Outcomes
<1> HIDE DEF good
<1>7. ASSUME NEW S
      PROVE  S \in After <=> S = Held
  <2>1. S \in After <=> \E s \in Outcomes, lucky \in SUBSET (Possible \ Certain) :
                          S = At(s, Certain \union lucky)
    BY DEF After, Outcomes, Certain, Possible, At
  <2>2. SUBSET (Possible \ Certain) = {{}} /\ Certain \union {} = good
    BY <1>2
  <2> QED
    BY <1>5, <1>6, <2>1, <2>2
<1> QED
  BY <1>7

(* The same of the next state.                                             *)
LEMMA AllSavedNext ==
  (FsTypeOK /\ (\A i \in Inodes : saved[i] = {content[i]})
            /\ (\A d \in Dirs : onDisk[d] = {Listing(entry, d)})
     => After = {Held})'
BY AllSaved, PTL

(* When some path leads to the data for sure, a crash leaves it somewhere. *)
LEMMA NeverNowhere ==
  FsTypeOK /\ Timely /\ (\E p \in UserPath : Sure(p)) => {} \notin After
<1> SUFFICES ASSUME FsTypeOK, Timely, NEW p \in UserPath, Sure(p)
             PROVE  {} \notin After
  OBVIOUS
<1>1. ASSUME NEW s \in Outcomes, NEW good \in Fates
      PROVE  p \in At(s, good)
  <2>1. s[p[1]] \in onDisk[p[1]] /\ s[p[1]] \in [Names -> Inodes \union {None}]
    BY PathFacts DEF Outcomes, FsTypeOK
  <2>2. s[p[1]][p[2]] \in Inodes \union {None}
    BY <2>1, PathFacts DEF UserNames
  <2>3. s[p[1]][p[2]] \in Certain
    BY <2>1, <2>2 DEF Sure, Leads, Certain
  <2> QED
    BY <2>3 DEF Fates, At
<1> QED
  BY <1>1, AfterIs

(* The same of the next state.                                             *)
LEMMA NextFacts ==
  RefInv' => (Held \in After /\ (waived \/ {} \notin After))'
<1>1. RefInv => Held \in After /\ (waived \/ {} \notin After)
  BY HeldIn, NeverNowhere
     DEF RefInv, SurvivalInv, GoesInv, NameInv, TypeOK, KeptSomewhere
<1> QED
  BY <1>1, PTL

(* And what a crash may then leave.                                        *)
LEMMA AfterNext ==
  Timely' => (\A S : S \in After <=> \E s \in Outcomes, good \in Fates : S = At(s, good))'
BY AfterIs, PTL

-----------------------------------------------------------------------------
(* What the steps do to it *)

\* As far as the newest data goes the user sees the same in t as in s before.
LooksLike(t, s) ==
  \A n \in UserNames : t[n] = s[n] \/ (t[n] \notin Possible' /\ s[n] \notin Possible)

(* Nothing becomes possible that was not, when what is certain stays so    *)
(* wherever the user's paths may lead, and no directory gets into a state  *)
(* that shows the data elsewhere.                                          *)
LEMMA Unnoticed ==
  ASSUME Timely, Timely',
         \A p \in UserPath, i \in Inodes : Leads(p[1], p[2], i) =>
           /\ i \in Certain => i \in Certain'
           /\ i \in Possible' => i \in Possible,
         \A d \in Dirs : \A t \in onDisk'[d] : \E s \in onDisk[d] : LooksLike(t, s)
  PROVE  After' \subseteq After
<1> SUFFICES ASSUME NEW S \in After'
             PROVE  S \in After
  OBVIOUS
<1>1. PICK t \in Outcomes', good \in Fates' : S = At(t, good)
  <2>1. (\A R : R \in After <=> \E s \in Outcomes, g \in Fates : R = At(s, g))'
    BY AfterNext
  <2> QED
    BY <2>1 DEF At
<1> DEFINE s == [d \in Dirs |-> CHOOSE u \in onDisk[d] : LooksLike(t[d], u)]
           g == (good \intersect Possible) \union Certain
<1>2. \A d \in Dirs : t[d] \in onDisk'[d]
  BY <1>1 DEF Outcomes
<1>3. \A d \in Dirs : \E u \in onDisk[d] : LooksLike(t[d], u)
  BY <1>2
<1>4. \A d \in Dirs : s[d] \in onDisk[d] /\ LooksLike(t[d], s[d])
  BY <1>3
<1>5. s \in Outcomes
  <2>1. s = [d \in Dirs |-> s[d]]
    OBVIOUS
  <2> HIDE DEF s
  <2> QED
    BY <1>4, <2>1 DEF Outcomes
<1>6. g \in Fates
  BY DEF Fates, Timely, Certain, Possible
<1>7. good \subseteq Possible' /\ Certain' \subseteq good
  BY <1>1 DEF Fates
<1>8. ASSUME NEW p \in UserPath
      PROVE  t[p[1]][p[2]] \in good <=> s[p[1]][p[2]] \in g
  <2>1. p[1] \in Dirs /\ p[2] \in UserNames
    BY PathFacts
  <2>2. CASE t[p[1]][p[2]] = s[p[1]][p[2]]
    <3> DEFINE i == s[p[1]][p[2]]
    <3>1. Leads(p[1], p[2], i)
      BY <1>4, <2>1 DEF Leads
    <3>2. \A j \in good \union g : j \in Inodes
      BY <1>7 DEF Possible, Certain
    <3> HIDE DEF i, s
    <3>3. i \in good => i \in g
      BY <1>7, <3>1, <3>2
    <3>4. i \in g => i \in good
      BY <1>7, <3>1, <3>2
    <3> QED
      BY <2>2, <3>3, <3>4 DEF i
  <2>3. CASE t[p[1]][p[2]] \notin Possible' /\ s[p[1]][p[2]] \notin Possible
    <3>1. s[p[1]][p[2]] \notin g
      <4> HIDE DEF s
      <4> QED
        BY <2>3 DEF Certain, Possible, Timely
    <3> QED
      BY <1>7, <2>3, <3>1
  <2> QED
    BY <1>4, <2>1, <2>2, <2>3 DEF LooksLike
<1>9. S = At(s, g)
  <2> HIDE DEF s, g
  <2> QED
    BY <1>1, <1>8 DEF At
<1> HIDE DEF s, g
<1> QED
  BY <1>5, <1>6, <1>9, AfterIs

\* Two sets of paths that agree but for x.
AgreeBut(x, S, R) == S \ {x} = R \ {x}

\* S is what a crash could leave before, but that x leads to inode i now.
NowLeads(x, i, S) ==
  /\ \E R \in After : AgreeBut(x, S, R)
  /\ x \in S => i \in Possible
  /\ i \in Certain => x \in S

(* When one name changes, the data can be left where it could be before,   *)
(* but for the path of that name.                                          *)
LEMMA OneName ==
  ASSUME FsTypeOK, Listed, Timely, Timely', UNCHANGED <<content, saved, promised>>,
         NEW x \in UserPath,
         onDisk' = [onDisk EXCEPT ![x[1]] = @ \union {Listing(entry', x[1])}],
         \A p \in UserPath \ {x} : entry'[p] = entry[p]
  PROVE  \A S \in After' : S \in After \/ NowLeads(x, entry'[x], S)
<1> SUFFICES ASSUME NEW S \in After', S \notin After
             PROVE  NowLeads(x, entry'[x], S)
  OBVIOUS
<1>0. Certain' = Certain /\ Possible' = Possible /\ Fates' = Fates
  BY DEF Certain, Possible, Fates, Newest
<1>x. x \in Path /\ x = <<x[1], x[2]>> /\ x[1] \in Dirs /\ x[2] \in UserNames
      /\ x[2] \in Names
  BY PathFacts DEF UserNames
<1>1. PICK t \in Outcomes', good \in Fates : S = At(t, good)
  <2>1. (\A R : R \in After <=> \E s \in Outcomes, g \in Fates : R = At(s, g))'
    BY AfterNext
  <2> QED
    BY <1>0, <2>1 DEF At
<1>2. /\ DOMAIN t = Dirs /\ t = [d \in Dirs |-> t[d]]
      /\ \A d \in Dirs : t[d] \in onDisk'[d]
  BY <1>1 DEF Outcomes
<1>3. \A d \in Dirs : t[d] \in onDisk[d] \/ (d = x[1] /\ t[d] = Listing(entry', d))
  BY <1>2, <1>x DEF FsTypeOK
<1>4. t[x[1]] = Listing(entry', x[1])
  <2>1. CASE \A d \in Dirs : t[d] \in onDisk[d]
    <3>1. t \in Outcomes
      BY <1>2, <2>1 DEF Outcomes
    <3> QED
      BY <1>1, <3>1, AfterIs
  <2> QED
    BY <1>3, <2>1
<1> DEFINE s == [t EXCEPT ![x[1]] = Listing(entry, x[1])]
<1>5. s \in Outcomes
  <2>1. \A d \in Dirs : s[d] \in onDisk[d]
    BY <1>2, <1>3 DEF Listed
  <2>2. s = [d \in Dirs |-> s[d]]
    BY <1>2
  <2> HIDE DEF s
  <2> QED
    BY <2>1, <2>2 DEF Outcomes
<1>6. At(s, good) \in After
  <2> HIDE DEF s
  <2> QED
    BY <1>5, AfterIs
<1>7. ASSUME NEW p \in UserPath \ {x}
      PROVE  s[p[1]][p[2]] = t[p[1]][p[2]]
  <2>1. p = <<p[1], p[2]>> /\ p[1] \in Dirs /\ p[2] \in Names
    BY PathFacts DEF UserNames
  <2>2. CASE p[1] # x[1]
    BY <1>2, <2>1, <2>2
  <2>3. CASE p[1] = x[1]
    <3>1. s[p[1]] = Listing(entry, x[1]) /\ t[p[1]] = Listing(entry', x[1])
      BY <1>2, <1>4, <1>x, <2>3
    <3>2. Listing(entry, x[1])[p[2]] = entry[p] /\ Listing(entry', x[1])[p[2]] = entry'[p]
      BY <2>1, <2>3 DEF Listing
    <3> QED
      BY <3>1, <3>2
  <2> QED
    BY <2>2, <2>3
<1>8. x \in S <=> entry'[x] \in good
  <2>1. Listing(entry', x[1])[x[2]] = entry'[x]
    BY <1>x DEF Listing
  <2> QED
    BY <1>1, <1>4, <2>1 DEF At
<1>9. S \ {x} = At(s, good) \ {x}
  <2> HIDE DEF s
  <2> QED
    BY <1>1, <1>7 DEF At
<1> HIDE DEF s
<1> QED
  BY <1>6, <1>8, <1>9 DEF Fates, AgreeBut, NowLeads

-----------------------------------------------------------------------------
(* How the steps look from outside *)

ViewNext == AbstractView!Next

(* After the promise ended anything may happen.                            *)
LEMMA ViewWaives ==
  ASSUME waived'
  PROVE  ViewNext
BY DEF ViewNext, AbstractView!Next, AbstractView!Waive, Held, After

(* A step that leaves the data where it is.                                *)
LEMMA ViewSettles ==
  ASSUME RefInv', Held' = Held, After' \subseteq After, waived' = waived
  PROVE  ViewNext
<1>1. Held' \in After'
  BY NextFacts
<1> QED
  BY <1>1 DEF ViewNext, AbstractView!Next, AbstractView!Keep, AbstractView!Settle

(* A step that adds a place.                                               *)
LEMMA ViewCopies ==
  ASSUME RefInv', waived' = waived, NEW x \in UserPath, Held' = Held \union {x},
         \A S \in After' : S \in After \/ \E R \in After : S = R \union {x}
  PROVE  ViewNext
<1>1. Held' \in After'
  BY NextFacts
<1>2. AbstractView!Copy(x)
  BY DEF AbstractView!Copy
<1> QED
  BY <1>1, <1>2 DEF ViewNext, AbstractView!Next, AbstractView!Keep

(* A step that gives up a place.                                           *)
LEMMA ViewDrops ==
  ASSUME RefInv', waived' = waived, ~waived, NEW x \in UserPath,
         Held' = Held \ {x},
         \A S \in After' : S \in After \/ \E R \in After : S = R \ {x}
  PROVE  ViewNext
<1>1. Held' \in After' /\ {} \notin After'
  BY NextFacts
<1>2. AbstractView!Drop(x)
  BY <1>1 DEF AbstractView!Drop
<1> QED
  BY <1>1, <1>2 DEF ViewNext, AbstractView!Next, AbstractView!Keep

(* The unrelated never is the newest data.                                 *)
LEMMA StrayNever ==
  ASSUME NameInv, Timely
  PROVE  StrayInode \notin Possible /\ ~Newest(content[StrayInode])
<1>1. promised \in Int /\ promised >= 1 /\ saved[StrayInode] \subseteq OpsContents
      /\ content[StrayInode] \in saved[StrayInode]
  BY InodeFacts, OpsAssumption DEF NameInv, TypeOK, FsTypeOK, DataVersions, Timely
<1>2. \A c \in saved[StrayInode] : c.data \in Int /\ c.data <= Other
  BY <1>1 DEF Timely, OpsContents
<1> QED
  BY <1>1, <1>2 DEF Possible, Newest, Other

(* Nor is it in the next state.                                            *)
LEMMA StrayNeverNext ==
  (NameInv /\ Timely => StrayInode \notin Possible /\ ~Newest(content[StrayInode]))'
<1>1. NameInv /\ Timely => StrayInode \notin Possible /\ ~Newest(content[StrayInode])
  BY StrayNever
<1> QED
  BY <1>1, PTL

(* An inode that may hold the newest data lies at one path only.           *)
LEMMA OneHolder ==
  ASSUME NameInv, Timely, OnePlace, NEW p \in UserPath, NEW q \in UserPath,
         NEW i \in Possible, Leads(p[1], p[2], i), Leads(q[1], q[2], i)
  PROVE  p = q
<1>1. i \in Inodes /\ i # StrayInode
  BY StrayNever DEF Possible
<1>2. i = DataInode \/ i \in Runs
  BY <1>1, OpsAssumption DEF Runs, DataInode, StrayInode
<1> QED
  BY <1>2 DEF OnePlace

\* What the steps of the runs rest on, here and in the next state.
Known == RefInv /\ RefInv' /\ ~waived'

(* The promise that is there afterwards was there before.                  *)
LEMMA StillPromised ==
  ASSUME Known, NEW b, waived' = (waived \/ b)
  PROVE  waived' = waived /\ ~waived /\ ~b
BY DEF Known, RefInv, SurvivalInv, GoesInv, NameInv, TypeOK

(* Two sets that agree but for one element.                                *)
LEMMA ButOne ==
  ASSUME NEW x, NEW S, NEW R, AgreeBut(x, S, R)
  PROVE  /\ x \in S => S = R \union {x}
         /\ x \notin S => S = R \ {x}
<1>1. \A y : y # x => (y \in S <=> y \in R)
  <2>1. \A y : y \in S \ {x} <=> y \in R \ {x}
    BY DEF AgreeBut
  <2> QED
    BY <2>1
<1> QED
  BY <1>1

(* A step that only writes where no path of the user's leads, and changes  *)
(* no name of the user's.                                                  *)
LEMMA ScratchView ==
  ASSUME Known, NEW r \in Runs,
         CreateScratch(r) \/ Pack(r) \/ Unpack(r) \/ Fail(r), pc[r] \in Early
  PROVE  ViewNext
<1>0. /\ NameInv /\ TypeOK /\ FsTypeOK /\ Coherent /\ Timely /\ Timely' /\ Listed
      /\ pc \in [Runs -> Steps]
      /\ entry \in [Path -> Inodes \union {None}]
      /\ content \in [Inodes -> Contents] /\ saved \in [Inodes -> SUBSET Contents]
      /\ onDisk \in [Dirs -> SUBSET [Names -> Inodes \union {None}]]
  BY DEF Known, RefInv, SurvivalInv, GoesInv, NameInv, TypeOK, FsTypeOK
<1>j. /\ Tmp(r) \in Path \ UserPath /\ r \in Inodes
      /\ Tmp(r)[1] \in Dirs /\ Tmp(r) = <<Tmp(r)[1], Tmp(r)[2]>>
      /\ Tmp(r)[2] \notin UserNames
  BY <1>0, JobFacts, PathFacts, InodeFacts DEF Tmp
<1>1. promised' = promised /\ waived' = waived
  BY DEF CreateScratch, Pack, Unpack, Fail, envVars
<1>2. \A i \in Inodes \ {r} : content'[i] = content[i] /\ saved'[i] = saved[i]
  BY <1>0, <1>j DEF CreateScratch, Pack, Unpack, Fail, Create, Write, WriteSynced
<1>3. \E e : /\ entry' = e
             /\ \A p \in Path \ {Tmp(r)} : e[p] = entry[p]
             /\ \/ onDisk' = onDisk
                \/ onDisk' = [onDisk EXCEPT ![Tmp(r)[1]] =
                                @ \union {Listing(e, Tmp(r)[1])}]
  BY <1>0, <1>j DEF CreateScratch, Pack, Unpack, Fail, Create, Unlink, ChangeNames
<1>4. \A p \in Path \ {Tmp(r)} : entry'[p] = entry[p]
  BY <1>3
<1>5. \A p \in UserPath : ~Leads(p[1], p[2], r)
  BY <1>0, ScratchApart
<1>6. \A p \in UserPath, i \in Inodes : Leads(p[1], p[2], i) =>
           /\ i \in Certain => i \in Certain'
           /\ i \in Possible' => i \in Possible
  BY <1>1, <1>2, <1>5 DEF Certain, Possible, Newest
<1>7. \A d \in Dirs : \A t \in onDisk'[d] : \E s \in onDisk[d] :
           \A n \in UserNames : t[n] = s[n]
  <2>1. ASSUME NEW d \in Dirs, NEW t \in onDisk'[d], t \notin onDisk[d]
        PROVE  d = Tmp(r)[1] /\ t = Listing(entry', d)
    BY <1>0, <1>j, <1>3, <2>1
  <2>2. \A d \in Dirs, n \in UserNames : Listing(entry', d)[n] = Listing(entry, d)[n]
    <3>1. \A d \in Dirs, n \in UserNames :
            n \in Names /\ <<d, n>> \in Path /\ <<d, n>> # Tmp(r)
      BY <1>j DEF UserNames, Path
    <3> QED
      BY <1>4, <3>1 DEF Listing
  <2> QED
    BY <1>0, <2>1, <2>2 DEF Listed
<1>8. After' \subseteq After
  <2>1. \A d \in Dirs : \A t \in onDisk'[d] : \E s \in onDisk[d] : LooksLike(t, s)
    BY <1>7 DEF LooksLike
  <2> QED
    BY <1>0, <1>6, <2>1, Unnoticed
<1>9. Held' = Held
  <2>1. ASSUME NEW p \in UserPath
        PROVE  /\ entry'[p] = entry[p]
               /\ Exists(p) => entry[p] \in Inodes \ {r}
    <3>1. p \in Path /\ p = <<p[1], p[2]>> /\ p[1] \in Dirs /\ p[2] \in Names
          /\ p # Tmp(r)
      BY <1>j, PathFacts DEF UserNames
    <3>2. Leads(p[1], p[2], entry[p])
      BY <1>0, <3>1 DEF Coherent
    <3> QED
      BY <1>0, <1>4, <1>5, <3>1, <3>2 DEF Exists
  <2> QED
    BY <1>1, <1>2, <2>1 DEF Held, Exists, Newest
<1> QED
  BY <1>1, <1>8, <1>9, ViewSettles DEF Known

(* A move is a copy to the output; what it puts nothing new in the place   *)
(* of was given up before.                                                 *)
LEMMA MoveView ==
  ASSUME Known, NEW r \in Runs, Move(r)
  PROVE  ViewNext
<1>0. /\ NameInv /\ TypeOK /\ FsTypeOK /\ Timely /\ Timely' /\ Listed
      /\ OutputFree /\ Synced
      /\ entry \in [Path -> Inodes \union {None}]
  BY DEF Known, RefInv, SurvivalInv, GoesInv, NameInv, TypeOK, FsTypeOK
<1>j. /\ Tmp(r) \in Path \ UserPath /\ r \in Inodes
      /\ Out(r) \in UserPath /\ Out(r) \in Path /\ Tmp(r) # Out(r)
  BY <1>0, JobFacts, PathFacts, InodeFacts
<1>1. /\ pc[r] = "rename" /\ UNCHANGED <<content, saved, promised>>
      /\ waived' = (waived \/ GivesUp(r))
      /\ entry' = [entry EXCEPT ![Tmp(r)] = None, ![Out(r)] = entry[Tmp(r)]]
      /\ onDisk' = [onDisk EXCEPT ![Out(r)[1]] = @ \union {Listing(entry', Out(r)[1])}]
  BY DEF Move, Rename, ChangeNames, envButWaived
<1>2. entry[Tmp(r)] = r /\ saved[r] = {content[r]}
  BY <1>0, <1>1 DEF Known, RefInv, SurvivalInv, GoesInv, AllTracked, Track, Synced
<1>3. waived' = waived /\ ~waived /\ ~GivesUp(r)
  BY <1>1, StillPromised DEF Known
<1>4. entry'[Out(r)] = r /\ \A p \in UserPath \ {Out(r)} : entry'[p] = entry[p]
  BY <1>0, <1>1, <1>2, <1>j, PathFacts
<1>5. \A S \in After' : S \in After \/ NowLeads(Out(r), r, S)
  BY <1>0, <1>1, <1>4, <1>j, OneName
<1>6. CASE Newest(content[r])
  <2>1. r \in Certain
    BY <1>2, <1>6, <1>j DEF Certain
  <2>2. Held' = Held \union {Out(r)}
    BY <1>1, <1>4, <1>6, <1>j, InodeFacts DEF Held, Exists, Newest
  <2>3. \A S \in After' : S \in After \/ \E R \in After : S = R \union {Out(r)}
    <3> SUFFICES ASSUME NEW S \in After', S \notin After
                 PROVE  \E R \in After : S = R \union {Out(r)}
      OBVIOUS
    <3>0. NowLeads(Out(r), r, S)
      BY <1>5
    <3>1. PICK R \in After : AgreeBut(Out(r), S, R)
      BY <3>0 DEF NowLeads
    <3>2. Out(r) \in S
      BY <2>1, <3>0 DEF NowLeads
    <3>3. S = R \union {Out(r)}
      BY <3>1, <3>2, ButOne
    <3> QED
      BY <3>3
  <2> QED
    BY <1>3, <1>j, <2>2, <2>3, ViewCopies DEF Known
<1>7. CASE ~Newest(content[r])
  <2>1. r \notin Possible
    BY <1>2, <1>7 DEF Possible
  <2>2. Out(r) \notin Held
    <3>1. SUFFICES ASSUME Exists(Out(r)), Newest(content[entry[Out(r)]])
                   PROVE  FALSE
      BY DEF Held
    <3>2. ~job[r].cmd.force
      BY <1>3, <1>7, <3>1 DEF GivesUp
    <3>3. entry[Out(r)] = StrayInode
      BY <1>0, <1>1, <3>1, <3>2 DEF OutputFree
    <3> QED
      BY <1>0, <3>1, <3>3, StrayNever
  <2>3. Held' = Held \ {Out(r)}
    BY <1>1, <1>4, <1>7, <1>j, <2>2 DEF Held, Exists, Newest
  <2>4. \A S \in After' : S \in After \/ \E R \in After : S = R \ {Out(r)}
    <3> SUFFICES ASSUME NEW S \in After', S \notin After
                 PROVE  \E R \in After : S = R \ {Out(r)}
      OBVIOUS
    <3>0. NowLeads(Out(r), r, S)
      BY <1>5
    <3>1. PICK R \in After : AgreeBut(Out(r), S, R)
      BY <3>0 DEF NowLeads
    <3>2. Out(r) \notin S
      BY <2>1, <3>0 DEF NowLeads
    <3>3. S = R \ {Out(r)}
      BY <3>1, <3>2, ButOne
    <3> QED
      BY <3>3
  <2> QED
    BY <1>3, <1>j, <2>3, <2>4, ViewDrops DEF Known
<1> QED
  BY <1>6, <1>7

(* The sync settles which of its states the directory is in.               *)
LEMMA SyncView ==
  ASSUME Known, NEW r \in Runs, SyncParent(r)
  PROVE  ViewNext
<1>0. /\ NameInv /\ TypeOK /\ FsTypeOK /\ Timely /\ Timely' /\ Listed
      /\ onDisk \in [Dirs -> SUBSET [Names -> Inodes \union {None}]]
  BY DEF Known, RefInv, SurvivalInv, GoesInv, NameInv, TypeOK, FsTypeOK
<1>1. /\ UNCHANGED <<content, saved, promised, waived>> /\ SyncDir(Out(r)[1])
  <2>1. waived' = (waived \/ job[r].cmd.blind)
    BY DEF SyncParent
  <2>2. waived' = waived /\ ~job[r].cmd.blind
    BY <2>1, StillPromised DEF Known
  <2> QED
    BY <2>2 DEF SyncParent, envButWaived
<1>2. \A d \in Dirs : onDisk'[d] \subseteq onDisk[d]
  BY <1>0, <1>1 DEF SyncDir, Listed
<1>3. Certain' = Certain /\ Possible' = Possible
  BY <1>1 DEF Certain, Possible, Newest
<1>4. After' \subseteq After
  <2>1. \A d \in Dirs : \A t \in onDisk'[d] : \E s \in onDisk[d] : LooksLike(t, s)
    BY <1>2 DEF LooksLike
  <2> QED
    BY <1>0, <1>3, <2>1, Unnoticed
<1>5. Held' = Held
  BY <1>1 DEF SyncDir, Held, Exists, Newest
<1> QED
  BY <1>1, <1>4, <1>5, ViewSettles DEF Known

(* A removal gives up the input, by its name or by what it holds.          *)
LEMMA RemovalView ==
  ASSUME Known, NEW r \in Runs, RemoveInput(r) \/ Destroy(r) \/ UnlinkRest(r)
  PROVE  ViewNext
<1>0. /\ NameInv /\ TypeOK /\ FsTypeOK /\ Coherent /\ Timely /\ Timely' /\ Listed
      /\ OnePlace
      /\ entry \in [Path -> Inodes \union {None}]
      /\ content \in [Inodes -> Contents] /\ saved \in [Inodes -> SUBSET Contents]
  BY DEF Known, RefInv, SurvivalInv, GoesInv, NameInv, TypeOK, FsTypeOK
<1>j. In(r) \in UserPath /\ In(r) \in Path
  BY <1>0, JobFacts, PathFacts
<1>1. promised' = promised /\ waived' = waived /\ ~waived /\ Exists(In(r))
  BY DEF RemoveInput, Destroy, UnlinkRest, envVars, Known, FileAt, DirAt
<1>2. CASE RemoveInput(r) \/ UnlinkRest(r)
  <2>1. /\ UNCHANGED <<content, saved>>
        /\ entry' = [entry EXCEPT ![In(r)] = None]
        /\ onDisk' = [onDisk EXCEPT ![In(r)[1]] = @ \union {Listing(entry', In(r)[1])}]
    BY <1>2 DEF RemoveInput, UnlinkRest, Unlink, ChangeNames
  <2>2. entry'[In(r)] = None /\ \A p \in UserPath \ {In(r)} : entry'[p] = entry[p]
    BY <1>0, <1>j, <2>1, PathFacts
  <2>3. \A S \in After' : S \in After \/ NowLeads(In(r), None, S)
    BY <1>0, <1>1, <1>j, <2>1, <2>2, OneName
  <2>4. None \notin Possible
    BY InodeFacts DEF Possible
  <2>5. \A S \in After' : S \in After \/ \E R \in After : S = R \ {In(r)}
    <3> SUFFICES ASSUME NEW S \in After', S \notin After
                 PROVE  \E R \in After : S = R \ {In(r)}
      OBVIOUS
    <3>0. NowLeads(In(r), None, S)
      BY <2>3
    <3>1. PICK R \in After : AgreeBut(In(r), S, R)
      BY <3>0 DEF NowLeads
    <3>2. In(r) \notin S
      BY <2>4, <3>0 DEF NowLeads
    <3>3. S = R \ {In(r)}
      BY <3>1, <3>2, ButOne
    <3> QED
      BY <3>3
  <2>6. Held' = Held \ {In(r)}
    BY <1>1, <1>j, <2>1, <2>2 DEF Held, Exists, Newest
  <2> QED
    BY <1>1, <1>j, <2>5, <2>6, ViewDrops DEF Known
<1>3. CASE Destroy(r)
  <2> DEFINE i == entry[In(r)]
  <2>1. i \in Inodes
    BY <1>0, <1>1, <1>j DEF Exists
  <2>2. PICK c : Write(i, c) /\ c.data \in {Noise, Gutted} /\ UNCHANGED <<entry, onDisk>>
    BY <1>3 DEF Destroy, Plain
  <2>3. ~Newest(c)
    BY <2>2, OpsAssumption DEF Newest, Noise, Gutted, Known, RefInv, SurvivalInv, GoesInv,
       NameInv, TypeOK, DataVersions
  <2>4. Leads(In(r)[1], In(r)[2], i)
    BY <1>0, <1>j, PathFacts DEF Coherent
  <2> HIDE DEF i
  <2>5. /\ content'[i] = c /\ saved'[i] = saved[i] \union {c}
        /\ \A j \in Inodes \ {i} : content'[j] = content[j] /\ saved'[j] = saved[j]
    BY <1>0, <2>1, <2>2 DEF Write
  <2>6. Certain' = Certain \ {i} /\ Possible' = Possible /\ Outcomes' = Outcomes
    <3>1. Certain' = Certain \ {i}
      BY <1>1, <2>3, <2>5 DEF Certain, Newest
    <3>2. Possible' = Possible
      BY <1>1, <2>3, <2>5 DEF Possible, Newest
    <3> QED
      BY <2>2, <3>1, <3>2 DEF Outcomes
  <2>7. \A p \in UserPath : i \in Possible /\ Leads(p[1], p[2], i) => p = In(r)
    BY <1>0, <1>j, <2>4, OneHolder
  <2>8. Held' = Held \ {In(r)}
    <3>1. \A p \in UserPath : /\ entry'[p] = entry[p]
                              /\ Leads(p[1], p[2], entry[p])
                              /\ Exists(p) => entry[p] \in Inodes
      BY <1>0, <2>2, PathFacts DEF Coherent, Exists, UserNames
    <3>2. Newest(content[i]) => i \in Possible
      BY <1>0, <2>1 DEF Timely, Possible
    <3>3. \A p \in UserPath : Newest(content[i]) /\ entry[p] = i => p = In(r)
      BY <2>7, <3>1, <3>2
    <3>4. entry[In(r)] = i
      BY DEF i
    <3> QED
      BY <1>1, <1>j, <2>3, <2>5, <3>1, <3>3, <3>4 DEF Held, Exists, Newest
  <2>9. ASSUME NEW S \in After', S \notin After
        PROVE  \E R \in After : S = R \ {In(r)}
    <3>1. PICK s \in Outcomes, good \in Fates' : S = At(s, good)
      <4>1. (\A R : R \in After <=> \E t \in Outcomes, g \in Fates : R = At(t, g))'
        BY <1>0, AfterNext
      <4> QED
        BY <2>6, <2>9, <4>1 DEF At
    <3>2. good \subseteq Possible /\ Certain \ {i} \subseteq good
      BY <2>6, <3>1 DEF Fates
    <3>3. i \in Certain \ good
      BY <1>0, <2>9, <3>1, <3>2, AfterIs DEF Fates
    <3>4. i \in Possible
      BY <1>0, <3>3 DEF Timely, Certain, Possible
    <3> DEFINE more == good \union {i}
    <3>5. more \in Fates
      BY <3>2, <3>4 DEF Fates
    <3>6. \A p \in UserPath : s[p[1]][p[2]] = i => p = In(r)
      BY <2>7, <3>1, <3>4, PathFacts DEF Outcomes, Leads
    <3>7. At(s, more) \in After
      BY <1>0, <3>1, <3>5, AfterIs
    <3>8. CASE s[In(r)[1]][In(r)[2]] = i
      <4>1. At(s, good) = At(s, more) \ {In(r)}
        BY <3>3, <3>6, <3>8 DEF At
      <4> QED
        BY <3>1, <3>7, <4>1
    <3>9. CASE s[In(r)[1]][In(r)[2]] # i
      <4>1. At(s, good) = At(s, more)
        BY <3>6, <3>9 DEF At
      <4> QED
        BY <2>9, <3>1, <3>7, <4>1
    <3> QED
      BY <3>8, <3>9
  <2> QED
    BY <1>1, <1>j, <2>8, <2>9, ViewDrops DEF Known
<1> QED
  BY <1>2, <1>3

(* The user's changes and those of other programs, seen from outside: an   *)
(* edit of what was compared settles where the data is, any other makes    *)
(* its path the only one.                                                  *)
LEMMA EditView ==
  ASSUME Known, NEW x \in UserPath, Edit(x)
  PROVE  ViewNext
<1>0. /\ NameInv /\ TypeOK /\ FsTypeOK /\ Coherent /\ Timely /\ Timely' /\ Listed
      /\ OnePlace
      /\ entry \in [Path -> Inodes \union {None}]
      /\ content \in [Inodes -> Contents] /\ saved \in [Inodes -> SUBSET Contents]
      /\ onDisk \in [Dirs -> SUBSET [Names -> Inodes \union {None}]]
      /\ version \in Int /\ promised \in Int /\ promised <= version /\ promised >= 1
  BY OpsAssumption DEF Known, RefInv, SurvivalInv, GoesInv, NameInv, TypeOK, FsTypeOK,
     DataVersions
<1>j. x \in Path /\ x = <<x[1], x[2]>> /\ x[1] \in Dirs /\ x[2] \in Names
  BY PathFacts DEF UserNames
<1> DEFINE i == entry[x]
           c == [content[i] EXCEPT !.data = version + 1]
<1>1. /\ i \in Inodes /\ content[i].data = version
      /\ WriteSynced(i, c) /\ SyncDir(x[1])
      /\ promised' = IF Compared(x) THEN promised ELSE version + 1
      /\ waived' = waived
  BY <1>0, <1>j DEF Edit, Exists
<1>2. c.data = version + 1
  <2>1. content[i] \in OpsContents
    BY <1>0, <1>1, OpsAssumption
  <2> QED
    BY <2>1 DEF OpsContents
<1>3. Leads(x[1], x[2], i) /\ entry[x] = i
  BY <1>0, <1>j DEF Coherent
<1> HIDE DEF i, c
<1>4. /\ content'[i] = c /\ saved'[i] = {c} /\ entry' = entry
      /\ \A j \in Inodes \ {i} : content'[j] = content[j] /\ saved'[j] = saved[j]
  BY <1>0, <1>1 DEF WriteSynced, SyncDir
<1>5. Newest(content[i]) /\ i \in Possible
  BY <1>0, <1>1 DEF Newest, Timely, Possible
<1>6. \A p \in UserPath : Leads(p[1], p[2], i) => p = x
  BY <1>0, <1>3, <1>5, OneHolder
<1>7. \A p \in UserPath : /\ Leads(p[1], p[2], entry[p])
                          /\ Exists(p) => entry[p] \in Inodes
  BY <1>0, PathFacts DEF Coherent, Exists, UserNames
<1>8. \A d \in Dirs : onDisk'[d] \subseteq onDisk[d]
  BY <1>0, <1>1 DEF SyncDir, Listed
<1>9. CASE Compared(x)
  <2>1. promised' = promised
    BY <1>1, <1>9
  <2>2. \A j \in Inodes : /\ j \in Certain => j \in Certain'
                          /\ j \in Possible' => j \in Possible
    BY <1>0, <1>2, <1>4, <1>5, <2>1 DEF Certain, Possible, Newest
  <2>3. After' \subseteq After
    <3>1. \A d \in Dirs : \A t \in onDisk'[d] : \E s \in onDisk[d] : LooksLike(t, s)
      BY <1>8 DEF LooksLike
    <3> QED
      BY <1>0, <2>2, <3>1, Unnoticed
  <2>4. \A j \in Inodes : Newest(content[j])' <=> Newest(content[j])
    BY <1>0, <1>1, <1>2, <1>4, <1>5, <2>1 DEF Newest
  <2>5. Held' = Held
    BY <1>4, <1>7, <2>4 DEF Held, Exists
  <2> QED
    BY <1>1, <2>3, <2>5, ViewSettles DEF Known
<1>10. CASE ~Compared(x)
  <2>1. promised' = version + 1
    BY <1>1, <1>10
  <2>2. \A j \in Inodes : /\ j # i => j \notin Possible'
                          /\ Newest(content[j])' <=> j = i
    <3>1. \A j \in Inodes : \A y \in saved[j] : y.data \in Int /\ y.data <= version
      BY <1>0, OpsAssumption DEF Timely, OpsContents
    <3>2. ASSUME NEW j \in Inodes, j # i
          PROVE  j \notin Possible' /\ ~Newest(content[j])'
      <4>1. content[j] \in saved[j]
        BY <1>0 DEF Timely
      <4>2. \A y \in saved[j] : ~(y.data >= version + 1)
        BY <1>0, <3>1
      <4> QED
        BY <1>4, <2>1, <3>2, <4>1, <4>2 DEF Possible, Newest
    <3>3. content'[i].data >= promised'
      BY <1>0, <1>2, <1>4, <2>1
    <3> QED
      BY <3>2, <3>3 DEF Newest
  <2>3. x \in Held
    BY <1>1, <1>3, <1>5, InodeFacts DEF Held, Exists
  <2>4. Held' = {x}
    <3>1. \A p \in UserPath : entry[p] = i => p = x
      BY <1>6, <1>7
    <3> QED
      BY <1>1, <1>3, <1>4, <1>7, <2>2, <3>1, InodeFacts DEF Held, Exists
  <2>5. Held' \in After'
    BY NextFacts DEF Known
  <2>6. ASSUME NEW S \in After'
        PROVE  S = {x}
    <3>1. PICK t \in Outcomes', good \in Fates' : S = At(t, good)
      <4>1. (\A R : R \in After <=> \E s \in Outcomes, g \in Fates : R = At(s, g))'
        BY <1>0, AfterNext
      <4> QED
        BY <2>6, <4>1 DEF At
    <3>2. \A d \in Dirs : t[d] \in onDisk'[d]
      BY <3>1 DEF Outcomes
    <3>3. i \in Certain'
      BY <1>0, <1>1, <1>2, <1>4, <2>1 DEF Certain, Newest
    <3>4. good = {i}
      BY <2>2, <3>1, <3>3 DEF Fates, Possible
    <3>5. t[x[1]][x[2]] = i
      <4>1. onDisk'[x[1]] = {Listing(entry, x[1])}
        BY <1>0, <1>1, <1>j DEF SyncDir
      <4> QED
        BY <1>3, <1>j, <3>2, <4>1 DEF Listing
    <3>6. \A p \in UserPath : t[p[1]][p[2]] = i => p = x
      BY <1>6, <1>8, <3>2, PathFacts DEF Leads
    <3> QED
      BY <3>1, <3>4, <3>5, <3>6 DEF At
  <2>7. After' = {{x}}
    BY <2>4, <2>5, <2>6
  <2>8. AbstractView!Edit(x)
    BY <2>3, <2>4, <2>7 DEF AbstractView!Edit
  <2> QED
    BY <1>1, <2>5, <2>8 DEF ViewNext, AbstractView!Next, AbstractView!Keep
<1> QED
  BY <1>9, <1>10

(* What another program creates is none of the data.                       *)
LEMMA StrangerView ==
  ASSUME Known, NEW x \in UserPath, Stranger(x)
  PROVE  ViewNext
<1>0. /\ NameInv /\ NameInv' /\ TypeOK /\ FsTypeOK /\ Timely /\ Timely' /\ Listed
      /\ entry \in [Path -> Inodes \union {None}]
      /\ content \in [Inodes -> Contents] /\ saved \in [Inodes -> SUBSET Contents]
      /\ onDisk \in [Dirs -> SUBSET [Names -> Inodes \union {None}]]
  BY DEF Known, RefInv, SurvivalInv, GoesInv, NameInv, TypeOK, FsTypeOK
<1>j. x \in Path /\ x = <<x[1], x[2]>> /\ x[1] \in Dirs /\ x[2] \in Names
  BY PathFacts DEF UserNames
<1>1. /\ UNCHANGED <<promised, waived>> /\ ~Exists(x)
      /\ entry' = [entry EXCEPT ![x] = StrayInode]
      /\ onDisk' = [onDisk EXCEPT ![x[1]] = @ \union {Listing(entry', x[1])}]
      /\ \A i \in Inodes \ {StrayInode} :
           content'[i] = content[i] /\ saved'[i] = saved[i]
  BY <1>0 DEF Stranger, Create, ChangeNames, WriteSynced
<1>2. /\ entry'[x] = StrayInode
      /\ \A p \in Path \ {x} : entry'[p] = entry[p]
  BY <1>0, <1>1, <1>j
<1>3. /\ StrayInode \notin Possible /\ ~Newest(content[StrayInode])
      /\ StrayInode \notin Possible' /\ ~Newest(content[StrayInode])'
  <2>1. NameInv /\ Timely => StrayInode \notin Possible /\ ~Newest(content[StrayInode])
    BY StrayNever
  <2>2. (NameInv /\ Timely => StrayInode \notin Possible /\ ~Newest(content[StrayInode]))'
    BY StrayNeverNext
  <2> QED
    BY <1>0, <2>1, <2>2
<1>4. Possible' = Possible /\ (\A i \in Certain : i # StrayInode => i \in Certain')
  BY <1>1, <1>3 DEF Possible, Certain, Newest
<1>5. Certain \subseteq Possible
  BY <1>0 DEF Timely, Certain, Possible
<1>6. ASSUME NEW d \in Dirs, NEW t \in onDisk'[d]
      PROVE  \E s \in onDisk[d] : LooksLike(t, s)
  <2>1. CASE t \in onDisk[d]
    BY <2>1 DEF LooksLike
  <2>2. CASE t \notin onDisk[d]
    <3>1. d = x[1] /\ t = Listing(entry', d)
      BY <1>0, <1>1, <1>6, <2>2
    <3>2. ASSUME NEW n \in UserNames
          PROVE  \/ t[n] = Listing(entry, d)[n]
                 \/ t[n] \notin Possible' /\ Listing(entry, d)[n] \notin Possible
      <4>1. n \in Names /\ <<d, n>> \in Path
        BY DEF UserNames, Path
      <4>2. t[n] = entry'[<<d, n>>] /\ Listing(entry, d)[n] = entry[<<d, n>>]
        BY <3>1, <4>1 DEF Listing
      <4>3. CASE <<d, n>> = x
        BY <1>1, <1>2, <1>3, <4>2, <4>3, InodeFacts DEF Exists, Possible
      <4>4. CASE <<d, n>> # x
        BY <1>2, <4>1, <4>2, <4>4
      <4> QED
        BY <4>3, <4>4
    <3>3. LooksLike(t, Listing(entry, d))
      BY <3>2 DEF LooksLike
    <3> QED
      BY <1>0, <3>3 DEF Listed
  <2> QED
    BY <2>1, <2>2
<1>7. After' \subseteq After
  BY <1>0, <1>3, <1>4, <1>5, <1>6, Unnoticed
<1>8. Held' = Held
  <2>1. ASSUME NEW p \in UserPath
        PROVE  p \in Held' <=> p \in Held
    <3>1. CASE p = x
      BY <1>1, <1>2, <1>3, <3>1 DEF Held
    <3>2. CASE p # x
      <4>1. entry'[p] = entry[p] /\ entry[p] \in Inodes \union {None}
        BY <1>0, <1>2, <3>2, PathFacts
      <4> QED
        BY <1>1, <1>3, <4>1 DEF Held, Exists, Newest
    <3> QED
      BY <3>1, <3>2
  <2> QED
    BY <2>1 DEF Held
<1> QED
  BY <1>1, <1>7, <1>8, ViewSettles DEF Known

(* A crash leaves the data at one of the sets of places it may.            *)
LEMMA CrashView ==
  ASSUME Known, Crash
  PROVE  ViewNext
<1>0. /\ FsTypeOK /\ FsTypeOK' /\ Timely /\ NameInv
      /\ content \in [Inodes -> Contents] /\ saved \in [Inodes -> SUBSET Contents]
      /\ onDisk \in [Dirs -> SUBSET [Names -> Inodes \union {None}]]
  BY DEF Known, RefInv, SurvivalInv, GoesInv, NameInv, TypeOK, FsTypeOK
<1>1. PICK s \in [Dirs -> UNION {onDisk[d] : d \in Dirs}] :
        /\ \A d \in Dirs : s[d] \in onDisk[d]
        /\ entry' = [p \in Path |-> s[p[1]][p[2]]]
        /\ onDisk' = [d \in Dirs |-> {s[d]}]
  BY DEF Crash, FsCrash
<1>2. \A i \in Inodes : content'[i] \in saved[i] /\ saved'[i] = {content'[i]}
  <2> DEFINE u == {i \in Inodes : saved[i] # {content[i]}}
  <2>1. PICK f \in [u -> UNION {saved[i] : i \in u}] :
          /\ \A i \in u : f[i] \in saved[i]
          /\ content' = [i \in Inodes |-> IF i \in u THEN f[i] ELSE content[i]]
    BY DEF Crash, FsCrash
  <2>2. saved' = [i \in Inodes |-> {content'[i]}]
    BY DEF Crash, FsCrash
  <2> QED
    BY <1>0, <2>1, <2>2 DEF Timely
<1>3. promised' = promised /\ waived' = waived
  BY DEF Crash
<1>4. \A d \in Dirs : s[d] \in [Names -> Inodes \union {None}]
  BY <1>0, <1>1
<1>5. \A d \in Dirs : onDisk'[d] = {Listing(entry', d)}
  <2>1. ASSUME NEW d \in Dirs
        PROVE  s[d] = Listing(entry', d)
    <3>1. \A n \in Names : <<d, n>> \in Path
      BY DEF Path
    <3>2. \A n \in Names : entry'[<<d, n>>] = s[d][n]
      BY <1>1, <3>1
    <3> QED
      BY <1>4, <3>2 DEF Listing
  <2> QED
    BY <1>1, <2>1
<1>6. After' = {Held'}
  BY <1>0, <1>2, <1>5, AllSavedNext
<1>7. Held' \in After
  <2> DEFINE good == {i \in Inodes : Newest(content[i])'}
  <2>1. s \in Outcomes
    BY <1>1 DEF Outcomes
  <2>2. good \in Fates
    BY <1>2, <1>3 DEF Fates, Certain, Possible, Newest
  <2>3. \A p \in UserPath : entry'[p] = s[p[1]][p[2]] /\ entry'[p] \in Inodes \union {None}
    BY <1>1, <1>4, PathFacts DEF UserNames
  <2>4. Held' = At(s, good)
    BY <2>3, InodeFacts DEF Held, Exists, At
  <2> HIDE DEF good
  <2> QED
    BY <1>0, <2>1, <2>2, <2>4, AfterIs
<1>8. AbstractView!Crash /\ Held' \in After'
  BY <1>6, <1>7 DEF AbstractView!Crash
<1> QED
  BY <1>3, <1>8 DEF ViewNext, AbstractView!Next, AbstractView!Keep

-----------------------------------------------------------------------------
(* The runs implement the replacement *)

\* Steps that leave the files, the promise and its end alone.
Aside == UNCHANGED <<fsVars, promised, waived>>

(* Every step is one of the replacement's, or leaves all of it as it was.  *)
LEMMA ViewStep ==
  ASSUME RefInv, RefInv', [Next]_vars
  PROVE  ViewNext \/ UNCHANGED <<Held, After, waived>>
<1>1. CASE waived'
  BY <1>1, ViewWaives
<1>2. CASE ~waived'
  <2>0. Known /\ SurvivalInv
    BY <1>2 DEF Known, RefInv
  <2>1. CASE Aside
    BY <2>1 DEF Aside, fsVars, Held, After, Exists, Newest
  <2>2. ASSUME NEW r \in Runs, StepOf(r), ~Aside
        PROVE  ViewNext
    <3>1. CASE CreateScratch(r) \/ Pack(r) \/ Unpack(r) \/ Fail(r)
      <4>1. pc[r] \in Early
        BY <3>1 DEF CreateScratch, Pack, Unpack, Fail, Armed, Early
      <4> QED
        BY <2>0, <3>1, <4>1, ScratchView
    <3>2. CASE Clear(r)
      BY <2>0, <3>2 DEF Clear, SurvivalInv, Synced
    <3>3. CASE MoveFails(r) \/ Verify(r) \/ VerifyFails(r) \/ RemoveFails(r)
      BY <2>2, <3>3 DEF MoveFails, Verify, VerifyFails, RemoveFails, envVars, Aside
    <3> QED
      BY <2>0, <2>2, <3>1, <3>2, <3>3, MoveView, SyncView, RemovalView DEF StepOf
  <2>3. ASSUME NEW r \in Runs,
               Refuse(r) \/ \E c \in Commands : EncryptBegin(r, c) \/ DecryptBegin(r, c)
        PROVE  Aside
    BY <2>3 DEF Refuse, EncryptBegin, DecryptBegin, envVars, Aside
  <2>4. UNCHANGED vars => Aside
    BY DEF vars, envVars, Aside
  <2> QED
    BY <2>0, <2>1, <2>2, <2>3, <2>4, EditView, StrangerView, CrashView DEF Next
<1> QED
  BY <1>1, <1>2

(* What the directories show is on disk, from the start and after a step.  *)
LEMMA ListedStep ==
  ASSUME TypeOK, Listed, [Next]_vars
  PROVE  Listed'
<1>0. FsTypeOK /\ onDisk \in [Dirs -> SUBSET [Names -> Inodes \union {None}]]
  BY DEF TypeOK, FsTypeOK
<1>1. ASSUME UNCHANGED <<entry, onDisk>>
      PROVE  Listed'
  BY <1>1 DEF Listed, Listing
<1>2. ASSUME NEW d \in Dirs, NEW e, ChangeNames(d, e),
             \A p \in Path : p[1] # d => e[p] = entry[p]
      PROVE  Listed'
  <2>1. entry' = e /\ onDisk' = [onDisk EXCEPT ![d] = @ \union {Listing(e, d)}]
    BY <1>2 DEF ChangeNames
  <2>2. ASSUME NEW b \in Dirs \ {d}
        PROVE  Listing(e, b) = Listing(entry, b)
    <3>1. \A n \in Names : e[<<b, n>>] = entry[<<b, n>>]
      BY <1>2 DEF Path
    <3> QED
      BY <3>1 DEF Listing
  <2> QED
    BY <1>0, <2>1, <2>2 DEF Listed
<1>3. ASSUME NEW p \in Path, Unlink(p)
      PROVE  Listed'
  <2> DEFINE e == [entry EXCEPT ![p] = None]
  <2>1. ChangeNames(p[1], e) /\ \A x \in Path : x[1] # p[1] => e[x] = entry[x]
    BY <1>0, <1>3 DEF Unlink, FsTypeOK
  <2> HIDE DEF e
  <2> QED
    BY <1>2, <2>1, PathFacts
<1>4. ASSUME NEW p \in Path, NEW q \in Path, p[1] = q[1], Rename(p, q)
      PROVE  Listed'
  <2>1. \A x \in Path : x[1] # q[1] =>
          [entry EXCEPT ![p] = None, ![q] = entry[p]][x] = entry[x]
    BY <1>0, <1>4 DEF FsTypeOK
  <2> QED
    BY <1>2, <1>4, <2>1, PathFacts DEF Rename
<1>5. ASSUME NEW p \in Path, NEW i, NEW c, Create(p, i, c)
      PROVE  Listed'
  <2> DEFINE e == [entry EXCEPT ![p] = i]
  <2>1. ChangeNames(p[1], e) /\ \A x \in Path : x[1] # p[1] => e[x] = entry[x]
    BY <1>0, <1>5 DEF Create, FsTypeOK
  <2> HIDE DEF e
  <2> QED
    BY <1>2, <2>1, PathFacts
<1>6. ASSUME NEW d, SyncDir(d)
      PROVE  Listed'
  <2>1. entry' = entry /\ \A b \in Dirs : b # d => onDisk'[b] = onDisk[b]
    BY <1>0, <1>6 DEF SyncDir
  <2>2. \A b \in Dirs : b = d => onDisk'[b] = {Listing(entry, b)}
    BY <1>0, <1>6 DEF SyncDir
  <2> QED
    BY <2>1, <2>2 DEF Listed
<1>7. CASE Crash
  <2>1. PICK s \in [Dirs -> UNION {onDisk[d] : d \in Dirs}] :
          /\ \A d \in Dirs : s[d] \in onDisk[d]
          /\ entry' = [p \in Path |-> s[p[1]][p[2]]]
          /\ onDisk' = [d \in Dirs |-> {s[d]}]
    BY <1>7 DEF Crash, FsCrash
  <2>2. ASSUME NEW d \in Dirs
        PROVE  s[d] = Listing(entry', d)
    <3>1. s[d] \in [Names -> Inodes \union {None}]
      BY <1>0, <2>1
    <3>2. \A n \in Names : <<d, n>> \in Path
      BY DEF Path
    <3>3. \A n \in Names : entry'[<<d, n>>] = s[d][n]
      BY <2>1, <3>2
    <3> QED
      BY <3>1, <3>3 DEF Listing
  <2> QED
    BY <2>1, <2>2 DEF Listed
<1>8. ASSUME NEW r \in Runs, StepOf(r)
      PROVE  Listed'
  <2>1. /\ Tmp(r) \in Path /\ Out(r) \in Path /\ In(r) \in Path
        /\ Tmp(r)[1] = Out(r)[1]
    BY <1>8, JobFacts, PathFacts DEF Tmp
  <2>2. \/ UNCHANGED <<entry, onDisk>>
        \/ Unlink(Tmp(r)) \/ Unlink(Out(r)) \/ Unlink(In(r))
        \/ Rename(Tmp(r), Out(r)) \/ SyncDir(Out(r)[1])
        \/ \E c : Create(Tmp(r), r, c)
    BY <1>8
       DEF StepOf, CreateScratch, Pack, Unpack, Fail, Clear, Move, MoveFails,
           Verify, VerifyFails, SyncParent, RemoveInput, Destroy, UnlinkRest,
           RemoveFails, fsVars
  <2> QED
    BY <1>1, <1>3, <1>4, <1>5, <1>6, <2>1, <2>2
<1>9. ASSUME NEW r \in Runs,
             Refuse(r) \/ \E c \in Commands : EncryptBegin(r, c) \/ DecryptBegin(r, c)
      PROVE  Listed'
  BY <1>1, <1>9 DEF Refuse, EncryptBegin, DecryptBegin, fsVars
<1>10. ASSUME NEW p \in UserPath, Edit(p) \/ Stranger(p)
       PROVE  Listed'
  BY <1>5, <1>6, <1>10, PathFacts DEF Edit, Stranger
<1>11. CASE UNCHANGED vars
  BY <1>1, <1>11 DEF vars, fsVars
<1> QED
  BY <1>7, <1>8, <1>9, <1>10, <1>11 DEF Next

(* Seen from outside, encrypting and decrypting files keep the promise of  *)
(* module Replacement, in runs that do not overlap: at each step the data  *)
(* gets a place more, or one is given up that a crash cannot need, or what *)
(* was uncertain is settled.                                               *)
THEOREM RunsImplementReplacement ==
  /\ ~Concurrent /\ StartKind = "file"
  /\ ForcedElsewhere /\ ForcedToEncrypt
  => (Spec => ImplementsReplacement)
<1> SUFFICES ASSUME ~Concurrent, StartKind = "file", ForcedElsewhere, ForcedToEncrypt
             PROVE  Spec => ImplementsReplacement
  OBVIOUS
<1>1. Init => RefInv /\ AbstractView!Init
  <2> SUFFICES ASSUME Init
               PROVE  RefInv /\ AbstractView!Init
    OBVIOUS
  <2>1. SurvivalInv /\ FsTypeOK /\ ~waived
    BY InitSurvival DEF Init, SurvivalInv, GoesInv, NameInv, TypeOK
  <2>2. /\ \A i \in Inodes : saved[i] = {content[i]}
        /\ \A d \in Dirs : onDisk[d] = {Listing(entry, d)}
    BY DEF Init, FsInit
  <2>3. Listed
    BY <2>2 DEF Listed
  <2>4. After = {Held} /\ Held # {}
    BY <2>1, <2>2, AllSaved, SureFacts DEF SurvivalInv, KeptSomewhere, GoesInv, Held
  <2>5. waived = FALSE /\ Held \in SUBSET UserPath
    BY DEF Init, Held
  <2> QED
    BY <2>1, <2>3, <2>4, <2>5 DEF RefInv, AbstractView!Init
<1>2. RefInv /\ [Next]_vars => RefInv'
  BY SurvivalStep, ListedStep DEF RefInv, SurvivalInv, GoesInv, NameInv
<1>3. RefInv /\ RefInv' /\ [Next]_vars => [AbstractView!Next]_(AbstractView!vars)
  BY ViewStep DEF ViewNext, AbstractView!vars
<1> QED
  BY <1>1, <1>2, <1>3, PTL DEF Spec, ImplementsReplacement, AbstractView!Spec
=============================================================================
