-------------------------------- MODULE Ops ---------------------------------
(***************************************************************************)
(* Encrypting and decrypting as steps over the file system.  One run is    *)
(* one invocation of `cryptosec -e` or `cryptosec -d`: it checks its       *)
(* options and paths, writes a scratch file next to its output, moves it   *)
(* into place, reads it back, and only then removes what it replaces.      *)
(* Between any two steps a run may fail, the machine may go down, the user *)
(* may change a file, and another run may take a step.                     *)
(*                                                                         *)
(* Abstractions.  A file is its kind, which data it holds, and the layers  *)
(* of encryption around it, outermost first; what the AEADs and the chunks *)
(* do is module Stream's.  A directory tree is one inode.  Packing reads   *)
(* the source in one step: a source that changes meanwhile differs from    *)
(* what was packed, which is all that reading back tells apart.            *)
(***************************************************************************)
EXTENDS FileSystem, Sequences

CONSTANTS
  Commands,       \* the invocations the users may make
  ContainerName,  \* name |-> name ++ ".csec"
  ScratchName,    \* the name of run r's scratch file, nobody else's
  Home,           \* the path the user's data lies at in the beginning
  StartKind,      \* whether it is a file or a directory
  Stray,          \* paths where something unrelated lies in the beginning
  LastRun,        \* bound: runs
  MaxLayers,      \* bound: a container in a container in ...
  MaxEdits,       \* bound: changes the user makes to the data
  MaxCrashes,     \* bound: crashes
  MaxStrangers,   \* bound: files other programs create meanwhile
  Concurrent      \* runs overlap

Runs == 1 .. LastRun

\* Inode 0 is the user's data, r the scratch file of run r, and the others
\* belong to nobody here.
DataInode == 0
StrayInode == LastRun + 1

\* What a file may hold: the user's data in some version, or one of these.
Other   == 0     \* something unrelated
Noise   == -1    \* what shred wrote over the data
Gutted  == -2    \* what remove_dir_all has left of a tree so far
Partial == -3    \* a half written scratch file or tree

DataVersions == 1 .. MaxEdits + 1

Scratches == {ScratchName[r] : r \in Runs}
UserNames == Names \ Scratches
UserPath  == Dirs \X UserNames

\* A layer is the run that sealed it, for the data key drawn by that run, and
\* the name its manifest carries.
Layer  == [dek : Runs, name : UserNames]
Layers == UNION {[1 .. n -> Layer] : n \in 0 .. MaxLayers}

OpsContents == [kind : {"file", "dir"}, data : -3 .. MaxEdits + 1, layers : Layers]

Steps == {"idle", "create", "copy", "clear", "rename", "verify", "sync",
          "remove", "unlink", "done", "failed", "stranded", "crashed"}

NoPath == <<"none", "none">>

ASSUME OpsAssumption ==
  /\ Inodes = 0 .. LastRun + 1 /\ Contents = OpsContents
  /\ LastRun \in Nat /\ MaxLayers \in Nat
  /\ MaxEdits \in Nat /\ MaxCrashes \in Nat /\ MaxStrangers \in Nat
  /\ Concurrent \in BOOLEAN
  /\ ScratchName \in [Runs -> Names]
  /\ \A r, q \in Runs : ScratchName[r] = ScratchName[q] => r = q
  /\ ContainerName \in [Names -> UserNames]
  /\ Home \in UserPath /\ Stray \subseteq UserPath \ {Home}
  /\ StartKind \in {"file", "dir"}
  /\ NoPath \notin Path
  /\ Commands \subseteq
       [op : {"encrypt", "decrypt"}, in : UserPath,
        output : UserPath \union {NoPath}, keep : BOOLEAN, verify : BOOLEAN,
        shred : BOOLEAN, force : BOOLEAN, blind : BOOLEAN]
  /\ \E c \in Commands : ~c.blind

VARIABLES
  pc,        \* where each run is
  job,       \* its command, its output path, the kind it works on and, when
             \* decrypting, the inode it has open
  version,   \* the newest version of the user's data
  promised,  \* history: the newest that was there to be compared in time
  waived,    \* history: nothing is promised any more
  crashes,
  strangers

runVars == <<pc, job>>
envVars == <<version, promised, waived, crashes, strangers>>
envButWaived == <<version, promised, crashes, strangers>>
vars == <<fsVars, runVars, envVars>>

-----------------------------------------------------------------------------
(* Files *)

Plain(kind, data) == [kind |-> kind, data |-> data, layers |-> <<>>]

IsContainer(c) == c.layers # <<>>
IsDir(c) == c.kind = "dir" /\ ~IsContainer(c)
KindOf(c) == IF IsDir(c) THEN "dir" ELSE "file"

\* Mutant: the manifest has no name.
SealedUnnamed(c, r, n) ==
  [c EXCEPT !.layers = <<[dek |-> r, name |-> "none"]>> \o @]

\* The container run r makes of c under the name n, and what is inside one.
Sealed(c, r, n) ==
  [c EXCEPT !.layers = <<[dek |-> r, name |-> n]>> \o @]
Inside(c) == [c EXCEPT !.layers = Tail(@)]

\* The user's data in the version that is promised or a newer one, whatever
\* it is wrapped in.
Newest(c) == c.data >= promised

DirAt(p) == Exists(p) /\ IsDir(content[entry[p]])
FileAt(p) == Exists(p) /\ ~IsDir(content[entry[p]])

-----------------------------------------------------------------------------
(* Runs *)

IsEncrypt(r) == job[r].cmd.op = "encrypt"
IsDecrypt(r) == job[r].cmd.op = "decrypt"
In(r)   == job[r].cmd.in
Out(r)  == job[r].out
Kind(r) == job[r].kind
Active(r) == pc[r] \notin {"idle", "done", "failed", "stranded", "crashed"}

\* scratch_path: next to the output.
Tmp(r) == <<Out(r)[1], ScratchName[r]>>

Go(r, step) == pc' = [pc EXCEPT ![r] = step]

\* Runs start in order, and one after the other unless they are concurrent.
MayStart(r) ==
  /\ pc[r] = "idle"
  /\ \A q \in Runs : q < r => pc[q] # "idle" /\ (Concurrent \/ ~Active(q))

\* Mutant: whatever is there is overwritten.
FreeAlways(p, force) == TRUE

\* ensure_free
Free(p, force) == force \/ ~Exists(p)

Init ==
  /\ FsInit([p \in Path |-> IF p = Home THEN DataInode
                            ELSE IF p \in Stray THEN StrayInode ELSE None],
            [i \in Inodes |->
               IF i = DataInode THEN Plain(StartKind, 1)
               ELSE IF i = StrayInode THEN Plain("file", Other)
               ELSE Plain("file", Partial)])
  /\ pc = [r \in Runs |-> "idle"]
  /\ job = [r \in Runs |-> [cmd |-> CHOOSE c \in Commands : ~c.blind,
                            out |-> Home, kind |-> "file", fd |-> None]]
  /\ version = 1 /\ promised = 1 /\ waived = FALSE
  /\ crashes = 0 /\ strangers = 0

-----------------------------------------------------------------------------
(* Both ways: until the scratch file is full *)

\* Contradicting options, a missing input, an output that is in the way, no
\* usable key or password, a wrong answer to a prompt: nothing has changed.
Refuse(r) ==
  /\ MayStart(r)
  /\ Go(r, "failed")
  /\ UNCHANGED <<fsVars, job, envVars>>

\* encrypt, up to the scratch file.  The output is checked here, and it is
\* moved to only after everything else was done.
EncryptBegin(r, c) ==
  /\ MayStart(r)
  /\ c.op = "encrypt"
  /\ ~(c.shred /\ c.keep)
  /\ ~(c.shred /\ ~c.verify)
  /\ Exists(c.in)
  /\ LET o == IF c.output = NoPath
                THEN <<c.in[1], ContainerName[c.in[2]]>> ELSE c.output
     IN /\ Free(o, c.force)
        /\ job' = [job EXCEPT ![r] =
                     [cmd |-> c, out |-> o, fd |-> None,
                      kind |-> KindOf(content[entry[c.in]])]]
  /\ Go(r, "create")
  /\ UNCHANGED <<fsVars, envVars>>

\* decrypt, up to the scratch file: the container stays open from here on.
DecryptBegin(r, c) ==
  /\ MayStart(r)
  /\ c.op = "decrypt"
  /\ Exists(c.in)
  /\ LET box == content[entry[c.in]]
         o == IF c.output = NoPath
                THEN <<c.in[1], box.layers[1].name>> ELSE c.output
     IN /\ IsContainer(box)
        /\ Free(o, c.force)
        /\ job' = [job EXCEPT ![r] =
                     [cmd |-> c, out |-> o, fd |-> entry[c.in],
                      kind |-> KindOf(Inside(box))]]
  /\ Go(r, "create")
  /\ UNCHANGED <<fsVars, envVars>>

\* create_new, or create_dir for a tree.
CreateScratch(r) ==
  /\ pc[r] = "create"
  /\ Create(Tmp(r), r,
            Plain(IF IsDecrypt(r) THEN Kind(r) ELSE "file", Partial))
  /\ Go(r, "copy")
  /\ UNCHANGED <<job, envVars>>

\* Mutant: the container is not synced.
PackUnsynced(r) ==
  /\ pc[r] = "copy"
  /\ IsEncrypt(r)
  /\ Exists(In(r))
  /\ LET c == content[entry[In(r)]]
     IN /\ KindOf(c) = Kind(r)
        /\ Len(c.layers) < MaxLayers
        /\ Write(r, Sealed(c, r, In(r)[2]))
  /\ Go(r, "rename")
  /\ UNCHANGED <<entry, onDisk, job, envVars>>

\* Header, manifest, contents, finish and sync_all, of whatever is there.
Pack(r) ==
  /\ pc[r] = "copy"
  /\ IsEncrypt(r)
  /\ Exists(In(r))
  /\ LET c == content[entry[In(r)]]
     IN /\ KindOf(c) = Kind(r)
        /\ Len(c.layers) < MaxLayers
        /\ WriteSynced(r, Sealed(c, r, In(r)[2]))
  /\ Go(r, "rename")
  /\ UNCHANGED <<entry, onDisk, job, envVars>>

\* Mutant: nothing that is restored is synced.
UnpackUnsynced(r) ==
  /\ pc[r] = "copy"
  /\ IsDecrypt(r)
  /\ IsContainer(content[job[r].fd])
  /\ LET c == Inside(content[job[r].fd])
     IN /\ KindOf(c) = Kind(r)
        /\ Write(r, c)
  /\ Go(r, IF job[r].cmd.force THEN "clear" ELSE "rename")
  /\ UNCHANGED <<entry, onDisk, job, envVars>>

\* A restored file is synced, what is unpacked of a tree is not.
Unpack(r) ==
  /\ pc[r] = "copy"
  /\ IsDecrypt(r)
  /\ IsContainer(content[job[r].fd])
  /\ LET c == Inside(content[job[r].fd])
     IN /\ KindOf(c) = Kind(r)
        /\ IF Kind(r) = "file" THEN WriteSynced(r, c) ELSE Write(r, c)
  /\ Go(r, IF job[r].cmd.force THEN "clear" ELSE "rename")
  /\ UNCHANGED <<entry, onDisk, job, envVars>>

\* The scratch tree of decrypt is given up last, a scratch file already
\* before it is moved.
Armed(r) ==
  \/ pc[r] \in {"create", "copy"}
  \/ (pc[r] \in {"clear", "rename"} /\ IsDecrypt(r) /\ Kind(r) = "dir")

\* Mutant: nothing is removed when a run fails.
FailAndLeave(r) ==
  /\ Armed(r)
  /\ UNCHANGED <<entry, onDisk>>
  /\ Go(r, "failed")
  /\ UNCHANGED <<content, saved, job, envVars>>

\* Any step may fail (reading, writing, authentication); dropping Scratch
\* removes the file.
Fail(r) ==
  /\ Armed(r)
  /\ IF Exists(Tmp(r)) THEN Unlink(Tmp(r)) ELSE UNCHANGED <<entry, onDisk>>
  /\ Go(r, "failed")
  /\ UNCHANGED <<content, saved, job, envVars>>

-----------------------------------------------------------------------------
(* Both ways: moving the scratch file into place *)

\* What remove_file, remove_dir_all and rename refuse to work on.
InTheWay(r) ==
  CASE IsEncrypt(r)        -> DirAt(Out(r))
    [] pc[r] = "clear"     -> IF Kind(r) = "file" THEN DirAt(Out(r))
                                                  ELSE FileAt(Out(r))
    [] Kind(r) = "file"    -> DirAt(Out(r))
    [] OTHER               -> Exists(Out(r))

\* Run r is about to replace the newest data by something else: by an older
\* version or something unrelated with -f, or by what a removal has left of it.
GivesUp(r) ==
  /\ Exists(Out(r))
  /\ Newest(content[entry[Out(r)]]) /\ ~Newest(content[r])
  /\ job[r].cmd.force \/ content[r].data \in {Noise, Gutted}

\* decrypt -f: what is in the way goes first.
Clear(r) ==
  /\ pc[r] = "clear"
  /\ ~InTheWay(r)
  /\ IF Exists(Out(r)) THEN Unlink(Out(r)) ELSE UNCHANGED <<entry, onDisk>>
  /\ waived' = (waived \/ GivesUp(r))
  /\ Go(r, "rename")
  /\ UNCHANGED <<content, saved, job, envButWaived>>

\* Mutant: the check is left out.
AfterMoveSkipsCheck(r) ==
  IF job[r].cmd.keep \/ (IsEncrypt(r) /\ ~job[r].cmd.verify)
  THEN "done" ELSE "sync"

\* What comes after the rename.
AfterMove(r) ==
  IF IsEncrypt(r) THEN IF job[r].cmd.verify THEN "verify" ELSE "done"
  ELSE IF job[r].cmd.keep THEN "done" ELSE "sync"

\* The scratch file takes the output's name, and the place of what was there.
Move(r) ==
  /\ pc[r] = "rename"
  /\ ~InTheWay(r)
  /\ Rename(Tmp(r), Out(r))
  /\ waived' = (waived \/ GivesUp(r))
  /\ Go(r, AfterMove(r))
  /\ UNCHANGED <<content, saved, job, envButWaived>>

\* The scratch file was handed over before, so nothing removes it.
MoveFails(r) ==
  /\ pc[r] \in {"clear", "rename"}
  /\ ~Armed(r)
  /\ Go(r, "stranded")
  /\ UNCHANGED <<fsVars, job, envVars>>

-----------------------------------------------------------------------------
(* Encrypting: reading back *)

\* The container at the output opens with this run's data key, carries the
\* name and kind of the source, and holds s.
ReadsAs(r, s) ==
  /\ Exists(Out(r))
  /\ LET c == content[entry[Out(r)]]
     IN /\ IsContainer(c)
        /\ c.layers[1] = [dek |-> r, name |-> In(r)[2]]
        /\ Inside(c) = s
        /\ KindOf(s) = Kind(r)

\* It holds what the source holds now.
ReadsBack(r) == Exists(In(r)) /\ ReadsAs(r, content[entry[In(r)]])

\* Mutant: the container opens, but nothing is compared with the source.
VerifyOpensOnly(r) ==
  /\ pc[r] = "verify"
  /\ Exists(Out(r)) /\ IsContainer(content[entry[Out(r)]])
  /\ Go(r, IF job[r].cmd.keep THEN "done" ELSE "sync")
  /\ UNCHANGED <<fsVars, job, envVars>>

\* Mutant: -k is forgotten behind the check.
VerifyForgetsKeep(r) ==
  /\ pc[r] = "verify"
  /\ ReadsBack(r)
  /\ Go(r, "sync")
  /\ UNCHANGED <<fsVars, job, envVars>>

Verify(r) ==
  /\ pc[r] = "verify"
  /\ ReadsBack(r)
  /\ Go(r, IF job[r].cmd.keep THEN "done" ELSE "sync")
  /\ UNCHANGED <<fsVars, job, envVars>>

\* Mutant: after a difference the check is made again.
VerifyAgain(r) ==
  /\ pc[r] = "verify"
  /\ ~ReadsBack(r)
  /\ UNCHANGED vars

\* A difference, or a file that cannot be read just now, however it is.
VerifyFails(r) ==
  /\ pc[r] = "verify"
  /\ Go(r, "failed")
  /\ UNCHANGED <<fsVars, job, envVars>>

-----------------------------------------------------------------------------
(* Both ways: the input goes *)

\* Mutant: the directory is not synced.
SyncNothing(r) ==
  /\ pc[r] = "sync"
  /\ UNCHANGED <<entry, onDisk>>
  /\ Go(r, "remove")
  /\ UNCHANGED <<content, saved, job, envVars>>

\* sync_parent.  The parent of a bare file name is the empty path, which does
\* not open, and a sync that fails is ignored: such a run goes on blindly.
SyncParent(r) ==
  /\ pc[r] = "sync"
  /\ IF job[r].cmd.blind THEN UNCHANGED <<entry, onDisk>>
                         ELSE SyncDir(Out(r)[1])
  /\ waived' = (waived \/ job[r].cmd.blind)
  /\ Go(r, "remove")
  /\ UNCHANGED <<content, saved, job, envButWaived>>

Shreds(r) == IsEncrypt(r) /\ job[r].cmd.shred

\* remove_file, of a source or of a container.
RemoveInput(r) ==
  /\ pc[r] = "remove"
  /\ IsDecrypt(r) \/ (Kind(r) = "file" /\ ~Shreds(r))
  /\ FileAt(In(r))
  /\ Unlink(In(r))
  /\ Go(r, "done")
  /\ UNCHANGED <<content, saved, job, envVars>>

\* shred_file writes over the file, remove_dir_all takes a tree apart.
Destroy(r) ==
  /\ pc[r] = "remove"
  /\ IsEncrypt(r)
  /\ \/ /\ Kind(r) = "file" /\ Shreds(r) /\ FileAt(In(r))
        /\ Write(entry[In(r)], Plain("file", Noise))
     \/ /\ Kind(r) = "dir" /\ DirAt(In(r))
        /\ Write(entry[In(r)], Plain("dir", Gutted))
  /\ Go(r, "unlink")
  /\ UNCHANGED <<entry, onDisk, job, envVars>>

\* What Destroy has left over goes as well.
UnlinkRest(r) ==
  /\ pc[r] = "unlink"
  /\ IF Kind(r) = "file" THEN FileAt(In(r)) ELSE DirAt(In(r))
  /\ Unlink(In(r))
  /\ Go(r, "done")
  /\ UNCHANGED <<content, saved, job, envVars>>

RemoveFails(r) ==
  /\ pc[r] \in {"remove", "unlink"}
  /\ Go(r, "failed")
  /\ UNCHANGED <<fsVars, job, envVars>>

-----------------------------------------------------------------------------
(* What happens around the runs *)

\* All runs are gone; their scratch files stay.
Crash ==
  /\ crashes < MaxCrashes
  /\ crashes' = crashes + 1
  /\ FsCrash
  /\ pc' = [r \in Runs |-> IF Active(r) THEN "crashed" ELSE pc[r]]
  /\ UNCHANGED <<job, version, promised, waived, strangers>>

\* A run has compared its source at p and is about to remove it.
Compared(p) ==
  \E r \in Runs : pc[r] \in {"sync", "remove", "unlink"} /\ In(r) = p

\* The user changes the newest data where it lies in the open, durably.
Edit(p) ==
  /\ version <= MaxEdits
  /\ Exists(p)
  /\ LET c == content[entry[p]]
     IN /\ ~IsContainer(c) /\ c.data = version
        /\ WriteSynced(entry[p], [c EXCEPT !.data = version + 1])
  /\ SyncDir(p[1])
  /\ version' = version + 1
  /\ promised' = IF Compared(p) THEN promised ELSE version + 1
  /\ UNCHANGED <<runVars, waived, crashes, strangers>>

\* Another program creates a file.
Stranger(p) ==
  /\ strangers < MaxStrangers
  /\ strangers' = strangers + 1
  /\ ~Exists(p)
  /\ \A q \in Path : entry[q] # StrayInode
  /\ Create(p, StrayInode, Plain("file", Other))
  /\ UNCHANGED <<runVars, version, promised, waived, crashes>>

-----------------------------------------------------------------------------

StepOf(r) ==
  \/ CreateScratch(r) \/ Pack(r) \/ Unpack(r) \/ Fail(r)
  \/ Clear(r) \/ Move(r) \/ MoveFails(r)
  \/ Verify(r) \/ VerifyFails(r)
  \/ SyncParent(r) \/ RemoveInput(r) \/ Destroy(r) \/ UnlinkRest(r)
  \/ RemoveFails(r)

Next ==
  \/ \E r \in Runs :
       \/ Refuse(r)
       \/ \E c \in Commands : EncryptBegin(r, c) \/ DecryptBegin(r, c)
       \/ StepOf(r)
  \/ Crash
  \/ \E p \in UserPath : Edit(p) \/ Stranger(p)

\* A run that was started goes on by itself: it waits for nobody.
Fairness == \A r \in Runs : WF_vars(StepOf(r))

Spec == Init /\ [][Next]_vars /\ Fairness

-----------------------------------------------------------------------------
(* Properties *)

Jobs == [cmd : Commands, out : UserPath, kind : {"file", "dir"},
         fd : Inodes \union {None}]

TypeOK ==
  /\ FsTypeOK
  /\ pc \in [Runs -> Steps]
  /\ job \in [Runs -> Jobs]
  /\ version \in DataVersions /\ promised \in 1 .. version
  /\ waived \in BOOLEAN
  /\ crashes \in 0 .. MaxCrashes
  /\ strangers \in 0 .. MaxStrangers

Held == {p \in UserPath : Exists(p) /\ Newest(content[entry[p]])}

\* The sets of paths a crash may leave it at.
After ==
  LET Outcomes == {s \in [Dirs -> UNION {onDisk[d] : d \in Dirs}] :
                     \A d \in Dirs : s[d] \in onDisk[d]}
      Sure   == {i \in Inodes : \A c \in saved[i] : Newest(c)}
      Unsure == {i \in Inodes : \E c \in saved[i] : Newest(c)} \ Sure
  IN {{p \in UserPath : s[p[1]][p[2]] \in Sure \union lucky} :
        s \in Outcomes, lucky \in SUBSET Unsure}

(* README: "Nothing is deleted on trust."  Whatever fails, crashes or is   *)
(* changed in between, the newest data can always be had from some path,   *)
(* in the open or in a container.  Two things are excepted: a change made  *)
(* between the comparison and the removal of the source, which may go with *)
(* it, so that only what was compared is kept; and what follows when a run *)
(* went on without the sync, or put something else in the place of the     *)
(* newest data: with -f, or what another removal had left of it.           *)
DataSurvives == ~waived => Held # {}

\* t is what s was, or has become when the user changed it.
ChangedFrom(s, t) ==
  t = s \/ (s.data \in 1 .. t.data /\ t = [s EXCEPT !.data = t.data])

\* The input's replacement is at the output and holds just what the input
\* holds, but for a change that came after the comparison: then it is the
\* version that was promised.
Replaced(r) ==
  /\ Exists(Out(r)) /\ Exists(In(r))
  /\ LET input == content[entry[In(r)]]
         output == content[entry[Out(r)]]
     IN IF IsEncrypt(r)
        THEN /\ IsContainer(output)
             /\ ReadsAs(r, Inside(output))
             /\ ChangedFrom(Inside(output), input)
             /\ Inside(output) = input \/ Newest(Inside(output))
        ELSE /\ IsContainer(input) /\ ~IsDir(input)
             /\ ChangedFrom(Inside(input), output)

\* This step takes the input away or changes what it holds.
InputGoes(r) ==
  /\ Exists(In(r))
  /\ \/ entry'[In(r)] # entry[In(r)]
     \/ content'[entry[In(r)]] # content[entry[In(r)]]

\* A step of r itself, not a crash, an edit or another run's step.
RunSteps(r) == pc'[r] # pc[r] /\ pc'[r] # "crashed"

\* What a run leaves of a source it is removing.
Remains(r) == Exists(In(r)) /\ content[entry[In(r)]].data \in {Noise, Gutted}

(* README: the container is held against the original, and "only if all    *)
(* of that matches does the source go away".  The step of a run that first *)
(* touches its input finds the replacement in place and equal to it; for   *)
(* decrypting, where the container is "replaced by what it held".          *)
InputGoesForItsReplacement ==
  [][\A r \in Runs : RunSteps(r) /\ InputGoes(r) /\ ~Remains(r)
                       => Replaced(r)]_vars

\* What -k and --no-verify promise to leave in place.
KeepsInput(r) ==
  job[r].cmd.keep \/ (IsEncrypt(r) /\ ~job[r].cmd.verify)

(* README: "-k keeps the input in place.  --no-verify skips the check, and *)
(* then keeps the input as well": no step of such a run touches it.        *)
KeptInputUntouched ==
  [][\A r \in Runs : RunSteps(r) /\ KeepsInput(r) => ~InputGoes(r)]_vars

(* Scratch: "Removes a half written file unless it was handed over on      *)
(* success."  A run that has come to its end, was not cut off by a crash   *)
(* and did not fail while moving its scratch file into place, leaves none  *)
(* behind, which may hold plaintext.                                       *)
NoLeftovers ==
  crashes = 0 =>
    \A r \in Runs : pc[r] \in {"done", "failed"} => ~Exists(Tmp(r))

(* tests/cli.rs, existing_output_is_not_overwritten_by_accident: without   *)
(* -f no file that is already there is replaced by a run's output, except  *)
(* one another program has put there since the run looked.                 *)
NothingOverwritten ==
  [][\A r \in Runs :
       RunSteps(r) /\ pc[r] = "rename" /\ ~job[r].cmd.force /\ Exists(Out(r))
         => \/ entry'[Out(r)] = entry[Out(r)]
            \/ strangers > 0 /\ entry[Out(r)] = StrayInode]_vars

(* An output appears under its own name only when it is complete, so that  *)
(* no reader of that name ever finds half a file, after a crash either.    *)
NamesShowWholeFiles ==
  \A p \in UserPath : Exists(p) => content[entry[p]].data # Partial

(* README: "If the check finds anything at all, the container is           *)
(* discarded".  After a read-back that has found the source different from *)
(* the container, the output no longer leads to the container of this run. *)
FailedCheckDiscards ==
  [][\A r \in Runs :
       /\ pc[r] = "verify" /\ pc'[r] = "failed"
       /\ Exists(In(r)) /\ Exists(Out(r)) /\ ~ReadsBack(r)
       => entry'[Out(r)] # r]_vars

(* No run hangs: it succeeds, fails, or goes down with the machine,        *)
(* whatever other runs and programs have done to its files.                *)
RunsEnd == \A r \in Runs : Active(r) ~> ~Active(r)

(* The runs implement module Replacement: each step copies the data to a   *)
(* path, settles what a crash may leave, gives up a path when a crash      *)
(* cannot leave the data nowhere, or does nothing to it, as long as        *)
(* something is promised at all.                                           *)
AbstractView == INSTANCE Replacement WITH
  Place <- UserPath, held <- Held, after <- After, waived <- waived

ImplementsReplacement == AbstractView!Spec

=============================================================================
