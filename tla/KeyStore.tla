------------------------------ MODULE KeyStore ------------------------------
(***************************************************************************)
(* The key store: a directory with NAME.pub and NAME.key for each key      *)
(* pair.  keys::save writes the two files one after the other; encrypting  *)
(* reads a .pub, decrypting looks the .key up through the fingerprint a    *)
(* container carries.  Several invocations may be at it at once, writing   *)
(* may fail half way, the machine may go down, and a file in the working   *)
(* directory may bear the name of a key.                                   *)
(*                                                                         *)
(* Abstractions.  A key pair is the keygen run that generated it, and so   *)
(* is its fingerprint.  A file is absent, damaged (empty, cut short) or    *)
(* the half of a pair that was written to it.  Algorithms are told apart   *)
(* only where it matters which private keys have the length of a public    *)
(* one.  A container is the fingerprint of the key it was sealed for.      *)
(***************************************************************************)
EXTENDS Integers, FiniteSets

CONSTANTS
  Names,            \* key names
  Gens,             \* bound: the runs of keygen
  X25519,           \* those that generate an X25519 pair
  Protected,        \* those whose private key gets a passphrase
  MaxCrashes,       \* bound: crashes
  MaxFiles          \* bound: files in the working directory

\* What a key file holds when it does not hold a key.
Absent  == -1
Damaged == -2

\* The fingerprint of a public key that belongs to no pair.
NoPair == -3

ASSUME KeyStoreAssumption ==
  /\ Absent \notin Gens /\ Damaged \notin Gens /\ NoPair \notin Gens
  /\ MaxCrashes \in Nat

VARIABLES
  pub,         \* NAME.pub
  key,         \* NAME.key
  pc,          \* where each keygen is
  nameOf,      \* the name it was given
  unsettled,   \* the names whose .pub may be lost or damaged in a crash
  unsynced,    \* those whose .key holds what is not on disk yet
  unnamed,     \* those whose .key may not have its directory entry on disk
  here,        \* the names that a file in the working directory bears
  containers,  \* history: the fingerprints things were encrypted for so far
  overlapped,  \* history: the names that two keygens were at at once
  mishap,      \* history: something went wrong that containers may not survive
  lost,        \* history: the pairs whose .key has gone in a crash
  crashes

disk == <<unsettled, unsynced, unnamed>>
files == <<pub, key, disk>>
history == <<containers, overlapped, mishap, lost>>
vars == <<files, pc, nameOf, here, history, crashes>>

Files == Gens \union {Absent, Damaged}
Whole(f) == f \in Gens
Active(g) ==
  pc[g] \in {"checked", "pubOpen", "pubWritten", "keyOpen", "keyWritten"}
Quiet == \A g \in Gens : ~Active(g)

Go(g, step) == pc' = [pc EXCEPT ![g] = step]

Init ==
  /\ pub = [n \in Names |-> Absent]
  /\ key = [n \in Names |-> Absent]
  /\ pc = [g \in Gens |-> "idle"]
  /\ nameOf \in [Gens -> Names]
  /\ unsettled = {} /\ unsynced = {} /\ unnamed = {}
  /\ here = {}
  /\ containers = {} /\ overlapped = {} /\ mishap = FALSE /\ lost = {}
  /\ crashes = 0

-----------------------------------------------------------------------------
(* keygen *)

\* Mutant: a name that is taken is not noticed.
NameAlwaysFree(n) == TRUE

\* save: neither file exists.
NameIsFree(n) == pub[n] = Absent /\ key[n] = Absent

\* The key pair is generated; save finds the name free.
Check(g) ==
  /\ pc[g] = "idle"
  /\ NameIsFree(nameOf[g])
  /\ Go(g, "checked")
  /\ LET others == {h \in Gens : Active(h) /\ nameOf[h] = nameOf[g]}
     IN /\ overlapped' = IF others = {} THEN overlapped
                         ELSE overlapped \union {nameOf[g]}
        /\ mishap' = (mishap \/ others # {})
  /\ UNCHANGED <<files, nameOf, here, containers, lost, crashes>>

\* save: a key with that name already exists.
NameTaken(g) ==
  /\ pc[g] = "idle"
  /\ ~NameIsFree(nameOf[g])
  /\ Go(g, "failed")
  /\ UNCHANGED <<files, nameOf, here, history, crashes>>

\* fs::write creates the .pub or empties the one that is there by now.
OpenPub(g) ==
  /\ pc[g] = "checked"
  /\ pub' = [pub EXCEPT ![nameOf[g]] = Damaged]
  /\ unsettled' = unsettled \union {nameOf[g]}
  /\ Go(g, "pubOpen")
  /\ UNCHANGED <<key, unsynced, unnamed, nameOf, here, history, crashes>>

WritePub(g) ==
  /\ pc[g] = "pubOpen"
  /\ pub' = [pub EXCEPT ![nameOf[g]] = g]
  /\ Go(g, "pubWritten")
  /\ UNCHANGED <<key, disk, nameOf, here, history, crashes>>

\* Mutant: the private key is written over whatever is there.
OverwriteKey(g) ==
  /\ pc[g] = "pubWritten"
  /\ key' = [key EXCEPT ![nameOf[g]] = Damaged]
  /\ unnamed' = unnamed \union {nameOf[g]}
  /\ Go(g, "keyOpen")
  /\ UNCHANGED <<pub, unsettled, unsynced, nameOf, here, history, crashes>>

\* create_new.  Nothing syncs the directory the file is created in.
OpenKey(g) ==
  /\ pc[g] = "pubWritten"
  /\ key[nameOf[g]] = Absent
  /\ key' = [key EXCEPT ![nameOf[g]] = Damaged]
  /\ unnamed' = unnamed \union {nameOf[g]}
  /\ Go(g, "keyOpen")
  /\ UNCHANGED <<pub, unsettled, unsynced, nameOf, here, history, crashes>>

\* Mutant: create_new is tried until the name is free.
WaitForKey(g) ==
  /\ pc[g] = "pubWritten"
  /\ key[nameOf[g]] # Absent
  /\ UNCHANGED vars

\* create_new fails, and the .pub stays as this run wrote it.
KeyTaken(g) ==
  /\ pc[g] = "pubWritten"
  /\ key[nameOf[g]] # Absent
  /\ Go(g, "failed")
  /\ UNCHANGED <<files, nameOf, here, history, crashes>>

\* write_all
WriteKey(g) ==
  /\ pc[g] = "keyOpen"
  /\ key' = [key EXCEPT ![nameOf[g]] = g]
  /\ unsynced' = unsynced \union {nameOf[g]}
  /\ Go(g, "keyWritten")
  /\ UNCHANGED <<pub, unsettled, unnamed, nameOf, here, history, crashes>>

\* Mutant: success is reported without a sync.
ReportKey(g) ==
  /\ pc[g] = "keyWritten"
  /\ Go(g, "done")
  /\ UNCHANGED <<files, nameOf, here, history, crashes>>

\* sync_all, of the file and not of its directory; success is reported.
SyncKey(g) ==
  /\ pc[g] = "keyWritten"
  /\ unsynced' = unsynced \ {nameOf[g]}
  /\ Go(g, "done")
  /\ UNCHANGED <<pub, key, unsettled, unnamed, nameOf, here, history, crashes>>

\* Nothing is cleaned up.
WriteFails(g) ==
  /\ Active(g)
  /\ Go(g, "failed")
  /\ mishap' = TRUE
  /\ UNCHANGED <<files, nameOf, here, containers, overlapped, lost, crashes>>

-----------------------------------------------------------------------------
(* Encrypting for a key, and finding it again *)

\* The history of containers ends with the first mishap.
Sealed(fp) ==
  containers' = IF mishap THEN containers ELSE containers \union {fp}

\* load_public, of a name picked from the list or given with --key.  resolve
\* takes a file in the working directory first, which is no key file.
EncryptFor(n) ==
  /\ n \notin here
  /\ Whole(pub[n])
  /\ Sealed(pub[n])
  /\ UNCHANGED <<files, pc, nameOf, here, overlapped, mishap, lost, crashes>>

\* load_public, of the path of a .key file.  Armor::parse does not look at
\* the kind of key it reads, and the 32 bytes of an unprotected X25519 secret
\* pass for a public key.
EncryptForKeyFile(n) ==
  /\ key[n] \in X25519 \ Protected
  /\ Sealed(NoPair)
  /\ mishap' = TRUE
  /\ UNCHANGED <<files, pc, nameOf, here, overlapped, lost, crashes>>

\* list reads every .pub, and the .key next to it; one that does not parse
\* ends it.
ListFails ==
  \E n \in Names : \/ pub[n] = Damaged
                   \/ pub[n] # Absent /\ key[n] = Damaged

\* Mutant: any key that has a private half will do.
FindAny(fp) ==
  IF ListFails THEN {} ELSE {n \in Names : key[n] # Absent}

FindByFingerprint(fp) ==
  IF ListFails THEN {}
  ELSE {n \in Names : pub[n] = fp /\ key[n] # Absent}

\* obtain_dek without --key: of the key found resolve makes a file, and that
\* has to be the container's private key.
Opens(fp) ==
  LET found == FindByFingerprint(fp)
  IN found # {} /\ \A n \in found : n \notin here /\ key[n] = fp

-----------------------------------------------------------------------------
(* The disk *)

\* The system writes back what was written.
Settle ==
  /\ unsettled \union unsynced \union unnamed # {}
  /\ unsettled' = {} /\ unsynced' = {} /\ unnamed' = {}
  /\ UNCHANGED <<pub, key, pc, nameOf, here, history, crashes>>

\* What a crash may leave of a file f of name n.
Left(f, n, notWritten, notNamed) ==
  {f} \union (IF n \in notWritten /\ f # Absent THEN {Damaged} ELSE {})
      \union (IF n \in notNamed THEN {Absent} ELSE {})

\* A .pub is never synced.  A .key is, but the directory it is in is not: its
\* name may go, after success has been reported too.
Crash ==
  /\ crashes < MaxCrashes
  /\ crashes' = crashes + 1
  /\ pub' \in [Names -> Files]
  /\ \A n \in Names : pub'[n] \in Left(pub[n], n, unsettled, unsettled)
  /\ key' \in [Names -> Files]
  /\ \A n \in Names : key'[n] \in Left(key[n], n, unsynced, unnamed)
  /\ lost' = lost \union {g \in Gens : /\ key[nameOf[g]] = g
                                      /\ key'[nameOf[g]] = Absent}
  /\ pc' = [g \in Gens |-> IF Active(g) THEN "crashed" ELSE pc[g]]
  /\ unsettled' = {} /\ unsynced' = {} /\ unnamed' = {}
  /\ mishap' = TRUE
  /\ UNCHANGED <<nameOf, here, containers, overlapped>>

\* The user makes a file that is no key, and calls it like one.
MakeFile(n) ==
  /\ Cardinality(here \union {n}) <= MaxFiles
  /\ here' = here \union {n}
  /\ UNCHANGED <<files, pc, nameOf, history, crashes>>

-----------------------------------------------------------------------------

KeygenStep(g) ==
  \/ Check(g) \/ NameTaken(g) \/ OpenPub(g) \/ WritePub(g)
  \/ OpenKey(g) \/ KeyTaken(g) \/ WriteKey(g) \/ SyncKey(g)

Keygen(g) == KeygenStep(g) \/ WriteFails(g)

Next ==
  \/ \E g \in Gens : Keygen(g)
  \/ \E n \in Names : EncryptFor(n) \/ EncryptForKeyFile(n) \/ MakeFile(n)
  \/ Settle
  \/ Crash

\* A keygen under way goes on by itself; a write may fail, but need not.
Fairness == \A g \in Gens : WF_vars(Active(g) /\ KeygenStep(g))

Spec == Init /\ [][Next]_vars /\ Fairness

-----------------------------------------------------------------------------
(* Properties *)

TypeOK ==
  /\ pub \in [Names -> Files]
  /\ key \in [Names -> Files]
  /\ pc \in [Gens -> {"idle", "checked", "pubOpen", "pubWritten", "keyOpen",
                      "keyWritten", "done", "failed", "crashed"}]
  /\ nameOf \in [Gens -> Names]
  /\ unsettled \subseteq Names
  /\ unsynced \subseteq Names
  /\ unnamed \subseteq Names
  /\ here \subseteq Names
  /\ overlapped \subseteq Names
  /\ mishap \in BOOLEAN
  /\ lost \subseteq Gens
  /\ containers \subseteq Gens \union {NoPair}
  /\ crashes \in 0 .. MaxCrashes

(* The two files of a name are halves of one pair, so that NAME.key opens  *)
(* what is encrypted for NAME.pub, whatever failed or was cut off, unless  *)
(* two keygens were at the name at once.                                   *)
PairsMatch ==
  \A n \in Names \ overlapped :
    Whole(pub[n]) /\ Whole(key[n]) => pub[n] = key[n]

(* README: "when decrypting, the matching private key is looked up by the  *)
(* fingerprint stored in the container."  While no keygen is under way,    *)
(* and nothing has gone wrong before, the lookup finds the key of all that *)
(* was ever encrypted with the store, unless a file in the working         *)
(* directory bears its name.                                               *)
ContainersOpen ==
  Quiet /\ ~mishap =>
    \A c \in containers : nameOf[c] \notin here => Opens(c)

(* However keygens overlap and fail: none of them, and nobody else,        *)
(* overwrites, empties or removes a private key that is in the store, since *)
(* what was encrypted for it would be lost.  Only a crash may take one.    *)
PrivateKeysKept ==
  [][crashes' = crashes =>
       \A n \in Names : Whole(key[n]) => key'[n] = key[n]]_vars

(* A keygen that reported success has its private key in the store: no     *)
(* other keygen for the name and no crash replaces or damages it.  A crash *)
(* may take the file out of the directory, which save has not synced, and  *)
(* does it before the directory gets to the disk or never (`lost`).        *)
SuccessMeansStored ==
  \A g \in Gens : pc[g] = "done" => g \in lost \/ key[nameOf[g]] = g

(* A keygen ends, also when another one has taken its name meanwhile.      *)
KeygensEnd == \A g \in Gens : Active(g) ~> ~Active(g)

-----------------------------------------------------------------------------
(* Inductive invariants *)

(* Under any circumstances: a private key that is being written is a file  *)
(* of one keygen's own, first damaged, then whole, and what the .key of a  *)
(* keygen that has reported success holds is in place and on disk.         *)
KeyInv ==
  /\ TypeOK
  /\ \A g \in Gens : pc[g] = "keyOpen" => key[nameOf[g]] = Damaged
  /\ \A g \in Gens : pc[g] = "keyWritten" => key[nameOf[g]] = g
  /\ \A g, h \in Gens :
       /\ pc[g] = "keyOpen" /\ pc[h] = "keyOpen" /\ nameOf[g] = nameOf[h]
       => g = h
  /\ \A g \in Gens :
       pc[g] = "done" /\ g \notin lost => nameOf[g] \notin unsynced
  /\ SuccessMeansStored

\* The state of a name's two files while keygen g works on it.
FilesOf(g) ==
  CASE pc[g] = "checked"    -> <<Absent, Absent>>
    [] pc[g] = "pubOpen"    -> <<Damaged, Absent>>
    [] pc[g] = "pubWritten" -> <<g, Absent>>
    [] pc[g] = "keyOpen"    -> <<g, Damaged>>
    [] OTHER                -> <<g, g>>

Working(g) == Active(g) \/ pc[g] = "done"

(* A keygen that has had its name for itself so far finds there the files  *)
(* it has written itself.                                                  *)
PairInv ==
  /\ \A g \in Gens :
       Active(g) /\ nameOf[g] \notin overlapped =>
         <<pub[nameOf[g]], key[nameOf[g]]>> = FilesOf(g)
  /\ \A g, h \in Gens :
       /\ Active(g) /\ Active(h) /\ nameOf[g] = nameOf[h]
       /\ nameOf[g] \notin overlapped
       => g = h
  /\ PairsMatch

(* Without a mishap each name's files are those of the one keygen that     *)
(* works or has worked on it, or there are none; and every container was   *)
(* sealed for such a keygen's public key.                                  *)
OrderlyInv ==
  ~mishap =>
    /\ overlapped = {}
    /\ \A g \in Gens :
         Working(g) => <<pub[nameOf[g]], key[nameOf[g]]>> = FilesOf(g)
    /\ \A g, h \in Gens :
         Working(g) /\ Working(h) /\ nameOf[g] = nameOf[h] => g = h
    /\ \A n \in Names :
         \/ pub[n] = Absent /\ key[n] = Absent
         \/ \E g \in Gens : Working(g) /\ nameOf[g] = n
    /\ \A c \in containers :
         /\ c \in Gens
         /\ pc[c] \in {"pubWritten", "keyOpen", "keyWritten", "done"}

=============================================================================
