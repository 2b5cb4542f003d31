--------------------------- MODULE KeyStoreProofs ---------------------------
(***************************************************************************)
(* Proofs about the key store, for any names and any number of keygens:    *)
(* private keys are kept whatever overlaps or fails, and a stored one is   *)
(* at worst gone from its directory after a crash; the two files of a name *)
(* belong together unless two keygens were at it at once; and while        *)
(* nothing has gone wrong every container opens again.                     *)
(***************************************************************************)
EXTENDS KeyStore, TLAPS

-----------------------------------------------------------------------------
(* Types *)

(* The two marks are not keys, and are told apart.                         *)
LEMMA Marks ==
  /\ Absent # Damaged
  /\ \A g \in Gens : g # Absent /\ g # Damaged /\ g # NoPair
BY KeyStoreAssumption DEF Absent, Damaged, NoPair

(* Every step of every keygen, and what happens around them, keeps types.  *)
LEMMA StepType ==
  ASSUME TypeOK, [Next]_vars
  PROVE  TypeOK'
<1> USE DEF TypeOK
<1>1. ASSUME NEW g \in Gens, Keygen(g)
      PROVE  TypeOK'
  <2>1. CASE Check(g)
    BY <2>1 DEF Check, Go, files, disk
  <2>2. CASE NameTaken(g)
    BY <2>2 DEF NameTaken, Go, files, disk, history
  <2>3. CASE OpenPub(g)
    BY <2>3 DEF OpenPub, Go, Files, history
  <2>4. CASE WritePub(g)
    BY <2>4 DEF WritePub, Go, Files, disk, history
  <2>5. CASE OpenKey(g)
    BY <2>5 DEF OpenKey, Go, Files, history
  <2>6. CASE KeyTaken(g)
    BY <2>6 DEF KeyTaken, Go, files, disk, history
  <2>7. CASE WriteKey(g)
    BY <2>7 DEF WriteKey, Go, Files, history
  <2>8. CASE SyncKey(g)
    BY <2>8 DEF SyncKey, Go, history
  <2>9. CASE WriteFails(g)
    BY <2>9 DEF WriteFails, Go, files, disk
  <2> QED
    BY <1>1, <2>1, <2>2, <2>3, <2>4, <2>5, <2>6, <2>7, <2>8, <2>9
       DEF Keygen, KeygenStep
<1>2. ASSUME NEW n \in Names, EncryptFor(n)
      PROVE  TypeOK'
  BY <1>2 DEF EncryptFor, Sealed, Whole, files, disk
<1>3. ASSUME NEW n \in Names, EncryptForKeyFile(n)
      PROVE  TypeOK'
  BY <1>3 DEF EncryptForKeyFile, Sealed, files, disk
<1>4. CASE Settle
  BY <1>4 DEF Settle, history
<1>5. CASE Crash
  <2>1. crashes' \in 0 .. MaxCrashes
    BY <1>5, KeyStoreAssumption DEF Crash
  <2> QED
    BY <1>5, <2>1 DEF Crash
<1>6. ASSUME NEW n \in Names, MakeFile(n)
      PROVE  TypeOK'
  BY <1>6 DEF MakeFile, files, disk, history
<1>7. CASE UNCHANGED vars
  BY <1>7 DEF vars, files, disk, history
<1> QED
  BY <1>1, <1>2, <1>3, <1>4, <1>5, <1>6, <1>7 DEF Next

(* The types hold in the beginning.                                        *)
LEMMA InitType == Init => TypeOK
<1> SUFFICES ASSUME Init
             PROVE  TypeOK
  OBVIOUS
<1>1. crashes \in 0 .. MaxCrashes
  BY KeyStoreAssumption DEF Init
<1>2. /\ pub \in [Names -> Files]
      /\ key \in [Names -> Files]
  BY DEF Init, Files
<1>3. pc \in [Gens -> {"idle", "checked", "pubOpen", "pubWritten", "keyOpen",
                      "keyWritten", "done", "failed", "crashed"}]
  BY DEF Init
<1> QED
  BY <1>1, <1>2, <1>3 DEF Init, TypeOK

-----------------------------------------------------------------------------
(* Private keys, whatever happens *)

\* What KeyInv says beyond types.
KeyParts ==
  /\ \A g \in Gens : pc[g] = "keyOpen" => key[nameOf[g]] = Damaged
  /\ \A g \in Gens : pc[g] = "keyWritten" => key[nameOf[g]] = g
  /\ \A g, h \in Gens :
       pc[g] = "keyOpen" /\ pc[h] = "keyOpen" /\ nameOf[g] = nameOf[h] => g = h
  /\ \A g \in Gens :
       pc[g] = "done" /\ g \notin lost => nameOf[g] \notin unsynced
  /\ \A g \in Gens : pc[g] = "done" => g \in lost \/ key[nameOf[g]] = g

(* No step breaks the invariant on the private keys.                       *)
LEMMA KeyInvStep ==
  ASSUME KeyInv, [Next]_vars
  PROVE  KeyInv'
<1>0. TypeOK /\ TypeOK'
  BY StepType DEF KeyInv
<1> USE <1>0 DEF TypeOK
<1>a. ASSUME KeyParts'
      PROVE  KeyInv'
  BY <1>a DEF KeyInv, KeyParts, SuccessMeansStored
<1>b. KeyParts
  BY DEF KeyInv, KeyParts, SuccessMeansStored
\* Steps that leave the keys alone and let nobody open, write or finish one.
<1>c. ASSUME key' = key, nameOf' = nameOf, unsynced' \subseteq unsynced,
             lost' = lost,
             \A g \in Gens : \/ pc'[g] = pc[g]
                            \/ pc'[g] \notin {"keyOpen", "keyWritten", "done"}
      PROVE  KeyInv'
  BY <1>a, <1>b, <1>c DEF KeyParts
<1>1. ASSUME NEW g \in Gens, Keygen(g)
      PROVE  KeyInv'
  <2>1. CASE Check(g)
    BY <2>1, <1>c DEF Check, Go, files, disk
  <2>2. CASE NameTaken(g)
    BY <2>2, <1>c DEF NameTaken, Go, files, disk, history
  <2>3. CASE OpenPub(g)
    BY <2>3, <1>c DEF OpenPub, Go, history
  <2>4. CASE WritePub(g)
    BY <2>4, <1>c DEF WritePub, Go, disk, history
  <2>5. CASE OpenKey(g)
    BY <2>5, <1>a, <1>b, Marks DEF OpenKey, Go, history, KeyParts
  <2>6. CASE KeyTaken(g)
    BY <2>6, <1>c DEF KeyTaken, Go, files, disk, history
  <2>7. CASE WriteKey(g)
    BY <2>7, <1>a, <1>b, Marks DEF WriteKey, Go, history, KeyParts
  <2>8. CASE SyncKey(g)
    BY <2>8, <1>a, <1>b DEF SyncKey, Go, history, KeyParts
  <2>9. CASE WriteFails(g)
    BY <2>9, <1>c DEF WriteFails, Go, files, disk
  <2> QED
    BY <1>1, <2>1, <2>2, <2>3, <2>4, <2>5, <2>6, <2>7, <2>8, <2>9
       DEF Keygen, KeygenStep
<1>2. ASSUME NEW n \in Names,
             EncryptFor(n) \/ EncryptForKeyFile(n) \/ MakeFile(n)
      PROVE  KeyInv'
  BY <1>2, <1>c
     DEF EncryptFor, EncryptForKeyFile, MakeFile, files, disk, history
<1>3. CASE Settle
  BY <1>3, <1>c DEF Settle, history
<1>4. CASE Crash
  <2>1. /\ nameOf' = nameOf /\ unsynced' = {}
        /\ \A g \in Gens : pc'[g] \notin {"keyOpen", "keyWritten"}
        /\ \A g \in Gens : pc'[g] = "done" => pc[g] = "done"
    BY <1>4 DEF Crash, Active
  <2>2. ASSUME NEW g \in Gens, pc'[g] = "done"
        PROVE  g \in lost' \/ key'[nameOf'[g]] = g
    <3>1. CASE g \in lost
      BY <1>4, <3>1 DEF Crash
    <3>2. CASE g \notin lost
      <4>1. key[nameOf[g]] = g /\ nameOf[g] \notin unsynced
        BY <1>b, <2>1, <2>2, <3>2 DEF KeyParts
      <4>2. key'[nameOf[g]] \in {g, Absent}
        BY <1>4, <4>1 DEF Crash, Left
      <4> QED
        BY <1>4, <2>1, <4>1, <4>2 DEF Crash
    <3> QED
      BY <3>1, <3>2
  <2> QED
    BY <1>a, <2>1, <2>2 DEF KeyParts
<1>5. CASE UNCHANGED vars
  BY <1>5, <1>c DEF vars, files, disk, history
<1> QED
  BY <1>1, <1>2, <1>3, <1>4, <1>5 DEF Next

(* The invariant on the private keys always holds.                         *)
THEOREM KeyInvariant == Spec => []KeyInv
<1>1. Init => KeyInv
  BY InitType DEF Init, KeyInv, SuccessMeansStored
<1>2. KeyInv /\ [Next]_vars => KeyInv'
  BY KeyInvStep
<1> QED
  BY <1>1, <1>2, PTL DEF Spec

(* Every variable of the key store has its type.                           *)
THEOREM TypeCorrect == Spec => []TypeOK
<1>1. KeyInv => TypeOK
  BY DEF KeyInv
<1> QED
  BY <1>1, KeyInvariant, PTL

(* Where keys::save has reported success its private key is in the store,  *)
(* whatever other keygens for the name and crashes do afterwards, unless a *)
(* crash has taken the file out of its directory, which save never synced. *)
THEOREM StoredOnSuccess == Spec => []SuccessMeansStored
<1>1. KeyInv => SuccessMeansStored
  BY DEF KeyInv
<1> QED
  BY <1>1, KeyInvariant, PTL

(* create_new is enough: however keygens overlap and fail, no step of      *)
(* theirs overwrites, empties or removes a whole private key, and nothing  *)
(* else does but a crash.                                                  *)
THEOREM PrivateKeysAreKept == Spec => PrivateKeysKept
<1>1. ASSUME KeyInv, [Next]_vars, crashes' = crashes,
             NEW n \in Names, Whole(key[n])
      PROVE  key'[n] = key[n]
  <2> USE DEF TypeOK, KeyInv
  <2>0. key[n] # Absent /\ key[n] # Damaged
    BY <1>1, Marks DEF Whole
  <2>1. ASSUME NEW g \in Gens, OpenKey(g)
        PROVE  key'[n] = key[n]
    BY <1>1, <2>0, <2>1 DEF OpenKey
  <2>2. ASSUME NEW g \in Gens, WriteKey(g)
        PROVE  key'[n] = key[n]
    BY <1>1, <2>0, <2>2 DEF WriteKey
  <2>3. ASSUME NEW g \in Gens, Keygen(g), ~OpenKey(g), ~WriteKey(g)
        PROVE  key'[n] = key[n]
    BY <2>3 DEF Keygen, KeygenStep, Check, NameTaken, OpenPub, WritePub, KeyTaken,
                SyncKey, WriteFails, files
  <2>4. ASSUME NEW m \in Names,
               EncryptFor(m) \/ EncryptForKeyFile(m) \/ MakeFile(m)
        PROVE  key'[n] = key[n]
    BY <2>4 DEF EncryptFor, EncryptForKeyFile, MakeFile, files
  <2>5. CASE Settle
    BY <2>5 DEF Settle
  <2>6. ~Crash
    BY <1>1 DEF Crash
  <2>7. CASE UNCHANGED vars
    BY <2>7 DEF vars, files
  <2> QED
    BY <1>1, <2>1, <2>2, <2>3, <2>4, <2>5, <2>6, <2>7 DEF Next
<1>2. KeyInv /\ [Next]_vars
        => [crashes' = crashes =>
              \A n \in Names : Whole(key[n]) => key'[n] = key[n]]_vars
  BY <1>1
<1> QED
  BY <1>2, KeyInvariant, PTL DEF Spec, PrivateKeysKept

-----------------------------------------------------------------------------
(* The two files of a name *)

PubOf(g) == FilesOf(g)[1]
KeyOf(g) == FilesOf(g)[2]

(* The files of a name, by the step its keygen is at.                      *)
LEMMA FilesByStep ==
  ASSUME NEW g
  PROVE  /\ FilesOf(g) = <<PubOf(g), KeyOf(g)>>
         /\ pc[g] = "checked" => PubOf(g) = Absent /\ KeyOf(g) = Absent
         /\ pc[g] = "pubOpen" => PubOf(g) = Damaged /\ KeyOf(g) = Absent
         /\ pc[g] = "pubWritten" => PubOf(g) = g /\ KeyOf(g) = Absent
         /\ pc[g] = "keyOpen" => PubOf(g) = g /\ KeyOf(g) = Damaged
         /\ pc[g] = "keyWritten" => PubOf(g) = g /\ KeyOf(g) = g
         /\ pc[g] = "done" => PubOf(g) = g /\ KeyOf(g) = g
BY DEF FilesOf, PubOf, KeyOf

\* The two files of g's name are as g has written them.
InPlace(g) == pub[nameOf[g]] = PubOf(g) /\ key[nameOf[g]] = KeyOf(g)

\* PairInv with the two files apart, in the form the steps are proved in.
PairParts ==
  /\ \A g \in Gens : Active(g) /\ nameOf[g] \notin overlapped => InPlace(g)
  /\ \A g, h \in Gens :
       /\ Active(g) /\ Active(h) /\ nameOf[g] = nameOf[h]
       /\ nameOf[g] \notin overlapped
       => g = h
  /\ PairsMatch

(* The invariant about pairs in parts.                                     *)
LEMMA PairApart == PairInv <=> PairParts
BY FilesByStep DEF PairInv, PairParts, InPlace

(* One keygen goes on; the names of the others stay as they are.           *)
LEMMA PairKeygen ==
  ASSUME TypeOK, PairParts, NEW g \in Gens, Keygen(g)
  PROVE  PairParts'
<1> USE Marks DEF TypeOK
<1>1. CASE Check(g)
  <2> DEFINE alone == \A h \in Gens : ~(Active(h) /\ nameOf[h] = nameOf[g])
  <2>1. CASE alone
    <3>1. overlapped' = overlapped
      BY <1>1, <2>1 DEF Check
    <3> QED
      BY <1>1, <2>1, <3>1
         DEF Check, NameIsFree, Go, files, PairParts, PairsMatch, InPlace,
             Active, Whole, PubOf, KeyOf, FilesOf
  <2>2. CASE ~alone
    <3>1. overlapped' = overlapped \union {nameOf[g]}
      BY <1>1, <2>2 DEF Check
    <3> QED
      BY <1>1, <2>2, <3>1
         DEF Check, Go, files, PairParts, PairsMatch, InPlace, Active, Whole,
             PubOf, KeyOf, FilesOf
  <2> QED
    BY <2>1, <2>2
<1>2. CASE NameTaken(g)
  BY <1>2 DEF NameTaken, Go, files, history, PairParts, PairsMatch, InPlace,
              Active, Whole, PubOf, KeyOf, FilesOf
<1>3. CASE OpenPub(g)
  BY <1>3 DEF OpenPub, Go, history, PairParts, PairsMatch, InPlace, Active, Whole,
              PubOf, KeyOf, FilesOf
<1>4. CASE WritePub(g)
  BY <1>4 DEF WritePub, Go, history, PairParts, PairsMatch, InPlace, Active, Whole,
              PubOf, KeyOf, FilesOf
<1>5. CASE OpenKey(g)
  BY <1>5 DEF OpenKey, Go, history, PairParts, PairsMatch, InPlace, Active, Whole,
              PubOf, KeyOf, FilesOf
<1>6. CASE KeyTaken(g)
  BY <1>6 DEF KeyTaken, Go, files, history, PairParts, PairsMatch, InPlace,
              Active, Whole, PubOf, KeyOf, FilesOf
<1>7. CASE WriteKey(g)
  BY <1>7 DEF WriteKey, Go, history, PairParts, PairsMatch, InPlace, Active, Whole,
              PubOf, KeyOf, FilesOf
<1>8. CASE SyncKey(g)
  BY <1>8 DEF SyncKey, Go, history, PairParts, PairsMatch, InPlace, Active, Whole,
              PubOf, KeyOf, FilesOf
<1>9. CASE WriteFails(g)
  BY <1>9 DEF WriteFails, Go, files, PairParts, PairsMatch, InPlace, Active, Whole,
              PubOf, KeyOf, FilesOf
<1> QED
  BY <1>1, <1>2, <1>3, <1>4, <1>5, <1>6, <1>7, <1>8, <1>9 DEF Keygen, KeygenStep

(* What happens around the keygens touches whole files only in a crash,    *)
(* which makes them damaged or takes them away.                            *)
LEMMA PairStep ==
  ASSUME TypeOK, PairParts, [Next]_vars
  PROVE  PairParts'
<1> USE DEF TypeOK
<1>1. ASSUME NEW g \in Gens, Keygen(g)
      PROVE  PairParts'
  BY <1>1, PairKeygen
<1>2. ASSUME pub' = pub, key' = key, pc' = pc, nameOf' = nameOf,
             overlapped' = overlapped
      PROVE  PairParts'
  BY <1>2 DEF PairParts, PairsMatch, InPlace, Active, Whole, PubOf, KeyOf, FilesOf
<1>3. ASSUME NEW n \in Names,
             EncryptFor(n) \/ EncryptForKeyFile(n) \/ MakeFile(n)
      PROVE  PairParts'
  BY <1>2, <1>3 DEF EncryptFor, EncryptForKeyFile, MakeFile, files, history
<1>4. CASE Settle
  BY <1>2, <1>4 DEF Settle, history
<1>5. CASE Crash
  <2>1. /\ \A g \in Gens : ~Active(g)'
        /\ overlapped' = overlapped
    BY <1>5 DEF Crash, Active
  <2>2. \A n \in Names : /\ pub'[n] \in {pub[n], Damaged, Absent}
                         /\ key'[n] \in {key[n], Damaged, Absent}
    BY <1>5 DEF Crash, Left
  <2> QED
    BY <2>1, <2>2, Marks DEF PairParts, PairsMatch, Whole
<1>6. CASE UNCHANGED vars
  BY <1>2, <1>6 DEF vars, files, history
<1> QED
  BY <1>1, <1>3, <1>4, <1>5, <1>6 DEF Next

(* The invariant on the pairs, whatever fails or crashes.                  *)
THEOREM PairInvariant == Spec => [](TypeOK /\ PairInv)
<1>1. Init => TypeOK /\ PairInv
  BY InitType, Marks DEF Init, PairInv, PairsMatch, Active, Whole
<1>2. TypeOK /\ PairInv /\ [Next]_vars => (TypeOK /\ PairInv)'
  <2> SUFFICES ASSUME TypeOK, PairInv, [Next]_vars
               PROVE  TypeOK' /\ PairInv'
    OBVIOUS
  <2>1. TypeOK' /\ PairParts'
    BY StepType, PairStep, PairApart
  <2>2. \A g \in Gens : FilesOf(g)' = <<PubOf(g)', KeyOf(g)'>>
    BY DEF FilesOf, PubOf, KeyOf
  <2>3. \A g \in Gens : InPlace(g)' =>
          <<pub[nameOf[g]], key[nameOf[g]]>>' = FilesOf(g)'
    BY <2>2 DEF InPlace
  <2> QED
    BY <2>1, <2>3 DEF PairInv, PairParts
<1> QED
  BY <1>1, <1>2, PTL DEF Spec

(* NAME.pub and NAME.key are halves of one pair, after failures and        *)
(* crashes too, unless two keygens were at the name at once.               *)
THEOREM PairsAlwaysMatch == Spec => []PairsMatch
<1>1. PairInv => PairsMatch
  BY DEF PairInv
<1> QED
  BY <1>1, PairInvariant, PTL

-----------------------------------------------------------------------------
(* Containers, while nothing has gone wrong *)

\* What OrderlyInv says without a mishap, with the two files apart.
OrderlyParts ==
  /\ overlapped = {}
  /\ \A g \in Gens : Working(g) => InPlace(g)
  /\ \A g, h \in Gens :
       Working(g) /\ Working(h) /\ nameOf[g] = nameOf[h] => g = h
  /\ \A n \in Names :
       \/ pub[n] = Absent /\ key[n] = Absent
       \/ \E g \in Gens : Working(g) /\ nameOf[g] = n
  /\ \A c \in containers :
       c \in Gens /\ pc[c] \in {"pubWritten", "keyOpen", "keyWritten", "done"}

(* The invariant about orderly runs in parts.                              *)
LEMMA OrderlyApart == OrderlyInv <=> (~mishap => OrderlyParts)
BY FilesByStep DEF OrderlyInv, OrderlyParts, InPlace

(* One keygen at a time goes on, and the other names stay as they are.     *)
LEMMA OrderlyKeygen ==
  ASSUME TypeOK, OrderlyParts, NEW g \in Gens, Keygen(g), ~mishap'
  PROVE  OrderlyParts'
<1> USE Marks DEF TypeOK
<1>1. CASE Check(g)
  <2>1. \A h \in Gens : ~(Active(h) /\ nameOf[h] = nameOf[g])
    BY <1>1 DEF Check
  <2>2. overlapped' = {}
    BY <1>1, <2>1 DEF Check, OrderlyParts
  <2>3. \A h \in Gens : ~(Working(h) /\ nameOf[h] = nameOf[g])
    BY <1>1, <2>1, FilesByStep
       DEF Check, NameIsFree, OrderlyParts, Working, InPlace
  <2> QED
    BY <1>1, <2>2, <2>3
       DEF Check, NameIsFree, Go, files, OrderlyParts, Working, Active, InPlace,
           PubOf, KeyOf, FilesOf
<1>2. CASE NameTaken(g)
  BY <1>2 DEF NameTaken, Go, files, history, OrderlyParts, Working, Active,
              InPlace, PubOf, KeyOf, FilesOf
<1>3. CASE OpenPub(g)
  BY <1>3 DEF OpenPub, Go, history, OrderlyParts, Working, Active, InPlace,
              PubOf, KeyOf, FilesOf
<1>4. CASE WritePub(g)
  BY <1>4 DEF WritePub, Go, history, OrderlyParts, Working, Active, InPlace,
              PubOf, KeyOf, FilesOf
<1>5. CASE OpenKey(g)
  BY <1>5 DEF OpenKey, Go, history, OrderlyParts, Working, Active, InPlace,
              PubOf, KeyOf, FilesOf
<1>6. CASE KeyTaken(g)
  BY <1>6 DEF KeyTaken, OrderlyParts, Working, Active, InPlace, PubOf, KeyOf,
              FilesOf
<1>7. CASE WriteKey(g)
  BY <1>7 DEF WriteKey, Go, history, OrderlyParts, Working, Active, InPlace,
              PubOf, KeyOf, FilesOf
<1>8. CASE SyncKey(g)
  BY <1>8 DEF SyncKey, Go, history, OrderlyParts, Working, Active, InPlace,
              PubOf, KeyOf, FilesOf
<1>9. CASE WriteFails(g)
  BY <1>9 DEF WriteFails
<1> QED
  BY <1>1, <1>2, <1>3, <1>4, <1>5, <1>6, <1>7, <1>8, <1>9 DEF Keygen, KeygenStep

(* No step breaks the invariant of an orderly store: what would is a       *)
(* mishap, and is recorded as one for good.                                *)
LEMMA OrderlyStep ==
  ASSUME TypeOK, ~mishap => OrderlyParts, [Next]_vars, ~mishap'
  PROVE  OrderlyParts'
<1>a. OrderlyParts
  <2>1. mishap' = mishap \/ mishap'
    BY DEF Next, Keygen, KeygenStep, Check, NameTaken, OpenPub, WritePub, OpenKey,
           KeyTaken, WriteKey, SyncKey, WriteFails, EncryptFor,
           EncryptForKeyFile, MakeFile, Settle, Crash, vars, history, TypeOK
  <2> QED
    BY <2>1 DEF TypeOK
<1>1. ASSUME NEW g \in Gens, Keygen(g)
      PROVE  OrderlyParts'
  BY <1>1, <1>a, OrderlyKeygen
<1>b. ASSUME pub' = pub, key' = key, pc' = pc, nameOf' = nameOf,
             overlapped' = overlapped, containers' = containers
      PROVE  OrderlyParts'
  BY <1>a, <1>b
     DEF OrderlyParts, InPlace, Working, Active, PubOf, KeyOf, FilesOf
<1>2. ASSUME NEW n \in Names, EncryptFor(n)
      PROVE  OrderlyParts'
  <2>1. pub[n] \in Gens /\ pub[n] # Absent /\ pub[n] # Damaged
    BY <1>2, Marks DEF EncryptFor, Whole
  <2>2. PICK g \in Gens : Working(g) /\ nameOf[g] = n
    BY <1>a, <2>1 DEF OrderlyParts
  <2>3. pub[n] = g /\ pc[g] \in {"pubWritten", "keyOpen", "keyWritten", "done"}
    BY <1>a, <2>1, <2>2, FilesByStep DEF OrderlyParts, InPlace, Working, Active
  <2> QED
    BY <1>2, <1>a, <2>3
       DEF EncryptFor, Sealed, files, OrderlyParts, InPlace, Working, Active,
         PubOf, KeyOf, FilesOf
<1>3. ASSUME NEW n \in Names
      PROVE  ~EncryptForKeyFile(n)
  BY DEF EncryptForKeyFile
<1>4. ASSUME NEW n \in Names, MakeFile(n)
      PROVE  OrderlyParts'
  BY <1>4, <1>b DEF MakeFile, files, history
<1>5. CASE Settle
  BY <1>5, <1>b DEF Settle, history
<1>6. ~Crash
  BY DEF Crash
<1>7. CASE UNCHANGED vars
  BY <1>7, <1>b DEF vars, files, history
<1> QED
  BY <1>1, <1>2, <1>3, <1>4, <1>5, <1>6, <1>7 DEF Next

(* Until something goes wrong, each name belongs to one keygen.            *)
THEOREM OrderlyInvariant == Spec => [](TypeOK /\ OrderlyInv)
<1>1. Init => TypeOK /\ OrderlyInv
  BY InitType DEF Init, OrderlyInv, Working, Active
<1>2. TypeOK /\ OrderlyInv /\ [Next]_vars => (TypeOK /\ OrderlyInv)'
  <2> SUFFICES ASSUME TypeOK, OrderlyInv, [Next]_vars
               PROVE  TypeOK' /\ OrderlyInv'
    OBVIOUS
  <2>1. TypeOK' /\ (~mishap' => OrderlyParts')
    BY StepType, OrderlyStep, OrderlyApart
  <2>2. \A g \in Gens : FilesOf(g)' = <<PubOf(g)', KeyOf(g)'>>
    BY DEF FilesOf, PubOf, KeyOf
  <2>3. \A g \in Gens : InPlace(g)' =>
          <<pub[nameOf[g]], key[nameOf[g]]>>' = FilesOf(g)'
    BY <2>2 DEF InPlace
  <2> QED
    BY <2>1, <2>3 DEF OrderlyInv, OrderlyParts
<1> QED
  BY <1>1, <1>2, PTL DEF Spec

(* Until something goes wrong, all that was encrypted for a public key of  *)
(* the store is opened by the key its fingerprint leads to, unless a file  *)
(* in the working directory bears the key's name.                          *)
THEOREM ContainersAlwaysOpen == Spec => []ContainersOpen
<1>1. TypeOK /\ OrderlyInv => ContainersOpen
  <2> SUFFICES ASSUME TypeOK, OrderlyInv, Quiet, ~mishap,
                      NEW c \in containers, nameOf[c] \notin here
               PROVE  Opens(c)
    BY DEF ContainersOpen
  <2>0. OrderlyParts
    BY OrderlyApart
  <2>1. \A g \in Gens : Working(g) =>
          /\ pc[g] = "done"
          /\ pub[nameOf[g]] = g /\ key[nameOf[g]] = g
    BY <2>0, FilesByStep DEF OrderlyParts, InPlace, Working, Quiet
  <2>2. ~ListFails
    BY <2>0, <2>1, Marks DEF ListFails, OrderlyParts
  <2>3. c \in Gens /\ pc[c] = "done" /\ nameOf[c] \in Names
    BY <2>0 DEF OrderlyParts, Quiet, Active, TypeOK
  <2>4. nameOf[c] \in FindByFingerprint(c)
    BY <2>1, <2>2, <2>3, Marks DEF FindByFingerprint, Working
  <2>5. ASSUME NEW n \in FindByFingerprint(c)
        PROVE  n \notin here /\ key[n] = c
    <3>1. n \in Names /\ pub[n] = c /\ pub[n] # Absent
      BY <2>2, <2>3, <2>5, Marks DEF FindByFingerprint
    <3>2. PICK g \in Gens : Working(g) /\ nameOf[g] = n
      BY <2>0, <3>1 DEF OrderlyParts
    <3> QED
      BY <2>1, <3>1, <3>2
  <2> QED
    BY <2>4, <2>5 DEF Opens
<1> QED
  BY <1>1, OrderlyInvariant, PTL

=============================================================================
