-------------------------- MODULE ContainerProofs ---------------------------
(***************************************************************************)
(* What opens a container, for any number of containers, credentials and   *)
(* alterations.  The invariant says what the bytes in storage can be: the  *)
(* history is made of containers as encrypt writes them, and any body is   *)
(* sealed with the data key and the header of one of those.                *)
(***************************************************************************)
EXTENDS Container, TLAPS

\* The history holds what encrypt writes.
AsWritten ==
  \A d \in DOMAIN written :
    \E credential \in Credentials, cipher \in Ciphers, slip \in BOOLEAN :
      /\ Offered(credential, cipher, slip)
      /\ written[d] = [file |-> NewFile(d, credential, cipher, slip),
                       owner |-> credential, slip |-> slip]

\* A body that opens at all is one that was written.
Sealed(body) == body = {} \/ \E d \in DOMAIN written : body = written[d].file.body

BodiesSealed == \A c \in DOMAIN stored : Sealed(stored[c].body)

ContainerInv ==
  /\ DOMAIN stored = DOMAIN written
  /\ AsWritten
  /\ BodiesSealed

-----------------------------------------------------------------------------
(* The operators *)

(* A sealer gives away the data key and the header it was made of: this is *)
(* aad in every chunk.                                                     *)
LEMMA SealerBinds ==
  ASSUME NEW t, NEW u, NEW j, NEW k, SealerOf(t, j) = SealerOf(u, k)
  PROVE  t = u /\ j = k
<1>1. SealerOf(t, j).aad = t /\ SealerOf(t, j).dek = j
  BY DEF SealerOf, Aad
<1>2. SealerOf(u, k).aad = u /\ SealerOf(u, k).dek = k
  BY DEF SealerOf, Aad
<1> QED
  BY <1>1, <1>2

(* A wrapped key comes out for the key it was wrapped with.                *)
LEMMA UnwrapWrapped ==
  ASSUME NEW meta, NEW kek, NEW dek, NEW k, meta.wrapped = Wrap(kek, dek)
  PROVE  Unwrap(meta, k) = IF k = kek THEN {dek} ELSE {}
<1> DEFINE w == [kek |-> kek, dek |-> dek]
<1>1. w.kek = kek /\ w.dek = dek
  OBVIOUS
<1>2. meta.wrapped = {w}
  BY DEF Wrap
<1> HIDE DEF w
<1>3. {x \in {w} : x.kek = k} = IF k = kek THEN {w} ELSE {}
  BY <1>1
<1> QED
  BY <1>1, <1>2, <1>3 DEF Unwrap

(* The data key of a container as it was written comes out for the         *)
(* credential it was written for and for no other, and not even for that   *)
(* when its key derivation went wrong.                                     *)
LEMMA OnlyOwnerObtains ==
  ASSUME AsWritten, NEW d \in DOMAIN written, NEW other \in Credentials
  PROVE  LET meta       == written[d].file.text.meta
             credential == written[d].owner
         IN /\ ObtainDek(meta, other) # {} => other = credential
            /\ ~written[d].slip => ObtainDek(meta, credential) = {d}
<1> DEFINE meta       == written[d].file.text.meta
           credential == written[d].owner
           slip       == written[d].slip
           kek        == Kek(ModeOf(credential), d,
                             IF slip THEN Garbled ELSE credential)
<1>1. PICK owner \in Credentials, cipher \in Ciphers, b \in BOOLEAN :
        /\ Offered(owner, cipher, b)
        /\ written[d] = [file |-> NewFile(d, owner, cipher, b),
                         owner |-> owner, slip |-> b]
  BY DEF AsWritten
<1>2. /\ credential = owner
      /\ slip = b
      /\ credential \in Credentials
      /\ Offered(credential, cipher, slip)
  BY <1>1
<1>3. /\ meta.mode = ModeOf(credential)
      /\ meta.share = d
      /\ meta.wrapped = Wrap(kek, d)
      /\ credential \in Keys => meta.fingerprint = credential
  <2>1. meta = Meta(d, owner, cipher, Kek(ModeOf(owner), d,
                                          IF b THEN Garbled ELSE owner))
    <3>1. NewFile(d, owner, cipher, b).text.meta
            = Meta(d, owner, cipher, Kek(ModeOf(owner), d,
                                         IF b THEN Garbled ELSE owner))
      BY DEF NewFile
    <3>2. written[d].file = NewFile(d, owner, cipher, b)
      BY <1>1
    <3> QED
      BY <3>1, <3>2
  <2> HIDE DEF meta
  <2>2. meta = Meta(d, credential, cipher, kek)
    BY <1>2, <2>1
  <2> QED
    BY <2>2, ContainerAssumption DEF Meta
<1> HIDE DEF meta, credential, slip
<1>4. ModeOf(credential) = "password" <=> credential \in Passwords
  BY <1>2, ContainerAssumption DEF ModeOf, Algos, Credentials
<1>5. CASE credential \in Passwords
  <2>1. ObtainDek(meta, other) # {} =>
          other \in Passwords /\ kek = KekFor(other, d)
    BY <1>3, <1>4, <1>5, UnwrapWrapped DEF ObtainDek
  <2>2. other \in Passwords /\ kek = KekFor(other, d) => other = credential
    BY <1>5, ContainerAssumption DEF KekFor, Kek, ModeOf, Credentials
  <2>3. ~slip => ObtainDek(meta, credential) = {d}
    BY <1>3, <1>4, <1>5, UnwrapWrapped DEF ObtainDek, KekFor
  <2> QED
    BY <2>1, <2>2, <2>3 DEF meta, credential, slip
<1>6. CASE credential \in Keys
  <2>1. ObtainDek(meta, other) # {} => other = credential
    BY <1>3, <1>4, <1>6, ContainerAssumption DEF ObtainDek
  <2>2. ~slip => ObtainDek(meta, credential) = {d}
    BY <1>3, <1>4, <1>6, UnwrapWrapped, ContainerAssumption
       DEF ObtainDek, KekFor
  <2> QED
    BY <2>1, <2>2 DEF meta, credential, slip
<1> QED
  BY <1>2, <1>5, <1>6 DEF Credentials, meta, credential, slip

(* Every header encrypt writes passes the version gate of read_header.     *)
LEMMA NewFileReadable ==
  ASSUME NEW d, NEW credential \in Credentials, NEW slip \in BOOLEAN,
         NEW cipher \in Ciphers, Offered(credential, cipher, slip)
  PROVE  Readable(NewFile(d, credential, cipher, slip))
<1> DEFINE file == NewFile(d, credential, cipher, slip)
           meta == file.text.meta
<1>1. /\ file.preamble = "own"
      /\ file.text.spelling = "as written"
      /\ meta.version = VersionFor(cipher)
      /\ meta.cipher = cipher
      /\ meta.mode = ModeOf(credential)
      /\ meta.chunkSize = "CHUNK"
  BY DEF NewFile, Meta
<1>2. ModeOf(credential) \in Modes
  BY ContainerAssumption DEF ModeOf, Modes, Credentials
<1>3. cipher = "radix-cascade" \/ ModeOf(credential) = "radix"
        <=> VersionFor(cipher) = 2
  BY DEF ModeOf, VersionFor, Offered, CipherFor
<1>4. VersionFor(cipher) \in {1, 2}
  BY DEF VersionFor
<1> HIDE DEF file
<1> QED
  BY <1>1, <1>2, <1>3, <1>4 DEF Readable, FindsHeader, file

(* What encrypt writes is sealed with its own header and data key.         *)
LEMMA WrittenSealed ==
  ASSUME AsWritten, NEW d \in DOMAIN written
  PROVE  written[d].file.body = {SealerOf(written[d].file.text, d)}
<1>1. PICK credential \in Credentials, cipher \in Ciphers, slip \in BOOLEAN :
        written[d].file = NewFile(d, credential, cipher, slip)
  BY DEF AsWritten
<1> DEFINE file == NewFile(d, credential, cipher, slip)
<1>2. file.body = {SealerOf(file.text, d)}
  BY DEF NewFile
<1> HIDE DEF file
<1> QED
  BY <1>1, <1>2 DEF file

-----------------------------------------------------------------------------
(* The invariant *)

(* It holds of every state: encrypting adds a container whose body is      *)
(* sealed with its own header, and an alteration can only move bodies.     *)
THEOREM ContainerInvariant == Spec => []ContainerInv
<1>1. Init => ContainerInv
  BY DEF Init, ContainerInv, AsWritten, BodiesSealed
<1>2. ContainerInv /\ [Next]_vars => ContainerInv'
  <2> SUFFICES ASSUME ContainerInv, [Next]_vars
               PROVE  ContainerInv'
    OBVIOUS
  <2> USE DEF ContainerInv
  <2>1. ASSUME NEW c \in Containers, NEW credential \in Credentials,
               NEW slip \in BOOLEAN, NEW cipher \in Ciphers,
               Encrypt(c, credential, cipher, slip)
        PROVE  ContainerInv'
    <3> DEFINE file  == NewFile(c, credential, cipher, slip)
               entry == [file |-> file, owner |-> credential, slip |-> slip]
    <3>1. /\ stored' = Put(stored, c, file)
          /\ written' = Put(written, c, entry)
          /\ c \notin DOMAIN written
          /\ Offered(credential, cipher, slip)
      BY <2>1 DEF Encrypt
    <3> HIDE DEF file, entry
    <3>2. /\ DOMAIN stored' = DOMAIN written \union {c}
          /\ stored'[c] = file
          /\ \A d \in DOMAIN written : stored'[d] = stored[d]
      BY <3>1 DEF Put
    <3>3. /\ DOMAIN written' = DOMAIN written \union {c}
          /\ written'[c] = entry
          /\ \A d \in DOMAIN written : written'[d] = written[d]
      BY <3>1 DEF Put
    <3>4. DOMAIN stored' = DOMAIN written'
      BY <3>2, <3>3
    <3>5. AsWritten'
      <4> SUFFICES ASSUME NEW d \in DOMAIN written'
                   PROVE  \E owner \in Credentials, k \in Ciphers, b \in BOOLEAN :
                            /\ Offered(owner, k, b)
                            /\ written'[d] = [file |-> NewFile(d, owner, k, b),
                                              owner |-> owner, slip |-> b]
        BY DEF AsWritten
      <4>1. CASE d = c
        BY <3>1, <3>3, <4>1 DEF entry, file
      <4>2. CASE d \in DOMAIN written
        BY <3>3, <4>2 DEF AsWritten
      <4> QED
        BY <3>3, <4>1, <4>2
    <3>6. \A body : Sealed(body) => Sealed(body)'
      <4> SUFFICES ASSUME NEW body, Sealed(body)
                   PROVE  Sealed(body)'
        OBVIOUS
      <4> QED
        BY <3>3 DEF Sealed
    <3>7. Sealed(file.body)'
      BY <3>3 DEF Sealed, entry
    <3>8. BodiesSealed'
      BY <3>2, <3>6, <3>7 DEF BodiesSealed
    <3> QED
      BY <3>4, <3>5, <3>8
  <2>2. ASSUME NEW c \in Containers, Verify(c)
        PROVE  ContainerInv'
    BY <2>2 DEF Verify, AsWritten, BodiesSealed, Sealed
  <2>3. ASSUME NEW c \in Containers, Alter(c)
        PROVE  ContainerInv'
    <3>1. written' = written /\ DOMAIN stored' = DOMAIN stored
      BY <2>3 DEF Alter
    <3>2. AsWritten'
      BY <3>1 DEF AsWritten
    <3>3. PICK d \in DOMAIN stored :
            \E body \in {stored[c].body, stored[d].body, {}} :
              \E text, preamble :
                stored' = [stored EXCEPT ![c] =
                  [preamble |-> preamble, text |-> text, body |-> body]]
      BY <2>3 DEF Alter
    <3>4. PICK body \in {stored[c].body, stored[d].body, {}} :
            \A e \in DOMAIN stored :
              stored'[e].body = IF e = c THEN body ELSE stored[e].body
      BY <3>3
    <3>5. \A e \in DOMAIN stored : Sealed(stored'[e].body)
      <4>1. Sealed(stored[c].body) /\ Sealed(stored[d].body) /\ Sealed({})
        BY <2>3 DEF Alter, BodiesSealed, Sealed
      <4>2. Sealed(body)
        BY <4>1
      <4> SUFFICES ASSUME NEW e \in DOMAIN stored
                   PROVE  Sealed(stored'[e].body)
        OBVIOUS
      <4> QED
        BY <3>4, <4>2 DEF BodiesSealed
    <3>6. BodiesSealed'
      BY <3>1, <3>5 DEF BodiesSealed, Sealed
    <3> QED
      BY <3>1, <3>2, <3>6
  <2>4. CASE UNCHANGED vars
    BY <2>4 DEF vars, AsWritten, BodiesSealed, Sealed
  <2> QED
    BY <2>1, <2>2, <2>3, <2>4 DEF Next
<1> QED
  BY <1>1, <1>2, PTL DEF Spec

-----------------------------------------------------------------------------
(* What opens *)

(* A body that opens with some header and data key is a written one, with  *)
(* its own header and data key.                                            *)
LEMMA BodyBinds ==
  ASSUME ContainerInv, NEW f, NEW dek, Sealed(f.body), BodyOpens(f, dek)
  PROVE  /\ dek \in DOMAIN written
         /\ f.text = written[dek].file.text
         /\ f.body = written[dek].file.body
<1>1. PICK d \in DOMAIN written : f.body = written[d].file.body
  BY DEF Sealed, BodyOpens
<1>2. SealerOf(f.text, dek) = SealerOf(written[d].file.text, d)
  BY <1>1, WrittenSealed DEF BodyOpens, ContainerInv
<1> QED
  BY <1>1, <1>2, SealerBinds

(* Whatever opens is a container as it was written, header and body, and   *)
(* the credential is the one it was written for: what read_header,         *)
(* obtain_dek and DecReader come to together.                              *)
THEOREM OnlyTheWrittenOpens == Spec => []OnlyWrittenOpens
<1>1. ContainerInv => OnlyWrittenOpens
  <2> SUFFICES ASSUME ContainerInv, NEW c \in DOMAIN stored,
                      NEW credential \in Credentials,
                      Opens(stored[c], credential)
               PROVE  \E d \in DOMAIN written :
                        /\ stored[c].text = written[d].file.text
                        /\ stored[c].body = written[d].file.body
                        /\ credential = written[d].owner
    BY DEF OnlyWrittenOpens
  <2>1. PICK d \in ObtainDek(stored[c].text.meta, credential) :
          BodyOpens(stored[c], d)
    BY DEF Opens
  <2>2. /\ d \in DOMAIN written
        /\ stored[c].text = written[d].file.text
        /\ stored[c].body = written[d].file.body
    BY <2>1, BodyBinds DEF ContainerInv, BodiesSealed
  <2>3. credential = written[d].owner
    BY <2>1, <2>2, OnlyOwnerObtains DEF ContainerInv
  <2> QED
    BY <2>2, <2>3
<1> QED
  BY <1>1, ContainerInvariant, PTL

(* A container nobody altered passes the version gate and opens for whom   *)
(* it was written for, whatever the scheme.                                *)
THEOREM TheWrittenOpens == Spec => []WrittenOpens
<1>1. ContainerInv => WrittenOpens
  <2> SUFFICES ASSUME ContainerInv, NEW c \in DOMAIN stored,
                      stored[c] = written[c].file, ~written[c].slip
               PROVE  Opens(stored[c], written[c].owner)
    BY DEF WrittenOpens
  <2>1. PICK owner \in Credentials, cipher \in Ciphers, slip \in BOOLEAN :
          /\ Offered(owner, cipher, slip)
          /\ stored[c] = NewFile(c, owner, cipher, slip)
    BY DEF ContainerInv, AsWritten
  <2>2. Readable(stored[c])
    BY <2>1, NewFileReadable
  <2>3. ObtainDek(stored[c].text.meta, written[c].owner) = {c}
    <3>1. written[c].owner \in Credentials
      BY DEF ContainerInv, AsWritten
    <3> QED
      BY <3>1, OnlyOwnerObtains DEF ContainerInv
  <2>4. BodyOpens(stored[c], c)
    BY WrittenSealed DEF ContainerInv, BodyOpens
  <2> QED
    BY <2>1, <2>2, <2>3, <2>4 DEF Opens
<1> QED
  BY <1>1, ContainerInvariant, PTL

(* What has passed verify opens for its owner: verify takes the way a      *)
(* later decrypt takes where that can differ, from the password on.        *)
VerifiedInv ==
  /\ ContainerInv
  /\ DOMAIN verified \subseteq DOMAIN written
  /\ VerifiedOpens

(* Passing verify means opening for the owner.                             *)
LEMMA VerifyFindsOut ==
  ASSUME ContainerInv, NEW c \in DOMAIN stored, Readable(stored[c]),
         NEW dek \in DekForVerify(c, stored[c].text.meta),
         BodyOpens(stored[c], dek)
  PROVE  Opens(stored[c], written[c].owner)
<1> DEFINE meta == stored[c].text.meta
<1>1. dek = c
  BY DEF DekForVerify
<1>2. CASE meta.mode = "password" /\ written[c].owner \in Passwords
  BY <1>2 DEF DekForVerify, Opens
<1>3. CASE ~(meta.mode = "password" /\ written[c].owner \in Passwords)
  <2>1. stored[c].text = written[c].file.text
    BY <1>1, BodyBinds DEF ContainerInv, BodiesSealed
  <2>2. /\ written[c].owner \in Credentials
        /\ meta.mode = ModeOf(written[c].owner)
        /\ written[c].slip => written[c].owner \in Passwords
    <3>1. PICK owner \in Credentials, cipher \in Ciphers, slip \in BOOLEAN :
            /\ Offered(owner, cipher, slip)
            /\ written[c] = [file |-> NewFile(c, owner, cipher, slip),
                             owner |-> owner, slip |-> slip]
      BY DEF ContainerInv, AsWritten
    <3>2. NewFile(c, owner, cipher, slip).text.meta.mode = ModeOf(owner)
      BY DEF NewFile, Meta
    <3>3. written[c].file = NewFile(c, owner, cipher, slip)
      BY <3>1
    <3>4. meta.mode = ModeOf(owner)
      BY <2>1, <3>2, <3>3
    <3> QED
      BY <3>1, <3>4 DEF Offered
  <2>3. written[c].owner \notin Passwords
    BY <1>3, <2>2 DEF ModeOf
  <2>4. c \in ObtainDek(meta, written[c].owner)
    BY <2>1, <2>2, <2>3, OnlyOwnerObtains DEF ContainerInv
  <2> QED
    BY <1>1, <2>4 DEF Opens
<1> QED
  BY <1>2, <1>3

(* What has passed verify opens for its owner.                             *)
THEOREM TheVerifiedOpens == Spec => []VerifiedOpens
<1>1. Init => VerifiedInv
  BY DEF Init, VerifiedInv, VerifiedOpens, ContainerInv, AsWritten, BodiesSealed
<1>2. VerifiedInv /\ ContainerInv' /\ [Next]_vars => VerifiedInv'
  <2> SUFFICES ASSUME VerifiedInv, ContainerInv', [Next]_vars
               PROVE  VerifiedInv'
    OBVIOUS
  <2>1. ASSUME NEW c \in Containers, NEW credential \in Credentials,
               NEW slip \in BOOLEAN, NEW cipher \in Ciphers,
               Encrypt(c, credential, cipher, slip)
        PROVE  VerifiedInv'
    <3>1. verified' = verified /\ c \notin DOMAIN written
      BY <2>1 DEF Encrypt, VerifiedInv, ContainerInv
    <3>2. /\ DOMAIN written \subseteq DOMAIN written'
          /\ \A d \in DOMAIN written : written'[d] = written[d]
      BY <2>1, <3>1 DEF Encrypt, Put
    <3> QED
      BY <3>1, <3>2 DEF VerifiedInv, VerifiedOpens
  <2>2. ASSUME NEW c \in Containers, Verify(c)
        PROVE  VerifiedInv'
    <3>1. /\ c \in DOMAIN written
          /\ written' = written
          /\ DOMAIN verified' = DOMAIN verified \union {c}
          /\ verified'[c] = stored[c]
          /\ \A d \in DOMAIN verified : d # c => verified'[d] = verified[d]
      BY <2>2 DEF Verify, Put, VerifiedInv, ContainerInv
    <3>2. Opens(stored[c], written[c].owner)
      BY <2>2, VerifyFindsOut DEF Verify, VerifiedInv
    <3> QED
      BY <3>1, <3>2 DEF VerifiedInv, VerifiedOpens
  <2>3. ASSUME NEW c \in Containers, Alter(c)
        PROVE  VerifiedInv'
    BY <2>3 DEF Alter, VerifiedInv, VerifiedOpens
  <2>4. CASE UNCHANGED vars
    BY <2>4 DEF vars, VerifiedInv, VerifiedOpens
  <2> QED
    BY <2>1, <2>2, <2>3, <2>4 DEF Next
<1>3. VerifiedInv => VerifiedOpens
  BY DEF VerifiedInv
<1> QED
  BY <1>1, <1>2, <1>3, ContainerInvariant, PTL DEF Spec

=============================================================================
