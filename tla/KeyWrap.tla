------------------------------ MODULE KeyWrap -------------------------------
(***************************************************************************)
(* How a data key gets from encrypt to decrypt through a key pair: the two *)
(* key files, what loading them checks, wrap with one and unwrap with the  *)
(* other, and the header in between.  The key files and the headers may be *)
(* damaged in storage, and nothing says so.                                *)
(*                                                                         *)
(* Abstractions.  An armored file is the algorithm it names and a body of  *)
(* parts; bodies of other algorithms have another length.  A container is  *)
(* named by its data key, and what is drawn for it by the container.  A    *)
(* sealed text opens under the key and nonce it was sealed with, and not   *)
(* at all once it was changed (of Radix-Cascade, module Cascade says so).  *)
(***************************************************************************)
EXTENDS Hybrid

CONSTANTS
  Pairs,        \* the key pairs in the store
  Algo,         \* the algorithm of each
  Protected,    \* those whose private key has a passphrase
  Passphrases,
  PassOf,       \* the passphrase of each
  Containers,   \* the containers that are written
  Other,        \* whose bytes belong to nobody
  MaxDamage     \* bound: damages in storage

Algos == {"rsa", "x25519", "mlkem", "radix"}

\* Of an X25519 or ML-KEM key, or of exchange data: what it may be.
Owners == Pairs \union {Other}
Points == [owner : Owners \union Containers \union {LowOrder}, topBit : BOOLEAN]
Eks    == [owner : Owners, belowQ : BOOLEAN]
Ciphertexts == [ek : Eks, coins : Containers \union {Other}, whole : BOOLEAN]

ASSUME KeyWrapAssumption ==
  /\ Algo \in [Pairs -> Algos]
  /\ PassOf \in [Pairs -> Passphrases]
  /\ Pairs \intersect Containers = {}
  /\ {None, LowOrder, Other} \intersect (Pairs \union Containers) = {}
  /\ LowOrder # Other /\ None \notin {LowOrder, Other}
  /\ None \notin Points \union Ciphertexts
  /\ MaxDamage \in Nat

VARIABLES
  pubs,      \* NAME.pub
  keys,      \* NAME.key
  headers,   \* of the containers, as they are now
  made,      \* history: how each was made
  broken,    \* whether ML-KEM is
  damage

vars == <<pubs, keys, headers, made, broken, damage>>

-----------------------------------------------------------------------------
(* Keys and their files *)

Parts(algo) ==
  CASE algo = "rsa"    -> {"n"}
    [] algo = "x25519" -> {"x"}
    [] algo = "mlkem"  -> {"m"}
    [] algo = "radix"  -> {"x", "m"}

\* An RSA key in DER.
Modulus(owner) == [owner |-> owner, valid |-> TRUE]

\* generate
PublicPart(owner, part) ==
  CASE part = "x" -> Point(owner)
    [] part = "m" -> Ek(owner)
    [] part = "n" -> Modulus(owner)

PrivatePart(owner, part) ==
  CASE part = "x" -> Scalar(owner)
    [] part = "m" -> Dk(owner)
    [] part = "n" -> Modulus(owner)

PublicBody(p) == [part \in Parts(Algo[p]) |-> PublicPart(p, part)]
PrivateBody(p) == [part \in Parts(Algo[p]) |-> PrivatePart(p, part)]

\* PrivateKey::public
PublicOf(sk) ==
  [part \in DOMAIN sk |->
     CASE part = "x" -> PointOf(sk[part])
       [] part = "m" -> sk[part].ek
       [] part = "n" -> sk[part]]

Fingerprint(algo, pk) == [algo |-> algo, pk |-> pk]

\* save
PubFile(p) == [algo |-> Algo[p], body |-> PublicBody(p)]

KeyFile(p) ==
  [algo |-> Algo[p], body |-> PrivateBody(p), pass |-> PassOf[p],
   sealed |-> p \in Protected, whole |-> TRUE,
   protection |-> IF p \in Protected THEN "argon2id" ELSE "none"]

\* PublicKey::from_bytes
LoadsPublic(file) ==
  /\ DOMAIN file.body = Parts(file.algo)
  /\ "m" \in DOMAIN file.body => CheckEncapsulationKey(file.body["m"])
  /\ "n" \in DOMAIN file.body => file.body["n"].valid

\* load_private: open_secret unless the file says that there is nothing to
\* open, and PrivateKey::from_bytes.
LoadsPrivate(file, pass) ==
  /\ file.sealed <=> file.protection # "none"
  /\ file.sealed => file.whole /\ pass = file.pass
  /\ DOMAIN file.body = Parts(file.algo)
  /\ "m" \in DOMAIN file.body => CheckDecapsulationKey(file.body["m"])
  /\ "n" \in DOMAIN file.body => file.body["n"].valid

-----------------------------------------------------------------------------
(* wrap and unwrap *)

\* ikm: the ML-KEM secret and the X25519 secret.  info: ciphertext, ephemeral
\* point, and the recipient's two public keys.
Hkdf(label, ikm, info) == [label |-> label, ikm |-> ikm, info |-> info]

KekX25519(secret, eph, pk) ==
  Hkdf("cryptosec/x25519/v1", <<None, secret>>, <<None, eph, pk, None>>)

KekMlKem(secret, ct) ==
  Hkdf("cryptosec/ml-kem-768/v1", <<secret, None>>, <<ct, None, None, None>>)

\* OAEP needs nothing but the RSA key.
KekRsa(n) == Hkdf("rsa", <<n, None>>, <<None, None, None, None>>)

Wrapped(kek, nonce, dek) ==
  [kek |-> kek, nonce |-> nonce, dek |-> dek, whole |-> TRUE]

\* What the other side needs besides the wrapped key, and the key it was
\* wrapped with; or nothing.
KeyExchange(algo, pk, c) ==
  CASE algo = "rsa" -> {<<[x |-> None, m |-> None], KekRsa(pk["n"])>>}
    [] algo = "x25519" ->
         {<<[x |-> Point(c), m |-> None],
            KekX25519(DiffieHellman(Scalar(c), pk["x"]), Point(c), pk["x"])>>}
    [] algo = "mlkem" ->
         LET ct == Ciphertext(pk["m"], c)
         IN {<<[x |-> None, m |-> ct], KekMlKem(MlSecret(ct), ct)>>}
    [] algo = "radix" -> Encapsulate(pk, c)

\* The key that a private key and exchange data give, if they have its length.
KeyAgreed(algo, sk, kem, isBroken) ==
  CASE algo = "rsa" -> {KekRsa(sk["n"])}
    [] algo = "x25519" ->
         IF kem.x = None \/ kem.m # None THEN {}
         ELSE {KekX25519(DiffieHellman(sk["x"], kem.x), kem.x, PointOf(sk["x"]))}
    [] algo = "mlkem" ->
         IF kem.x # None \/ kem.m = None THEN {}
         ELSE {KekMlKem(Decapsulated(sk["m"], kem.m, isBroken), kem.m)}
    [] algo = "radix" ->
         IF kem.x = None \/ kem.m = None THEN {}
         ELSE Decapsulate(sk, PublicOf(sk), kem, isBroken)

Unwrap(algo, sk, kem, nonce, wrapped, isBroken) ==
  IF /\ wrapped.whole
     /\ wrapped.kek \in KeyAgreed(algo, sk, kem, isBroken)
     /\ algo # "rsa" => wrapped.nonce = nonce
    THEN {wrapped.dek} ELSE {}

-----------------------------------------------------------------------------
(* encrypt and decrypt *)

Fits(file, fingerprint) ==
  Fingerprint(file.algo, PublicOf(file.body)) = fingerprint

\* obtain_dek: of an RSA header the exchange data and nonce are not taken.
ObtainDek(h, file, pass) ==
  IF LoadsPrivate(file, pass) /\ Fits(file, h.fingerprint)
    THEN IF h.mode = "rsa"
           THEN Unwrap(file.algo, file.body, [x |-> None, m |-> None], None,
                       h.wrapped, broken)
           ELSE Unwrap(file.algo, file.body, h.kem, h.nonce, h.wrapped, broken)
    ELSE {}

Put(f, c, v) == [d \in DOMAIN f \union {c} |-> IF d = c THEN v ELSE f[d]]

Init ==
  /\ pubs = [p \in Pairs |-> PubFile(p)]
  /\ keys = [p \in Pairs |-> KeyFile(p)]
  /\ headers = [c \in {} |-> None]
  /\ made = [c \in {} |-> None]
  /\ broken \in BOOLEAN
  /\ damage = 0

\* Mutant: the nonce does not get into the header.
HeaderWithoutNonce(file, kem, kek, c) ==
  [mode |-> file.algo, fingerprint |-> Fingerprint(file.algo, file.body),
   kem |-> kem, nonce |-> None, wrapped |-> Wrapped(kek, c, c)]

Header(file, kem, kek, c) ==
  [mode |-> file.algo, fingerprint |-> Fingerprint(file.algo, file.body),
   kem |-> kem, nonce |-> IF file.algo = "rsa" THEN None ELSE c,
   wrapped |-> Wrapped(kek, c, c)]

\* pick_public_key, and the recipient of the container.
Encrypt(c, p) ==
  /\ c \notin DOMAIN headers
  /\ LoadsPublic(pubs[p])
  /\ \E exchange \in KeyExchange(pubs[p].algo, pubs[p].body, c) :
       LET h == Header(pubs[p], exchange[1], exchange[2], c)
       IN /\ headers' = Put(headers, c, h)
          /\ made' = Put(made, c, [pair |-> p, file |-> pubs[p], header |-> h])
  /\ UNCHANGED <<pubs, keys, broken, damage>>

-----------------------------------------------------------------------------
(* Storage *)

\* The bytes of a part change.
DamagedPoint(x) ==
  {[x EXCEPT !.topBit = ~@], Point(LowOrder), Point(Other)}
DamagedEk(ek) == {[ek EXCEPT !.belowQ = FALSE], Ek(Other)}
DamagedModulus(n) == {[n EXCEPT !.valid = FALSE], Modulus(Other)}
DamagedScalar(x) == {[x EXCEPT !.clampedBits = ~@], Scalar(Other)}
DamagedDk(dk) ==
  {[dk EXCEPT !.s = Other], [dk EXCEPT !.hash = Ek(Other)],
   [dk EXCEPT !.z = Other]}
    \union {[dk EXCEPT !.ek = ek] : ek \in DamagedEk(dk.ek)}
DamagedCiphertext(ct) ==
  {[ct EXCEPT !.whole = ~@], [ct EXCEPT !.coins = Other]}

DamagedPublicPart(part, v) ==
  CASE part = "x" -> DamagedPoint(v)
    [] part = "m" -> DamagedEk(v)
    [] part = "n" -> DamagedModulus(v)

\* An RSA private key whose numbers do not fit together is not valid.
DamagedPrivatePart(part, v) ==
  CASE part = "x" -> DamagedScalar(v)
    [] part = "m" -> DamagedDk(v)
    [] part = "n" -> {[v EXCEPT !.valid = FALSE]}

Damages == damage < MaxDamage /\ damage' = damage + 1

\* Or the file of another pair is in its place, or another algorithm named.
DamagePub(p) ==
  /\ Damages
  /\ \/ \E part \in DOMAIN pubs[p].body :
          \E v \in DamagedPublicPart(part, pubs[p].body[part]) :
            pubs' = [pubs EXCEPT ![p].body[part] = v]
     \/ \E q \in Pairs \ {p} : pubs' = [pubs EXCEPT ![p] = pubs[q]]
     \/ \E algo \in Algos : pubs' = [pubs EXCEPT ![p].algo = algo]
  /\ UNCHANGED <<keys, headers, made, broken>>

DamageKey(p) ==
  /\ Damages
  /\ \/ /\ keys[p].sealed
        /\ keys' = [keys EXCEPT ![p].whole = FALSE]
     \/ /\ ~keys[p].sealed
        /\ \E part \in DOMAIN keys[p].body :
             \E v \in DamagedPrivatePart(part, keys[p].body[part]) :
               keys' = [keys EXCEPT ![p].body[part] = v]
     \/ \E q \in Pairs \ {p} : keys' = [keys EXCEPT ![p] = keys[q]]
     \/ \E algo \in Algos : keys' = [keys EXCEPT ![p].algo = algo]
     \/ \E protection \in {"none", "argon2id"} :
          keys' = [keys EXCEPT ![p].protection = protection]
  /\ UNCHANGED <<pubs, headers, made, broken>>

\* A field changes, or is another container's.
DamagedKem(kem) ==
  {[kem EXCEPT !.x = x] : x \in IF kem.x = None THEN {} ELSE DamagedPoint(kem.x)}
    \union {[kem EXCEPT !.m = m] :
              m \in IF kem.m = None THEN {} ELSE DamagedCiphertext(kem.m)}
    \union {[x |-> None, m |-> None]}

DamageHeader(c) ==
  /\ c \in DOMAIN headers
  /\ Damages
  /\ LET h == headers[c]
     IN \/ \E kem \in DamagedKem(h.kem) :
             headers' = [headers EXCEPT ![c].kem = kem]
        \/ \E nonce \in {None, Other} :
             headers' = [headers EXCEPT ![c].nonce = nonce]
        \/ headers' = [headers EXCEPT ![c].wrapped.whole = FALSE]
        \/ \E mode \in Algos : headers' = [headers EXCEPT ![c].mode = mode]
        \/ \E d \in DOMAIN headers, field \in DOMAIN h :
             headers' = [headers EXCEPT ![c][field] = headers[d][field]]
  /\ UNCHANGED <<pubs, keys, made, broken>>

Next ==
  \/ \E c \in Containers, p \in Pairs : Encrypt(c, p)
  \/ \E p \in Pairs : DamagePub(p) \/ DamageKey(p)
  \/ \E c \in Containers : DamageHeader(c)

Spec == Init /\ [][Next]_vars

-----------------------------------------------------------------------------
(* Properties *)

(* Whatever is damaged, and if ML-KEM is broken: a data key comes out only *)
(* of the exchange data, the nonce and the wrapped key it was put into,    *)
(* byte for byte, and with the pair it was wrapped for.  Of an RSA key the *)
(* wrapped key is all there is.                                            *)
OnlyWrappedUnwraps ==
  \A c \in DOMAIN headers, p \in Pairs, pass \in Passphrases :
    \A dek \in ObtainDek(headers[c], keys[p], pass) :
      LET h == headers[c]
          w == made[dek].header
      IN /\ h.wrapped = w.wrapped
         /\ h.fingerprint = w.fingerprint
         /\ keys[p].algo # "rsa" => <<h.kem, h.nonce>> = <<w.kem, w.nonce>>

\* dk_PKE is whole; nothing checks that.
DecryptsMlKem(sk) == "m" \in DOMAIN sk => sk["m"].ek = Ek(sk["m"].s)

(* A private key that loads and has the fingerprint of a header unwraps    *)
(* it, even if bits of the key file changed; only the part of an ML-KEM    *)
(* key that FIPS 203 has no check for may be damaged without a word.       *)
LoadedKeyUnwraps ==
  \A c \in DOMAIN headers, p \in Pairs, pass \in Passphrases :
    /\ headers[c] = made[c].header
    /\ LoadsPrivate(keys[p], pass)
    /\ Fits(keys[p], headers[c].fingerprint)
    /\ DecryptsMlKem(keys[p].body)
    => ObtainDek(headers[c], keys[p], pass) = {c}

(* What was encrypted for a pair opens for it, if the .pub was as keygen   *)
(* wrote it.  A damaged one may load as well, since the fingerprint in the *)
(* file is not compared with its body; what is encrypted with it does not  *)
(* open for the pair, and the data key in memory hides that from verify.   *)
OpensIfPubWhole ==
  \A c \in DOMAIN headers :
    LET p == made[c].pair
    IN headers[c] = made[c].header /\ keys[p] = KeyFile(p) =>
         /\ made[c].file = PubFile(p) =>
              ObtainDek(headers[c], keys[p], PassOf[p]) = {c}
         /\ made[c].file # PubFile(p) =>
              ObtainDek(headers[c], keys[p], PassOf[p]) = {}

=============================================================================
