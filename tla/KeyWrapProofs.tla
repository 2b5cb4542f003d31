--------------------------- MODULE KeyWrapProofs ----------------------------
(***************************************************************************)
(* Proofs about key files and wrapped keys, for any key pairs of any       *)
(* algorithms, any containers and any number of damages, with ML-KEM sound *)
(* or broken.                                                              *)
(***************************************************************************)
EXTENDS KeyWrap, TLAPS

-----------------------------------------------------------------------------
(* Types *)

Scalars == [owner : Owners, clampedBits : BOOLEAN]
Dks     == [s : Owners, ek : Eks, hash : Eks, z : Owners]
Moduli  == [owner : Owners, valid : BOOLEAN]
Kems    == [x : Points \union {None}, m : Ciphertexts \union {None}]

PublicValues(part) ==
  CASE part = "x" -> Points [] part = "m" -> Eks [] part = "n" -> Moduli

PrivateValues(part) ==
  CASE part = "x" -> Scalars [] part = "m" -> Dks [] part = "n" -> Moduli

IsPublicBody(b) ==
  \E a \in Algos : /\ DOMAIN b = Parts(a)
                   /\ b = [part \in Parts(a) |-> b[part]]
                   /\ \A part \in Parts(a) : b[part] \in PublicValues(part)

IsPrivateBody(b) ==
  \E a \in Algos : /\ DOMAIN b = Parts(a)
                   /\ b = [part \in Parts(a) |-> b[part]]
                   /\ \A part \in Parts(a) : b[part] \in PrivateValues(part)

IsPubFile(f) ==
  /\ f = [algo |-> f.algo, body |-> f.body]
  /\ f.algo \in Algos
  /\ IsPublicBody(f.body)

KeyFields == {"algo", "body", "pass", "sealed", "whole", "protection"}

IsKeyFile(f) ==
  /\ f = [field \in KeyFields |-> f[field]]
  /\ f.algo \in Algos
  /\ IsPrivateBody(f.body)

-----------------------------------------------------------------------------
(* The inductive invariant *)

(* The .pub and .key files consist of parts of some algorithm each, which  *)
(* need not be the one they name.                                          *)
FilesInv ==
  /\ pubs = [p \in Pairs |-> pubs[p]] /\ \A p \in Pairs : IsPubFile(pubs[p])
  /\ keys = [p \in Pairs |-> keys[p]] /\ \A p \in Pairs : IsKeyFile(keys[p])

(* Every container was made by a key exchange with a .pub that loaded.     *)
MadeInv ==
  /\ DOMAIN made = DOMAIN headers
  /\ DOMAIN headers \subseteq Containers
  /\ \A c \in DOMAIN made :
       /\ made[c].pair \in Pairs
       /\ IsPubFile(made[c].file) /\ LoadsPublic(made[c].file)
       /\ \E x \in KeyExchange(made[c].file.algo, made[c].file.body, c) :
            made[c].header = Header(made[c].file, x[1], x[2], c)

\* w is the wrapped key v, or was damaged.
Came(w, v) == DOMAIN w = DOMAIN v /\ (w = v \/ w.whole = FALSE)

(* A header has the fields it was written with, and a wrapped key that was *)
(* put into some container, or one that is damaged.                        *)
HeadersInv ==
  /\ headers = [c \in DOMAIN headers |-> headers[c]]
  /\ \A c \in DOMAIN headers :
       LET h == headers[c]
       IN /\ h = [mode |-> h.mode, fingerprint |-> h.fingerprint,
                  kem |-> h.kem, nonce |-> h.nonce, wrapped |-> h.wrapped]
          /\ h.kem \in Kems
          /\ \E d \in DOMAIN made : Came(h.wrapped, made[d].header.wrapped)

WrapInv == FilesInv /\ MadeInv /\ HeadersInv

-----------------------------------------------------------------------------
(* Key files *)

(* What a body that loads consists of.                                     *)
LEMMA PublicBodyFacts ==
  ASSUME NEW f, IsPubFile(f), LoadsPublic(f)
  PROVE  /\ f = [algo |-> f.algo, body |-> f.body]
         /\ f.algo \in Algos /\ DOMAIN f.body = Parts(f.algo)
         /\ f.body = [part \in Parts(f.algo) |-> f.body[part]]
         /\ \A part \in Parts(f.algo) : f.body[part] \in PublicValues(part)
BY DEF IsPubFile, IsPublicBody, LoadsPublic

(* The same of a private one.                                              *)
LEMMA PrivateBodyFacts ==
  ASSUME NEW f, NEW pass, IsKeyFile(f), LoadsPrivate(f, pass)
  PROVE  /\ f.algo \in Algos /\ DOMAIN f.body = Parts(f.algo)
         /\ f.body = [part \in Parts(f.algo) |-> f.body[part]]
         /\ \A part \in Parts(f.algo) : f.body[part] \in PrivateValues(part)
         /\ "m" \in Parts(f.algo) => f.body["m"].hash = f.body["m"].ek
BY DEF IsKeyFile, IsPrivateBody, LoadsPrivate, CheckDecapsulationKey

(* What keygen writes loads, and the two halves go together.               *)
LEMMA Generated ==
  ASSUME NEW p \in Pairs
  PROVE  /\ IsPubFile(PubFile(p)) /\ LoadsPublic(PubFile(p))
         /\ IsKeyFile(KeyFile(p)) /\ LoadsPrivate(KeyFile(p), PassOf[p])
         /\ PublicOf(PrivateBody(p)) = PublicBody(p)
         /\ DecryptsMlKem(PrivateBody(p))
<1>1. Algo[p] \in Algos /\ p \in Owners
  BY KeyWrapAssumption DEF Owners
<1>2. \A part \in Parts(Algo[p]) : /\ part \in {"x", "m", "n"}
                                   /\ PublicPart(p, part) \in PublicValues(part)
                                   /\ PrivatePart(p, part) \in PrivateValues(part)
  BY <1>1 DEF Algos, Parts, PublicPart, PrivatePart, PublicValues, PrivateValues,
              Points, Eks, Moduli, Scalars, Dks, Point, Ek, Modulus, Scalar, Dk
<1>3. IsPubFile(PubFile(p))
  BY <1>1, <1>2 DEF IsPubFile, PubFile, PublicBody, IsPublicBody
<1>4. LoadsPublic(PubFile(p))
  BY <1>1 DEF LoadsPublic, PubFile, PublicBody, PublicPart, Ek, Modulus,
              CheckEncapsulationKey
<1>5. IsKeyFile(KeyFile(p))
  <2>1. IsPrivateBody(PrivateBody(p))
    BY <1>1, <1>2 DEF PrivateBody, IsPrivateBody
  <2> DEFINE f == KeyFile(p)
  <2>2. f.algo = Algo[p] /\ f.body = PrivateBody(p) /\ DOMAIN f = KeyFields
    BY DEF KeyFile, KeyFields
  <2>3. f = [field \in DOMAIN f |-> f[field]]
    BY DEF KeyFile
  <2> QED
    BY <1>1, <2>1, <2>2, <2>3 DEF IsKeyFile
<1>6. LoadsPrivate(KeyFile(p), PassOf[p])
  BY <1>1 DEF LoadsPrivate, KeyFile, PrivateBody, PrivatePart, Dk, Ek, Modulus,
              CheckDecapsulationKey, CheckEncapsulationKey
<1>7. PublicOf(PrivateBody(p)) = PublicBody(p)
  <2>1. \A part \in Parts(Algo[p]) :
          PublicPart(p, part) = CASE part = "x" -> PointOf(PrivatePart(p, part))
                                  [] part = "m" -> PrivatePart(p, part).ek
                                  [] part = "n" -> PrivatePart(p, part)
    BY <1>2 DEF PublicPart, PrivatePart, PointOf, Dk, Scalar
  <2> QED
    BY <2>1 DEF PublicOf, PrivateBody, PublicBody
<1>8. DecryptsMlKem(PrivateBody(p))
  BY DEF DecryptsMlKem, PrivateBody, PrivatePart, Dk
<1> QED
  BY <1>3, <1>4, <1>5, <1>6, <1>7, <1>8

(* A damaged part is still a part.                                         *)
LEMMA DamagedValues ==
  /\ \A x \in Points : DamagedPoint(x) \subseteq Points
  /\ \A ek \in Eks : DamagedEk(ek) \subseteq Eks
  /\ \A n \in Moduli : DamagedModulus(n) \subseteq Moduli
  /\ \A x \in Scalars : DamagedScalar(x) \subseteq Scalars
  /\ \A dk \in Dks : DamagedDk(dk) \subseteq Dks
  /\ \A ct \in Ciphertexts : DamagedCiphertext(ct) \subseteq Ciphertexts
<1>0. /\ Other \in Owners /\ LowOrder \in Owners \union Containers \union {LowOrder}
      /\ Other \in Owners \union Containers \union {LowOrder}
  BY DEF Owners
<1>1. ASSUME NEW x \in Points
      PROVE  DamagedPoint(x) \subseteq Points
  <2>1. x = [owner |-> x.owner, topBit |-> x.topBit] /\ x.topBit \in BOOLEAN
        /\ x.owner \in Owners \union Containers \union {LowOrder}
    BY DEF Points
  <2>2. [x EXCEPT !.topBit = ~@] = [owner |-> x.owner, topBit |-> ~x.topBit]
    BY <2>1
  <2>3. [x EXCEPT !.topBit = ~@] \in Points
    BY <2>1, <2>2 DEF Points
  <2> QED
    BY <1>0, <2>3 DEF DamagedPoint, Points, Point
<1>2. \A ek \in Eks : DamagedEk(ek) \subseteq Eks
  <2>1. Ek(Other) \in Eks
    BY <1>0 DEF Eks, Ek
  <2>2. \A ek \in Eks : [ek EXCEPT !.belowQ = FALSE] \in Eks
    BY DEF Eks
  <2> QED
    BY <2>1, <2>2 DEF DamagedEk
<1>3. \A n \in Moduli : DamagedModulus(n) \subseteq Moduli
  <2>1. Modulus(Other) \in Moduli
    BY <1>0 DEF Moduli, Modulus
  <2>2. \A n \in Moduli : [n EXCEPT !.valid = FALSE] \in Moduli
    BY DEF Moduli
  <2> QED
    BY <2>1, <2>2 DEF DamagedModulus
<1>4. ASSUME NEW x \in Scalars
      PROVE  DamagedScalar(x) \subseteq Scalars
  <2>1. x = [owner |-> x.owner, clampedBits |-> x.clampedBits]
        /\ x.clampedBits \in BOOLEAN /\ x.owner \in Owners
    BY DEF Scalars
  <2>2. [x EXCEPT !.clampedBits = ~@]
          = [owner |-> x.owner, clampedBits |-> ~x.clampedBits]
    BY <2>1
  <2>3. [x EXCEPT !.clampedBits = ~@] \in Scalars
    BY <2>1, <2>2 DEF Scalars
  <2> QED
    BY <1>0, <2>3 DEF DamagedScalar, Scalars, Scalar
<1>5. ASSUME NEW dk \in Dks
      PROVE  DamagedDk(dk) \subseteq Dks
  <2>1. Ek(Other) \in Eks
    BY <1>0 DEF Eks, Ek
  <2>2. /\ [dk EXCEPT !.s = Other] \in Dks /\ [dk EXCEPT !.hash = Ek(Other)] \in Dks
        /\ [dk EXCEPT !.z = Other] \in Dks
    BY <1>0, <2>1 DEF Dks
  <2>3. \A ek \in DamagedEk(dk.ek) : [dk EXCEPT !.ek = ek] \in Dks
    BY <1>2 DEF Dks
  <2> QED
    BY <2>2, <2>3 DEF DamagedDk
<1>6. ASSUME NEW ct \in Ciphertexts
      PROVE  DamagedCiphertext(ct) \subseteq Ciphertexts
  <2>1. ct = [ek |-> ct.ek, coins |-> ct.coins, whole |-> ct.whole]
        /\ ct.ek \in Eks /\ ct.coins \in Containers \union {Other}
        /\ ct.whole \in BOOLEAN
    BY DEF Ciphertexts
  <2>2. [ct EXCEPT !.whole = ~@]
          = [ek |-> ct.ek, coins |-> ct.coins, whole |-> ~ct.whole]
    BY <2>1
  <2>3. [ct EXCEPT !.whole = ~@] \in Ciphertexts
    BY <2>1, <2>2 DEF Ciphertexts
  <2>4. [ct EXCEPT !.coins = Other] \in Ciphertexts
    BY DEF Ciphertexts
  <2> QED
    BY <2>3, <2>4 DEF DamagedCiphertext
<1> QED
  BY <1>1, <1>2, <1>3, <1>4, <1>5, <1>6

(* And so is a damaged part of a key file.                                 *)
LEMMA DamagedPart ==
  ASSUME NEW part \in {"x", "m", "n"}
  PROVE  /\ \A v \in PublicValues(part) :
              DamagedPublicPart(part, v) \subseteq PublicValues(part)
         /\ \A v \in PrivateValues(part) :
              DamagedPrivatePart(part, v) \subseteq PrivateValues(part)
<1>1. \A n \in Moduli : [n EXCEPT !.valid = FALSE] \in Moduli
  BY DEF Moduli
<1>2. CASE part = "x"
  BY <1>2, DamagedValues DEF PublicValues, PrivateValues, DamagedPublicPart,
     DamagedPrivatePart
<1>3. CASE part = "m"
  BY <1>3, DamagedValues DEF PublicValues, PrivateValues, DamagedPublicPart,
     DamagedPrivatePart
<1>4. CASE part = "n"
  BY <1>1, <1>4, DamagedValues DEF PublicValues, PrivateValues,
     DamagedPublicPart, DamagedPrivatePart
<1> QED
  BY <1>2, <1>3, <1>4

(* Damaged exchange data is still exchange data.                           *)
LEMMA DamagedExchange ==
  ASSUME NEW kem \in Kems
  PROVE  DamagedKem(kem) \subseteq Kems
<1>1. kem.x \in Points \union {None} /\ kem.m \in Ciphertexts \union {None}
  BY DEF Kems
<1>2. \A x \in Points : [kem EXCEPT !.x = x] \in Kems
  BY DEF Kems
<1>3. \A m \in Ciphertexts : [kem EXCEPT !.m = m] \in Kems
  BY DEF Kems
<1>4. [x |-> None, m |-> None] \in Kems
  BY DEF Kems
<1> QED
  BY <1>1, <1>2, <1>3, <1>4, DamagedValues DEF DamagedKem

-----------------------------------------------------------------------------
(* Key exchanges *)

(* What encrypt puts into a header is exchange data.                       *)
LEMMA ExchangeType ==
  ASSUME NEW f, IsPubFile(f), LoadsPublic(f), NEW c \in Containers,
         NEW x \in KeyExchange(f.algo, f.body, c)
  PROVE  x[1] \in Kems
<1>1. Point(c) \in Points
  BY DEF Point, Points
<1>2. \A ek \in Eks : Ciphertext(ek, c) \in Ciphertexts
  BY DEF Ciphertext, Ciphertexts
<1>3. CASE f.algo = "rsa"
  BY <1>3 DEF KeyExchange, Kems
<1>4. CASE f.algo = "x25519"
  BY <1>1, <1>4 DEF KeyExchange, Kems
<1>5. CASE f.algo = "mlkem"
  <2>1. f.body["m"] \in Eks
    BY <1>5, PublicBodyFacts DEF Parts, PublicValues
  <2> QED
    BY <1>2, <1>5, <2>1 DEF KeyExchange, Kems
<1>6. CASE f.algo = "radix"
  <2>1. f.body["m"] \in Eks
    BY <1>6, PublicBodyFacts DEF Parts, PublicValues
  <2>2. x[1] = [x |-> Point(c), m |-> Ciphertext(f.body.m, c)]
    BY <1>6 DEF KeyExchange, Encapsulate
  <2> QED
    BY <1>1, <1>2, <2>1, <2>2 DEF Kems
<1> QED
  BY <1>3, <1>4, <1>5, <1>6, PublicBodyFacts DEF Algos

(* What ML-KEM rejects gives a secret nobody has put in.                   *)
LEMMA Rejected ==
  ASSUME NEW dk \in Dks, NEW ct \in Ciphertexts, NEW isBroken, NEW sent,
         Decapsulated(dk, ct, isBroken) = MlSecret(sent)
  PROVE  ct.ek = dk.ek
<1>1. dk.z # None
  BY KeyWrapAssumption DEF Dks, Owners
<1> QED
  BY <1>1 DEF Decapsulated, MlSecret

(* A private key that gives the key something was wrapped with is the      *)
(* other half of the public one, and has taken the same exchange data.     *)
LEMMA KekTells ==
  ASSUME NEW f, IsPubFile(f), LoadsPublic(f),
         NEW k, NEW pass, IsKeyFile(k), LoadsPrivate(k, pass),
         NEW c \in Containers, NEW x \in KeyExchange(f.algo, f.body, c),
         NEW kem \in Kems, NEW isBroken,
         x[2] \in KeyAgreed(k.algo, k.body, kem, isBroken)
  PROVE  /\ k.algo = f.algo /\ PublicOf(k.body) = f.body
         /\ k.algo # "rsa" => kem = x[1]
<1>1. /\ f.algo \in Algos /\ DOMAIN f.body = Parts(f.algo)
      /\ f.body = [part \in Parts(f.algo) |-> f.body[part]]
  BY PublicBodyFacts
<1>2. /\ k.algo \in Algos /\ DOMAIN k.body = Parts(k.algo)
      /\ \A part \in Parts(k.algo) : k.body[part] \in PrivateValues(part)
  BY PrivateBodyFacts
<1>3. kem = [x |-> kem.x, m |-> kem.m]
      /\ (kem.m = None \/ kem.m \in Ciphertexts)
  BY DEF Kems
<1>a. x[2].label = CASE f.algo = "rsa" -> "rsa"
                     [] f.algo = "x25519" -> "cryptosec/x25519/v1"
                     [] f.algo = "mlkem" -> "cryptosec/ml-kem-768/v1"
                     [] f.algo = "radix" -> "radix/hybrid/v1"
  BY <1>1 DEF KeyExchange, KekRsa, KekX25519, KekMlKem, Hkdf, Encapsulate,
              Combine, Algos
<1>b. x[2].label = CASE k.algo = "rsa" -> "rsa"
                     [] k.algo = "x25519" -> "cryptosec/x25519/v1"
                     [] k.algo = "mlkem" -> "cryptosec/ml-kem-768/v1"
                     [] k.algo = "radix" -> "radix/hybrid/v1"
  BY <1>2 DEF KeyAgreed, KekRsa, KekX25519, KekMlKem, Hkdf, Decapsulate,
              Combine, Algos
<1>4. k.algo = f.algo
  BY <1>1, <1>2, <1>a, <1>b DEF Algos
<1>5. SUFFICES /\ \A part \in Parts(f.algo) : PublicOf(k.body)[part] = f.body[part]
               /\ k.algo # "rsa" => kem = x[1]
  <2>1. PublicOf(k.body) = [part \in Parts(f.algo) |-> PublicOf(k.body)[part]]
    BY <1>2, <1>4 DEF PublicOf
  <2> QED
    BY <1>1, <1>4, <2>1
<1>6. CASE f.algo = "rsa"
  <2>1. KekRsa(k.body["n"]) = KekRsa(f.body["n"])
    BY <1>4, <1>6 DEF KeyExchange, KeyAgreed
  <2> QED
    BY <1>2, <1>4, <1>6, <2>1 DEF KekRsa, Hkdf, Parts, PublicOf
<1>7. CASE f.algo = "x25519"
  <2>1. /\ x[1] = [x |-> Point(c), m |-> None]
        /\ x[2].info = <<None, Point(c), f.body["x"], None>>
    BY <1>7 DEF KeyExchange, KekX25519, Hkdf
  <2>2. /\ kem.m = None
        /\ x[2].info = <<None, kem.x, PointOf(k.body["x"]), None>>
    BY <1>4, <1>7 DEF KeyAgreed, KekX25519, Hkdf
  <2>3. kem = x[1] /\ PointOf(k.body["x"]) = f.body["x"]
    BY <1>3, <2>1, <2>2
  <2> QED
    BY <1>2, <1>4, <1>7, <2>3 DEF Parts, PublicOf
<1>8. CASE f.algo = "mlkem"
  <2>1. /\ x[1] = [x |-> None, m |-> Ciphertext(f.body["m"], c)]
        /\ x[2].info = <<Ciphertext(f.body["m"], c), None, None, None>>
        /\ x[2].ikm = <<MlSecret(Ciphertext(f.body["m"], c)), None>>
    BY <1>8 DEF KeyExchange, KekMlKem, Hkdf
  <2>2. /\ kem.x = None /\ kem.m # None
        /\ x[2].info = <<kem.m, None, None, None>>
        /\ x[2].ikm = <<Decapsulated(k.body["m"], kem.m, isBroken), None>>
    BY <1>4, <1>8 DEF KeyAgreed, KekMlKem, Hkdf
  <2>3. kem = x[1] /\ kem.m = Ciphertext(f.body["m"], c)
        /\ Decapsulated(k.body["m"], kem.m, isBroken)
             = MlSecret(Ciphertext(f.body["m"], c))
    BY <1>3, <2>1, <2>2
  <2>4. k.body["m"] \in Dks
    BY <1>2, <1>4, <1>8 DEF Parts, PrivateValues
  <2>5. kem.m.ek = k.body["m"].ek
    BY <1>3, <2>2, <2>3, <2>4, Rejected
  <2>6. k.body["m"].ek = f.body["m"]
    BY <2>3, <2>5 DEF Ciphertext
  <2> QED
    BY <1>2, <1>4, <1>8, <2>3, <2>6 DEF Parts, PublicOf
<1>9. CASE f.algo = "radix"
  <2>1. /\ x[1] = [x |-> Point(c), m |-> Ciphertext(f.body.m, c)]
        /\ x[2].info = <<Ciphertext(f.body.m, c), Point(c), f.body.x, f.body.m>>
    BY <1>9 DEF KeyExchange, Encapsulate, Combine
  <2>2. x[2].info = <<kem.m, kem.x, PublicOf(k.body).x, PublicOf(k.body).m>>
    BY <1>4, <1>9 DEF KeyAgreed, Decapsulate, Combine
  <2>3. kem = x[1] /\ PublicOf(k.body).x = f.body.x /\ PublicOf(k.body).m = f.body.m
    BY <1>3, <2>1, <2>2
  <2> QED
    BY <1>9, <2>3 DEF Parts
<1> QED
  BY <1>1, <1>6, <1>7, <1>8, <1>9 DEF Algos

(* The private half of a public key gives the key of the other side, if    *)
(* its ML-KEM part is whole.                                               *)
LEMMA KekFound ==
  ASSUME NEW f, IsPubFile(f), LoadsPublic(f),
         NEW k, NEW pass, IsKeyFile(k), LoadsPrivate(k, pass),
         k.algo = f.algo, PublicOf(k.body) = f.body, DecryptsMlKem(k.body),
         NEW c \in Containers, NEW x \in KeyExchange(f.algo, f.body, c),
         NEW isBroken
  PROVE  x[2] \in KeyAgreed(k.algo, k.body, x[1], isBroken)
<1>1. /\ k.algo \in Algos /\ DOMAIN k.body = Parts(k.algo)
      /\ \A part \in Parts(k.algo) : k.body[part] \in PrivateValues(part)
      /\ "m" \in Parts(k.algo) => k.body["m"].hash = k.body["m"].ek
  BY PrivateBodyFacts
<1>2. x[1] \in Kems
  BY ExchangeType
<1>3. \A part \in Parts(k.algo) :
        f.body[part] = CASE part = "x" -> PointOf(k.body[part])
                         [] part = "m" -> k.body[part].ek
                         [] part = "n" -> k.body[part]
  BY <1>1 DEF PublicOf
<1>4. Point(c) # None /\ \A ek \in Eks : Ciphertext(ek, c) # None
  <2>1. Point(c) \in Points /\ \A ek \in Eks : Ciphertext(ek, c) \in Ciphertexts
    BY DEF Point, Points, Ciphertext, Ciphertexts
  <2> QED
    BY <2>1, KeyWrapAssumption
\* Both sides have the same X25519 secret.
<1>5. ASSUME "x" \in Parts(k.algo)
      PROVE  /\ DiffieHellman(k.body["x"], Point(c))
                  = DiffieHellman(Scalar(c), f.body["x"])
             /\ DiffieHellman(k.body["x"], Point(c)) # Zero
             /\ f.body["x"] = PointOf(k.body["x"])
  <2>1. k.body["x"] \in Scalars /\ f.body["x"] = PointOf(k.body["x"])
    BY <1>1, <1>3, <1>5 DEF PrivateValues
  <2>2. k.body["x"].owner # LowOrder /\ c # LowOrder
    BY <2>1, KeyWrapAssumption DEF Scalars, Owners
  <2> QED
    BY <2>1, <2>2 DEF DiffieHellman, Point, PointOf, Scalar, Zero
\* And the same ML-KEM secret.
<1>6. ASSUME "m" \in Parts(k.algo)
      PROVE  /\ f.body["m"] = k.body["m"].ek /\ f.body["m"] \in Eks
             /\ Decapsulated(k.body["m"], Ciphertext(f.body["m"], c), isBroken)
                  = MlSecret(Ciphertext(f.body["m"], c))
  <2>1. k.body["m"] \in Dks /\ f.body["m"] = k.body["m"].ek
    BY <1>1, <1>3, <1>6 DEF PrivateValues
  <2>2. k.body["m"].ek = Ek(k.body["m"].s)
    BY <1>1, <1>6 DEF DecryptsMlKem
  <2> QED
    BY <1>1, <1>6, <2>1, <2>2 DEF Decapsulated, Ciphertext, Dks
<1>7. CASE k.algo = "rsa"
  BY <1>3, <1>7 DEF KeyExchange, KeyAgreed, Parts
<1>8. CASE k.algo = "x25519"
  BY <1>4, <1>5, <1>8 DEF KeyExchange, KeyAgreed, Parts
<1>9. CASE k.algo = "mlkem"
  BY <1>4, <1>6, <1>9 DEF KeyExchange, KeyAgreed, Parts
<1>10. CASE k.algo = "radix"
  <2>1. "x" \in Parts(k.algo) /\ "m" \in Parts(k.algo)
    BY <1>10 DEF Parts
  <2>2. /\ x[1] = [x |-> Point(c), m |-> Ciphertext(f.body.m, c)]
        /\ x[2] = Combine(MlSecret(Ciphertext(f.body.m, c)),
                          DiffieHellman(Scalar(c), f.body.x), x[1], f.body)
    BY <1>10 DEF KeyExchange, Encapsulate
  <2>3. Decapsulate(k.body, f.body, x[1], isBroken)
          = {Combine(MlSecret(Ciphertext(f.body.m, c)),
                     DiffieHellman(Scalar(c), f.body.x), x[1], f.body)}
    BY <1>5, <1>6, <2>1, <2>2 DEF Decapsulate, Contributory
  <2> QED
    BY <1>4, <1>6, <1>10, <2>1, <2>2, <2>3 DEF KeyAgreed
<1> QED
  BY <1>1, <1>7, <1>8, <1>9, <1>10 DEF Algos

-----------------------------------------------------------------------------
(* The invariant is inductive *)

(* The store begins with what keygen wrote, and without containers.        *)
LEMMA WrapInit == Init => WrapInv
<1> SUFFICES ASSUME Init
             PROVE  WrapInv
  OBVIOUS
<1>1. FilesInv
  BY Generated DEF Init, FilesInv
<1>2. /\ DOMAIN headers = {} /\ DOMAIN made = {}
      /\ headers = [c \in DOMAIN headers |-> headers[c]]
  BY DEF Init
<1> QED
  BY <1>1, <1>2 DEF WrapInv, MadeInv, HeadersInv

(* What a container was wrapped with, and its header.                      *)
LEMMA MadeFacts ==
  ASSUME MadeInv, NEW c \in DOMAIN made
  PROVE  \E x \in KeyExchange(made[c].file.algo, made[c].file.body, c) :
           /\ c \in Containers
           /\ IsPubFile(made[c].file) /\ LoadsPublic(made[c].file)
           /\ made[c].header =
                [mode |-> made[c].file.algo,
                 fingerprint |-> Fingerprint(made[c].file.algo, made[c].file.body),
                 kem |-> x[1],
                 nonce |-> IF made[c].file.algo = "rsa" THEN None ELSE c,
                 wrapped |-> [kek |-> x[2], nonce |-> c, dek |-> c, whole |-> TRUE]]
BY DEF MadeInv, Header, Wrapped

(* The parts of the invariant that a change of key files leaves alone.     *)
LEMMA HeadersAlone ==
  ASSUME WrapInv, UNCHANGED <<headers, made>>
  PROVE  MadeInv' /\ HeadersInv'
<1>1. MadeInv'
  BY DEF WrapInv, MadeInv
<1>2. HeadersInv'
  BY DEF WrapInv, HeadersInv
<1> QED
  BY <1>1, <1>2

(* A new container has the header wrap has made.                           *)
LEMMA EncryptKeeps ==
  ASSUME WrapInv, NEW c \in Containers, NEW p \in Pairs, Encrypt(c, p)
  PROVE  WrapInv'
<1> DEFINE f == pubs[p]
<1>1. PICK x \in KeyExchange(f.algo, f.body, c) :
        /\ headers' = Put(headers, c, Header(f, x[1], x[2], c))
        /\ made' = Put(made, c, [pair |-> p, file |-> f,
                                 header |-> Header(f, x[1], x[2], c)])
  BY DEF Encrypt
<1> DEFINE h == Header(f, x[1], x[2], c)
<1>2. /\ IsPubFile(f) /\ LoadsPublic(f) /\ c \notin DOMAIN headers
      /\ UNCHANGED <<pubs, keys, broken, damage>>
  BY DEF Encrypt, WrapInv, FilesInv
<1>3. /\ DOMAIN headers' = DOMAIN headers \union {c}
      /\ headers' = [d \in DOMAIN headers' |-> headers'[d]]
      /\ headers'[c] = h
      /\ \A d \in DOMAIN headers : headers'[d] = headers[d]
  BY <1>1, <1>2 DEF Put
<1>4. /\ DOMAIN made' = DOMAIN made \union {c}
      /\ made'[c] = [pair |-> p, file |-> f, header |-> h]
      /\ \A d \in DOMAIN made : made'[d] = made[d]
  BY <1>1, <1>2 DEF Put, WrapInv, MadeInv
<1>5. x[1] \in Kems
  BY <1>2, ExchangeType
<1>6. /\ h = [mode |-> h.mode, fingerprint |-> h.fingerprint, kem |-> h.kem,
              nonce |-> h.nonce, wrapped |-> h.wrapped]
      /\ h.kem = x[1]
  BY DEF Header
<1> HIDE DEF h
<1>7. FilesInv'
  BY <1>2 DEF WrapInv, FilesInv
<1>8. MadeInv'
  <2>1. \A d \in DOMAIN made' :
          /\ made'[d].pair \in Pairs
          /\ IsPubFile(made'[d].file) /\ LoadsPublic(made'[d].file)
          /\ \E y \in KeyExchange(made'[d].file.algo, made'[d].file.body, d) :
               made'[d].header = Header(made'[d].file, y[1], y[2], d)
    BY <1>2, <1>4 DEF WrapInv, MadeInv, h
  <2> QED
    BY <1>3, <1>4, <2>1 DEF WrapInv, MadeInv
<1>9. HeadersInv'
  <2>1. made'[c].header = h /\ c \in DOMAIN made'
    BY <1>4
  <2>2. \A d \in DOMAIN headers :
          LET g == headers'[d]
          IN /\ g = [mode |-> g.mode, fingerprint |-> g.fingerprint,
                     kem |-> g.kem, nonce |-> g.nonce, wrapped |-> g.wrapped]
             /\ g.kem \in Kems
             /\ \E e \in DOMAIN made' : Came(g.wrapped, made'[e].header.wrapped)
    BY <1>3, <1>4 DEF WrapInv, HeadersInv
  <2>3. \E e \in DOMAIN made' : Came(headers'[c].wrapped, made'[e].header.wrapped)
    BY <1>3, <2>1 DEF Came
  <2> QED
    BY <1>3, <1>5, <1>6, <2>2, <2>3 DEF HeadersInv
<1> QED
  BY <1>7, <1>8, <1>9 DEF WrapInv

(* A damaged .pub consists of parts.                                       *)
LEMMA DamagePubKeeps ==
  ASSUME WrapInv, NEW p \in Pairs, DamagePub(p)
  PROVE  WrapInv'
<1> DEFINE Typed == pubs' = [q \in Pairs |-> pubs'[q]]
                    /\ \A q \in Pairs : IsPubFile(pubs'[q])
<1>1. UNCHANGED <<keys, headers, made, broken>>
  BY DEF DamagePub
<1>2. pubs = [q \in Pairs |-> pubs[q]] /\ \A q \in Pairs : IsPubFile(pubs[q])
  BY DEF WrapInv, FilesInv
<1>3. Typed
  <2>1. ASSUME NEW part \in DOMAIN pubs[p].body,
               NEW v \in DamagedPublicPart(part, pubs[p].body[part]),
               pubs' = [pubs EXCEPT ![p].body[part] = v]
        PROVE  Typed
    <3>1. PICK a \in Algos :
            /\ DOMAIN pubs[p].body = Parts(a)
            /\ pubs[p].body = [q \in Parts(a) |-> pubs[p].body[q]]
            /\ \A q \in Parts(a) : pubs[p].body[q] \in PublicValues(q)
      BY <1>2 DEF IsPubFile, IsPublicBody
    <3>2. part \in Parts(a) /\ part \in {"x", "m", "n"}
      BY <2>1, <3>1 DEF Parts, Algos
    <3>3. v \in PublicValues(part)
      BY <2>1, <3>1, <3>2, DamagedPart
    <3>4. /\ pubs'[p] = [algo |-> pubs[p].algo,
                         body |-> [pubs[p].body EXCEPT ![part] = v]]
          /\ \A q \in Pairs \ {p} : pubs'[q] = pubs[q]
      BY <1>2, <2>1 DEF IsPubFile
    <3>5. IsPublicBody([pubs[p].body EXCEPT ![part] = v])
      BY <3>1, <3>2, <3>3 DEF IsPublicBody
    <3>6. IsPubFile(pubs'[p])
      BY <1>2, <3>4, <3>5 DEF IsPubFile
    <3> QED
      BY <1>2, <2>1, <3>4, <3>6
  <2>2. ASSUME NEW q \in Pairs \ {p}, pubs' = [pubs EXCEPT ![p] = pubs[q]]
        PROVE  Typed
    BY <1>2, <2>2
  <2>3. ASSUME NEW algo \in Algos, pubs' = [pubs EXCEPT ![p].algo = algo]
        PROVE  Typed
    <3>1. /\ pubs'[p] = [algo |-> algo, body |-> pubs[p].body]
          /\ \A q \in Pairs \ {p} : pubs'[q] = pubs[q]
      BY <1>2, <2>3 DEF IsPubFile
    <3> QED
      BY <1>2, <2>3, <3>1 DEF IsPubFile
  <2> QED
    BY <2>1, <2>2, <2>3 DEF DamagePub
<1>4. FilesInv'
  BY <1>1, <1>2, <1>3 DEF WrapInv, FilesInv
<1> QED
  BY <1>1, <1>4, HeadersAlone DEF WrapInv

(* A damaged .key consists of parts.                                       *)
LEMMA DamageKeyKeeps ==
  ASSUME WrapInv, NEW p \in Pairs, DamageKey(p)
  PROVE  WrapInv'
<1> DEFINE Typed == keys' = [q \in Pairs |-> keys'[q]]
                    /\ \A q \in Pairs : IsKeyFile(keys'[q])
<1>1. UNCHANGED <<pubs, headers, made, broken>>
  BY DEF DamageKey
<1>2. keys = [q \in Pairs |-> keys[q]] /\ \A q \in Pairs : IsKeyFile(keys[q])
  BY DEF WrapInv, FilesInv
<1>3. Typed
  <2>1. ASSUME NEW f, IsKeyFile(f), keys' = [keys EXCEPT ![p] = f]
        PROVE  Typed
    BY <1>2, <2>1
  <2>2. CASE keys' = [keys EXCEPT ![p].whole = FALSE]
    <3> DEFINE k == keys[p]
               g == [k EXCEPT !.whole = FALSE]
    <3>a. /\ k = [field \in KeyFields |-> k[field]]
          /\ k.algo \in Algos /\ IsPrivateBody(k.body)
      BY <1>2 DEF IsKeyFile
    <3>b. /\ g = [field \in KeyFields |-> g[field]]
          /\ g.algo = k.algo /\ g.body = k.body
      BY <3>a DEF KeyFields
    <3>1. IsKeyFile(g)
      BY <3>a, <3>b DEF IsKeyFile
    <3> HIDE DEF g
    <3>2. keys' = [keys EXCEPT ![p] = g]
      BY <1>2, <2>2 DEF g
    <3> QED
      BY <2>1, <3>1, <3>2
  <2>3. ASSUME NEW part \in DOMAIN keys[p].body,
               NEW v \in DamagedPrivatePart(part, keys[p].body[part]),
               keys' = [keys EXCEPT ![p].body[part] = v]
        PROVE  Typed
    <3>1. PICK a \in Algos :
            /\ DOMAIN keys[p].body = Parts(a)
            /\ keys[p].body = [q \in Parts(a) |-> keys[p].body[q]]
            /\ \A q \in Parts(a) : keys[p].body[q] \in PrivateValues(q)
      BY <1>2 DEF IsKeyFile, IsPrivateBody
    <3>2. part \in Parts(a) /\ part \in {"x", "m", "n"}
      BY <2>3, <3>1 DEF Parts, Algos
    <3>3. v \in PrivateValues(part)
      BY <2>3, <3>1, <3>2, DamagedPart
    <3>4. IsPrivateBody([keys[p].body EXCEPT ![part] = v])
      BY <3>1, <3>2, <3>3 DEF IsPrivateBody
    <3>5. IsKeyFile([keys[p] EXCEPT !.body = [keys[p].body EXCEPT ![part] = v]])
      BY <1>2, <3>4 DEF IsKeyFile
    <3>6. keys' = [keys EXCEPT ![p] =
                     [keys[p] EXCEPT !.body = [keys[p].body EXCEPT ![part] = v]]]
      BY <1>2, <2>3 DEF IsKeyFile
    <3> QED
      BY <2>1, <3>5, <3>6
  <2>4. ASSUME NEW q \in Pairs \ {p}, keys' = [keys EXCEPT ![p] = keys[q]]
        PROVE  Typed
    BY <1>2, <2>1, <2>4
  <2>5. ASSUME NEW algo \in Algos, keys' = [keys EXCEPT ![p].algo = algo]
        PROVE  Typed
    <3>1. IsKeyFile([keys[p] EXCEPT !.algo = algo])
      BY <1>2 DEF IsKeyFile
    <3> QED
      BY <1>2, <2>1, <2>5, <3>1
  <2>6. ASSUME NEW how, keys' = [keys EXCEPT ![p].protection = how]
        PROVE  Typed
    <3>1. IsKeyFile([keys[p] EXCEPT !.protection = how])
      BY <1>2 DEF IsKeyFile
    <3> QED
      BY <1>2, <2>1, <2>6, <3>1
  <2> QED
    BY <2>2, <2>3, <2>4, <2>5, <2>6 DEF DamageKey
<1>4. FilesInv'
  BY <1>1, <1>2, <1>3 DEF WrapInv, FilesInv
<1> QED
  BY <1>1, <1>4, HeadersAlone DEF WrapInv

(* A damaged header still has a wrapped key of some container.             *)
LEMMA DamageHeaderKeeps ==
  ASSUME WrapInv, NEW c \in Containers, DamageHeader(c)
  PROVE  WrapInv'
<1> DEFINE Good(h) ==
      /\ h = [mode |-> h.mode, fingerprint |-> h.fingerprint,
              kem |-> h.kem, nonce |-> h.nonce, wrapped |-> h.wrapped]
      /\ h.kem \in Kems
      /\ \E d \in DOMAIN made : Came(h.wrapped, made[d].header.wrapped)
<1>1. UNCHANGED <<pubs, keys, made, broken>> /\ c \in DOMAIN headers
  BY DEF DamageHeader
<1>2. /\ headers = [d \in DOMAIN headers |-> headers[d]]
      /\ \A d \in DOMAIN headers : Good(headers[d])
  BY DEF WrapInv, HeadersInv
<1>3. ASSUME NEW h, Good(h), headers' = [headers EXCEPT ![c] = h]
      PROVE  WrapInv'
  <2>1. /\ DOMAIN headers' = DOMAIN headers
        /\ headers' = [d \in DOMAIN headers |-> headers'[d]]
        /\ \A d \in DOMAIN headers : headers'[d] = IF d = c THEN h ELSE headers[d]
    BY <1>1, <1>2, <1>3
  <2>2. \A d \in DOMAIN headers' : Good(headers'[d])
    BY <1>2, <1>3, <2>1
  <2>3. HeadersInv'
    BY <1>1, <2>1, <2>2 DEF HeadersInv
  <2> QED
    BY <1>1, <2>1, <2>3 DEF WrapInv, MadeInv, FilesInv
<1> DEFINE h == headers[c]
<1>4. Good(h)
  BY <1>1, <1>2
<1>5. ASSUME NEW kem \in DamagedKem(h.kem),
             headers' = [headers EXCEPT ![c].kem = kem]
      PROVE  WrapInv'
  <2>1. kem \in Kems
    BY <1>4, <1>5, DamagedExchange
  <2>2. Good([h EXCEPT !.kem = kem])
    BY <1>4, <2>1
  <2> QED
    BY <1>1, <1>3, <1>5, <2>2
<1>6. ASSUME NEW nonce, headers' = [headers EXCEPT ![c].nonce = nonce]
      PROVE  WrapInv'
  <2>1. Good([h EXCEPT !.nonce = nonce])
    BY <1>4
  <2> QED
    BY <1>1, <1>3, <1>6, <2>1
<1>7. CASE headers' = [headers EXCEPT ![c].wrapped.whole = FALSE]
  <2>1. PICK d \in DOMAIN made : Came(h.wrapped, made[d].header.wrapped)
    BY <1>4
  <2> DEFINE v == made[d].header.wrapped
             w == [h.wrapped EXCEPT !.whole = FALSE]
  <2>2. "whole" \in DOMAIN v
    <3>1. PICK x \in KeyExchange(made[d].file.algo, made[d].file.body, d) :
            made[d].header = Header(made[d].file, x[1], x[2], d)
      BY DEF WrapInv, MadeInv
    <3> QED
      BY <3>1 DEF Header, Wrapped
  <2>3. DOMAIN h.wrapped = DOMAIN v
    BY <2>1 DEF Came
  <2>4. w.whole = FALSE /\ DOMAIN w = DOMAIN v
    BY <2>2, <2>3
  <2> HIDE DEF w
  <2>5. Good([h EXCEPT !.wrapped = w])
    BY <1>4, <2>4 DEF Came
  <2>6. headers' = [headers EXCEPT ![c] = [h EXCEPT !.wrapped = w]]
    BY <1>1, <1>4, <1>7 DEF w
  <2> QED
    BY <1>3, <2>5, <2>6
<1>8. ASSUME NEW mode, headers' = [headers EXCEPT ![c].mode = mode]
      PROVE  WrapInv'
  <2>1. Good([h EXCEPT !.mode = mode])
    BY <1>4
  <2> QED
    BY <1>1, <1>3, <1>8, <2>1
<1>9. ASSUME NEW d \in DOMAIN headers, NEW field \in DOMAIN h,
             headers' = [headers EXCEPT ![c][field] = headers[d][field]]
      PROVE  WrapInv'
  <2> DEFINE g == [h EXCEPT ![field] = headers[d][field]]
  <2>1. field \in {"mode", "fingerprint", "kem", "nonce", "wrapped"}
    BY <1>4
  <2>2. Good(headers[d])
    BY <1>2
  <2>3. /\ g = [mode |-> g.mode, fingerprint |-> g.fingerprint,
                kem |-> g.kem, nonce |-> g.nonce, wrapped |-> g.wrapped]
        /\ g.kem = h.kem \/ g.kem = headers[d].kem
        /\ g.wrapped = h.wrapped \/ g.wrapped = headers[d].wrapped
    BY <1>4, <2>1
  <2> HIDE DEF g
  <2>4. Good(g)
    BY <1>4, <2>2, <2>3
  <2> QED
    BY <1>1, <1>3, <1>9, <2>4 DEF g
<1> QED
  BY <1>5, <1>6, <1>7, <1>8, <1>9 DEF DamageHeader

(* Files and headers are made of what keygen and encrypt have written.     *)
THEOREM WrapInvariant == Spec => []WrapInv
<1>1. WrapInv /\ [Next]_vars => WrapInv'
  <2> SUFFICES ASSUME WrapInv, [Next]_vars
               PROVE  WrapInv'
    OBVIOUS
  <2>1. CASE UNCHANGED vars
    BY <2>1 DEF vars, WrapInv, FilesInv, MadeInv, HeadersInv
  <2> QED
    BY <2>1, EncryptKeeps, DamagePubKeeps, DamageKeyKeeps, DamageHeaderKeeps DEF Next
<1> QED
  BY <1>1, WrapInit, PTL DEF Spec

-----------------------------------------------------------------------------
(* What comes out of a container *)

(* A data key comes out only of what it was put into.                      *)
LEMMA OnlyWrapped == WrapInv => OnlyWrappedUnwraps
<1> SUFFICES ASSUME WrapInv, NEW c \in DOMAIN headers, NEW p \in Pairs,
                    NEW pass \in Passphrases,
                    NEW dek \in ObtainDek(headers[c], keys[p], pass)
             PROVE  /\ headers[c].wrapped = made[dek].header.wrapped
                    /\ headers[c].fingerprint = made[dek].header.fingerprint
                    /\ keys[p].algo # "rsa" =>
                         /\ headers[c].kem = made[dek].header.kem
                         /\ headers[c].nonce = made[dek].header.nonce
  BY DEF OnlyWrappedUnwraps
<1> DEFINE h == headers[c]
           k == keys[p]
           none == [x |-> None, m |-> None]
<1>1. LoadsPrivate(k, pass) /\ Fits(k, h.fingerprint) /\ IsKeyFile(k)
  BY DEF ObtainDek, WrapInv, FilesInv
<1>2. PICK kem, nonce :
        /\ kem \in Kems
        /\ dek \in Unwrap(k.algo, k.body, kem, nonce, h.wrapped, broken)
        /\ \/ h.mode = "rsa" /\ kem = none /\ nonce = None
           \/ kem = h.kem /\ nonce = h.nonce
  <2>1. none \in Kems /\ h.kem \in Kems
    BY DEF Kems, WrapInv, HeadersInv
  <2> QED
    BY <1>1, <2>1 DEF ObtainDek
<1>3. /\ h.wrapped.whole /\ dek = h.wrapped.dek
      /\ h.wrapped.kek \in KeyAgreed(k.algo, k.body, kem, broken)
      /\ k.algo # "rsa" => h.wrapped.nonce = nonce
  BY <1>2 DEF Unwrap
<1>4. PICK d \in DOMAIN made : Came(h.wrapped, made[d].header.wrapped)
  BY DEF WrapInv, HeadersInv
<1>5. PICK x \in KeyExchange(made[d].file.algo, made[d].file.body, d) :
        /\ d \in Containers
        /\ IsPubFile(made[d].file) /\ LoadsPublic(made[d].file)
        /\ made[d].header =
             [mode |-> made[d].file.algo,
              fingerprint |-> Fingerprint(made[d].file.algo, made[d].file.body),
              kem |-> x[1],
              nonce |-> IF made[d].file.algo = "rsa" THEN None ELSE d,
              wrapped |-> [kek |-> x[2], nonce |-> d, dek |-> d, whole |-> TRUE]]
  BY MadeFacts DEF WrapInv
<1>6. /\ h.wrapped.kek = x[2] /\ h.wrapped.dek = d /\ h.wrapped.nonce = d
      /\ h.wrapped = made[d].header.wrapped /\ dek = d
  BY <1>3, <1>4, <1>5 DEF Came
<1>7. /\ k.algo = made[d].file.algo /\ PublicOf(k.body) = made[d].file.body
      /\ k.algo # "rsa" => kem = x[1]
  BY <1>1, <1>2, <1>3, <1>5, <1>6, KekTells
<1>8. h.fingerprint = made[d].header.fingerprint
  BY <1>1, <1>5, <1>7 DEF Fits
<1>9. ASSUME k.algo # "rsa"
      PROVE  h.kem = made[d].header.kem /\ h.nonce = made[d].header.nonce
  <2>1. kem # none
    <3>1. k.algo \in {"x25519", "mlkem", "radix"}
      BY <1>1, <1>9, PrivateBodyFacts DEF Algos
    <3>2. KeyAgreed(k.algo, k.body, none, broken) = {}
      BY <3>1 DEF KeyAgreed
    <3> QED
      BY <1>3, <3>2
  <2>2. kem = h.kem /\ nonce = h.nonce
    BY <1>2, <2>1
  <2> QED
    BY <1>3, <1>5, <1>6, <1>7, <1>9, <2>2
<1> QED
  BY <1>6, <1>8, <1>9

(* The private half of what a container was wrapped for unwraps it.        *)
LEMMA HalfUnwraps ==
  ASSUME WrapInv, NEW c \in DOMAIN headers, headers[c] = made[c].header,
         NEW k, NEW pass, IsKeyFile(k), LoadsPrivate(k, pass),
         Fits(k, headers[c].fingerprint), DecryptsMlKem(k.body)
  PROVE  ObtainDek(headers[c], k, pass) = {c}
<1> DEFINE f == made[c].file
<1>1. PICK x \in KeyExchange(f.algo, f.body, c) :
        /\ c \in Containers
        /\ IsPubFile(f) /\ LoadsPublic(f)
        /\ headers[c] =
             [mode |-> f.algo, fingerprint |-> Fingerprint(f.algo, f.body),
              kem |-> x[1], nonce |-> IF f.algo = "rsa" THEN None ELSE c,
              wrapped |-> [kek |-> x[2], nonce |-> c, dek |-> c, whole |-> TRUE]]
  BY MadeFacts DEF WrapInv, MadeInv
<1>2. k.algo = f.algo /\ PublicOf(k.body) = f.body
  BY <1>1 DEF Fits, Fingerprint
<1>3. x[2] \in KeyAgreed(k.algo, k.body, x[1], broken)
  BY <1>1, <1>2, KekFound
<1>4. ASSUME f.algo = "rsa"
      PROVE  x[1] = [x |-> None, m |-> None]
  BY <1>4 DEF KeyExchange
<1> QED
  BY <1>1, <1>2, <1>3, <1>4 DEF ObtainDek, Unwrap

(* A private key that loads and fits works.                                *)
LEMMA LoadedUnwraps == WrapInv => LoadedKeyUnwraps
BY HalfUnwraps DEF LoadedKeyUnwraps, WrapInv, FilesInv

(* What was encrypted for a whole .pub opens for its pair, and what was    *)
(* encrypted for another does not.                                         *)
LEMMA WholePubOpens == WrapInv => OpensIfPubWhole
<1> SUFFICES ASSUME WrapInv, NEW c \in DOMAIN headers,
                    headers[c] = made[c].header,
                    NEW p, p = made[c].pair, keys[p] = KeyFile(p)
             PROVE  /\ made[c].file = PubFile(p) =>
                         ObtainDek(headers[c], keys[p], PassOf[p]) = {c}
                    /\ made[c].file # PubFile(p) =>
                         ObtainDek(headers[c], keys[p], PassOf[p]) = {}
  BY DEF OpensIfPubWhole
<1>1. p \in Pairs
  BY DEF WrapInv, MadeInv
<1>2. /\ headers[c].fingerprint = Fingerprint(made[c].file.algo, made[c].file.body)
      /\ IsPubFile(made[c].file)
  <2>1. c \in DOMAIN made
    BY DEF WrapInv, MadeInv
  <2>2. PICK x \in KeyExchange(made[c].file.algo, made[c].file.body, c) :
          /\ IsPubFile(made[c].file)
          /\ made[c].header =
               [mode |-> made[c].file.algo,
                fingerprint |-> Fingerprint(made[c].file.algo, made[c].file.body),
                kem |-> x[1],
                nonce |-> IF made[c].file.algo = "rsa" THEN None ELSE c,
                wrapped |-> [kek |-> x[2], nonce |-> c, dek |-> c, whole |-> TRUE]]
    BY <2>1, MadeFacts DEF WrapInv
  <2> QED
    BY <2>2
<1>3. Fingerprint(KeyFile(p).algo, PublicOf(KeyFile(p).body))
        = Fingerprint(PubFile(p).algo, PubFile(p).body)
  BY <1>1, Generated DEF KeyFile, PubFile
<1>4. ASSUME made[c].file = PubFile(p)
      PROVE  ObtainDek(headers[c], keys[p], PassOf[p]) = {c}
  <2>1. Fits(KeyFile(p), headers[c].fingerprint)
    BY <1>2, <1>3, <1>4 DEF Fits
  <2>2. DecryptsMlKem(KeyFile(p).body)
    BY <1>1, Generated DEF KeyFile
  <2> QED
    BY <1>1, <2>1, <2>2, Generated, HalfUnwraps
<1>5. ASSUME made[c].file # PubFile(p)
      PROVE  ObtainDek(headers[c], keys[p], PassOf[p]) = {}
  <2>1. ~Fits(keys[p], headers[c].fingerprint)
    BY <1>2, <1>3, <1>5 DEF Fits, Fingerprint, IsPubFile, PubFile
  <2> QED
    BY <2>1 DEF ObtainDek
<1> QED
  BY <1>4, <1>5

(* Whatever is damaged and if ML-KEM is broken, a data key comes out only  *)
(* of the exchange data, nonce and wrapped key it was put into.            *)
THEOREM OnlyTheWrappedUnwraps == Spec => []OnlyWrappedUnwraps
BY WrapInvariant, OnlyWrapped, PTL

(* A private key that loads and fits unwraps, but for a damage FIPS 203    *)
(* has no check for.                                                       *)
THEOREM LoadedKeysUnwrap == Spec => []LoadedKeyUnwraps
BY WrapInvariant, LoadedUnwraps, PTL

(* What was encrypted for a pair opens with it exactly if the .pub was     *)
(* whole.                                                                  *)
THEOREM OpenIfPubWhole == Spec => []OpensIfPubWhole
BY WrapInvariant, WholePubOpens, PTL

=============================================================================
