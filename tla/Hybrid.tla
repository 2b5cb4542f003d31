------------------------------- MODULE Hybrid -------------------------------
(***************************************************************************)
(* X25519, ML-KEM-768, and Radix-Hybrid, which is made of both.            *)
(*                                                                         *)
(* Abstractions.  What is drawn at random is named by whom it was drawn    *)
(* for, and a derived secret is what it was derived from.  X25519 ignores  *)
(* the top bit of a point and the bits of a scalar that are clamped; a low *)
(* order point gives nothing but zero.  ML-KEM rejects implicitly: where   *)
(* it does not give the secret that was encapsulated it gives one of no    *)
(* use.  It may be broken, and then gives that secret for another          *)
(* ciphertext as well.                                                     *)
(***************************************************************************)
EXTENDS Integers

CONSTANTS
  None,      \* no such part
  LowOrder   \* a point of low order

-----------------------------------------------------------------------------
(* X25519 *)

Scalar(owner) == [owner |-> owner, clampedBits |-> FALSE]
Point(owner)  == [owner |-> owner, topBit |-> FALSE]

PointOf(scalar) == Point(scalar.owner)

Zero == {}

DiffieHellman(scalar, point) ==
  IF point.owner = LowOrder THEN Zero ELSE {scalar.owner, point.owner}

Contributory(secret) == secret # Zero

-----------------------------------------------------------------------------
(* ML-KEM-768 *)

Ek(owner) == [owner |-> owner, belowQ |-> TRUE]

\* dk_PKE, the encapsulation key, its hash, and what rejections are made of.
Dk(owner) == [s |-> owner, ek |-> Ek(owner), hash |-> Ek(owner), z |-> owner]

CheckEncapsulationKey(ek) == ek.belowQ

\* Mutant: the hash is not compared.
CheckEmbeddedKey(dk) == CheckEncapsulationKey(dk.ek)

CheckDecapsulationKey(dk) == CheckEncapsulationKey(dk.ek) /\ dk.hash = dk.ek

Ciphertext(ek, coins) == [ek |-> ek, coins |-> coins, whole |-> TRUE]

MlSecret(ct) == [ct |-> [ct EXCEPT !.whole = TRUE], rejected |-> None]

Decapsulated(dk, ct, broken) ==
  IF /\ dk.ek = Ek(dk.s) /\ dk.hash = dk.ek
     /\ ct.ek = dk.ek
     /\ ct.whole \/ broken
    THEN MlSecret(ct) ELSE [ct |-> ct, rejected |-> dk.z]

-----------------------------------------------------------------------------
(* Radix-Hybrid: a public key and a ciphertext have an X25519 part x and   *)
(* an ML-KEM part m.                                                       *)

\* Mutant: the ephemeral key is left out of the transcript.
CombineWithoutEph(secretM, secretX, ct, pk) ==
  [label |-> "radix/hybrid/v1", ikm |-> <<secretM, secretX>>,
   info |-> <<ct.m, None, pk.x, pk.m>>]

Combine(secretM, secretX, ct, pk) ==
  [label |-> "radix/hybrid/v1", ikm |-> <<secretM, secretX>>,
   info |-> <<ct.m, ct.x, pk.x, pk.m>>]

\* encapsulate and finish: one ciphertext and its secret, or none.
Encapsulate(pk, coins) ==
  LET secretX == DiffieHellman(Scalar(coins), pk.x)
      ct      == [x |-> Point(coins), m |-> Ciphertext(pk.m, coins)]
  IN IF Contributory(secretX)
       THEN {<<ct, Combine(MlSecret(ct.m), secretX, ct, pk)>>} ELSE {}

\* decapsulate, with the public key that goes with the secret one.
Decapsulate(sk, pk, ct, broken) ==
  LET secretX == DiffieHellman(sk.x, ct.x)
  IN IF Contributory(secretX)
       THEN {Combine(Decapsulated(sk.m, ct.m, broken), secretX, ct, pk)} ELSE {}

=============================================================================
