----------------------------- MODULE Container ------------------------------
(***************************************************************************)
(* The header of a container and what it takes to open one: the readable   *)
(* preamble, the metadata with the wrapped data key, the version gate, and *)
(* the sealed body that is bound to the header it was written with.        *)
(* Containers are written, read back, altered in storage (also by putting  *)
(* parts of one into another) and opened with one credential or another.   *)
(*                                                                         *)
(* Abstractions.  The data key of a container, its salt or key exchange    *)
(* data and its nonce prefix are fresh, so they are named by the container *)
(* they were drawn for.  A derived key is what it was derived from.  A     *)
(* wrapped key or a body is the set of what opens it: the one thing it was *)
(* sealed with, or nothing once its bytes have changed (ML-KEM's implicit  *)
(* rejection and a low order X25519 point both give a key that opens       *)
(* nothing).  The chunks of the body are module Stream's.                  *)
(***************************************************************************)
EXTENDS Integers

CONSTANTS
  Containers,      \* the containers that are written
  Passwords,
  Keys,            \* key pairs, by fingerprint
  Algo,            \* the algorithm of each
  Garbled,         \* a field that was altered to something meaningless
  MaxAlterations   \* bound: alterations of stored bytes

Credentials == Passwords \union Keys

Ciphers == {"aes", "chacha", "radix-cascade"}

Algos == {"rsa", "x25519", "mlkem", "radix"}

Modes == Algos \union {"password"}

ASSUME ContainerAssumption ==
  /\ Passwords \intersect Keys = {}
  /\ Algo \in [Keys -> Algos]
  /\ Garbled \notin Containers \union Credentials
  /\ MaxAlterations \in Nat

VARIABLES
  stored,      \* the container files
  written,     \* history: what was written, and for whom
  verified,    \* history: the files as they were when they passed verify
  alterations

vars == <<stored, written, verified, alterations>>

Put(f, c, v) == [x \in DOMAIN f \union {c} |-> IF x = c THEN v ELSE f[x]]

-----------------------------------------------------------------------------
(* Keys that wrap keys *)

\* RSA wraps the data key directly, the others derive a key from what the
\* header carries (a salt, an ephemeral key, a ciphertext) and a secret.
Kek(algo, share, secret) ==
  IF algo = "rsa" THEN <<algo, secret>> ELSE <<algo, share, secret>>

ModeOf(credential) ==
  IF credential \in Passwords THEN "password" ELSE Algo[credential]

KekFor(credential, share) == Kek(ModeOf(credential), share, credential)

Wrap(kek, dek) == {[kek |-> kek, dek |-> dek]}

\* The data keys that kek gets out of a header: one, or none.
Unwrap(meta, kek) == {w.dek : w \in {x \in meta.wrapped : x.kek = kek}}

-----------------------------------------------------------------------------
(* The header *)

\* Scheme::cipher for key pairs.
CipherFor(k) == IF Algo[k] = "radix" THEN "radix-cascade" ELSE "aes"

\* Mutant: new containers are all of the first version.
VersionAlwaysOne(cipher) == 1

VersionFor(cipher) == IF cipher = "radix-cascade" THEN 2 ELSE 1

Meta(c, credential, cipher, kek) ==
  [version     |-> VersionFor(cipher),
   cipher      |-> cipher,
   mode        |-> ModeOf(credential),
   fingerprint |-> IF credential \in Passwords THEN Garbled ELSE credential,
   share       |-> c,
   wrapped     |-> Wrap(kek, c),
   prefix      |-> c,
   chunkSize   |-> "CHUNK"]

\* read_header finds the magic behind a preamble that is not too long.  What
\* else the preamble says does not matter.
FindsHeader(f) == f.preamble \in {"own", "edited"}

\* read_header: the JSON parses, the version is known and fits the scheme.
\* (That the JSON has all the fields of its mode is left out: the model lets
\* more headers through than the code does.)
Readable(f) ==
  /\ FindsHeader(f)
  /\ f.text.spelling # "no JSON"
  /\ LET m == f.text.meta
     IN /\ m.version \in {1, 2}
        /\ m.cipher \in Ciphers
        /\ m.mode \in Modes
        /\ (m.cipher = "radix-cascade" \/ m.mode = "radix") <=> (m.version = 2)
        /\ m.chunkSize = "CHUNK"

\* Mutant: what is authenticated is what the header means.
AadOfMeta(text) == [spelling |-> "as written", meta |-> text.meta]

\* aad hashes the bytes of the JSON.
Aad(text) == text

\* The Sealer that is made of a header and a data key.
SealerOf(text, dek) ==
  [cipher |-> text.meta.cipher, dek |-> dek, prefix |-> text.meta.prefix,
   aad |-> Aad(text)]

\* DecReader opens what was sealed by the same Sealer, and nothing else.
BodyOpens(f, dek) == SealerOf(f.text, dek) \in f.body

\* obtain_dek.  A key has to be the one the header names, and unwraps in the
\* way of its own algorithm, whatever the header's mode.
ObtainDek(meta, credential) ==
  IF meta.mode = "password"
    THEN IF credential \in Passwords
           THEN Unwrap(meta, KekFor(credential, meta.share)) ELSE {}
    ELSE IF credential \in Keys /\ meta.fingerprint = credential
           THEN Unwrap(meta, KekFor(credential, meta.share)) ELSE {}

Opens(f, credential) ==
  /\ Readable(f)
  /\ \E dek \in ObtainDek(f.text.meta, credential) : BodyOpens(f, dek)

-----------------------------------------------------------------------------

Init ==
  /\ stored = [c \in {} |-> {}]
  /\ written = [c \in {} |-> {}]
  /\ verified = [c \in {} |-> {}]
  /\ alterations = 0

\* Which ciphers encrypt can be told to use for whom.  Deriving the key from
\* a password may go wrong unnoticed (slip), which is what verify's second
\* derivation is for.
Offered(credential, cipher, slip) ==
  IF credential \in Passwords THEN cipher \in {"aes", "chacha"}
                             ELSE cipher = CipherFor(credential) /\ ~slip

\* write_header and the body.
NewFile(c, credential, cipher, slip) ==
  LET kek  == Kek(ModeOf(credential), c, IF slip THEN Garbled ELSE credential)
      text == [spelling |-> "as written",
               meta |-> Meta(c, credential, cipher, kek)]
  IN [preamble |-> "own", text |-> text, body |-> {SealerOf(text, c)}]

\* encrypt writes a container.
Encrypt(c, credential, cipher, slip) ==
  /\ c \notin DOMAIN stored
  /\ Offered(credential, cipher, slip)
  /\ LET file == NewFile(c, credential, cipher, slip)
     IN /\ stored' = Put(stored, c, file)
        /\ written' = Put(written, c,
                          [file |-> file, owner |-> credential, slip |-> slip])
  /\ UNCHANGED <<verified, alterations>>

\* Mutant: the read-back uses the data key at hand.
DekAtHand(c, meta) == {c}

\* verify: the data key is the one at hand, but a password container has to
\* give it away for the password again.
DekForVerify(c, meta) ==
  IF meta.mode = "password" /\ written[c].owner \in Passwords
    THEN ObtainDek(meta, written[c].owner) \intersect {c} ELSE {c}

\* verify passes, what is stored of c opens.
Verify(c) ==
  /\ c \in DOMAIN stored
  /\ LET f == stored[c]
     IN /\ Readable(f)
        /\ \E dek \in DekForVerify(c, f.text.meta) : BodyOpens(f, dek)
        /\ verified' = Put(verified, c, f)
  /\ UNCHANGED <<stored, written, alterations>>

\* What can become of a header t when u is at hand: a field is garbled or
\* taken from u, it claims another version, the JSON is written differently,
\* the whole of it is u or cannot be read.
AlteredText(t, u) ==
  {t, u}
    \union {[t EXCEPT !.spelling = how] : how \in {"otherwise", "no JSON"}}
    \union {[t EXCEPT !.meta[field] = Garbled] :
              field \in DOMAIN t.meta \ {"wrapped"}}
    \union {[t EXCEPT !.meta.wrapped = {}]}
    \union {[t EXCEPT !.meta[field] = u.meta[field]] : field \in DOMAIN t.meta}
    \union {[t EXCEPT !.meta.version = v] : v \in 1 .. 3}

\* Bytes of a stored container change, also to those of another one.
Alter(c) ==
  /\ alterations < MaxAlterations
  /\ c \in DOMAIN stored
  /\ \E d \in DOMAIN stored :
       LET f == stored[c]
           g == stored[d]
       IN \E text \in AlteredText(f.text, g.text),
            body \in {f.body, g.body, {}},
            preamble \in {f.preamble, "edited", "overlong", "holds the magic"} :
            stored' = [stored EXCEPT ![c] =
              [preamble |-> preamble, text |-> text, body |-> body]]
  /\ alterations' = alterations + 1
  /\ UNCHANGED <<written, verified>>

Next ==
  \E c \in Containers :
    \/ \E credential \in Credentials, cipher \in Ciphers, slip \in BOOLEAN :
         Encrypt(c, credential, cipher, slip)
    \/ Verify(c)
    \/ Alter(c)

Spec == Init /\ [][Next]_vars

-----------------------------------------------------------------------------
(* Properties *)

(* README: "editing the header all fail to authenticate".  Whatever opens, *)
(* with whatever credential, is a container as it was written, header and  *)
(* body, and the credential is the one it was written for.                 *)
OnlyWrittenOpens ==
  \A c \in DOMAIN stored, credential \in Credentials :
    Opens(stored[c], credential) =>
      \E d \in DOMAIN written :
        /\ stored[c].text = written[d].file.text
        /\ stored[c].body = written[d].file.body
        /\ credential = written[d].owner

(* Whatever scheme it was written with, a container nobody altered passes  *)
(* the version gate and opens for the credential it was written for.       *)
WrittenOpens ==
  \A c \in DOMAIN stored :
    stored[c] = written[c].file /\ ~written[c].slip =>
      Opens(stored[c], written[c].owner)

(* verify: "For password containers the key is re-derived from the stored  *)
(* salt, so a broken password path shows up here and not weeks later."     *)
(* What has passed verify opens for its owner, also when the password went *)
(* wrong or the bytes changed before they were read back.                  *)
VerifiedOpens ==
  \A c \in DOMAIN verified : Opens(verified[c], written[c].owner)

=============================================================================
