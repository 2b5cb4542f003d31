------------------------------- MODULE Duplex -------------------------------
(***************************************************************************)
(* Radix-AEAD: a keyed duplex over the permutation Radix-P.                *)
(*                                                                         *)
(* Scale.  The state is its four rows of four words; two of them are the   *)
(* rate, two the capacity.  A key is two rows, a nonce and a tag are one.  *)
(* Data comes in pieces of a row where the code has bytes, so that a block *)
(* is two pieces, a rest none or one, and the padding is a piece as well.  *)
(*                                                                         *)
(* Abstractions.  A row is the set of what was added up in it, so adding   *)
(* is the symmetric difference.  The permutation is a parameter.           *)
(***************************************************************************)
EXTENDS Integers, Sequences

CONSTANT Permute(_)

Rows == 1 .. 4
Rate == 2

Xor(a, b) == (a \ b) \union (b \ a)

Padding   == {<<"padding", <<>>, 0>>}
Separator == {<<"separator", <<>>, 0>>}
IV        == {<<"iv", <<>>, 0>>}

\* What chunks_exact makes of data: whole blocks, and a rest that may be
\* empty but is always there.
Chunked(blocks) ==
  /\ Len(blocks) \in Nat \ {0}
  /\ \A i \in 1 .. Len(blocks) - 1 : Len(blocks[i]) = Rate
  /\ Len(blocks[Len(blocks)]) \in 0 .. Rate - 1

-----------------------------------------------------------------------------

KeyIntoCapacity(s, key) ==
  [s EXCEPT ![3] = Xor(@, key[1]), ![4] = Xor(@, key[2])]

NewDuplex(key, nonce) ==
  KeyIntoCapacity(Permute(<<key[1], key[2], nonce, IV>>), key)

\* Mutant: the rest is not padded.
Unpadded(s, length) == s

\* 10* padding behind the rest.
Pad(s, length) == [s EXCEPT ![length + 1] = Xor(@, Padding)]

AddBlock(s, block) ==
  [i \in Rows |-> IF i <= Len(block) THEN Xor(s[i], block[i]) ELSE s[i]]

PutBlock(s, block) ==
  [i \in Rows |-> IF i <= Len(block) THEN block[i] ELSE s[i]]

\* absorb_ad, one block or the rest.
Absorb(s, block, isRest) ==
  Permute(IF isRest THEN Pad(AddBlock(s, block), Len(block))
                    ELSE AddBlock(s, block))

\* Mutant: nothing tells associated data from a message.
Unseparated(s) == s

\* The end of absorb_ad, always.
Separate(s) == [s EXCEPT ![4] = Xor(@, Separator)]

\* What encrypt and decrypt put out for a block.
Out(s, block) == [i \in 1 .. Len(block) |-> Xor(s[i], block[i])]

\* What they go on with: the rate holds the ciphertext, which encrypt gets by
\* adding the message and decrypt by writing it over.
AfterBlock(s, isRest, length) == IF isRest THEN Pad(s, length) ELSE Permute(s)

Encrypted(s, block, isRest) == AfterBlock(AddBlock(s, block), isRest, Len(block))

\* Mutant: the ciphertext is added as well.
DecryptedAdding(s, block, isRest) ==
  AfterBlock(AddBlock(s, block), isRest, Len(block))

Decrypted(s, block, isRest) == AfterBlock(PutBlock(s, block), isRest, Len(block))

Tag(s, key) == Xor(Permute(KeyIntoCapacity(s, key))[4], key[2])

=============================================================================
