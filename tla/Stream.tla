------------------------------- MODULE Stream -------------------------------
(***************************************************************************)
(* The chunked body of a container: EncWriter cuts what it is given into   *)
(* chunks and seals each under a nonce made of a per-file prefix, a 32 bit *)
(* counter and a last-chunk flag; DecReader reads the stored bytes back,   *)
(* opens one chunk at a time and hands the plaintext on.                   *)
(*                                                                         *)
(* Abstractions.  A plaintext byte is its position in the plaintext, so a  *)
(* run of bytes is [from, len].  A sealed chunk is a record of what went   *)
(* into it; its bytes are units that carry the chunk and their offset, and *)
(* it opens when all its units are there, in order, under the nonce they   *)
(* were sealed with.  That is what the AEADs are trusted for.  Damage may  *)
(* reorder, drop, repeat or garble units; it cannot seal a chunk.          *)
(***************************************************************************)
EXTENDS Integers, Sequences

CONSTANTS
  Chunk,       \* CHUNK, the plaintext bytes of a full chunk
  Overhead,    \* what sealing adds to a chunk (TAG, or cascade::OVERHEAD)
  CtrMod,      \* the counter is a u32: 2^32
  MaxLen,      \* bound: the plaintext has at most this many bytes
  MaxIo,       \* bound: the largest single write or read of a caller
  Damaged(_)   \* what the stored bytes may have become when they are read

ASSUME StreamAssumption ==
  /\ Chunk \in Nat \ {0}
  /\ Overhead \in Nat \ {0}
  /\ CtrMod \in Nat \ {0}
  /\ MaxLen \in Nat
  /\ MaxIo \in Nat \ {0}

VARIABLES
  status,      \* which side is at work and how it ended
  taken,       \* EncWriter: bytes accepted so far
  bufLen,      \* EncWriter: bytes of buf, always the last ones accepted
  wctr,        \* the writing Sealer's counter
  sealed,      \* history: the chunks sealed, in order
  file,        \* the stored bytes, a sequence of units
  damaged,     \* history: the stored bytes were touched
  rpos,        \* DecReader: bytes of the file consumed
  rctr,        \* the reading Sealer's counter
  plain,       \* DecReader: the plaintext of the chunk opened last
  pos,         \* DecReader: how much of plain was handed on
  done,        \* DecReader: the final chunk was opened
  delivered    \* history: the bytes handed to the caller

writerVars == <<taken, bufLen, wctr, sealed>>
readerVars == <<rpos, rctr, plain, pos, done, delivered>>
vars == <<status, writerVars, file, damaged, readerVars>>

-----------------------------------------------------------------------------
(* Chunks, their bytes and their nonces *)

SealedChunk == Chunk + Overhead

Chunks == [ctr : 0 .. CtrMod - 1, last : BOOLEAN, from : 0 .. MaxLen,
           len : 0 .. Chunk]

\* A byte that belongs to no sealed chunk.
Garbage == [at |-> 0]

SealedBytes(c) == [i \in 1 .. (c.len + Overhead) |-> [chunk |-> c, at |-> i]]

\* The prefix is the same for every chunk of a file.
NonceOf(c) == <<c.ctr, c.last>>

\* Mutant: the counter outgrows its 32 bits.
BumpUnchecked(c) == c + 1

\* counter.wrapping_add(1)
Bump(c) == IF c = CtrMod - 1 THEN 0 ELSE c + 1

\* Mutant: the chunk's place in the file is not authenticated.
OpensAnywhere(c, ct, k, last) == ct = SealedBytes(c)

\* ct is the chunk c, sealed under the nonce the reader expects.
OpensAs(c, ct, k, last) ==
  /\ ct = SealedBytes(c)
  /\ NonceOf(c) = <<k, last>>

\* Mutant: the counter is not moved on.
SealNoBump(len, last) ==
  LET c == [ctr |-> wctr, last |-> last, from |-> taken - bufLen, len |-> len]
  IN /\ sealed' = Append(sealed, c)
     /\ file' = file \o SealedBytes(c)
     /\ wctr' = wctr

\* Seals the first len buffered bytes and writes them behind the others.
Seal(len, last) ==
  LET c == [ctr |-> wctr, last |-> last, from |-> taken - bufLen, len |-> len]
  IN /\ sealed' = Append(sealed, c)
     /\ file' = file \o SealedBytes(c)
     /\ wctr' = Bump(wctr)

-----------------------------------------------------------------------------
(* The writer *)

Init ==
  /\ status = "writing"
  /\ taken = 0 /\ bufLen = 0 /\ wctr = 0 /\ sealed = <<>>
  /\ file = <<>> /\ damaged = FALSE
  /\ rpos = 0 /\ rctr = 0
  /\ plain = [from |-> 0, len |-> 0] /\ pos = 0
  /\ done = FALSE /\ delivered = <<>>

\* write: the bytes are appended to buf; flush_full, which follows in the
\* same call, runs until less than a chunk is left.
Write(n) ==
  /\ status = "writing"
  /\ bufLen < Chunk
  /\ taken + n <= MaxLen
  /\ taken' = taken + n
  /\ bufLen' = bufLen + n
  /\ UNCHANGED <<status, wctr, sealed, file, damaged, readerVars>>

\* One turn of flush_full's loop.
FlushFull ==
  /\ status = "writing"
  /\ bufLen >= Chunk
  /\ Seal(Chunk, FALSE)
  /\ bufLen' = bufLen - Chunk
  /\ UNCHANGED <<status, taken, damaged, readerVars>>

\* Mutant: what is left in buf is dropped.
FinishWithoutTail ==
  /\ status = "writing"
  /\ bufLen < Chunk
  /\ Seal(0, TRUE)
  /\ bufLen' = 0
  /\ status' = "stored"
  /\ UNCHANGED <<taken, damaged, readerVars>>

\* finish: what is left, possibly nothing, is sealed as the final chunk.
Finish ==
  /\ status = "writing"
  /\ bufLen < Chunk
  /\ Seal(bufLen, TRUE)
  /\ bufLen' = 0
  /\ status' = "stored"
  /\ UNCHANGED <<taken, damaged, readerVars>>

-----------------------------------------------------------------------------
(* The stored bytes.  They may change once, before or while they are read.  *)

Damage ==
  /\ status \in {"stored", "reading", "checking"}
  /\ ~damaged
  /\ \E f \in Damaged(file) \ {file} :
       /\ f \in Seq({file[i] : i \in 1 .. Len(file)} \union {Garbage})
       /\ file' = f
  /\ damaged' = TRUE
  /\ UNCHANGED <<status, writerVars, readerVars>>

-----------------------------------------------------------------------------
(* The reader *)

StartReading ==
  /\ status = "stored"
  /\ status' = "reading"
  /\ UNCHANGED <<writerVars, file, damaged, readerVars>>

\* What read_upto gets: a whole sealed chunk, or all that is left.
Available == IF Len(file) > rpos THEN Len(file) - rpos ELSE 0
NextPiece ==
  SubSeq(file, rpos + 1,
         rpos + (IF Available < SealedChunk THEN Available ELSE SealedChunk))

\* Mutant: off by one, a full chunk counts as the last.
IsLastWhenFull(n) == n <= SealedChunk

\* A piece shorter than a full chunk must be the final one.
IsLast(n) == n < SealedChunk

\* read's loop calls fill when the opened chunk is used up and it was not the
\* final one.
Hungry == status = "reading" /\ pos = plain.len /\ ~done

\* Mutant: the end of the file is taken for the end of the plaintext.
EndsEarlyUnnoticed ==
  /\ Hungry
  /\ Available = 0
  /\ status' = "eof"
  /\ UNCHANGED <<writerVars, file, damaged, readerVars>>

\* Mutant: an empty read is tried again.
EndsEarlyRetried ==
  /\ Hungry
  /\ Available = 0
  /\ UNCHANGED vars

\* fill: nothing left although the final chunk was not seen.
EndsEarly ==
  /\ Hungry
  /\ Available = 0
  /\ status' = "error"
  /\ UNCHANGED <<writerVars, file, damaged, readerVars>>

\* fill: the piece opens.  After the final chunk one more byte is asked for.
OpenChunk ==
  /\ Hungry
  /\ Available > 0
  /\ LET ct   == NextPiece
         last == IsLast(Len(ct))
     IN \E i \in 1 .. Len(sealed) :
          /\ OpensAs(sealed[i], ct, rctr, last)
          /\ plain' = [from |-> sealed[i].from, len |-> sealed[i].len]
          /\ rpos' = rpos + Len(ct)
          /\ done' = last
          /\ status' = IF last THEN "checking" ELSE "reading"
  /\ rctr' = Bump(rctr)
  /\ pos' = 0
  /\ UNCHANGED <<writerVars, file, damaged, delivered>>

\* fill: the piece does not authenticate.
RejectChunk ==
  /\ Hungry
  /\ Available > 0
  /\ LET ct == NextPiece
     IN ~ \E i \in 1 .. Len(sealed) :
            OpensAs(sealed[i], ct, rctr, IsLast(Len(ct)))
  /\ rpos' = rpos + Len(NextPiece)
  /\ rctr' = Bump(rctr)
  /\ status' = "error"
  /\ UNCHANGED <<writerVars, file, damaged, plain, pos, done, delivered>>

\* fill: the read behind the final chunk.
CheckTrailing ==
  /\ status = "checking"
  /\ status' = IF Available = 0 THEN "reading" ELSE "error"
  /\ UNCHANGED <<writerVars, file, damaged, readerVars>>

\* read: at most n bytes of the opened chunk are handed on.
Deliver(n) ==
  /\ status = "reading"
  /\ pos < plain.len
  /\ LET m == IF n < plain.len - pos THEN n ELSE plain.len - pos
     IN /\ delivered' = delivered
                          \o [i \in 1 .. m |-> plain.from + pos + i - 1]
        /\ pos' = pos + m
  /\ UNCHANGED <<status, writerVars, file, damaged, rpos, rctr, plain, done>>

\* read: Ok(0), the end of the plaintext.
Eof ==
  /\ status = "reading"
  /\ pos = plain.len
  /\ done
  /\ status' = "eof"
  /\ UNCHANGED <<writerVars, file, damaged, readerVars>>

Read == \/ EndsEarly \/ OpenChunk \/ RejectChunk \/ CheckTrailing \/ Eof
        \/ \E n \in 1 .. MaxIo : Deliver(n)

Next ==
  \/ \E n \in 1 .. MaxIo : Write(n)
  \/ FlushFull \/ Finish \/ Damage \/ StartReading
  \/ Read

Ended == status \in {"eof", "error"}

\* The callers (io::copy, tar's reader, verify's comparison) read until
\* Ok(0) or an error: nothing stops them in between.
Fairness == WF_vars(Read)

Spec == Init /\ [][Next]_vars /\ Fairness

-----------------------------------------------------------------------------
(* Properties *)

Units == [chunk : Chunks, at : 1 .. SealedChunk] \union {Garbage}

(* Every variable has its type; the counters stay within 32 bits and the   *)
(* reader never hands on more of a chunk than it opened.                   *)
TypeOK ==
  /\ status \in {"writing", "stored", "reading", "checking", "eof", "error"}
  /\ taken \in 0 .. MaxLen
  /\ bufLen \in 0 .. taken
  /\ wctr \in 0 .. CtrMod - 1
  /\ sealed \in Seq(Chunks)
  /\ file \in Seq(Units)
  /\ damaged \in BOOLEAN
  /\ rpos \in Nat
  /\ rctr \in 0 .. CtrMod - 1
  /\ plain \in [from : 0 .. MaxLen, len : 0 .. Chunk]
  /\ pos \in 0 .. plain.len
  /\ done \in BOOLEAN
  /\ delivered \in Seq(Nat)

(* README: "Each chunk gets its own nonce".  No two chunks of a file are   *)
(* sealed under one nonce, as long as there are not more chunks than the   *)
(* counter has values: Sealer::seal wraps it and goes on.                  *)
NoncesDistinct ==
  Len(sealed) <= CtrMod =>
    \A i, j \in 1 .. Len(sealed) :
      i # j => NonceOf(sealed[i]) # NonceOf(sealed[j])

(* Whatever happened to the stored bytes, DecReader hands on the bytes     *)
(* that were written, from the first one, in order, none left out or       *)
(* repeated: a chunk out of place never opens.                             *)
DeliveredIsPrefix ==
  Len(sealed) <= CtrMod =>
    /\ Len(delivered) <= taken
    /\ \A i \in 1 .. Len(delivered) : delivered[i] = i - 1

(* DecReader reports the end of the plaintext only behind the last byte    *)
(* EncWriter was given: a container cut short never passes for whole.      *)
EofMeansComplete ==
  (Len(sealed) <= CtrMod /\ status = "eof") => Len(delivered) = taken

(* A container nothing happened to never fails to open, however its        *)
(* plaintext falls on the chunk boundary.                                  *)
IntactReadable == ~damaged => status # "error"

(* A reader that goes on asking reaches the end or an error: neither a     *)
(* short file nor an empty final chunk leaves read's loop turning.         *)
ReaderEnds == (status = "reading") ~> Ended

(* The stream implements the pipe of module Pipe: what sits in buf and in  *)
(* the stored chunks is invisible, a caller sees bytes go in and a prefix, *)
(* or all, or a failure that damage explains, come out.                    *)
PipeView == INSTANCE Pipe WITH
  Sizes <- 0 .. MaxIo,
  sent <- taken,
  closed <- status # "writing",
  intact <- ~damaged,
  got <- delivered,
  outcome <- CASE status = "eof"   -> "complete"
               [] status = "error" -> "broken"
               [] OTHER            -> "open"

ImplementsPipe == PipeView!Spec

-----------------------------------------------------------------------------
(* The inductive invariant: the chain of chunks, the reader's place in it *)

\* Where the plaintext of the i-th chunk of s ends.
EndOf(s, i) == IF i = 0 THEN 0 ELSE s[i].from + s[i].len

(* What has been sealed: the chunks continue one another, they are         *)
(* numbered from 0 until the counter wraps, and the final one, alone, is   *)
(* flagged.                                                                *)
ChainInv ==
  /\ taken - bufLen = EndOf(sealed, Len(sealed))
  /\ \A i \in 1 .. Len(sealed) : sealed[i].from = EndOf(sealed, i - 1)
  /\ \A i \in 1 .. Len(sealed) : EndOf(sealed, i) <= taken
  /\ Len(sealed) < CtrMod => wctr = Len(sealed)
  /\ Len(sealed) <= CtrMod =>
       \A i \in 1 .. Len(sealed) : sealed[i].ctr = i - 1

FlagInv ==
  /\ status = "writing" =>
       \A i \in 1 .. Len(sealed) : sealed[i].last = FALSE
  /\ status # "writing" =>
       /\ bufLen = 0
       /\ Len(sealed) > 0
       /\ \A i \in 1 .. Len(sealed) : sealed[i].last = (i = Len(sealed))

(* Where the reader is: the bytes handed on are the positions below        *)
(* plain.from + pos, and the chunk to open next is the one that goes on    *)
(* where plain ends.                                                       *)
PlaceInv ==
  Len(sealed) <= CtrMod =>
    /\ Len(delivered) = plain.from + pos
    /\ plain.from + plain.len <= taken
    /\ \A i \in 1 .. Len(delivered) : delivered[i] = i - 1
    /\ (status # "error" /\ ~done) =>
         plain.from + plain.len = EndOf(sealed, rctr)
    /\ (status # "error" /\ ~done /\ status \notin {"writing", "stored"}) =>
         rctr < Len(sealed)
    /\ done => plain.from + plain.len = taken

StatusInv ==
  /\ status \in {"writing", "stored"} =>
       /\ rctr = 0 /\ plain = [from |-> 0, len |-> 0] /\ pos = 0
       /\ done = FALSE /\ delivered = <<>>
  /\ status = "checking" => done
  /\ status = "eof" => (done /\ pos = plain.len)

(* Inductive: with it every step keeps the properties above.              *)
StreamInv == TypeOK /\ ChainInv /\ FlagInv /\ PlaceInv /\ StatusInv

=============================================================================
