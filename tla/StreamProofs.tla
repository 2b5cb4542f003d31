---------------------------- MODULE StreamProofs ----------------------------
(***************************************************************************)
(* Proofs about the chunked stream, for every chunk size, overhead,        *)
(* counter width, plaintext length and damage.                             *)
(***************************************************************************)
EXTENDS Stream, SequenceTheorems, TLAPS

-----------------------------------------------------------------------------
(* Types *)

(* What a chunk's bytes are, in the terms the file is typed with.          *)
LEMMA SealedBytesType ==
  ASSUME NEW c \in Chunks
  PROVE  SealedBytes(c) \in Seq(Units)
<1>1. c.len \in Nat /\ c.len + Overhead \in Nat /\ c.len + Overhead <= SealedChunk
  BY StreamAssumption DEF Chunks, SealedChunk
<1>2. \A i \in 1 .. (c.len + Overhead) : [chunk |-> c, at |-> i] \in Units
  BY <1>1, StreamAssumption DEF Units, SealedChunk
<1> QED
  BY <1>1, <1>2 DEF SealedBytes

(* wrapping_add stays in the counter's range.                              *)
LEMMA BumpType ==
  ASSUME NEW k \in 0 .. CtrMod - 1
  PROVE  Bump(k) \in 0 .. CtrMod - 1
BY StreamAssumption DEF Bump

(* Sealing keeps the writer's half of the types.                           *)
LEMMA SealType ==
  ASSUME TypeOK, NEW len \in 0 .. Chunk, NEW last \in BOOLEAN, Seal(len, last)
  PROVE  /\ wctr' \in 0 .. CtrMod - 1
         /\ sealed' \in Seq(Chunks)
         /\ file' \in Seq(Units)
<1> DEFINE c == [ctr |-> wctr, last |-> last, from |-> taken - bufLen,
                 len |-> len]
<1>1. c \in Chunks
  BY StreamAssumption DEF TypeOK, Chunks
<1>2. SealedBytes(c) \in Seq(Units)
  BY <1>1, SealedBytesType
<1>3. /\ sealed' = Append(sealed, c)
      /\ file' = file \o SealedBytes(c)
      /\ wctr' = Bump(wctr)
  BY DEF Seal
<1>4. sealed \in Seq(Chunks) /\ file \in Seq(Units) /\ wctr \in 0 .. CtrMod - 1
  BY DEF TypeOK
<1> HIDE DEF c
<1> QED
  BY <1>1, <1>2, <1>3, <1>4, BumpType

(* What read_upto returns is a piece of the file no longer than a chunk.   *)
LEMMA NextPieceLength ==
  ASSUME TypeOK, Available > 0
  PROVE  Len(NextPiece) \in 1 .. SealedChunk
<1>1. /\ Len(file) \in Nat /\ rpos \in Nat /\ SealedChunk \in Nat \ {0}
  BY StreamAssumption DEF TypeOK, SealedChunk
<1>2. Available = Len(file) - rpos
  BY <1>1 DEF Available
<1> DEFINE n == IF Available < SealedChunk THEN Available ELSE SealedChunk
<1>3. n \in 1 .. SealedChunk /\ rpos + n <= Len(file)
  BY <1>1, <1>2
<1> HIDE DEF n
<1>4. NextPiece = SubSeq(file, rpos + 1, rpos + n)
  BY DEF NextPiece, n
<1>5. Len(SubSeq(file, rpos + 1, rpos + n)) = n
  BY <1>1, <1>3 DEF TypeOK
<1> QED
  BY <1>3, <1>4, <1>5

(* Handing bytes on keeps the reader's types.                              *)
LEMMA DeliverType ==
  ASSUME TypeOK, NEW n \in 1 .. MaxIo, Deliver(n)
  PROVE  TypeOK'
<1> DEFINE m == IF n < plain.len - pos THEN n ELSE plain.len - pos
           more == [i \in 1 .. m |-> plain.from + pos + i - 1]
<1>1. plain.from \in Nat /\ plain.len \in Nat /\ pos \in Nat /\ m \in Nat
      /\ pos + m \in 0 .. plain.len
  BY StreamAssumption DEF TypeOK, Deliver
<1>2. more \in Seq(Nat)
  <2>1. \A i \in 1 .. m : plain.from + pos + i - 1 \in Nat
    BY <1>1
  <2> HIDE DEF m
  <2> QED  BY <1>1, <2>1
<1>3. delivered' = delivered \o more /\ pos' = pos + m
  BY DEF Deliver
<1>4. delivered' \in Seq(Nat)
  <2> HIDE DEF more
  <2> QED  BY <1>2, <1>3 DEF TypeOK
<1>5. UNCHANGED <<status, writerVars, file, damaged, rpos, rctr, plain, done>>
  BY DEF Deliver
<1> HIDE DEF m, more
<1> QED
  BY <1>1, <1>3, <1>4, <1>5 DEF TypeOK, writerVars

(* The initial state is well typed.                                        *)
LEMMA InitType == Init => TypeOK
<1> SUFFICES ASSUME Init PROVE TypeOK
  OBVIOUS
<1>1. /\ sealed \in Seq(Chunks) /\ file \in Seq(Units)
      /\ delivered \in Seq(Nat)
  BY DEF Init
<1>2. plain \in [from : 0 .. MaxLen, len : 0 .. Chunk]
  BY StreamAssumption DEF Init
<1>3. pos \in 0 .. plain.len
  BY DEF Init
<1>4. /\ taken \in 0 .. MaxLen /\ bufLen \in 0 .. taken
      /\ wctr \in 0 .. CtrMod - 1 /\ rctr \in 0 .. CtrMod - 1
      /\ rpos \in Nat
  BY StreamAssumption DEF Init
<1> QED
  BY <1>1, <1>2, <1>3, <1>4 DEF Init, TypeOK

(* Every step keeps the types.                                             *)
LEMMA NextType == TypeOK /\ [Next]_vars => TypeOK'
<1> SUFFICES ASSUME TypeOK, [Next]_vars PROVE TypeOK'
  OBVIOUS
<1> USE StreamAssumption
<1>1. ASSUME NEW n \in 1 .. MaxIo, Write(n) PROVE TypeOK'
  BY <1>1 DEF Write, TypeOK, readerVars
<1>2. CASE FlushFull
  <2>0. Chunk \in 0 .. Chunk
    OBVIOUS
  <2>1. Seal(Chunk, FALSE)
    BY <1>2 DEF FlushFull
  <2>2. bufLen' \in 0 .. taken' /\ taken' = taken
    BY <1>2 DEF FlushFull, TypeOK
  <2>3. /\ wctr' \in 0 .. CtrMod - 1 /\ sealed' \in Seq(Chunks)
        /\ file' \in Seq(Units)
    BY <2>0, <2>1, SealType
  <2> QED
    BY <1>2, <2>2, <2>3 DEF FlushFull, TypeOK, readerVars
<1>3. CASE Finish
  <2>1. bufLen \in 0 .. Chunk
    BY <1>3 DEF Finish, TypeOK
  <2>2. Seal(bufLen, TRUE)
    BY <1>3 DEF Finish
  <2>3. /\ wctr' \in 0 .. CtrMod - 1 /\ sealed' \in Seq(Chunks)
        /\ file' \in Seq(Units)
    BY <2>1, <2>2, SealType
  <2>4. bufLen' \in 0 .. taken' /\ taken' = taken
    BY <1>3 DEF Finish, TypeOK
  <2> QED
    BY <1>3, <2>3, <2>4 DEF Finish, TypeOK, readerVars
<1>4. CASE Damage
  <2>1. file' \in Seq({file[i] : i \in 1 .. Len(file)} \union {Garbage})
    BY <1>4 DEF Damage
  <2>2. {file[i] : i \in 1 .. Len(file)} \union {Garbage} \subseteq Units
    BY DEF TypeOK, Units
  <2>3. file' \in Seq(Units)
    BY <2>1, <2>2
  <2> QED
    BY <1>4, <2>3 DEF Damage, TypeOK, writerVars, readerVars
<1>5. CASE StartReading
  BY <1>5 DEF StartReading, TypeOK, writerVars, readerVars
<1>6. CASE EndsEarly
  BY <1>6 DEF EndsEarly, TypeOK, writerVars, readerVars
<1>7. CASE OpenChunk
  <2>1. PICK i \in 1 .. Len(sealed) :
          /\ plain' = [from |-> sealed[i].from, len |-> sealed[i].len]
          /\ rpos' = rpos + Len(NextPiece)
          /\ done' = IsLast(Len(NextPiece))
          /\ status' = IF IsLast(Len(NextPiece)) THEN "checking" ELSE "reading"
    BY <1>7 DEF OpenChunk
  <2>2. sealed[i] \in Chunks
    BY DEF TypeOK
  <2>3. plain' \in [from : 0 .. MaxLen, len : 0 .. Chunk]
    BY <2>1, <2>2 DEF Chunks
  <2>4. Available > 0
    BY <1>7 DEF OpenChunk
  <2>5. rpos' \in Nat /\ done' \in BOOLEAN
    <3>1. Len(NextPiece) \in 1 .. SealedChunk
      BY <2>4, NextPieceLength
    <3>2. rpos \in Nat /\ SealedChunk \in Nat
      BY DEF TypeOK, SealedChunk
    <3> QED  BY <2>1, <3>1, <3>2 DEF IsLast
  <2>6. rctr' \in 0 .. CtrMod - 1
    BY <1>7, BumpType DEF OpenChunk, TypeOK
  <2>7. pos' = 0 /\ UNCHANGED <<writerVars, file, damaged, delivered>>
    BY <1>7 DEF OpenChunk
  <2>8. pos' \in 0 .. plain'.len
    BY <2>3, <2>7
  <2> QED
    BY <2>1, <2>3, <2>5, <2>6, <2>7, <2>8 DEF TypeOK, writerVars
<1>8. CASE RejectChunk
  <2>1. Available > 0
    BY <1>8 DEF RejectChunk
  <2>2. rpos' \in Nat
    <3>1. Len(NextPiece) \in 1 .. SealedChunk
      BY <2>1, NextPieceLength
    <3>2. rpos \in Nat /\ SealedChunk \in Nat /\ rpos' = rpos + Len(NextPiece)
      BY <1>8 DEF TypeOK, SealedChunk, RejectChunk
    <3> QED  BY <3>1, <3>2
  <2>3. rctr' \in 0 .. CtrMod - 1
    BY <1>8, BumpType DEF RejectChunk, TypeOK
  <2> QED
    BY <1>8, <2>2, <2>3 DEF RejectChunk, TypeOK, writerVars
<1>9. CASE CheckTrailing
  BY <1>9 DEF CheckTrailing, TypeOK, writerVars, readerVars
<1>10. CASE Eof
  BY <1>10 DEF Eof, TypeOK, writerVars, readerVars
<1>11. ASSUME NEW n \in 1 .. MaxIo, Deliver(n) PROVE TypeOK'
  BY <1>11, DeliverType
<1>12. CASE UNCHANGED vars
  BY <1>12 DEF vars, TypeOK, writerVars, readerVars
<1> QED
  BY <1>1, <1>2, <1>3, <1>4, <1>5, <1>6, <1>7, <1>8, <1>9, <1>10, <1>11,
     <1>12 DEF Next, Read

(* Stream's type invariant: counters, positions, chunks and stored bytes   *)
(* of Sealer, EncWriter and DecReader stay in their types.                 *)
THEOREM TypeCorrect == Spec => []TypeOK
BY InitType, NextType, PTL DEF Spec

-----------------------------------------------------------------------------
(* The inductive invariant, one lemma per action that can disturb it *)

(* The facts about sealed chunks the arithmetic below needs.               *)
LEMMA ChunkFacts ==
  ASSUME TypeOK
  PROVE  /\ Len(sealed) \in Nat
         /\ \A i \in 1 .. Len(sealed) :
              /\ sealed[i].from \in Nat /\ sealed[i].len \in Nat
              /\ sealed[i].ctr \in 0 .. CtrMod - 1
              /\ sealed[i].last \in BOOLEAN
              /\ EndOf(sealed, i) \in Nat
         /\ EndOf(sealed, 0) = 0
<1>1. \A i \in 1 .. Len(sealed) : sealed[i] \in Chunks
  BY DEF TypeOK
<1>2. Len(sealed) \in Nat
  BY DEF TypeOK
<1> QED
  BY <1>1, <1>2 DEF Chunks, EndOf

(* Sealing the next chunk continues the chain.                             *)
LEMMA SealChain ==
  ASSUME TypeOK, ChainInv, NEW len \in 0 .. Chunk, NEW last \in BOOLEAN,
         Seal(len, last), taken' = taken, len <= bufLen,
         bufLen' = bufLen - len
  PROVE  /\ ChainInv'
         /\ Len(sealed') = Len(sealed) + 1
         /\ \A i \in 1 .. Len(sealed) : sealed'[i] = sealed[i]
         /\ sealed'[Len(sealed) + 1].last = last
<1> DEFINE c == [ctr |-> wctr, last |-> last, from |-> taken - bufLen,
                 len |-> len]
           L == Len(sealed)
<1>1. sealed' = Append(sealed, c) /\ wctr' = Bump(wctr)
  BY DEF Seal
<1>2. /\ c.ctr = wctr /\ c.last = last /\ c.from = taken - bufLen /\ c.len = len
  OBVIOUS
<1>3. /\ L \in Nat /\ taken \in Nat /\ bufLen \in 0 .. taken
      /\ wctr \in 0 .. CtrMod - 1 /\ len \in Nat /\ CtrMod \in Nat \ {0}
  BY StreamAssumption DEF TypeOK
<1> HIDE DEF c
<1>4. /\ Len(sealed') = L + 1
      /\ \A i \in 1 .. L : sealed'[i] = sealed[i]
      /\ sealed'[L + 1] = c
  BY <1>1 DEF TypeOK
<1>5. /\ EndOf(sealed', 0) = 0 /\ EndOf(sealed, 0) = 0
      /\ \A i \in 1 .. L : EndOf(sealed', i) = EndOf(sealed, i)
      /\ EndOf(sealed', L + 1) = taken - bufLen + len
  <2>1. EndOf(sealed', 0) = 0 /\ EndOf(sealed, 0) = 0
    BY DEF EndOf
  <2>2. \A i \in 1 .. L : EndOf(sealed', i) = EndOf(sealed, i)
    BY <1>3, <1>4 DEF EndOf
  <2>3. EndOf(sealed', L + 1) = c.from + c.len
    BY <1>3, <1>4 DEF EndOf
  <2> QED
    BY <1>2, <2>1, <2>2, <2>3
<1>6. (taken - bufLen = EndOf(sealed, Len(sealed)))'
  <2>1. EndOf(sealed', Len(sealed')) = EndOf(sealed', L + 1)
    BY <1>4
  <2>2. (taken - bufLen)' = taken - bufLen + len
    BY <1>3
  <2> QED
    BY <1>5, <2>1, <2>2
<1>7. (\A i \in 1 .. Len(sealed) : sealed[i].from = EndOf(sealed, i - 1))'
  <2> SUFFICES ASSUME NEW i \in 1 .. L + 1
               PROVE  sealed'[i].from = EndOf(sealed', i - 1)
    BY <1>4
  <2>1. CASE i <= L
    <3>1. sealed'[i].from = EndOf(sealed, i - 1)
      BY <1>3, <1>4, <2>1 DEF ChainInv
    <3>2. EndOf(sealed', i - 1) = EndOf(sealed, i - 1)
      BY <1>3, <1>5, <2>1
    <3> QED  BY <3>1, <3>2
  <2>2. CASE i = L + 1
    <3>1. sealed'[i].from = taken - bufLen
      BY <1>2, <1>4, <2>2
    <3>2. EndOf(sealed', i - 1) = EndOf(sealed, L)
      BY <1>3, <1>5, <2>2
    <3> QED  BY <3>1, <3>2 DEF ChainInv
  <2> QED  BY <1>3, <2>1, <2>2
<1>8. (\A i \in 1 .. Len(sealed) : EndOf(sealed, i) <= taken)'
  <2> SUFFICES ASSUME NEW i \in 1 .. L + 1
               PROVE  EndOf(sealed', i) <= taken
    BY <1>4
  <2>1. CASE i <= L
    BY <1>3, <1>5, <2>1 DEF ChainInv
  <2>2. CASE i = L + 1
    <3>1. taken - bufLen + len <= taken
      BY <1>3
    <3> QED  BY <1>5, <2>2, <3>1
  <2> QED  BY <1>3, <2>1, <2>2
<1>9. (Len(sealed) < CtrMod => wctr = Len(sealed))'
  BY <1>1, <1>3, <1>4 DEF ChainInv, Bump
<1>10. (Len(sealed) <= CtrMod =>
          \A i \in 1 .. Len(sealed) : sealed[i].ctr = i - 1)'
  <2> SUFFICES ASSUME L + 1 <= CtrMod, NEW i \in 1 .. L + 1
               PROVE  sealed'[i].ctr = i - 1
    BY <1>4
  <2>1. CASE i <= L
    BY <1>3, <1>4, <2>1 DEF ChainInv
  <2>2. CASE i = L + 1
    BY <1>2, <1>3, <1>4, <2>2 DEF ChainInv
  <2> QED  BY <1>3, <2>1, <2>2
<1>11. ChainInv'
  BY <1>6, <1>7, <1>8, <1>9, <1>10 DEF ChainInv
<1> QED
  BY <1>2, <1>4, <1>11

(* flush_full: one more full chunk, not flagged.                           *)
LEMMA FlushFullStep ==
  ASSUME StreamInv, FlushFull
  PROVE  ChainInv' /\ FlagInv' /\ PlaceInv' /\ StatusInv'
<1> USE DEF StreamInv
<1>1. Seal(Chunk, FALSE) /\ Chunk <= bufLen /\ bufLen' = bufLen - Chunk
  BY DEF FlushFull
<1>2. Chunk \in 0 .. Chunk /\ FALSE \in BOOLEAN
  BY StreamAssumption
<1>3. UNCHANGED <<status, taken, damaged, readerVars>> /\ status = "writing"
  BY DEF FlushFull
<1>4. /\ ChainInv'
      /\ Len(sealed') = Len(sealed) + 1
      /\ \A i \in 1 .. Len(sealed) : sealed'[i] = sealed[i]
      /\ sealed'[Len(sealed) + 1].last = FALSE
  BY <1>1, <1>2, <1>3, SealChain
<1>5. Len(sealed) \in Nat
  BY ChunkFacts
<1>6. FlagInv'
  BY <1>3, <1>4, <1>5 DEF FlagInv
<1>7. /\ rctr' = 0 /\ plain' = [from |-> 0, len |-> 0] /\ pos' = 0
      /\ done' = FALSE /\ delivered' = <<>> /\ taken' \in Nat
      /\ status' = "writing"
  BY <1>3 DEF StatusInv, readerVars, TypeOK
<1>8. PlaceInv'
  BY <1>7 DEF PlaceInv, EndOf
<1>9. StatusInv'
  BY <1>7 DEF StatusInv
<1> QED
  BY <1>4, <1>6, <1>8, <1>9

(* finish: the final chunk, flagged, and nothing is left in buf.           *)
LEMMA FinishStep ==
  ASSUME StreamInv, Finish
  PROVE  ChainInv' /\ FlagInv' /\ PlaceInv' /\ StatusInv'
<1> USE DEF StreamInv
<1>1. Seal(bufLen, TRUE) /\ bufLen' = 0
  BY DEF Finish
<1>2. bufLen \in 0 .. Chunk /\ bufLen <= bufLen /\ bufLen' = bufLen - bufLen
  BY StreamAssumption DEF Finish, TypeOK
<1>3. UNCHANGED <<taken, damaged, readerVars>>
      /\ status = "writing" /\ status' = "stored"
  BY DEF Finish
<1>4. /\ ChainInv'
      /\ Len(sealed') = Len(sealed) + 1
      /\ \A i \in 1 .. Len(sealed) : sealed'[i] = sealed[i]
      /\ sealed'[Len(sealed) + 1].last = TRUE
  BY <1>1, <1>2, <1>3, SealChain
<1>5. Len(sealed) \in Nat
  BY ChunkFacts
<1>6. FlagInv'
  <2>1. ASSUME NEW i \in 1 .. Len(sealed')
        PROVE  sealed'[i].last = (i = Len(sealed'))
    <3>1. CASE i = Len(sealed) + 1
      BY <1>4, <3>1
    <3>2. CASE i # Len(sealed) + 1
      <4>1. i \in 1 .. Len(sealed)
        BY <1>4, <1>5, <3>2
      <4>2. sealed'[i].last = FALSE
        BY <1>3, <1>4, <4>1 DEF FlagInv
      <4> QED  BY <1>4, <3>2, <4>2
    <3> QED  BY <3>1, <3>2
  <2>2. status' # "writing" /\ bufLen' = 0 /\ Len(sealed') > 0
    BY <1>1, <1>3, <1>4, <1>5
  <2> QED
    BY <2>1, <2>2 DEF FlagInv
<1>7. /\ rctr' = 0 /\ plain' = [from |-> 0, len |-> 0] /\ pos' = 0
      /\ done' = FALSE /\ delivered' = <<>> /\ taken' \in Nat
      /\ status' = "stored"
  BY <1>3 DEF StatusInv, readerVars, TypeOK
<1>8. PlaceInv'
  BY <1>7 DEF PlaceInv, EndOf
<1>9. StatusInv'
  BY <1>7 DEF StatusInv
<1> QED
  BY <1>4, <1>6, <1>8, <1>9

(* fill: the chunk that opens is the one after the last one opened.        *)
LEMMA OpenChunkStep ==
  ASSUME StreamInv, OpenChunk
  PROVE  ChainInv' /\ FlagInv' /\ PlaceInv' /\ StatusInv'
<1> USE DEF StreamInv
<1> DEFINE last == IsLast(Len(NextPiece))
           L == Len(sealed)
<1>1. PICK i \in 1 .. L :
        /\ sealed[i].ctr = rctr /\ sealed[i].last = last
        /\ plain' = [from |-> sealed[i].from, len |-> sealed[i].len]
        /\ done' = last
        /\ status' = IF last THEN "checking" ELSE "reading"
  BY DEF OpenChunk, OpensAs, NonceOf
<1>2. /\ status = "reading" /\ pos = plain.len /\ done = FALSE
      /\ rctr' = Bump(rctr) /\ pos' = 0
      /\ UNCHANGED <<taken, bufLen, wctr, sealed, delivered>>
  BY DEF OpenChunk, Hungry, writerVars, TypeOK
<1>3. L \in Nat /\ EndOf(sealed, 0) = 0
  BY ChunkFacts
<1>4. /\ sealed[i].from \in Nat /\ sealed[i].len \in Nat
      /\ EndOf(sealed, i) \in Nat
  BY ChunkFacts
<1>5. EndOf(sealed, i) = sealed[i].from + sealed[i].len
  BY <1>3, <1>1 DEF EndOf
<1>6. last = (i = L)
  BY <1>1, <1>2 DEF FlagInv
<1>7. last \in BOOLEAN
  BY DEF IsLast
<1> HIDE DEF last
<1>8. ChainInv' /\ FlagInv'
  <2>1. status' # "writing"
    BY <1>1
  <2> QED
    BY <1>2, <2>1 DEF ChainInv, FlagInv
<1>9. PlaceInv'
  <2> SUFFICES ASSUME L <= CtrMod PROVE PlaceInv'
    BY <1>2 DEF PlaceInv
  <2>1. rctr = i - 1
    BY <1>1 DEF ChainInv
  <2>2. plain.from + plain.len = EndOf(sealed, i - 1)
    BY <1>2, <2>1 DEF PlaceInv
  <2>3. sealed[i].from = EndOf(sealed, i - 1)
    BY DEF ChainInv
  <2>4. Len(delivered') = plain'.from + pos'
    BY <1>1, <1>2, <1>4, <2>2, <2>3 DEF PlaceInv
  <2>5. plain'.from + plain'.len = EndOf(sealed, i)
    BY <1>1, <1>5
  <2>6. plain'.from + plain'.len <= taken'
    BY <1>2, <2>5 DEF ChainInv
  <2>7. ~done' => rctr' = i /\ i < L
    <3>1. SUFFICES ASSUME ~done' PROVE rctr' = i /\ i < L
      OBVIOUS
    <3>2. i # L
      BY <1>1, <1>6, <3>1
    <3>3. i < L
      BY <1>3, <3>2
    <3>4. i \in Nat /\ CtrMod \in Nat
      BY <1>3, StreamAssumption
    <3> QED
      BY <1>2, <1>3, <2>1, <3>3, <3>4 DEF Bump
  <2>8. done' => plain'.from + plain'.len = taken'
    <3>1. SUFFICES ASSUME done' PROVE plain'.from + plain'.len = taken'
      OBVIOUS
    <3>2. i = L
      BY <1>1, <1>6, <3>1
    <3>3. bufLen = 0
      BY <1>2 DEF FlagInv
    <3>4. taken - bufLen = EndOf(sealed, L) /\ taken \in Nat
      BY DEF ChainInv, TypeOK
    <3> QED
      BY <1>2, <2>5, <3>2, <3>3, <3>4
  <2>9. \A k \in 1 .. Len(delivered') : delivered'[k] = k - 1
    BY <1>2 DEF PlaceInv
  <2> QED
    BY <1>2, <2>4, <2>5, <2>6, <2>7, <2>8, <2>9 DEF PlaceInv
<1>10. StatusInv'
  <2>1. status' \in {"checking", "reading"} /\ (status' = "checking" => done')
    BY <1>1
  <2> QED
    BY <2>1 DEF StatusInv
<1> QED
  BY <1>8, <1>9, <1>10

(* The length of a concatenation, where the solver needs it spelled out.   *)
LEMMA ConcatLength ==
  ASSUME NEW s \in Seq(Nat), NEW t \in Seq(Nat)
  PROVE  Len(s \o t) = Len(s) + Len(t)
OBVIOUS

(* read: the bytes handed on are the next positions.                       *)
LEMMA DeliverStep ==
  ASSUME StreamInv, NEW n \in 1 .. MaxIo, Deliver(n)
  PROVE  ChainInv' /\ FlagInv' /\ PlaceInv' /\ StatusInv'
<1> USE DEF StreamInv
<1> DEFINE m == IF n < plain.len - pos THEN n ELSE plain.len - pos
           more == [i \in 1 .. m |-> plain.from + pos + i - 1]
<1>1. /\ delivered' = delivered \o more /\ pos' = pos + m
      /\ status = "reading" /\ pos < plain.len
      /\ UNCHANGED <<status, taken, bufLen, wctr, sealed, rctr, plain, done>>
  BY DEF Deliver, writerVars
<1>2. /\ plain.from \in Nat /\ plain.len \in Nat /\ pos \in Nat /\ m \in Nat
      /\ delivered \in Seq(Nat)
  BY <1>1, StreamAssumption DEF TypeOK
<1>3. more \in Seq(Nat) /\ Len(more) = m
      /\ \A i \in 1 .. m : more[i] = plain.from + pos + i - 1
  <2>1. \A i \in 1 .. m : plain.from + pos + i - 1 \in Nat
    BY <1>2
  <2> HIDE DEF m
  <2> QED  BY <1>2, <2>1
<1> HIDE DEF more, m
<1>4. ChainInv' /\ FlagInv'
  BY <1>1 DEF ChainInv, FlagInv
<1>5. PlaceInv'
  <2> SUFFICES ASSUME Len(sealed) <= CtrMod PROVE PlaceInv'
    BY <1>1 DEF PlaceInv
  <2>1. Len(delivered) = plain.from + pos
    BY DEF PlaceInv
  <2>2. Len(delivered') = Len(delivered) + m
    <3>1. delivered' = delivered \o more
      BY <1>1
    <3>2. delivered \in Seq(Nat) /\ more \in Seq(Nat) /\ Len(more) = m
      BY <1>2, <1>3
    <3>3. Len(delivered \o more) = Len(delivered) + Len(more)
      BY <3>2, ConcatLength
    <3> QED  BY <3>1, <3>2, <3>3
  <2>3. Len(delivered') = plain'.from + pos'
    BY <1>1, <1>2, <2>1, <2>2
  <2>4. \A k \in 1 .. Len(delivered') : delivered'[k] = k - 1
    <3> SUFFICES ASSUME NEW k \in 1 .. Len(delivered) + m
                 PROVE  delivered'[k] = k - 1
      BY <2>2
    <3>1. CASE k <= Len(delivered)
      <4>1. delivered'[k] = delivered[k]
        BY <1>1, <1>2, <1>3, <3>1
      <4> QED  BY <3>1, <4>1, <1>2 DEF PlaceInv
    <3>2. CASE k > Len(delivered)
      <4>1. delivered'[k] = more[k - Len(delivered)]
        BY <1>1, <1>2, <1>3, <3>2
      <4>2. k - Len(delivered) \in 1 .. m
        BY <1>2, <3>2
      <4>3. more[k - Len(delivered)] = plain.from + pos + (k - Len(delivered)) - 1
        BY <1>3, <4>2
      <4> QED  BY <1>2, <2>1, <4>1, <4>3
    <3> QED  BY <1>2, <3>1, <3>2
  <2> QED
    BY <1>1, <2>3, <2>4 DEF PlaceInv
<1>6. StatusInv'
  BY <1>1 DEF StatusInv
<1> QED
  BY <1>4, <1>5, <1>6

(* The chain of chunks and the reader's place in it are kept by every step *)
(* of EncWriter, DecReader and by whatever happens to the stored bytes.    *)
THEOREM StreamInvariant == Spec => []StreamInv
<1>1. Init => StreamInv
  <2> SUFFICES ASSUME Init PROVE ChainInv /\ FlagInv /\ PlaceInv /\ StatusInv
    BY InitType DEF StreamInv
  <2> USE StreamAssumption
  <2>1. Len(sealed) = 0 /\ Len(delivered) = 0
    BY DEF Init
  <2>2. ChainInv
    BY <2>1 DEF Init, ChainInv, EndOf
  <2>3. FlagInv
    BY <2>1 DEF Init, FlagInv
  <2>4. PlaceInv
    BY <2>1 DEF Init, PlaceInv, EndOf
  <2>5. StatusInv
    BY DEF Init, StatusInv
  <2> QED
    BY <2>2, <2>3, <2>4, <2>5
<1>2. StreamInv /\ [Next]_vars => StreamInv'
  <2> SUFFICES ASSUME StreamInv, [Next]_vars
               PROVE  ChainInv' /\ FlagInv' /\ PlaceInv' /\ StatusInv'
    BY NextType DEF StreamInv
  <2> USE DEF StreamInv
  <2>1. ASSUME NEW n \in 1 .. MaxIo, Write(n)
        PROVE  ChainInv' /\ FlagInv' /\ PlaceInv' /\ StatusInv'
    <3>1. /\ taken' = taken + n /\ bufLen' = bufLen + n /\ status = "writing"
          /\ UNCHANGED <<status, wctr, sealed, readerVars>>
      BY <2>1 DEF Write
    <3>2. taken \in Nat /\ bufLen \in Nat /\ n \in Nat
      BY DEF TypeOK
    <3>3. taken' - bufLen' = taken - bufLen /\ taken <= taken'
      BY <3>1, <3>2
    <3>4. \A i \in 1 .. Len(sealed) : EndOf(sealed, i) \in Nat
      BY ChunkFacts
    <3>5. ChainInv'
      <4>1. \A i \in 1 .. Len(sealed) : EndOf(sealed, i) <= taken'
        BY <3>1, <3>2, <3>3, <3>4 DEF ChainInv
      <4> QED  BY <3>1, <3>3, <4>1 DEF ChainInv
    <3>6. FlagInv' /\ StatusInv'
      BY <3>1 DEF FlagInv, StatusInv, readerVars
    <3>7. PlaceInv'
      <4>1. plain = [from |-> 0, len |-> 0] /\ plain' = plain
            /\ done' = FALSE /\ taken' \in Nat
        BY <3>1, <3>2 DEF StatusInv, readerVars
      <4>2. plain'.from + plain'.len <= taken'
        BY <4>1
      <4> QED
        BY <3>1, <4>1, <4>2 DEF PlaceInv, readerVars
    <3> QED
      BY <3>5, <3>6, <3>7
  <2>2. CASE FlushFull
    BY <2>2, FlushFullStep
  <2>3. CASE Finish
    BY <2>3, FinishStep
  <2>4. CASE Damage
    BY <2>4 DEF Damage, writerVars, readerVars, ChainInv, FlagInv, PlaceInv,
                StatusInv
  <2>5. CASE StartReading
    <3>1. /\ status = "stored" /\ status' = "reading"
          /\ UNCHANGED <<writerVars, readerVars>>
      BY <2>5 DEF StartReading
    <3>2. ChainInv' /\ FlagInv' /\ StatusInv'
      BY <3>1 DEF writerVars, readerVars, ChainInv, FlagInv, StatusInv
    <3>3. rctr < Len(sealed)
      BY <3>1 DEF StatusInv, FlagInv
    <3>4. PlaceInv'
      BY <3>1, <3>3 DEF writerVars, readerVars, PlaceInv
    <3> QED
      BY <3>2, <3>4
  <2>6. CASE EndsEarly
    BY <2>6 DEF EndsEarly, Hungry, writerVars, readerVars, ChainInv, FlagInv,
                PlaceInv, StatusInv
  <2>7. CASE OpenChunk
    BY <2>7, OpenChunkStep
  <2>8. CASE RejectChunk
    BY <2>8 DEF RejectChunk, Hungry, writerVars, ChainInv, FlagInv, PlaceInv,
                StatusInv
  <2>9. CASE CheckTrailing
    BY <2>9 DEF CheckTrailing, writerVars, readerVars, ChainInv, FlagInv,
                PlaceInv, StatusInv
  <2>10. CASE Eof
    BY <2>10 DEF Eof, writerVars, readerVars, ChainInv, FlagInv, PlaceInv,
                 StatusInv
  <2>11. ASSUME NEW n \in 1 .. MaxIo, Deliver(n)
         PROVE  ChainInv' /\ FlagInv' /\ PlaceInv' /\ StatusInv'
    BY <2>11, DeliverStep
  <2>12. CASE UNCHANGED vars
    BY <2>12 DEF vars, writerVars, readerVars, ChainInv, FlagInv, PlaceInv,
                 StatusInv
  <2> QED
    BY <2>1, <2>2, <2>3, <2>4, <2>5, <2>6, <2>7, <2>8, <2>9, <2>10, <2>11,
       <2>12 DEF Next, Read
<1> QED
  BY <1>1, <1>2, PTL DEF Spec

-----------------------------------------------------------------------------
(* What follows from it *)

(* Sealer never seals two chunks of a file under one nonce before its      *)
(* 32 bit counter has wrapped.                                             *)
THEOREM NoncesAreDistinct == Spec => []NoncesDistinct
<1>1. StreamInv => NoncesDistinct
  <2> SUFFICES ASSUME StreamInv, Len(sealed) <= CtrMod,
                      NEW i \in 1 .. Len(sealed), NEW j \in 1 .. Len(sealed),
                      i # j
               PROVE  NonceOf(sealed[i]) # NonceOf(sealed[j])
    BY DEF NoncesDistinct
  <2>1. sealed[i].ctr = i - 1 /\ sealed[j].ctr = j - 1
    BY DEF StreamInv, ChainInv
  <2>2. Len(sealed) \in Nat
    BY ChunkFacts DEF StreamInv
  <2> QED
    BY <2>1, <2>2 DEF NonceOf
<1> QED
  BY <1>1, StreamInvariant, PTL

(* However the stored bytes were cut, garbled or rearranged, DecReader     *)
(* hands on a prefix of what EncWriter was given.                          *)
THEOREM DeliversAPrefix == Spec => []DeliveredIsPrefix
<1>1. StreamInv => DeliveredIsPrefix
  <2> SUFFICES ASSUME StreamInv, Len(sealed) <= CtrMod
               PROVE  /\ Len(delivered) <= taken
                      /\ \A i \in 1 .. Len(delivered) : delivered[i] = i - 1
    BY DEF DeliveredIsPrefix
  <2>1. /\ Len(delivered) = plain.from + pos
        /\ plain.from + plain.len <= taken
        /\ \A i \in 1 .. Len(delivered) : delivered[i] = i - 1
    BY DEF StreamInv, PlaceInv
  <2>2. plain.from \in Nat /\ plain.len \in Nat /\ pos \in 0 .. plain.len
        /\ taken \in Nat
    BY DEF StreamInv, TypeOK
  <2> QED
    BY <2>1, <2>2
<1> QED
  BY <1>1, StreamInvariant, PTL

(* DecReader signals the end only behind the last byte: no truncated       *)
(* container passes for a whole one.                                       *)
THEOREM EndIsComplete == Spec => []EofMeansComplete
<1>1. StreamInv => EofMeansComplete
  <2> SUFFICES ASSUME StreamInv, Len(sealed) <= CtrMod, status = "eof"
               PROVE  Len(delivered) = taken
    BY DEF EofMeansComplete
  <2>1. done /\ pos = plain.len
    BY DEF StreamInv, StatusInv
  <2> QED
    BY <2>1 DEF StreamInv, PlaceInv
<1> QED
  BY <1>1, StreamInvariant, PTL

-----------------------------------------------------------------------------
(* What nobody touched opens *)

\* Chunks before the final one are full, and the final one never is.
FullInv ==
  \A i \in 1 .. Len(sealed) :
    /\ sealed[i].from = (i - 1) * Chunk
    /\ IF sealed[i].last THEN sealed[i].len < Chunk ELSE sealed[i].len = Chunk

\* Where the stored bytes of the chunks before chunk i end.
Offset(i) == (i - 1) * SealedChunk

\* The stored bytes are those of the chunks, one behind the other.
LaidOut ==
  /\ Len(file) = IF Len(sealed) = 0 THEN 0
                 ELSE Offset(Len(sealed)) + sealed[Len(sealed)].len + Overhead
  /\ \A i \in 1 .. Len(sealed) : \A k \in 1 .. sealed[i].len + Overhead :
       file[Offset(i) + k] = [chunk |-> sealed[i], at |-> k]

\* The reader stands before the chunk its counter names, or behind the last.
InPlace ==
  /\ status # "error"
  /\ rpos = IF done THEN Len(file) ELSE Offset(rctr + 1)

IntactInv == FullInv /\ (~damaged => LaidOut /\ InPlace)

\* The counter does not wrap: with chunks of a MiB, below 4 PiB.
CounterSuffices == MaxLen < Chunk * CtrMod

(* Multiples grow with the multiplier.                                     *)
LEMMA Multiples ==
  ASSUME NEW a \in Nat, NEW b \in Nat, NEW c \in Nat
  PROVE  /\ a <= b => a * c <= b * c
         /\ (a + 1) * c = a * c + c
         /\ a * c \in Nat
OBVIOUS

(* The chunks of a plaintext that is not too long have counters to spare.  *)
LEMMA EnoughCounters ==
  ASSUME StreamInv, FullInv, CounterSuffices
  PROVE  Len(sealed) <= CtrMod
<1> DEFINE L == Len(sealed)
<1>1. L \in Nat /\ Chunk \in Nat /\ CtrMod \in Nat /\ MaxLen \in Nat
  BY ChunkFacts, StreamAssumption DEF StreamInv
<1>2. SUFFICES ASSUME L > CtrMod
               PROVE  FALSE
  BY <1>1
<1>3. sealed[L] \in Chunks /\ sealed[L].from = (L - 1) * Chunk
  BY <1>1, <1>2 DEF FullInv, StreamInv, TypeOK
<1>4. (L - 1) * Chunk <= MaxLen
  BY <1>3 DEF Chunks
<1>5. CtrMod * Chunk <= (L - 1) * Chunk
  <2>1. L - 1 \in Nat /\ CtrMod <= L - 1
    BY <1>1, <1>2
  <2> HIDE DEF L
  <2> QED
    BY <1>1, <2>1, Multiples
<1>6. CtrMod * Chunk = Chunk * CtrMod
  BY <1>1
<1> HIDE DEF L
<1>7. CtrMod * Chunk \in Nat /\ (L - 1) * Chunk \in Int
  BY <1>1, Multiples
<1> QED
  BY <1>1, <1>4, <1>5, <1>6, <1>7 DEF CounterSuffices

(* The next chunk is there and opens, if nothing was touched.              *)
LEMMA NextOpens ==
  ASSUME StreamInv, FullInv, LaidOut, InPlace, Len(sealed) <= CtrMod, Hungry
  PROVE  /\ Available > 0
         /\ rctr + 1 \in 1 .. Len(sealed)
         /\ OpensAs(sealed[rctr + 1], NextPiece, rctr, IsLast(Len(NextPiece)))
         /\ rpos + Len(NextPiece) = IF rctr + 1 = Len(sealed) THEN Len(file)
                                    ELSE Offset(rctr + 2)
<1> DEFINE L == Len(sealed)
           i == rctr + 1
           c == sealed[i]
           size == c.len + Overhead
<1>1. /\ status = "reading" /\ pos = plain.len /\ done = FALSE
      /\ rctr \in Nat /\ rctr < L /\ L \in Nat /\ i \in 1 .. L
      /\ rpos = Offset(i)
  <2>1. status = "reading" /\ pos = plain.len /\ done = FALSE /\ rctr \in Nat
    BY DEF Hungry, StreamInv, TypeOK
  <2>2. rctr < L /\ L \in Nat
    BY <2>1, ChunkFacts DEF StreamInv, PlaceInv
  <2> QED
    BY <2>1, <2>2 DEF InPlace
<1>2. /\ c \in Chunks /\ c.len \in Nat /\ c.len <= Chunk /\ c.ctr = rctr
      /\ c.last = (i = L) /\ size \in Nat /\ size > 0 /\ size <= SealedChunk
      /\ SealedChunk \in Nat /\ SealedChunk = Chunk + Overhead
      /\ Chunk \in Nat /\ Overhead \in Nat
  <2>1. c \in Chunks
    BY <1>1 DEF StreamInv, TypeOK
  <2>2. c.last = (i = L)
    BY <1>1 DEF StreamInv, FlagInv
  <2>3. c.ctr = i - 1
    BY <1>1 DEF StreamInv, ChainInv
  <2> HIDE DEF c
  <2> QED
    BY <1>1, <2>1, <2>2, <2>3, StreamAssumption DEF Chunks, SealedChunk
<1>3. /\ rpos \in Nat
      /\ i = L => Len(file) = rpos + size /\ size < SealedChunk
      /\ i # L => Len(file) >= rpos + SealedChunk /\ size = SealedChunk
                  /\ rpos + SealedChunk = Offset(i + 1)
  <2>1. rpos = rctr * SealedChunk /\ rpos \in Nat
    <3>1. i - 1 = rctr
      BY <1>1
    <3>2. rpos = rctr * SealedChunk
      BY <1>1, <3>1 DEF Offset
    <3>3. rctr \in Nat /\ SealedChunk \in Nat
      BY <1>1, <1>2
    <3>4. rctr * SealedChunk \in Nat
      BY <3>3, Multiples
    <3> QED
      BY <3>2, <3>4
  <2>2. CASE i = L
    <3>1. Len(file) = Offset(L) + sealed[L].len + Overhead
      BY <1>1 DEF LaidOut
    <3>2. c.len < Chunk
      BY <1>1, <1>2, <2>2 DEF FullInv
    <3> QED
      BY <1>1, <1>2, <2>1, <2>2, <3>1, <3>2
  <2>3. CASE i # L
    <3>1. c.len = Chunk
      BY <1>1, <1>2, <2>3 DEF FullInv
    <3>2. /\ Len(file) = Offset(L) + sealed[L].len + Overhead
          /\ sealed[L].len \in Nat
      BY <1>1, <2>3, ChunkFacts DEF LaidOut, StreamInv
    <3>3. Offset(L) \in Nat /\ Offset(L) >= i * SealedChunk
      <4>1. L - 1 \in Nat /\ i \in Nat /\ i <= L - 1
        BY <1>1, <2>3
      <4> HIDE DEF L, i
      <4> QED
        BY <1>2, <4>1, Multiples DEF Offset
    <3>4. i * SealedChunk = rpos + SealedChunk
      BY <1>1, <1>2, <2>1, Multiples
    <3>5. Offset(i + 1) = i * SealedChunk
      BY <1>1 DEF Offset
    <3> HIDE DEF L, i, c
    <3> QED
      BY <1>2, <2>1, <2>3, <3>1, <3>2, <3>3, <3>4, <3>5
  <2> QED
    BY <2>1, <2>2, <2>3
<1>4. Available = Len(file) - rpos /\ Available > 0 /\ Len(file) \in Nat
      /\ rpos + size <= Len(file)
  <2>1. Len(file) \in Nat
    BY DEF StreamInv, TypeOK
  <2> HIDE DEF L, i, size
  <2> QED
    BY <1>2, <1>3, <2>1 DEF Available
<1>5. NextPiece = SubSeq(file, rpos + 1, rpos + size)
  <2>1. (IF Available < SealedChunk THEN Available ELSE SealedChunk) = size
    <3> HIDE DEF L, i, size
    <3> QED
      BY <1>2, <1>3, <1>4
  <2> QED
    BY <2>1 DEF NextPiece
<1>6. /\ Len(NextPiece) = size
      /\ \A k \in 1 .. size : NextPiece[k] = file[rpos + k]
      /\ NextPiece \in Seq(Units)
  <2>1. file \in Seq(Units)
    BY DEF StreamInv, TypeOK
  <2> HIDE DEF size
  <2>2. /\ rpos + 1 \in Int /\ rpos + size \in Int /\ size \in Nat /\ rpos \in Nat
        /\ \A j \in rpos + 1 .. rpos + size : file[j] \in Units
    BY <1>2, <1>3, <1>4, <2>1
  <2> DEFINE a == rpos + 1
             b == rpos + size
             piece == SubSeq(file, a, b)
  <2>3. /\ a <= b /\ b - a + 1 = size /\ \A k \in 1 .. size : a + k - 1 = rpos + k
    BY <1>2, <2>2
  <2>4. a \in Int /\ b \in Int /\ \A j \in a .. b : file[j] \in Units
    BY <2>2
  <2> HIDE DEF a, b
  <2>5. /\ piece \in Seq(Units)
        /\ Len(piece) = IF a <= b THEN b - a + 1 ELSE 0
        /\ \A k \in 1 .. b - a + 1 : piece[k] = file[a + k - 1]
    BY <2>4, SubSeqProperties
  <2>6. piece = NextPiece
    BY <1>5 DEF a, b
  <2> QED
    BY <2>3, <2>5, <2>6
<1>7. NextPiece = SealedBytes(c)
  <2>1. \A k \in 1 .. size : NextPiece[k] = [chunk |-> c, at |-> k]
    BY <1>1, <1>6 DEF LaidOut
  <2>2. NextPiece = [k \in 1 .. size |-> NextPiece[k]]
    BY <1>6
  <2> QED
    BY <2>1, <2>2 DEF SealedBytes
<1>8. IsLast(Len(NextPiece)) = (i = L)
  <2> HIDE DEF L, i, size
  <2> QED
    BY <1>2, <1>3, <1>6 DEF IsLast
<1>9. OpensAs(c, NextPiece, rctr, IsLast(Len(NextPiece)))
  BY <1>2, <1>7, <1>8 DEF OpensAs, NonceOf
<1> QED
  BY <1>1, <1>2, <1>3, <1>4, <1>6, <1>9

(* Sealing lays the next chunk behind the others.                          *)
LEMMA SealLaysOut ==
  ASSUME StreamInv, FullInv, LaidOut, status = "writing",
         NEW len \in 0 .. Chunk, NEW last \in BOOLEAN, Seal(len, last)
  PROVE  LaidOut'
<1> DEFINE c == [ctr |-> wctr, last |-> last, from |-> taken - bufLen,
                 len |-> len]
           L == Len(sealed)
<1>1. /\ sealed' = Append(sealed, c) /\ file' = file \o SealedBytes(c)
  BY DEF Seal
<1>2. /\ c \in Chunks /\ SealedBytes(c) \in Seq(Units) /\ c.len = len
      /\ sealed \in Seq(Chunks) /\ file \in Seq(Units) /\ L \in Nat
      /\ len \in Nat /\ Overhead \in Nat /\ Chunk \in Nat
      /\ SealedChunk = Chunk + Overhead /\ SealedChunk \in Nat
  <2>1. c \in Chunks
    BY StreamAssumption DEF StreamInv, TypeOK, Chunks
  <2>2. SealedBytes(c) \in Seq(Units)
    BY <2>1, SealedBytesType
  <2> QED
    BY <2>1, <2>2, StreamAssumption DEF StreamInv, TypeOK, SealedChunk
<1>3. /\ Len(SealedBytes(c)) = len + Overhead
      /\ \A k \in 1 .. len + Overhead : SealedBytes(c)[k] = [chunk |-> c, at |-> k]
  <2> HIDE DEF c
  <2> QED
    BY <1>2 DEF SealedBytes
<1>4. /\ Len(sealed') = L + 1 /\ sealed'[L + 1] = c
      /\ \A i \in 1 .. L : sealed'[i] = sealed[i]
  <2> HIDE DEF c
  <2> QED
    BY <1>1, <1>2
<1>5. Len(file) = Offset(L + 1)
  <2>1. CASE L = 0
    <3>1. Offset(1) = 0
      BY <1>2 DEF Offset
    <3> QED
      BY <2>1, <3>1 DEF LaidOut
  <2>2. CASE L # 0
    <3>1. L \in 1 .. L
      BY <1>2, <2>2
    <3>2. sealed[L].last = FALSE
      BY <3>1 DEF StreamInv, FlagInv
    <3>3. sealed[L].len = Chunk
      BY <3>1, <3>2 DEF FullInv
    <3>4. Len(file) = Offset(L) + SealedChunk
      <4>1. Offset(L) \in Nat
        <5>1. L - 1 \in Nat
          BY <3>1
        <5> QED
          BY <1>2, <5>1, Multiples DEF Offset
      <4> QED
        BY <1>2, <2>2, <3>3, <4>1 DEF LaidOut
    <3>5. Offset(L + 1) = Offset(L) + SealedChunk
      <4>1. L - 1 \in Nat /\ L + 1 - 1 = (L - 1) + 1
        BY <3>1
      <4> HIDE DEF L
      <4> QED
        BY <1>2, <4>1, Multiples DEF Offset
    <3> QED
      BY <3>4, <3>5
  <2> QED
    BY <2>1, <2>2
<1>6. /\ Len(file') = Len(file) + len + Overhead
      /\ \A k \in 1 .. Len(file) : file'[k] = file[k]
      /\ \A k \in 1 .. len + Overhead : file'[Len(file) + k] = SealedBytes(c)[k]
  <2> DEFINE b == SealedBytes(c)
             n == Len(file)
  <2> HIDE DEF b
  <2>1. /\ b \in Seq(Units) /\ Len(b) = len + Overhead /\ file' = file \o b
        /\ n \in Nat
    BY <1>1, <1>2, <1>3 DEF b
  <2>2. /\ Len(file \o b) = n + Len(b)
        /\ \A k \in 1 .. n + Len(b) :
             (file \o b)[k] = IF k <= n THEN file[k] ELSE b[k - n]
    BY <1>2, <2>1, ConcatProperties
  <2> HIDE DEF n
  <2>3. Len(file') = n + len + Overhead
    BY <1>2, <2>1, <2>2
  <2>4. \A k \in 1 .. n : file'[k] = file[k]
    BY <1>2, <2>1, <2>2
  <2>5. ASSUME NEW k \in 1 .. len + Overhead
        PROVE  file'[n + k] = b[k]
    <3>1. n + k \in 1 .. n + Len(b) /\ ~(n + k <= n) /\ (n + k) - n = k
      BY <1>2, <2>1
    <3> QED
      BY <2>1, <2>2, <3>1
  <2> QED
    BY <2>3, <2>4, <2>5 DEF n, b
<1>7. Len(file') = Offset(L + 1) + sealed'[L + 1].len + Overhead
  BY <1>2, <1>4, <1>5, <1>6
<1>8. ASSUME NEW i \in 1 .. L + 1, NEW k \in 1 .. sealed'[i].len + Overhead
      PROVE  file'[Offset(i) + k] = [chunk |-> sealed'[i], at |-> k]
  <2>1. CASE i = L + 1
    <3>1. sealed'[i] = c /\ k \in 1 .. len + Overhead /\ Offset(i) = Len(file)
      BY <1>2, <1>4, <1>5, <1>8, <2>1
    <3>2. SealedBytes(c)[k] = [chunk |-> c, at |-> k]
      BY <1>3, <3>1
    <3> QED
      BY <1>6, <3>1, <3>2
  <2>2. CASE i # L + 1
    <3>1. /\ i \in 1 .. L /\ sealed'[i] = sealed[i]
          /\ sealed[i] \in Chunks /\ i - 1 \in Nat
      BY <1>2, <1>4, <2>2
    <3>2. sealed[i].len \in Nat /\ sealed[i].len <= Chunk
      BY <1>2, <3>1 DEF Chunks
    <3>3. Offset(i) \in Nat
      BY <1>2, <3>1, Multiples DEF Offset
    <3>4. Offset(i) + SealedChunk <= Offset(L + 1)
      <4>1. i \in Nat /\ L + 1 - 1 = L /\ i <= L /\ i - 1 + 1 = i
        BY <1>2, <3>1
      <4>2. i * SealedChunk <= L * SealedChunk
        BY <1>2, <4>1, Multiples
      <4>3. (i - 1) * SealedChunk + SealedChunk = i * SealedChunk
        BY <1>2, <3>1, <4>1, Multiples
      <4> QED
        BY <4>1, <4>2, <4>3 DEF Offset
    <3>5. k \in 1 .. sealed[i].len + Overhead
      BY <1>8, <3>1
    <3>6. k \in Nat /\ k >= 1 /\ k <= SealedChunk
      BY <1>2, <3>2, <3>5
    <3>7. Offset(i) + k \in 1 .. Len(file)
      <4>1. Offset(L + 1) \in Nat /\ Len(file) = Offset(L + 1)
        BY <1>2, <1>5
      <4> HIDE DEF L
      <4> QED
        BY <1>2, <3>3, <3>4, <3>6, <4>1
    <3> QED
      BY <1>6, <3>1, <3>5, <3>7 DEF LaidOut
  <2> QED
    BY <2>1, <2>2
<1>9. Len(sealed') = L + 1 /\ L + 1 # 0
  BY <1>2, <1>4
<1> HIDE DEF L, c
<1> QED
  BY <1>7, <1>8, <1>9 DEF LaidOut, Offset

(* A sealed chunk is full, or the final one.                               *)
LEMMA SealKeepsFull ==
  ASSUME StreamInv, FullInv, status = "writing",
         NEW len \in 0 .. Chunk, NEW last \in BOOLEAN, Seal(len, last),
         IF last THEN len < Chunk ELSE len = Chunk
  PROVE  FullInv'
<1> DEFINE c == [ctr |-> wctr, last |-> last, from |-> taken - bufLen,
                 len |-> len]
           L == Len(sealed)
<1>1. /\ sealed' = Append(sealed, c) /\ sealed \in Seq(Chunks) /\ L \in Nat
      /\ c \in Chunks /\ Chunk \in Nat
  BY StreamAssumption DEF Seal, StreamInv, TypeOK, Chunks
<1>2. /\ Len(sealed') = L + 1 /\ sealed'[L + 1] = c
      /\ \A i \in 1 .. L : sealed'[i] = sealed[i]
  <2> HIDE DEF c
  <2> QED
    BY <1>1
<1>3. c.from = L * Chunk
  <2>1. c.from = EndOf(sealed, L)
    BY DEF StreamInv, ChainInv
  <2>2. CASE L = 0
    BY <1>1, <2>1, <2>2 DEF EndOf
  <2>3. CASE L # 0
    <3>1. L \in 1 .. L /\ L - 1 \in Nat /\ (L - 1) + 1 = L
      BY <1>1, <2>3
    <3>2. sealed[L].from = (L - 1) * Chunk /\ sealed[L].len = Chunk
      BY <3>1 DEF FullInv, StreamInv, FlagInv
    <3>3. EndOf(sealed, L) = (L - 1) * Chunk + Chunk
      BY <2>3, <3>2 DEF EndOf
    <3>4. (L - 1) * Chunk + Chunk = L * Chunk
      <4> HIDE DEF L
      <4> QED
        BY <1>1, <3>1, Multiples
    <3> QED
      BY <2>1, <3>3, <3>4
  <2> QED
    BY <2>2, <2>3
<1>4. c.len = len /\ c.last = last
  OBVIOUS
<1> HIDE DEF c, L
<1>5. ASSUME NEW i \in 1 .. L + 1
      PROVE  /\ sealed'[i].from = (i - 1) * Chunk
             /\ IF sealed'[i].last THEN sealed'[i].len < Chunk
                                   ELSE sealed'[i].len = Chunk
  <2>1. CASE i = L + 1
    <3>1. i - 1 = L
      BY <1>1, <2>1
    <3> QED
      BY <1>2, <1>3, <1>4, <2>1, <3>1
  <2>2. CASE i # L + 1
    <3>1. i \in 1 .. L
      BY <1>1, <2>2
    <3> QED
      BY <1>2, <3>1 DEF FullInv, L
  <2> QED
    BY <2>1, <2>2
<1> QED
  BY <1>2, <1>5 DEF FullInv

(* Until the stored bytes are touched the reader finds every chunk where   *)
(* it looks for it, and no step of it fails.                               *)
LEMMA IntactStep ==
  ASSUME CounterSuffices, StreamInv, IntactInv, [Next]_vars
  PROVE  IntactInv'
<1>0. FullInv /\ Len(sealed) <= CtrMod
  BY EnoughCounters DEF IntactInv
<1>a. ASSUME UNCHANGED <<sealed, file, rpos, rctr, done>>,
             ~damaged' => ~damaged /\ status' # "error"
      PROVE  IntactInv'
  BY <1>a DEF IntactInv, FullInv, LaidOut, InPlace
<1>w. ASSUME NEW len \in 0 .. Chunk, NEW last \in BOOLEAN, Seal(len, last),
             IF last THEN len < Chunk ELSE len = Chunk,
             status = "writing", status' # "error", UNCHANGED <<damaged, readerVars>>
      PROVE  IntactInv'
  <2>1. FullInv'
    BY <1>0, <1>w, SealKeepsFull
  <2>2. ~damaged => LaidOut'
    BY <1>0, <1>w, SealLaysOut DEF IntactInv
  <2>3. ~damaged => InPlace'
    BY <1>w DEF IntactInv, InPlace, StreamInv, StatusInv, readerVars
  <2> QED
    BY <1>w, <2>1, <2>2, <2>3 DEF IntactInv
<1>1. ASSUME NEW n \in 1 .. MaxIo, Write(n)
      PROVE  IntactInv'
  BY <1>1, <1>a DEF Write, readerVars
<1>2. CASE FlushFull
  <2>1. Chunk \in 0 .. Chunk /\ FALSE \in BOOLEAN
    BY StreamAssumption
  <2> QED
    BY <1>2, <1>w, <2>1 DEF FlushFull
<1>3. CASE Finish
  <2>1. bufLen \in 0 .. Chunk /\ TRUE \in BOOLEAN /\ bufLen < Chunk
    BY <1>3, StreamAssumption DEF Finish, StreamInv, TypeOK
  <2> QED
    BY <1>3, <1>w, <2>1 DEF Finish
<1>4. CASE Damage
  BY <1>4 DEF Damage, IntactInv, FullInv, writerVars
<1>5. CASE StartReading
  BY <1>5, <1>a DEF StartReading, writerVars, readerVars
<1>6. CASE EndsEarly
  <2>1. damaged /\ damaged' = damaged
    BY <1>0, <1>6, NextOpens DEF EndsEarly, IntactInv, Available, StreamInv, TypeOK
  <2> QED
    BY <1>6, <1>a, <2>1 DEF EndsEarly, writerVars, readerVars
<1>7. CASE OpenChunk
  <2>1. /\ UNCHANGED <<sealed, file, damaged>> /\ Hungry
        /\ rctr' = Bump(rctr)
    BY <1>7 DEF OpenChunk, writerVars
  <2>2. PICK i \in 1 .. Len(sealed) :
          /\ OpensAs(sealed[i], NextPiece, rctr, IsLast(Len(NextPiece)))
          /\ rpos' = rpos + Len(NextPiece)
          /\ done' = IsLast(Len(NextPiece))
          /\ status' \in {"checking", "reading"}
    BY <1>7 DEF OpenChunk
  <2>3. sealed[i].ctr = rctr /\ sealed[i].ctr = i - 1 /\ sealed[i].last = done'
        /\ sealed[i].last = (i = Len(sealed))
    BY <1>0, <2>1, <2>2
       DEF OpensAs, NonceOf, StreamInv, ChainInv, FlagInv, Hungry
  <2>4. ASSUME ~damaged
        PROVE  InPlace'
    <3>1. rpos + Len(NextPiece) = IF rctr + 1 = Len(sealed) THEN Len(file)
                                  ELSE Offset(rctr + 2)
      BY <1>0, <2>1, <2>4, NextOpens DEF IntactInv
    <3>2. i = rctr + 1 /\ rctr \in Nat /\ CtrMod \in Nat /\ Len(sealed) \in Nat
      BY <2>3, StreamAssumption, ChunkFacts DEF StreamInv, TypeOK
    <3>3. CASE done'
      BY <2>1, <2>2, <2>3, <3>1, <3>2, <3>3 DEF InPlace
    <3>4. CASE ~done'
      <4>0. i # Len(sealed)
        <5>1. done' = (i = Len(sealed))
          BY ONLY <2>3
        <5> QED
          BY ONLY <3>4, <5>1, Zenon
      <4>1. i < Len(sealed)
        BY <3>2, <4>0
      <4>2. rctr' = rctr + 1
        BY <1>0, <2>1, <3>2, <4>1 DEF Bump
      <4>3. rctr' + 1 = rctr + 2
        BY <3>2, <4>2
      <4>4. rpos' = Offset(rctr' + 1)
        BY <2>2, <3>1, <3>2, <4>1, <4>3
      <4> QED
        BY <2>2, <3>4, <4>4 DEF InPlace, Offset
    <3> QED
      BY <3>3, <3>4
  <2>5. ~damaged => LaidOut'
    BY <2>1 DEF IntactInv, LaidOut
  <2> QED
    BY <2>1, <2>4, <2>5 DEF IntactInv, FullInv
<1>8. CASE RejectChunk
  <2>1. damaged
    <3>1. SUFFICES ASSUME ~damaged
                   PROVE  FALSE
      OBVIOUS
    <3>2. /\ rctr + 1 \in 1 .. Len(sealed)
          /\ OpensAs(sealed[rctr + 1], NextPiece, rctr, IsLast(Len(NextPiece)))
      BY <1>0, <1>8, <3>1, NextOpens DEF RejectChunk, IntactInv
    <3> QED
      BY <1>8, <3>2 DEF RejectChunk
  <2> QED
    BY <1>8, <2>1 DEF RejectChunk, IntactInv, FullInv, writerVars
<1>9. CASE CheckTrailing
  <2>1. ~damaged => status' = "reading"
    <3>1. SUFFICES ASSUME ~damaged
                   PROVE  Available = 0
      BY <1>9 DEF CheckTrailing
    <3>2. rpos = Len(file) /\ Len(file) \in Nat
      BY <1>9, <3>1 DEF CheckTrailing, IntactInv, InPlace, StreamInv, StatusInv, TypeOK
    <3> QED
      BY <3>2 DEF Available
  <2> QED
    BY <1>9, <1>a, <2>1 DEF CheckTrailing, writerVars, readerVars
<1>10. CASE Eof
  BY <1>10, <1>a DEF Eof, writerVars, readerVars
<1>11. ASSUME NEW n \in 1 .. MaxIo, Deliver(n)
       PROVE  IntactInv'
  BY <1>11, <1>a DEF Deliver, writerVars
<1>12. CASE UNCHANGED vars
  BY <1>12 DEF vars, writerVars, readerVars, IntactInv, FullInv, LaidOut, InPlace
<1> QED
  BY <1>1, <1>2, <1>3, <1>4, <1>5, <1>6, <1>7, <1>8, <1>9, <1>10, <1>11, <1>12
     DEF Next, Read

(* IntactInv always holds, if the counter suffices.                        *)
LEMMA IntactKept == CounterSuffices => (Spec => []IntactInv)
<1> SUFFICES ASSUME CounterSuffices
             PROVE  Spec => []IntactInv
  OBVIOUS
<1>1. Init => IntactInv
  <2> SUFFICES ASSUME Init
               PROVE  IntactInv
    OBVIOUS
  <2>1. Len(sealed) = 0 /\ Len(file) = 0
    BY DEF Init
  <2>2. Offset(1) = 0
    BY StreamAssumption DEF Offset, SealedChunk
  <2> QED
    BY <2>1, <2>2 DEF Init, IntactInv, FullInv, LaidOut, InPlace
<1>2. StreamInv /\ IntactInv /\ [Next]_vars => IntactInv'
  BY IntactStep
<1> QED
  BY <1>1, <1>2, StreamInvariant, PTL DEF Spec

(* A container nobody touched never fails to open, wherever its plaintext  *)
(* falls on the chunk boundary.                                            *)
THEOREM IntactOpens == CounterSuffices => (Spec => []IntactReadable)
<1> SUFFICES ASSUME CounterSuffices
             PROVE  Spec => []IntactReadable
  OBVIOUS
<1>1. IntactInv => IntactReadable
  BY DEF IntactInv, InPlace, IntactReadable
<1> QED
  BY <1>1, IntactKept, PTL

-----------------------------------------------------------------------------
(* The stream is a pipe *)

\* What PipeView makes of status.
Outcome == CASE status = "eof"   -> "complete"
             [] status = "error" -> "broken"
             [] OTHER            -> "open"

(* Every step of the stream is a step of the pipe or invisible in it.      *)
LEMMA PipeStep ==
  ASSUME CounterSuffices, StreamInv, IntactInv, IntactInv', [Next]_vars
  PROVE  [PipeView!Next]_(PipeView!vars)
<1>0. Len(sealed) <= CtrMod
  BY EnoughCounters DEF IntactInv
<1>s. ASSUME UNCHANGED <<taken, damaged, delivered>>,
             (status' # "writing") = (status # "writing"),
             Outcome' = Outcome
      PROVE  UNCHANGED PipeView!vars
  BY <1>s DEF PipeView!vars, Outcome
<1>b. ASSUME UNCHANGED <<taken, damaged, delivered>>,
             status \in {"reading", "checking"}, status' = "error"
      PROVE  PipeView!Break
  <2>1. damaged' /\ damaged
    BY <1>b DEF IntactInv, InPlace
  <2> QED
    BY <1>b, <2>1 DEF PipeView!Break
<1>1. ASSUME NEW n \in 1 .. MaxIo, Write(n)
      PROVE  PipeView!Next
  <2>1. PipeView!Send(n)
    BY <1>1 DEF Write, readerVars, PipeView!Send
  <2>2. n \in 0 .. MaxIo
    BY StreamAssumption
  <2> QED
    BY <2>1, <2>2 DEF PipeView!Next
<1>2. CASE FlushFull
  BY <1>2, <1>s DEF FlushFull, readerVars, Outcome
<1>3. CASE Finish
  <2>1. PipeView!Close
    BY <1>3 DEF Finish, readerVars, PipeView!Close
  <2> QED
    BY <2>1 DEF PipeView!Next
<1>4. CASE Damage
  <2>1. PipeView!Corrupt
    BY <1>4 DEF Damage, readerVars, writerVars, PipeView!Corrupt
  <2> QED
    BY <2>1 DEF PipeView!Next
<1>5. CASE StartReading
  BY <1>5, <1>s DEF StartReading, readerVars, writerVars, Outcome
<1>6. CASE EndsEarly
  BY <1>6, <1>b DEF EndsEarly, Hungry, readerVars, writerVars, PipeView!Next
<1>7. CASE OpenChunk
  <2>1. status = "reading" /\ status' \in {"checking", "reading"}
        /\ UNCHANGED <<taken, damaged, delivered>>
    BY <1>7 DEF OpenChunk, Hungry, writerVars
  <2> QED
    BY <2>1, <1>s DEF Outcome
<1>8. CASE RejectChunk
  BY <1>8, <1>b DEF RejectChunk, Hungry, readerVars, writerVars, PipeView!Next
<1>9. CASE CheckTrailing
  <2>1. CASE status' = "error"
    BY <1>9, <2>1, <1>b DEF CheckTrailing, readerVars, writerVars, PipeView!Next
  <2>2. CASE status' = "reading"
    BY <1>9, <2>2, <1>s DEF CheckTrailing, readerVars, writerVars, Outcome
  <2> QED
    BY <1>9, <2>1, <2>2 DEF CheckTrailing
<1>10. CASE Eof
  <2>1. Len(delivered) = taken
    BY <1>0, <1>10 DEF Eof, StreamInv, PlaceInv
  <2>2. PipeView!Complete
    BY <1>10, <2>1 DEF Eof, readerVars, writerVars, PipeView!Complete
  <2> QED
    BY <2>2 DEF PipeView!Next
<1>11. ASSUME NEW n \in 1 .. MaxIo, Deliver(n)
       PROVE  PipeView!Next
  <2> DEFINE m == IF n < plain.len - pos THEN n ELSE plain.len - pos
  <2>1. /\ m \in 0 .. MaxIo
        /\ m <= plain.len - pos
    BY <1>11, StreamAssumption DEF Deliver, StreamInv, TypeOK
  <2>2. Len(delivered) = plain.from + pos /\ plain.from + plain.len <= taken
    BY <1>0 DEF StreamInv, PlaceInv
  <2>3. /\ status = "reading"
        /\ delivered' = delivered
                         \o [i \in 1 .. m |-> plain.from + pos + i - 1]
        /\ UNCHANGED <<status, taken, damaged>>
    BY <1>11 DEF Deliver, writerVars
  <2>4. Len(delivered) + m <= taken
    BY <2>1, <2>2 DEF StreamInv, TypeOK
  <2> HIDE DEF m
  <2>5. PipeView!Receive(m)
    BY <2>2, <2>3, <2>4 DEF PipeView!Receive
  <2> QED
    BY <2>1, <2>5 DEF PipeView!Next
<1>12. CASE UNCHANGED vars
  BY <1>12, <1>s DEF vars, writerVars, readerVars, Outcome
<1> QED
  BY <1>1, <1>2, <1>3, <1>4, <1>5, <1>6, <1>7, <1>8, <1>9, <1>10, <1>11, <1>12
     DEF Next, Read

(* The chunked stream does what the pipe promises: bytes go in, and a      *)
(* prefix, or all of them, or a failure that damage explains, comes out.   *)
THEOREM StreamImplementsPipe == CounterSuffices => (Spec => ImplementsPipe)
<1> SUFFICES ASSUME CounterSuffices
             PROVE  Spec => ImplementsPipe
  OBVIOUS
<1>1. Init => PipeView!Init
  BY DEF Init, PipeView!Init
<1>2. StreamInv /\ IntactInv /\ IntactInv' /\ [Next]_vars
        => [PipeView!Next]_(PipeView!vars)
  BY PipeStep
<1> QED
  BY <1>1, <1>2, StreamInvariant, IntactKept, PTL
     DEF Spec, ImplementsPipe, PipeView!Spec
=============================================================================
