------------------------------ MODULE MCStream ------------------------------
(* A small stream, with everything the stored bytes may suffer: cut off    *)
(* anywhere, one byte garbled, and its chunks rearranged, left out,        *)
(* repeated or appended, up to MaxPieces of them.                          *)
EXTENDS Stream, SequencesExt

CONSTANT MaxPieces

Truncations(f) == {SubSeq(f, 1, n) : n \in 0 .. Len(f)}

Flips(f) == {[f EXCEPT ![i] = Garbage] : i \in 1 .. Len(f)}

Extended(f) == {Append(f, Garbage)}

\* The stored bytes cut where the reader will cut them.
Pieces(f) ==
  LET Start(k) == (k - 1) * SealedChunk
  IN [k \in 1 .. (Len(f) + SealedChunk - 1) \div SealedChunk |->
        SubSeq(f, Start(k) + 1,
               IF k * SealedChunk < Len(f) THEN k * SealedChunk ELSE Len(f))]

Rearrangements(f) ==
  LET p == Pieces(f)
  IN {FlattenSeq([i \in 1 .. Len(order) |-> p[order[i]]]) :
        order \in BoundedSeq(1 .. Len(p), MaxPieces)}

MCDamaged(f) ==
  Truncations(f) \union Flips(f) \union Extended(f) \union Rearrangements(f)

=============================================================================
