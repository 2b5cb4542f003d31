--------------------------- MODULE CascadeProofs ----------------------------
(***************************************************************************)
(* What Radix-Cascade promises, for every message and associated data of   *)
(* any number of blocks, and any layers broken: whatever the permutation   *)
(* is in the first part, and with an ideal one in the second, where Radix  *)
(* may be the only layer that holds.                                       *)
(***************************************************************************)
EXTENDS Cascade, TLAPS

-----------------------------------------------------------------------------
(* One block *)

(* Adding twice undoes itself.                                             *)
LEMMA XorTwice == \A a, b : Xor(a, Xor(a, b)) = b
BY DEF Xor

(* What is put out for a block has its length.                             *)
LEMMA OutFacts ==
  ASSUME NEW s, NEW S, NEW block \in Seq(S)
  PROVE  /\ Len(Out(s, block)) = Len(block)
         /\ DOMAIN Out(s, block) = 1 .. Len(block)
         /\ \A i \in 1 .. Len(block) : Out(s, block)[i] = Xor(s[i], block[i])
<1>1. Len(block) \in Nat
  OBVIOUS
<1>2. Out(s, block) = [i \in 1 .. Len(block) |-> Xor(s[i], block[i])]
  BY DEF Out
<1> DEFINE f == [i \in 1 .. Len(block) |-> Xor(s[i], block[i])]
<1> DEFINE T == {Xor(s[i], block[i]) : i \in 1 .. Len(block)}
<1>3. f \in [1 .. Len(block) -> T]
  OBVIOUS
<1>4. f \in Seq(T) /\ Len(f) = Len(block)
  BY <1>1, <1>3
<1> QED
  BY <1>2, <1>4

(* Decrypting a block gives the message back and leaves the duplex as      *)
(* encrypting it did.                                                      *)
LEMMA BlockRoundTrip ==
  ASSUME NEW s, NEW S, NEW block \in Seq(S), NEW isRest
  PROVE  /\ Out(s, Out(s, block)) = block
         /\ Decrypted(s, Out(s, block), isRest) = Encrypted(s, block, isRest)
<1> DEFINE ct == Out(s, block)
<1>1. /\ Len(ct) = Len(block)
      /\ \A i \in 1 .. Len(block) : ct[i] = Xor(s[i], block[i])
      /\ Len(block) \in Nat
  BY OutFacts
<1> HIDE DEF ct
<1>2. Out(s, ct) = block
  <2>1. Out(s, ct) = [i \in 1 .. Len(block) |-> Xor(s[i], ct[i])]
    BY <1>1 DEF Out
  <2>2. \A i \in 1 .. Len(block) : Xor(s[i], ct[i]) = block[i]
    BY <1>1, XorTwice
  <2>3. block = [i \in 1 .. Len(block) |-> block[i]]
    OBVIOUS
  <2> QED
    BY <2>1, <2>2, <2>3
<1>3. PutBlock(s, ct) = AddBlock(s, block)
  BY <1>1 DEF PutBlock, AddBlock, Rows
<1> QED
  BY <1>1, <1>2, <1>3 DEF Decrypted, Encrypted, ct

-----------------------------------------------------------------------------
(* Sequences and records whose elements have no type                       *)

Elems(s) == {s[j] : j \in 1 .. Len(s)}
IsSeq(s) == Len(s) \in Nat /\ s \in Seq(Elems(s))

(* What appending does to a sequence.                                      *)
LEMMA AppendFacts ==
  ASSUME NEW s, IsSeq(s), NEW e
  PROVE  /\ IsSeq(Append(s, e))
         /\ Len(Append(s, e)) = Len(s) + 1
         /\ Append(s, e)[Len(s) + 1] = e
         /\ \A i \in 1 .. Len(s) : Append(s, e)[i] = s[i]
<1> DEFINE S == Elems(s) \union {e}
<1> DEFINE a == Append(s, e)
<1>1. s \in Seq(S) /\ e \in S
  <2>1. s \in [1 .. Len(s) -> Elems(s)]
    BY DEF IsSeq
  <2>2. s \in [1 .. Len(s) -> S]
    BY <2>1
  <2> QED
    BY <2>2 DEF IsSeq
<1>2. /\ a \in Seq(S) /\ Len(a) = Len(s) + 1 /\ Len(s) \in Nat
      /\ a[Len(s) + 1] = e
      /\ \A i \in 1 .. Len(s) : a[i] = s[i]
  <2> HIDE DEF S
  <2> QED
    BY <1>1
<1>3. IsSeq(a)
  <2> HIDE DEF a, S
  <2>1. a \in [1 .. Len(a) -> S] /\ Len(a) \in Nat
    BY <1>2
  <2>2. a \in [1 .. Len(a) -> Elems(a)]
    BY <2>1 DEF Elems
  <2> QED
    BY <2>1, <2>2 DEF IsSeq
<1> QED
  BY <1>2, <1>3

(* Sequences of one length that agree everywhere are equal.                *)
LEMMA SameSequences ==
  ASSUME NEW s, IsSeq(s), NEW S, NEW t \in Seq(S), Len(s) = Len(t),
         \A i \in 1 .. Len(t) : s[i] = t[i]
  PROVE  s = t
<1>1. s \in [1 .. Len(s) -> Elems(s)] /\ t \in [1 .. Len(t) -> S]
  BY DEF IsSeq
<1> QED
  BY <1>1

(* Those of some type are.                                                 *)
LEMMA TypedSequence == ASSUME NEW S, NEW s \in Seq(S) PROVE IsSeq(s)
<1>1. Len(s) \in Nat /\ s \in [1 .. Len(s) -> S]
  OBVIOUS
<1>2. s \in [1 .. Len(s) -> Elems(s)]
  BY <1>1 DEF Elems
<1> QED
  BY <1>1, <1>2 DEF IsSeq

(* The empty sequence is one.                                              *)
LEMMA EmptySequence == IsSeq(<<>>) /\ Len(<<>>) = 0
BY DEF IsSeq, Elems

(* So is that of one element.                                              *)
LEMMA OneElement == \A e : IsSeq(<<e>>) /\ Len(<<e>>) = 1 /\ <<e>>[1] = e
<1> SUFFICES ASSUME NEW e PROVE IsSeq(<<e>>) /\ Len(<<e>>) = 1 /\ <<e>>[1] = e
  OBVIOUS
<1> DEFINE t == <<e>>
<1>1. Len(t) = 1 /\ t[1] = e /\ t \in Seq({e})
  OBVIOUS
<1>2. Elems(t) = {e}
  BY <1>1 DEF Elems
<1> QED
  BY <1>1, <1>2 DEF IsSeq

JobFields == {"op", "master", "nonce", "ad", "input", "text", "phase", "n", "d",
              "out", "trail"}

TextFields == {"commit", "whole", "forged", "master", "nonce", "ad", "ct", "tag"}

JobShape == Busy => job = [f \in JobFields |-> job[f]]
TextShape(t) ==
  /\ t = [f \in TextFields |-> t[f]]
  /\ t.whole \in BOOLEAN /\ t.forged \in BOOLEAN

(* What the duplex going on changes of the job.                            *)
LEMMA GoesFacts ==
  ASSUME JobShape, Busy, NEW phase, NEW n, NEW d, NEW out, Goes(phase, n, d, out)
  PROVE  /\ JobShape' /\ Busy'
         /\ job'.phase = phase /\ job'.n = n /\ job'.d = d /\ job'.out = out
         /\ job'.trail = Append(job.trail, d)
         /\ job'.op = job.op /\ job'.master = job.master /\ job'.nonce = job.nonce
         /\ job'.ad = job.ad /\ job'.input = job.input /\ job'.text = job.text
BY DEF JobShape, Goes, Busy, JobFields

(* What a new call starts from.                                            *)
LEMMA NewJobFacts ==
  ASSUME NEW op, NEW master, NEW nonce, NEW ad, NEW input, NEW text, op # "none",
         job' = NewJob(op, master, nonce, ad, input, text)
  PROVE  /\ JobShape' /\ Busy'
         /\ job'.phase = "ad" /\ job'.n = 0 /\ job'.out = <<>>
         /\ job'.d = NewDuplex(RadixKey(master), RadixNonce(nonce))
         /\ job'.trail = <<job'.d>>
         /\ job'.op = op /\ job'.master = master /\ job'.nonce = nonce
         /\ job'.ad = ad /\ job'.input = input /\ job'.text = text
BY DEF JobShape, NewJob, Busy, JobFields

-----------------------------------------------------------------------------
(* The invariant *)

\* t is the course of the duplex over k blocks of associated data,
AdTrace(t, r, k) ==
  /\ t[1] = NewDuplex(RadixKey(r.master), RadixNonce(r.nonce))
  /\ \A i \in 1 .. k : t[i + 1] = Absorb(t[i], r.ad[i], i = Len(r.ad))

\* and then over k blocks of the message.
MsgTrace(t, ad, msg, ct, k) ==
  /\ t[Len(ad) + 2] = Separate(t[Len(ad) + 1])
  /\ \A j \in 1 .. k :
       /\ t[Len(ad) + 2 + j] =
            Encrypted(t[Len(ad) + 1 + j], msg[j], j = Len(msg))
       /\ ct[j] = Out(t[Len(ad) + 1 + j], msg[j])

Same(a, b) == a.master = b.master /\ a.nonce = b.nonce /\ a.ad = b.ad

\* What is known of a sealing that has come to its end.
Traced(s) ==
  /\ s.ad \in Ads /\ s.msg \in Msgs
  /\ AdTrace(s.trail, s, Len(s.ad))
  /\ MsgTrace(s.trail, s.ad, s.msg, s.text.ct, Len(s.msg))
  /\ Len(s.text.ct) = Len(s.msg)
  /\ s.text = SealedText(s.master, s.nonce, s.ad, s.text.ct,
                Tag(s.trail[Len(s.ad) + 2 + Len(s.msg)], RadixKey(s.master)))

\* A text that is not forged was sealed, but for its commitment and length.
Genuine(t) ==
  ~t.forged =>
    \E s \in sealings :
      \A f \in TextFields \ {"commit", "whole"} : t[f] = s.text[f]

\* A sealing under way: how far the duplex is.
Sealing ==
  job.op = "seal" =>
    /\ job.ad \in Ads /\ job.input \in Msgs
    /\ Unused(job.master, job.nonce)
    /\ IsSeq(job.trail) /\ IsSeq(job.out)
    /\ \/ /\ job.phase = "ad"
          /\ job.n \in 0 .. Len(job.ad)
          /\ Len(job.trail) = job.n + 1 /\ job.d = job.trail[job.n + 1]
          /\ AdTrace(job.trail, job, job.n)
       \/ /\ job.phase = "data"
          /\ job.n \in 0 .. Len(job.input) /\ Len(job.out) = job.n
          /\ Len(job.trail) = Len(job.ad) + 2 + job.n
          /\ job.d = job.trail[Len(job.ad) + 2 + job.n]
          /\ AdTrace(job.trail, job, Len(job.ad))
          /\ MsgTrace(job.trail, job.ad, job.input, job.out, job.n)

\* An opening under way is where the sealing was.
Follows(s) ==
  \/ /\ job.phase = "ad"
     /\ job.n \in 0 .. Len(s.ad)
     /\ job.d = s.trail[job.n + 1]
  \/ /\ job.phase = "data"
     /\ job.n \in 0 .. Len(s.msg) /\ Len(job.out) = job.n
     /\ job.d = s.trail[Len(s.ad) + 2 + job.n]
     /\ \A j \in 1 .. job.n : job.out[j] = s.msg[j]

OpeningUnderWay ==
  job.op = "open" =>
    /\ IsSeq(job.out)
    /\ job.text \in stored
    /\ job.input = job.text.ct
    /\ Accepted(job.text, job.master, job.nonce, job.ad)
    /\ \A s \in sealings : s.text = job.text /\ Same(s, job) => Follows(s)

\* With a standard layer that holds, what was opened is what was sealed.
StandardHolds ==
  ~(Standard \subseteq broken) =>
    \A o \in openings : o.ok =>
      \E s \in sealings : Same(s, o) /\ s.msg = o.msg

OpenedCommitted == \A o \in openings : o.ok => Committed(o.text, o.master)

CascadeInv ==
  /\ JobShape
  /\ job.op \in {"none", "seal", "open"}
  /\ \A t \in stored : TextShape(t) /\ Genuine(t)
  /\ \A o \in openings : o.text \in stored
  /\ \A s \in sealings : Traced(s) /\ s.text \in stored
  /\ Sealing
  /\ OpeningUnderWay
  /\ SealedOpens
  /\ StandardHolds
  /\ OpenedCommitted

(* Texts that were sealed tell their commitment and what they are under.   *)
LEMMA SealedTextFacts ==
  \A master, nonce, ad, ct, tag, t :
    t = SealedText(master, nonce, ad, ct, tag) =>
      /\ TextShape(t)
      /\ t.commit = master /\ t.whole = TRUE /\ t.forged = FALSE
      /\ t.master = master /\ t.nonce = nonce /\ t.ad = ad
      /\ t.ct = ct /\ t.tag = tag
<1> SUFFICES ASSUME NEW master, NEW nonce, NEW ad, NEW ct, NEW tag, NEW t,
                    t = SealedText(master, nonce, ad, ct, tag)
             PROVE  /\ TextShape(t)
                    /\ t.commit = master /\ t.whole = TRUE /\ t.forged = FALSE
                    /\ t.master = master /\ t.nonce = nonce /\ t.ad = ad
                    /\ t.ct = ct /\ t.tag = tag
  OBVIOUS
<1> QED
  BY DEF SealedText, TextShape, TextFields

(* A traced text, field by field.                                          *)
LEMMA TracedTextFacts ==
  ASSUME NEW s, Traced(s)
  PROVE  /\ TextShape(s.text)
         /\ s.text.commit = s.master /\ s.text.whole = TRUE /\ s.text.forged = FALSE
         /\ s.text.master = s.master /\ s.text.nonce = s.nonce /\ s.text.ad = s.ad
         /\ s.text.tag =
              Tag(s.trail[Len(s.ad) + 2 + Len(s.msg)], RadixKey(s.master))
<1>1. PICK tag, t :
        /\ tag = Tag(s.trail[Len(s.ad) + 2 + Len(s.msg)], RadixKey(s.master))
        /\ t = s.text
        /\ t = SealedText(s.master, s.nonce, s.ad, s.text.ct, tag)
  BY DEF Traced
<1>2. /\ TextShape(t)
      /\ t.commit = s.master /\ t.whole = TRUE /\ t.forged = FALSE
      /\ t.master = s.master /\ t.nonce = s.nonce /\ t.ad = s.ad
      /\ t.tag = tag
  BY <1>1 DEF SealedText, TextShape, TextFields
<1> QED
  BY <1>1, <1>2

(* A whole, genuine text with the commitment of its master key is one that *)
(* was sealed.                                                             *)
LEMMA AcceptedBySealing ==
  ASSUME CascadeInv, NEW t \in stored, NEW master, NEW nonce, NEW ad,
         Accepted(t, master, nonce, ad), ~(Standard \subseteq broken)
  PROVE  \E s \in sealings :
           s.text = t /\ s.master = master /\ s.nonce = nonce /\ s.ad = ad
<1>1. /\ ~t.forged /\ t.whole /\ t.commit = master
      /\ t.master = master /\ t.nonce = nonce /\ t.ad = ad
  BY DEF Accepted, Passes, Committed
<1>2. TextShape(t)
  BY DEF CascadeInv
<1>3. PICK s \in sealings : \A f \in TextFields \ {"commit", "whole"} : t[f] = s.text[f]
  BY <1>1 DEF CascadeInv, Genuine
<1>4. Traced(s)
  BY DEF CascadeInv
<1>5. /\ TextShape(s.text)
      /\ s.text.master = s.master /\ s.text.nonce = s.nonce /\ s.text.ad = s.ad
      /\ s.text.whole = TRUE /\ s.text.commit = s.master
  BY <1>4, TracedTextFacts
<1>6. s.master = master /\ s.nonce = nonce /\ s.ad = ad
  BY <1>1, <1>3, <1>5 DEF TextFields
<1>7. \A f \in TextFields : t[f] = s.text[f]
  <2>1. t.commit = s.text.commit
    BY <1>1, <1>5, <1>6
  <2>2. t.whole = s.text.whole
    BY <1>1, <1>2, <1>5 DEF TextShape
  <2> QED
    BY <1>3, <2>1, <2>2 DEF TextFields
<1>8. t = s.text
  <2> DEFINE u == s.text
  <2>1. t = [f \in TextFields |-> t[f]] /\ u = [f \in TextFields |-> u[f]]
    BY <1>2, <1>5 DEF TextShape
  <2>2. \A f \in TextFields : t[f] = u[f]
    BY <1>7
  <2> HIDE DEF u
  <2>3. t = u
    BY <2>1, <2>2
  <2> QED
    BY <2>3 DEF u
<1> QED
  BY <1>6, <1>8

-----------------------------------------------------------------------------
(* The course of the duplex, block by block *)

(* It depends on the associated data, the key and the nonce only.          *)
LEMMA SameAdTrace ==
  ASSUME NEW t, NEW r, NEW s, NEW k, AdTrace(t, r, k),
         s.ad = r.ad, s.master = r.master, s.nonce = r.nonce
  PROVE  AdTrace(t, s, k)
BY DEF AdTrace

(* A duplex appended later leaves the trace as it is.                      *)
LEMMA AdTraceStays ==
  ASSUME NEW t, IsSeq(t), NEW r, NEW k \in Nat, k + 1 <= Len(t),
         AdTrace(t, r, k), NEW d
  PROVE  AdTrace(Append(t, d), r, k)
<1> DEFINE u == Append(t, d)
<1>1. \A i \in 1 .. Len(t) : u[i] = t[i]
  BY AppendFacts
<1>2. Len(t) \in Nat
  BY DEF IsSeq
<1> HIDE DEF u
<1>3. u[1] = t[1] /\ \A i \in 1 .. k : u[i] = t[i] /\ u[i + 1] = t[i + 1]
  BY <1>1, <1>2
<1>4. AdTrace(u, r, k)
  BY <1>3 DEF AdTrace
<1> QED
  BY <1>4 DEF u

(* Absorbing another block of associated data adds to the trace.           *)
LEMMA AdTraceGrows ==
  ASSUME NEW t, IsSeq(t), NEW r, NEW n \in Nat, Len(t) = n + 1,
         AdTrace(t, r, n), NEW d,
         d = Absorb(t[n + 1], r.ad[n + 1], n + 1 = Len(r.ad))
  PROVE  AdTrace(Append(t, d), r, n + 1)
<1> DEFINE u == Append(t, d)
<1>1. u[n + 2] = d /\ u[n + 1] = t[n + 1]
  BY AppendFacts
<1>2. AdTrace(u, r, n)
  BY AdTraceStays
<1> HIDE DEF u
<1>3. \A i \in 1 .. n + 1 : i \in 1 .. n \/ i = n + 1
  OBVIOUS
<1>4. AdTrace(u, r, n + 1)
  BY <1>1, <1>2, <1>3 DEF AdTrace
<1> QED
  BY <1>4 DEF u

(* The same of the blocks of the message.                                  *)
LEMMA MsgTraceStays ==
  ASSUME NEW t, IsSeq(t), NEW ad, Len(ad) \in Nat, NEW msg, NEW ct, IsSeq(ct),
         NEW n \in Nat, Len(ct) = n, Len(t) = Len(ad) + 2 + n,
         MsgTrace(t, ad, msg, ct, n), NEW d, NEW c
  PROVE  MsgTrace(Append(t, d), ad, msg, Append(ct, c), n)
<1> DEFINE u == Append(t, d)
<1> DEFINE v == Append(ct, c)
<1>1. /\ \A i \in 1 .. Len(t) : u[i] = t[i]
      /\ \A i \in 1 .. n : v[i] = ct[i]
  BY AppendFacts
<1> HIDE DEF u, v
<1>2. /\ u[Len(ad) + 1] = t[Len(ad) + 1] /\ u[Len(ad) + 2] = t[Len(ad) + 2]
      /\ \A j \in 1 .. n : /\ u[Len(ad) + 2 + j] = t[Len(ad) + 2 + j]
                           /\ u[Len(ad) + 1 + j] = t[Len(ad) + 1 + j]
  BY <1>1
<1>3. MsgTrace(u, ad, msg, v, n)
  BY <1>1, <1>2 DEF MsgTrace
<1> QED
  BY <1>3 DEF u, v

(* Taking another block of the message adds to its trace.                  *)
LEMMA MsgTraceGrows ==
  ASSUME NEW t, IsSeq(t), NEW ad, Len(ad) \in Nat, NEW msg, NEW ct, IsSeq(ct),
         NEW n \in Nat, Len(ct) = n, Len(t) = Len(ad) + 2 + n,
         MsgTrace(t, ad, msg, ct, n),
         NEW d, d = Encrypted(t[Len(ad) + 2 + n], msg[n + 1], n + 1 = Len(msg)),
         NEW c, c = Out(t[Len(ad) + 2 + n], msg[n + 1])
  PROVE  MsgTrace(Append(t, d), ad, msg, Append(ct, c), n + 1)
<1> DEFINE u == Append(t, d)
<1> DEFINE v == Append(ct, c)
<1>1. /\ u[Len(ad) + 2 + (n + 1)] = d
      /\ u[Len(ad) + 1 + (n + 1)] = t[Len(ad) + 2 + n]
      /\ v[n + 1] = c
  <2>1. /\ u[Len(t) + 1] = d /\ \A i \in 1 .. Len(t) : u[i] = t[i]
        /\ v[n + 1] = c
    BY AppendFacts
  <2>2. /\ Len(ad) + 2 + (n + 1) = Len(t) + 1
        /\ Len(ad) + 1 + (n + 1) = Len(t) /\ Len(ad) + 2 + n = Len(t)
        /\ Len(t) \in 1 .. Len(t)
    OBVIOUS
  <2> QED
    BY <2>1, <2>2
<1>2. MsgTrace(u, ad, msg, v, n)
  BY MsgTraceStays
<1> HIDE DEF u, v
<1>3. \A j \in 1 .. n + 1 : j \in 1 .. n \/ j = n + 1
  OBVIOUS
<1>4. MsgTrace(u, ad, msg, v, n + 1)
  BY <1>1, <1>2, <1>3 DEF MsgTrace
<1> QED
  BY <1>4 DEF u, v

(* Lengths of what there is to be sealed.                                  *)
LEMMA DataFacts ==
  /\ \A ad \in Ads : Len(ad) \in Nat
  /\ \A msg \in Msgs :
       /\ Len(msg) \in Nat /\ msg \in Seq(Seq(Pieces))
       /\ \A j \in 1 .. Len(msg) : msg[j] \in Seq(Pieces)
<1>1. Ads \subseteq Seq(Seq(Pieces)) /\ Msgs \subseteq Seq(Seq(Pieces))
  BY CascadeAssumption
<1>2. \A S : \A q \in Seq(S) : Len(q) \in Nat /\ \A j \in 1 .. Len(q) : q[j] \in S
  OBVIOUS
<1> QED
  BY <1>1, <1>2

(* What is stored and what is known of the past stays while a job goes on. *)
LEMMA RecordsStay ==
  ASSUME CascadeInv, UNCHANGED <<broken, stored, sealings, openings>>
  PROVE  /\ \A t \in stored' : TextShape(t)' /\ Genuine(t)'
         /\ \A o \in openings' : o.text \in stored'
         /\ \A q \in sealings' : Traced(q)' /\ q.text \in stored'
         /\ SealedOpens' /\ StandardHolds' /\ OpenedCommitted'
<1>1. /\ \A t \in stored : TextShape(t) /\ Genuine(t)
      /\ \A o \in openings : o.text \in stored
      /\ \A q \in sealings : Traced(q) /\ q.text \in stored
      /\ SealedOpens /\ StandardHolds /\ OpenedCommitted
  BY DEF CascadeInv
<1>2. \A t : (TextShape(t)' <=> TextShape(t)) /\ (Genuine(t)' <=> Genuine(t))
             /\ (Traced(t)' <=> Traced(t))
  BY DEF TextShape, Genuine, Traced, AdTrace, MsgTrace
<1> QED
  BY <1>1, <1>2 DEF SealedOpens, StandardHolds, OpenedCommitted, Committed, Same

(* Sealing goes on block by block.                                         *)
LEMMA SealingGoesOn ==
  ASSUME CascadeInv, job.op = "seal", AbsorbAd \/ EndAd \/ TakeBlock
  PROVE  Sealing'
<1> DEFINE t == job.trail
<1> DEFINE ad == job.ad
<1>1. /\ JobShape /\ Busy
      /\ job.ad \in Ads /\ job.input \in Msgs
      /\ Unused(job.master, job.nonce)
      /\ IsSeq(job.trail) /\ IsSeq(job.out)
      /\ Len(job.ad) \in Nat /\ Len(job.input) \in Nat
  BY DataFacts DEF CascadeInv, Sealing, Busy
<1>2. sealings' = sealings
  BY DEF AbsorbAd, EndAd, TakeBlock
<1>3. CASE AbsorbAd
  <2> DEFINE d == Absorb(job.d, job.ad[job.n + 1], job.n + 1 = Len(job.ad))
  <2>1. /\ job.phase = "ad" /\ job.n \in Nat /\ job.n < Len(job.ad)
        /\ Len(t) = job.n + 1 /\ job.d = t[job.n + 1]
        /\ AdTrace(t, job, job.n)
    BY <1>1, <1>3 DEF CascadeInv, Sealing, AbsorbAd
  <2>2. Goes("ad", job.n + 1, d, <<>>)
    BY <1>3 DEF AbsorbAd
  <2>3. /\ job'.phase = "ad" /\ job'.n = job.n + 1 /\ job'.d = d /\ job'.out = <<>>
        /\ job'.trail = Append(job.trail, d)
        /\ job'.op = job.op /\ job'.master = job.master /\ job'.nonce = job.nonce
        /\ job'.ad = job.ad /\ job'.input = job.input
    <3>1. JobShape /\ Busy
      BY <1>1
    <3> QED
      BY <2>2, <3>1 DEF JobShape, Goes, Busy, JobFields
  <2>4. AdTrace(Append(t, d), job, job.n + 1)
    BY <1>1, <2>1, AdTraceGrows
  <2>5. IsSeq(job'.trail) /\ Len(job'.trail) = job'.n + 1
        /\ job'.d = job'.trail[job'.n + 1]
    <3> DEFINE u == Append(t, d)
    <3>1. IsSeq(u) /\ Len(u) = Len(t) + 1 /\ u[Len(t) + 1] = d
      BY <1>1, AppendFacts
    <3>2. job'.trail = u /\ job'.n = job.n + 1 /\ job'.d = d
      BY <2>3
    <3>3. Len(t) + 1 = job'.n + 1
      BY <2>1, <3>2
    <3> HIDE DEF u, d
    <3> QED
      BY <3>1, <3>2, <3>3
  <2>6. AdTrace(job'.trail, job', job'.n)
    <3> HIDE DEF d
    <3>1. AdTrace(job'.trail, job, job'.n)
      BY <2>3, <2>4
    <3> QED
      BY <2>3, <3>1, SameAdTrace
  <2>7. job'.n \in 0 .. Len(job'.ad)
    BY <1>1, <2>1, <2>3
  <2> QED
    BY <1>1, <1>2, <2>3, <2>5, <2>6, <2>7, EmptySequence DEF Sealing, Unused
<1>4. CASE EndAd
  <2> DEFINE d == Separate(job.d)
  <2>1. /\ job.phase = "ad" /\ job.n = Len(job.ad)
        /\ Len(t) = Len(ad) + 1 /\ job.d = t[Len(ad) + 1]
        /\ AdTrace(t, job, Len(ad))
    BY <1>1, <1>4 DEF CascadeInv, Sealing, EndAd
  <2>2. Goes("data", 0, d, <<>>)
    BY <1>4 DEF EndAd
  <2>3. /\ job'.phase = "data" /\ job'.n = 0 /\ job'.d = d /\ job'.out = <<>>
        /\ job'.trail = Append(job.trail, d)
        /\ job'.op = job.op /\ job'.master = job.master /\ job'.nonce = job.nonce
        /\ job'.ad = job.ad /\ job'.input = job.input
    <3>1. JobShape /\ Busy
      BY <1>1
    <3> HIDE DEF d
    <3> QED
      BY <2>2, <3>1 DEF JobShape, Goes, Busy, JobFields
  <2>4. AdTrace(Append(t, d), job, Len(ad))
    BY <1>1, <2>1, AdTraceStays
  <2>5. /\ IsSeq(job'.trail) /\ Len(job'.trail) = Len(ad) + 2
        /\ job'.trail[Len(ad) + 2] = d
        /\ job'.trail[Len(ad) + 1] = job.d
    <3> DEFINE u == Append(t, d)
    <3>1. /\ IsSeq(u) /\ Len(u) = Len(t) + 1 /\ u[Len(t) + 1] = d
          /\ \A i \in 1 .. Len(t) : u[i] = t[i]
      BY <1>1, AppendFacts
    <3>2. Len(t) + 1 = Len(ad) + 2 /\ Len(ad) + 1 \in 1 .. Len(t)
      BY <1>1, <2>1
    <3>3. job'.trail = u /\ job.d = t[Len(ad) + 1]
      BY <2>1, <2>3
    <3> HIDE DEF u, d
    <3>4. u[Len(ad) + 1] = t[Len(ad) + 1]
      BY <3>1, <3>2
    <3> QED
      BY <3>1, <3>2, <3>3, <3>4
  <2>6. AdTrace(job'.trail, job', Len(job'.ad))
    <3> HIDE DEF d
    <3>1. AdTrace(job'.trail, job, Len(job'.ad))
      BY <2>3, <2>4
    <3> QED
      BY <2>3, <3>1, SameAdTrace
  <2>7. MsgTrace(job'.trail, job'.ad, job'.input, job'.out, 0)
    BY <2>3, <2>5 DEF MsgTrace
  <2>8. /\ job'.n \in 0 .. Len(job'.input) /\ Len(job'.out) = job'.n
        /\ Len(job'.trail) = Len(job'.ad) + 2 + job'.n
        /\ job'.d = job'.trail[Len(job'.ad) + 2 + job'.n]
    BY <1>1, <2>3, <2>5, EmptySequence
  <2> QED
    BY <1>1, <1>2, <2>3, <2>5, <2>6, <2>7, <2>8, EmptySequence DEF Sealing, Unused
<1>5. CASE TakeBlock
  <2> DEFINE b == job.input[job.n + 1]
  <2> DEFINE d == Encrypted(job.d, b, job.n + 1 = Len(job.input))
  <2> DEFINE c == Out(job.d, b)
  <2>1. /\ job.phase = "data" /\ job.n \in Nat /\ job.n < Len(job.input)
        /\ Len(job.out) = job.n
        /\ Len(t) = Len(ad) + 2 + job.n /\ job.d = t[Len(ad) + 2 + job.n]
        /\ AdTrace(t, job, Len(ad))
        /\ MsgTrace(t, ad, job.input, job.out, job.n)
    BY <1>1, <1>5 DEF CascadeInv, Sealing, TakeBlock
  <2>2. Goes("data", job.n + 1, d, Append(job.out, c))
    BY <1>5 DEF TakeBlock
  <2>3. /\ job'.phase = "data" /\ job'.n = job.n + 1 /\ job'.d = d
        /\ job'.out = Append(job.out, c)
        /\ job'.trail = Append(job.trail, d)
        /\ job'.op = job.op /\ job'.master = job.master /\ job'.nonce = job.nonce
        /\ job'.ad = job.ad /\ job'.input = job.input
    <3>1. JobShape /\ Busy
      BY <1>1
    <3> HIDE DEF b, d, c
    <3> QED
      BY <2>2, <3>1 DEF JobShape, Goes, Busy, JobFields
  <2>4. AdTrace(Append(t, d), job, Len(ad))
    BY <1>1, <2>1, AdTraceStays
  <2>5. MsgTrace(Append(t, d), ad, job.input, Append(job.out, c), job.n + 1)
    BY <1>1, <2>1, MsgTraceGrows
  <2>6. /\ IsSeq(Append(t, d)) /\ Len(Append(t, d)) = Len(t) + 1
        /\ Append(t, d)[Len(t) + 1] = d
        /\ IsSeq(Append(job.out, c)) /\ Len(Append(job.out, c)) = job.n + 1
    <3>1. IsSeq(t) /\ IsSeq(job.out) /\ Len(job.out) = job.n
      BY <1>1, <2>1
    <3> HIDE DEF d, c
    <3>2. /\ IsSeq(Append(t, d)) /\ Len(Append(t, d)) = Len(t) + 1
          /\ Append(t, d)[Len(t) + 1] = d
      BY <3>1, AppendFacts
    <3>3. IsSeq(Append(job.out, c)) /\ Len(Append(job.out, c)) = Len(job.out) + 1
      BY <3>1, AppendFacts
    <3> QED
      BY <3>1, <3>2, <3>3, Zenon
  <2>7. AdTrace(job'.trail, job', Len(job'.ad))
    <3> HIDE DEF d, c
    <3>1. AdTrace(job'.trail, job, Len(job'.ad))
      BY <2>3, <2>4
    <3> QED
      BY <2>3, <3>1, SameAdTrace
  <2>8. MsgTrace(job'.trail, job'.ad, job'.input, job'.out, job'.n)
    BY <2>3, <2>5
  <2>9. /\ job'.n \in 0 .. Len(job'.input) /\ Len(job'.out) = job'.n
        /\ Len(job'.trail) = Len(job'.ad) + 2 + job'.n
        /\ job'.d = job'.trail[Len(job'.ad) + 2 + job'.n]
    <3>1. \A a, n, m \in Nat :
            n < m => a + 2 + (n + 1) = (a + 2 + n) + 1 /\ n + 1 \in 0 .. m
      OBVIOUS
    <3>2. /\ Len(job.ad) + 2 + (job.n + 1) = (Len(job.ad) + 2 + job.n) + 1
          /\ job.n + 1 \in 0 .. Len(job.input)
      BY <1>1, <2>1, <3>1
    <3>3. Len(job.trail) + 1 = Len(job.ad) + 2 + (job.n + 1)
      BY <2>1, <3>2
    <3> QED
      BY <2>3, <2>6, <3>2, <3>3
  <2> QED
    BY <1>1, <1>2, <2>3, <2>6, <2>7, <2>8, <2>9 DEF Sealing, Unused
<1> QED
  BY <1>3, <1>4, <1>5

(* Opening what was sealed takes the duplex through the same states.       *)
LEMMA OneBlockFurther ==
  ASSUME CascadeInv, job.op = "open", AbsorbAd \/ EndAd \/ TakeBlock,
         NEW s \in sealings, Traced(s), Same(s, job), Follows(s),
         s.text.ct = job.input
  PROVE  Follows(s)'
<1>1. /\ JobShape /\ Busy /\ IsSeq(job.out)
      /\ s.ad = job.ad
      /\ Len(s.ad) \in Nat /\ Len(s.msg) \in Nat /\ Len(job.input) = Len(s.msg)
      /\ \A j \in 1 .. Len(s.msg) : s.msg[j] \in Seq(Pieces)
      /\ AdTrace(s.trail, s, Len(s.ad))
      /\ MsgTrace(s.trail, s.ad, s.msg, job.input, Len(s.msg))
  BY DataFacts DEF CascadeInv, OpeningUnderWay, Busy, Same, Traced
<1>2. CASE AbsorbAd
  <2> DEFINE d == Absorb(job.d, job.ad[job.n + 1], job.n + 1 = Len(job.ad))
  <2>1. /\ job.n \in Nat /\ job.n < Len(s.ad) /\ job.d = s.trail[job.n + 1]
    BY <1>1, <1>2 DEF Follows, AbsorbAd
  <2>2. Goes("ad", job.n + 1, d, <<>>)
    BY <1>2 DEF AbsorbAd
  <2>3. job'.phase = "ad" /\ job'.n = job.n + 1 /\ job'.d = d
    <3>1. JobShape /\ Busy
      BY <1>1
    <3> HIDE DEF d
    <3> QED
      BY <2>2, <3>1 DEF JobShape, Goes, Busy, JobFields
  <2>4. d = s.trail[(job.n + 1) + 1]
    <3>1. job.n + 1 \in 1 .. Len(s.ad)
      BY <1>1, <2>1
    <3> QED
      BY <1>1, <2>1, <3>1 DEF AdTrace
  <2>5. job.n + 1 \in 0 .. Len(s.ad)
    BY <1>1, <2>1
  <2> QED
    BY <2>3, <2>4, <2>5 DEF Follows
<1>3. CASE EndAd
  <2>1. job.d = s.trail[Len(s.ad) + 1]
    BY <1>1, <1>3 DEF Follows, EndAd
  <2>2. Goes("data", 0, Separate(job.d), <<>>)
    BY <1>3 DEF EndAd
  <2>3. /\ job'.phase = "data" /\ job'.n = 0 /\ job'.d = Separate(job.d)
        /\ job'.out = <<>>
    <3>1. JobShape /\ Busy
      BY <1>1
    <3> QED
      BY <2>2, <3>1 DEF JobShape, Goes, Busy, JobFields
  <2>4. Separate(job.d) = s.trail[Len(s.ad) + 2 + 0]
    BY <1>1, <2>1 DEF MsgTrace
  <2> QED
    BY <1>1, <2>3, <2>4, EmptySequence DEF Follows
<1>4. CASE TakeBlock
  <2> DEFINE b == job.input[job.n + 1]
  <2> DEFINE d == Decrypted(job.d, b, job.n + 1 = Len(job.input))
  <2> DEFINE c == Out(job.d, b)
  <2>1. /\ job.n \in Nat /\ job.n < Len(s.msg) /\ Len(job.out) = job.n
        /\ job.d = s.trail[Len(s.ad) + 2 + job.n]
        /\ \A j \in 1 .. job.n : job.out[j] = s.msg[j]
    BY <1>1, <1>4 DEF Follows, TakeBlock
  <2>2. Goes("data", job.n + 1, d, Append(job.out, c))
    BY <1>4 DEF TakeBlock
  <2>3. /\ job'.phase = "data" /\ job'.n = job.n + 1 /\ job'.d = d
        /\ job'.out = Append(job.out, c)
    <3>1. JobShape /\ Busy
      BY <1>1
    <3> HIDE DEF b, d, c
    <3> QED
      BY <2>2, <3>1 DEF JobShape, Goes, Busy, JobFields
  <2>4. job.n + 1 \in 1 .. Len(s.msg) /\ job.n + 1 \in 0 .. Len(s.msg)
    BY <1>1, <2>1
  <2>5. /\ Len(s.ad) + 2 + (job.n + 1) = Len(s.ad) + 2 + job.n + 1
        /\ Len(s.ad) + 1 + (job.n + 1) = Len(s.ad) + 2 + job.n
    <3>1. \A a, n \in Nat : /\ a + 2 + (n + 1) = a + 2 + n + 1
                           /\ a + 1 + (n + 1) = a + 2 + n
      OBVIOUS
    <3>2. Len(s.ad) \in Nat /\ job.n \in Nat
      BY <1>1, <2>1
    <3> QED
      BY <3>1, <3>2
  <2>6. /\ b = Out(job.d, s.msg[job.n + 1])
        /\ s.trail[Len(s.ad) + 2 + (job.n + 1)] =
             Encrypted(job.d, s.msg[job.n + 1], job.n + 1 = Len(s.msg))
    <3>1. \A j \in 1 .. Len(s.msg) :
            /\ s.trail[Len(s.ad) + 2 + j] =
                 Encrypted(s.trail[Len(s.ad) + 1 + j], s.msg[j], j = Len(s.msg))
            /\ job.input[j] = Out(s.trail[Len(s.ad) + 1 + j], s.msg[j])
      BY <1>1 DEF MsgTrace
    <3>2. s.trail[Len(s.ad) + 1 + (job.n + 1)] = job.d
      BY <2>1, <2>5
    <3> QED
      BY <2>4, <3>1, <3>2
  <2>7. s.msg[job.n + 1] \in Seq(Pieces)
    BY <1>1, <2>4
  <2>8. c = s.msg[job.n + 1] /\ d = s.trail[Len(s.ad) + 2 + (job.n + 1)]
    BY <1>1, <2>6, <2>7, BlockRoundTrip
  <2>9. /\ Len(job'.out) = job.n + 1
        /\ \A j \in 1 .. job.n + 1 : job'.out[j] = s.msg[j]
    <3> HIDE DEF c
    <3>1. /\ Len(Append(job.out, c)) = job.n + 1
          /\ Append(job.out, c)[job.n + 1] = c
          /\ \A j \in 1 .. job.n : Append(job.out, c)[j] = job.out[j]
      BY <1>1, <2>1, AppendFacts
    <3>2. \A j \in 1 .. job.n + 1 : j \in 1 .. job.n \/ j = job.n + 1
      BY <2>1
    <3> QED
      BY <2>1, <2>3, <2>8, <3>1, <3>2
  <2> HIDE DEF c, d
  <2> QED
    BY <2>3, <2>4, <2>8, <2>9 DEF Follows
<1> QED
  BY <1>2, <1>3, <1>4

(* An opening that takes another block follows what sealed its text.       *)
LEMMA OpeningGoesOn ==
  ASSUME CascadeInv, job.op = "open", AbsorbAd \/ EndAd \/ TakeBlock
  PROVE  OpeningUnderWay'
<1>1. /\ JobShape /\ Busy /\ IsSeq(job.out)
      /\ job.text \in stored /\ job.input = job.text.ct
      /\ Accepted(job.text, job.master, job.nonce, job.ad)
      /\ \A s \in sealings : s.text = job.text /\ Same(s, job) => Follows(s)
      /\ \A s \in sealings : Traced(s)
  BY DEF CascadeInv, OpeningUnderWay, Busy
<1>2. PICK phase, n, d, out :
        /\ Goes(phase, n, d, out)
        /\ out = <<>> \/ \E c : out = Append(job.out, c)
  BY DEF AbsorbAd, EndAd, TakeBlock
<1>3. /\ job'.out = out /\ job'.op = job.op
      /\ job'.master = job.master /\ job'.nonce = job.nonce /\ job'.ad = job.ad
      /\ job'.input = job.input /\ job'.text = job.text
  BY <1>1, <1>2, GoesFacts
<1>4. IsSeq(job'.out)
  <2>1. IsSeq(<<>>)
    BY EmptySequence
  <2>2. \A c : IsSeq(Append(job.out, c))
    BY <1>1, AppendFacts
  <2> QED
    BY <1>2, <1>3, <2>1, <2>2
<1>5. UNCHANGED <<broken, stored, sealings, openings>>
  BY DEF AbsorbAd, EndAd, TakeBlock
<1>6. Accepted(job.text, job.master, job.nonce, job.ad)'
  BY <1>1, <1>3, <1>5 DEF Accepted, Committed, Passes
<1>7. ASSUME NEW s \in sealings, s.text = job'.text, Same(s, job)'
      PROVE  Follows(s)'
  <2>1. s.text = job.text /\ Same(s, job)
    BY <1>3, <1>7 DEF Same
  <2> QED
    BY <1>1, <2>1, OneBlockFurther
<1> QED
  BY <1>1, <1>3, <1>4, <1>5, <1>6, <1>7 DEF OpeningUnderWay

(* A call that takes its next block keeps the invariant.                   *)
LEMMA JobGoesOn ==
  ASSUME CascadeInv, AbsorbAd \/ EndAd \/ TakeBlock
  PROVE  CascadeInv'
<1>1. JobShape /\ Busy /\ job.op \in {"seal", "open"}
  BY DEF CascadeInv, AbsorbAd, EndAd, TakeBlock, Busy
<1>2. JobShape' /\ job'.op = job.op
  BY <1>1, GoesFacts DEF AbsorbAd, EndAd, TakeBlock
<1>3. UNCHANGED <<broken, stored, sealings, openings>>
  BY DEF AbsorbAd, EndAd, TakeBlock
<1>4. Sealing' /\ OpeningUnderWay'
  BY <1>1, <1>2, SealingGoesOn, OpeningGoesOn DEF Sealing, OpeningUnderWay
<1> QED
  BY <1>1, <1>2, <1>3, <1>4, RecordsStay DEF CascadeInv

-----------------------------------------------------------------------------
(* Where a job begins and ends *)

(* Starting to seal keeps the invariant.                                   *)
LEMMA BeginSealKeeps ==
  ASSUME CascadeInv, NEW master \in Masters, NEW nonce \in Nonces,
         NEW ad \in Ads, NEW msg \in Msgs, BeginSeal(master, nonce, ad, msg)
  PROVE  CascadeInv'
<1>1. /\ job' = NewJob("seal", master, nonce, ad, msg, <<>>)
      /\ Unused(master, nonce)
      /\ UNCHANGED <<broken, stored, sealings, openings>>
  BY DEF BeginSeal
<1>2. /\ JobShape' /\ job'.phase = "ad" /\ job'.n = 0 /\ job'.out = <<>>
      /\ job'.d = NewDuplex(RadixKey(master), RadixNonce(nonce))
      /\ job'.trail = <<job'.d>> /\ job'.op = "seal"
      /\ job'.master = master /\ job'.nonce = nonce
      /\ job'.ad = ad /\ job'.input = msg
  BY <1>1, NewJobFacts
<1>3. IsSeq(job'.trail) /\ Len(job'.trail) = 1 /\ job'.trail[1] = job'.d
  BY <1>2, OneElement
<1>4. IsSeq(job'.out) /\ Len(ad) \in Nat
  BY <1>2, EmptySequence, DataFacts
<1>5. AdTrace(job'.trail, job', 0)
  BY <1>2, <1>3 DEF AdTrace
<1>6. Unused(job.master, job.nonce)'
  BY <1>1, <1>2 DEF Unused
<1>7. Sealing'
  BY <1>2, <1>3, <1>4, <1>5, <1>6 DEF Sealing
<1> QED
  BY <1>1, <1>2, <1>7, RecordsStay DEF CascadeInv, OpeningUnderWay

(* One more opening on record.                                             *)
LEMMA OpeningAdded ==
  ASSUME CascadeInv, NEW o, openings' = openings \union {o},
         UNCHANGED <<broken, stored, sealings>>,
         o.text \in stored,
         \A s \in sealings :
           o.text = s.text /\ Same(s, o) => o.ok /\ o.msg = s.msg,
         ~(Standard \subseteq broken) /\ o.ok =>
           \E s \in sealings : Same(s, o) /\ s.msg = o.msg,
         o.ok => Committed(o.text, o.master)
  PROVE  /\ \A t \in stored' : TextShape(t)' /\ Genuine(t)'
         /\ \A p \in openings' : p.text \in stored'
         /\ \A q \in sealings' : Traced(q)' /\ q.text \in stored'
         /\ SealedOpens' /\ StandardHolds' /\ OpenedCommitted'
<1>1. /\ \A t \in stored : TextShape(t) /\ Genuine(t)
      /\ \A p \in openings : p.text \in stored
      /\ \A q \in sealings : Traced(q) /\ q.text \in stored
      /\ SealedOpens /\ StandardHolds /\ OpenedCommitted
  BY DEF CascadeInv
<1>2. \A t : (TextShape(t)' <=> TextShape(t)) /\ (Genuine(t)' <=> Genuine(t))
             /\ (Traced(t)' <=> Traced(t))
  BY DEF TextShape, Genuine, Traced, AdTrace, MsgTrace
<1>3. SealedOpens'
  BY <1>1 DEF SealedOpens, Same
<1>4. StandardHolds'
  BY <1>1 DEF StandardHolds, Same
<1>5. OpenedCommitted'
  BY <1>1 DEF OpenedCommitted, Committed
<1> QED
  BY <1>1, <1>2, <1>3, <1>4, <1>5

(* The record of an opening, field by field.                               *)
LEMMA OpeningFacts ==
  \A text, master, nonce, ad, msg, ok, o :
    o = Opening(text, master, nonce, ad, msg, ok) =>
      /\ o.text = text /\ o.master = master /\ o.nonce = nonce /\ o.ad = ad
      /\ o.msg = msg /\ o.ok = ok
BY DEF Opening

(* A text that was sealed passes, whichever layers are broken.             *)
LEMMA SealedAccepted ==
  ASSUME NEW s, Traced(s), NEW master, NEW nonce, NEW ad,
         s.master = master, s.nonce = nonce, s.ad = ad
  PROVE  Accepted(s.text, master, nonce, ad)
BY TracedTextFacts DEF Accepted, Committed, Passes

(* Starting to open keeps the invariant.                                   *)
LEMMA BeginOpenKeeps ==
  ASSUME CascadeInv, NEW master \in Masters, NEW nonce \in Nonces,
         NEW ad \in Ads, NEW text \in stored, BeginOpen(text, master, nonce, ad)
  PROVE  CascadeInv'
<1>1. /\ ~Busy /\ JobShape /\ job.op \in {"none", "seal", "open"}
      /\ UNCHANGED <<broken, stored, sealings>>
      /\ \A s \in sealings : Traced(s)
  BY DEF BeginOpen, CascadeInv
<1>2. CASE /\ Accepted(text, master, nonce, ad)
           /\ job' = NewJob("open", master, nonce, ad, text.ct, text)
           /\ UNCHANGED openings
  <2>1. /\ JobShape' /\ job'.phase = "ad" /\ job'.n = 0 /\ job'.out = <<>>
        /\ job'.d = NewDuplex(RadixKey(master), RadixNonce(nonce))
        /\ job'.op = "open" /\ job'.master = master /\ job'.nonce = nonce
        /\ job'.ad = ad /\ job'.input = text.ct /\ job'.text = text
    BY <1>2, NewJobFacts
  <2>2. Accepted(job.text, job.master, job.nonce, job.ad)'
    BY <1>1, <1>2, <2>1 DEF Accepted, Committed, Passes
  <2>3. ASSUME NEW s \in sealings, Same(s, job)'
        PROVE  Follows(s)'
    <3>1. Traced(s) /\ s.ad \in Ads /\ Len(s.ad) \in Nat
      BY <1>1, DataFacts DEF Traced
    <3>2. s.trail[1] = NewDuplex(RadixKey(s.master), RadixNonce(s.nonce))
      BY <3>1 DEF Traced, AdTrace
    <3>3. job'.d = s.trail[job'.n + 1] /\ job'.n \in 0 .. Len(s.ad)
      BY <2>1, <2>3, <3>1, <3>2 DEF Same
    <3> QED
      BY <2>1, <3>3 DEF Follows
  <2>4. OpeningUnderWay'
    BY <1>1, <2>1, <2>2, <2>3, EmptySequence DEF OpeningUnderWay
  <2> QED
    BY <1>1, <1>2, <2>1, <2>4, RecordsStay DEF CascadeInv, Sealing
<1>3. CASE /\ ~Accepted(text, master, nonce, ad)
           /\ openings' = openings \union
                {Opening(text, master, nonce, ad, <<>>, FALSE)}
           /\ UNCHANGED job
  <2>0. PICK o : o = Opening(text, master, nonce, ad, <<>>, FALSE)
    OBVIOUS
  <2>1. /\ o.text = text /\ o.master = master /\ o.nonce = nonce /\ o.ad = ad
        /\ o.ok = FALSE
    BY <2>0 DEF Opening
  <2>2. openings' = openings \union {o}
    BY <1>3, <2>0
  <2>3. \A s \in sealings : ~(o.text = s.text /\ Same(s, o))
    BY <1>1, <1>3, <2>1, SealedAccepted DEF Same
  <2>4. /\ \A t \in stored' : TextShape(t)' /\ Genuine(t)'
        /\ \A p \in openings' : p.text \in stored'
        /\ \A q \in sealings' : Traced(q)' /\ q.text \in stored'
        /\ SealedOpens' /\ StandardHolds' /\ OpenedCommitted'
    BY <1>1, <2>1, <2>2, <2>3, OpeningAdded
  <2>5. job' = job /\ job.op = "none"
    BY <1>1, <1>3 DEF Busy
  <2>6. JobShape' /\ Sealing' /\ OpeningUnderWay'
    BY <2>5 DEF JobShape, Busy, Sealing, OpeningUnderWay
  <2> QED
    BY <2>4, <2>5, <2>6 DEF CascadeInv
<1> QED
  BY <1>2, <1>3 DEF BeginOpen

(* With no job there is nothing to know of one.                            *)
LEMMA NoJob ==
  ASSUME job' = Idle
  PROVE  /\ JobShape' /\ Sealing' /\ OpeningUnderWay'
         /\ job'.op \in {"none", "seal", "open"}
BY DEF Idle, JobShape, Busy, Sealing, OpeningUnderWay

(* So does an opening that comes to its end.                               *)
LEMMA EndOpenKeeps ==
  ASSUME CascadeInv, EndOpen
  PROVE  CascadeInv'
<1>1. /\ IsSeq(job.out) /\ job.text \in stored
      /\ job.phase = "data" /\ job.n = Len(job.text.ct)
      /\ Accepted(job.text, job.master, job.nonce, job.ad)
      /\ \A s \in sealings : s.text = job.text /\ Same(s, job) => Follows(s)
      /\ \A s \in sealings : Traced(s)
      /\ UNCHANGED <<broken, stored, sealings>> /\ job' = Idle
  BY DEF CascadeInv, OpeningUnderWay, EndOpen, AllTaken
<1> DEFINE ok == "radix" \in broken \/ job.text.tag = RadixTag
<1> DEFINE o == Opening(job.text, job.master, job.nonce, job.ad,
                        IF ok THEN job.out ELSE <<>>, ok)
<1>2. openings' = openings \union {o}
  BY DEF EndOpen
<1>3. /\ o.text = job.text /\ o.master = job.master /\ o.nonce = job.nonce
      /\ o.ad = job.ad /\ o.msg = (IF ok THEN job.out ELSE <<>>) /\ o.ok = ok
  BY OpeningFacts
<1> HIDE DEF o
<1>4. ASSUME NEW s \in sealings, o.text = s.text, Same(s, o)
      PROVE  o.ok /\ o.msg = s.msg
  <2>1. Traced(s) /\ Follows(s) /\ s.master = job.master
    BY <1>1, <1>3, <1>4 DEF Same
  <2>2. /\ Len(s.msg) \in Nat /\ s.msg \in Seq(Seq(Pieces))
        /\ Len(job.text.ct) = Len(s.msg)
    BY <1>3, <1>4, <2>1, DataFacts DEF Traced
  <2>3. /\ job.n = Len(s.msg) /\ Len(job.out) = job.n
        /\ job.d = s.trail[Len(s.ad) + 2 + job.n]
        /\ \A j \in 1 .. job.n : job.out[j] = s.msg[j]
    BY <1>1, <2>1, <2>2 DEF Follows
  <2>4. job.out = s.msg
    BY <1>1, <2>2, <2>3, SameSequences
  <2>5. s.text.tag = Tag(s.trail[Len(s.ad) + 2 + Len(s.msg)], RadixKey(s.master))
    BY <2>1, TracedTextFacts
  <2>6. job.text.tag = RadixTag
    BY <1>3, <1>4, <2>1, <2>3, <2>5 DEF RadixTag
  <2> QED
    BY <1>3, <2>4, <2>6
<1>5. ASSUME ~(Standard \subseteq broken), o.ok
      PROVE  \E s \in sealings : Same(s, o) /\ s.msg = o.msg
  <2>1. PICK s \in sealings : /\ s.text = job.text /\ s.master = job.master
                              /\ s.nonce = job.nonce /\ s.ad = job.ad
    BY <1>1, <1>5, AcceptedBySealing
  <2>2. Same(s, o) /\ o.text = s.text
    BY <1>3, <2>1 DEF Same
  <2> QED
    BY <1>4, <2>2
<1>6. Committed(o.text, o.master)
  BY <1>1, <1>3 DEF Accepted
<1> HIDE DEF ok
<1>7. /\ \A t \in stored' : TextShape(t)' /\ Genuine(t)'
      /\ \A p \in openings' : p.text \in stored'
      /\ \A q \in sealings' : Traced(q)' /\ q.text \in stored'
      /\ SealedOpens' /\ StandardHolds' /\ OpenedCommitted'
  BY <1>1, <1>2, <1>3, <1>4, <1>5, <1>6, OpeningAdded
<1> QED
  BY <1>1, <1>7, NoJob DEF CascadeInv

(* So does a sealing that comes to its end.                                *)
LEMMA EndSealKeeps ==
  ASSUME CascadeInv, EndSeal
  PROVE  CascadeInv'
<1>1. /\ job.ad \in Ads /\ job.input \in Msgs
      /\ Unused(job.master, job.nonce)
      /\ IsSeq(job.out)
      /\ Len(job.ad) \in Nat /\ Len(job.input) \in Nat
      /\ job.n = Len(job.input) /\ Len(job.out) = job.n
      /\ job.d = job.trail[Len(job.ad) + 2 + job.n]
      /\ AdTrace(job.trail, job, Len(job.ad))
      /\ MsgTrace(job.trail, job.ad, job.input, job.out, job.n)
  BY DataFacts DEF CascadeInv, Sealing, EndSeal, AllTaken
<1>2. PICK text :
        text = SealedText(job.master, job.nonce, job.ad, job.out, RadixTag)
  OBVIOUS
<1>3. PICK q :
        q = [master |-> job.master, nonce |-> job.nonce, ad |-> job.ad,
             msg |-> job.input, text |-> text, trail |-> job.trail]
  OBVIOUS
<1>4. /\ q.master = job.master /\ q.nonce = job.nonce /\ q.ad = job.ad
      /\ q.msg = job.input /\ q.text = text /\ q.trail = job.trail
  BY <1>3
<1>5. /\ stored' = stored \union {text}
      /\ sealings' = sealings \union {q}
      /\ UNCHANGED <<broken, openings>> /\ job' = Idle
  BY <1>2, <1>3 DEF EndSeal
<1>6. TextShape(text) /\ text.ct = job.out /\ text.tag = RadixTag
      /\ text.forged = FALSE /\ text.master = job.master /\ text.nonce = job.nonce
  BY <1>2, SealedTextFacts
<1>7. Traced(q)
  <2>1. AdTrace(q.trail, q, Len(q.ad))
    BY <1>1, <1>4 DEF AdTrace
  <2>2. MsgTrace(q.trail, q.ad, q.msg, q.text.ct, Len(q.msg))
    BY <1>1, <1>4, <1>6
  <2>3. Tag(q.trail[Len(q.ad) + 2 + Len(q.msg)], RadixKey(q.master)) = RadixTag
    BY <1>1, <1>4 DEF RadixTag
  <2>4. q.text = SealedText(q.master, q.nonce, q.ad, q.text.ct, RadixTag)
    BY <1>2, <1>4, <1>6
  <2> QED
    BY <1>1, <1>4, <1>6, <2>1, <2>2, <2>3, <2>4 DEF Traced
<1>8. /\ \A t \in stored : TextShape(t) /\ Genuine(t)
      /\ \A o \in openings : o.text \in stored
      /\ \A s \in sealings : Traced(s) /\ s.text \in stored
      /\ SealedOpens /\ StandardHolds /\ OpenedCommitted
  BY DEF CascadeInv
<1>9. \A t : (TextShape(t)' <=> TextShape(t)) /\ (Traced(t)' <=> Traced(t))
  BY DEF TextShape, Traced, AdTrace, MsgTrace
<1>10. \A t \in stored' : TextShape(t)' /\ Genuine(t)'
  <2>1. \A t \in stored : Genuine(t)'
    BY <1>5, <1>8 DEF Genuine
  <2>2. Genuine(text)'
    BY <1>4, <1>5 DEF Genuine
  <2> QED
    BY <1>5, <1>6, <1>8, <1>9, <2>1, <2>2
<1>11. text \notin stored
  <2> SUFFICES ASSUME text \in stored PROVE FALSE
    OBVIOUS
  <2>1. PICK s \in sealings : \A f \in TextFields \ {"commit", "whole"} : text[f] = s.text[f]
    BY <1>6, <1>8 DEF Genuine
  <2>2. s.text.master = s.master /\ s.text.nonce = s.nonce
    BY <1>8, TracedTextFacts
  <2>3. s.master = job.master /\ s.nonce = job.nonce
    BY <1>6, <2>1, <2>2 DEF TextFields
  <2> QED
    BY <1>1, <2>3 DEF Unused
<1>12. SealedOpens'
  BY <1>4, <1>5, <1>8, <1>11 DEF SealedOpens
<1>13. StandardHolds'
  BY <1>5, <1>8 DEF StandardHolds, Same
<1>14. OpenedCommitted'
  BY <1>5, <1>8 DEF OpenedCommitted, Committed
<1>15. \A s \in sealings' : Traced(s)' /\ s.text \in stored'
  BY <1>4, <1>5, <1>7, <1>8, <1>9
<1>16. \A o \in openings' : o.text \in stored'
  BY <1>5, <1>8
<1> QED
  BY <1>5, <1>10, <1>12, <1>13, <1>14, <1>15, <1>16, NoJob DEF CascadeInv

-----------------------------------------------------------------------------
(* Texts altered *)

(* Only a forgery changes what the layers get to see.                      *)
LEMMA AlteredFacts ==
  ASSUME NEW text, TextShape(text), NEW new,
         \/ new = CutShort(text)
         \/ \E c : new = Recommitted(text, c)
         \/ \E ct, tag : new = Forged(text, ct, tag)
  PROVE  /\ TextShape(new)
         /\ new.forged \/
              \A f \in TextFields \ {"commit", "whole"} : new[f] = text[f]
<1>1. CASE new = CutShort(text)
  BY <1>1 DEF CutShort, TextShape, TextFields
<1>2. CASE \E c : new = Recommitted(text, c)
  BY <1>2 DEF Recommitted, TextShape, TextFields
<1>3. CASE \E ct, tag : new = Forged(text, ct, tag)
  BY <1>3 DEF Forged, TextShape, TextFields
<1> QED
  BY <1>1, <1>2, <1>3

(* An altered text is one of these.                                        *)
LEMMA AlteredCases ==
  ASSUME NEW text, NEW new \in Altered(text)
  PROVE  \/ new = CutShort(text)
         \/ \E c : new = Recommitted(text, c)
         \/ \E ct, tag : new = Forged(text, ct, tag)
BY DEF Altered

(* Altering what was sealed keeps the invariant.                           *)
LEMMA AlterKeeps ==
  ASSUME CascadeInv, NEW text \in stored, Alter(text)
  PROVE  CascadeInv'
<1>1. PICK new :
        /\ \/ new = CutShort(text)
           \/ \E c : new = Recommitted(text, c)
           \/ \E ct, tag : new = Forged(text, ct, tag)
        /\ stored' = stored \union {new}
  <2>1. PICK new \in Altered(text) : stored' = stored \union {new}
    BY DEF Alter
  <2>2. \/ new = CutShort(text)
        \/ \E c : new = Recommitted(text, c)
        \/ \E ct, tag : new = Forged(text, ct, tag)
    BY <2>1, AlteredCases
  <2> QED
    BY <2>1, <2>2
<1>2. /\ ~Busy /\ UNCHANGED <<broken, job, sealings, openings>>
  BY DEF Alter
<1>3. /\ JobShape /\ job.op \in {"none", "seal", "open"}
      /\ \A t \in stored : TextShape(t) /\ Genuine(t)
      /\ \A o \in openings : o.text \in stored
      /\ \A s \in sealings : Traced(s) /\ s.text \in stored
      /\ SealedOpens /\ StandardHolds /\ OpenedCommitted
  BY DEF CascadeInv
<1>4. \A t : (TextShape(t)' <=> TextShape(t)) /\ (Genuine(t)' <=> Genuine(t))
             /\ (Traced(t)' <=> Traced(t))
  BY <1>2 DEF TextShape, Genuine, Traced, AdTrace, MsgTrace
<1>5. TextShape(new) /\ Genuine(new)
  <2>1. /\ TextShape(new)
        /\ new.forged \/
             \A f \in TextFields \ {"commit", "whole"} : new[f] = text[f]
    BY <1>1, <1>3, AlteredFacts
  <2>2. CASE new.forged
    BY <2>1, <2>2 DEF Genuine
  <2>3. CASE \A f \in TextFields \ {"commit", "whole"} : new[f] = text[f]
    <3>1. new.forged = text.forged
      BY <2>3 DEF TextFields
    <3>2. Genuine(new)
      BY <1>3, <2>3, <3>1 DEF Genuine
    <3> QED
      BY <2>1, <3>2
  <2> QED
    BY <2>1, <2>2, <2>3
<1>6. /\ \A t \in stored' : TextShape(t)' /\ Genuine(t)'
      /\ \A o \in openings' : o.text \in stored'
      /\ \A s \in sealings' : Traced(s)' /\ s.text \in stored'
  BY <1>1, <1>2, <1>3, <1>4, <1>5
<1>7. SealedOpens' /\ StandardHolds' /\ OpenedCommitted'
  BY <1>2, <1>3 DEF SealedOpens, StandardHolds, OpenedCommitted, Committed, Same
<1>8. job' = job /\ job.op = "none"
  BY <1>2, <1>3 DEF Busy
<1>9. JobShape' /\ Sealing' /\ OpeningUnderWay'
  BY <1>8 DEF JobShape, Busy, Sealing, OpeningUnderWay
<1> QED
  BY <1>6, <1>7, <1>8, <1>9 DEF CascadeInv

-----------------------------------------------------------------------------
(* The theorems *)

(* The invariant holds in the beginning.                                   *)
LEMMA CascadeInit == Init => CascadeInv
BY DEF Init, CascadeInv, Idle, JobShape, Busy, Sealing, OpeningUnderWay,
       SealedOpens, StandardHolds, OpenedCommitted

(* Every step keeps it.                                                    *)
LEMMA CascadeStep == CascadeInv /\ [Next]_vars => CascadeInv'
<1> SUFFICES ASSUME CascadeInv, [Next]_vars PROVE CascadeInv'
  OBVIOUS
<1>1. ASSUME NEW master \in Masters, NEW nonce \in Nonces, NEW ad \in Ads,
             NEW msg \in Msgs, BeginSeal(master, nonce, ad, msg)
      PROVE  CascadeInv'
  BY <1>1, BeginSealKeeps
<1>2. ASSUME NEW master \in Masters, NEW nonce \in Nonces, NEW ad \in Ads,
             NEW text \in stored, BeginOpen(text, master, nonce, ad)
      PROVE  CascadeInv'
  BY <1>2, BeginOpenKeeps
<1>3. CASE AbsorbAd \/ EndAd \/ TakeBlock
  BY <1>3, JobGoesOn
<1>4. CASE EndSeal
  BY <1>4, EndSealKeeps
<1>5. CASE EndOpen
  BY <1>5, EndOpenKeeps
<1>6. ASSUME NEW text \in stored, Alter(text) PROVE CascadeInv'
  BY <1>6, AlterKeeps
<1>7. CASE UNCHANGED vars
  <2>1. UNCHANGED <<broken, stored, sealings, openings>> /\ job' = job
    BY <1>7 DEF vars
  <2>2. JobShape' /\ Sealing' /\ OpeningUnderWay'
        /\ job'.op \in {"none", "seal", "open"}
    BY <2>1 DEF CascadeInv, JobShape, Busy, Sealing, AdTrace, MsgTrace, Unused,
                OpeningUnderWay, Accepted, Committed, Passes, Same, Follows
  <2> QED
    BY <2>1, <2>2, RecordsStay DEF CascadeInv
<1> QED
  BY <1>1, <1>2, <1>3, <1>4, <1>5, <1>6, <1>7 DEF Next

(* A job under way is where the trace of its sealing says, and what is on  *)
(* record is consistent with what is stored.                               *)
THEOREM CascadeInvariant == Spec => []CascadeInv
<1> QED
  BY CascadeInit, CascadeStep, PTL DEF Spec

(* cascade.rs seal and open, aead.rs encrypt and decrypt: what was sealed  *)
(* opens to the same message.                                              *)
THEOREM RoundTrip == Spec => []SealedOpens
<1>1. CascadeInv => SealedOpens
  BY DEF CascadeInv
<1> QED
  BY <1>1, CascadeInvariant, PTL

(* cascade.rs:123: the commitment binds a text to one master key.          *)
THEOREM Committing == Spec => []OneMasterKey
<1>1. CascadeInv => OneMasterKey
  BY DEF CascadeInv, OpenedCommitted, Committed, OneMasterKey
<1> QED
  BY <1>1, CascadeInvariant, PTL

(* cascade.rs:127-145: Radix runs behind both standard tags.               *)
THEOREM RadixInnermost == Spec => []RadixSeesOnlySealed
<1>1. CascadeInv => RadixSeesOnlySealed
  <2> SUFFICES ASSUME CascadeInv, job.op = "open", ~(Standard \subseteq broken)
               PROVE  \E s \in sealings :
                        /\ <<s.master, s.nonce, s.ad>> =
                             <<job.master, job.nonce, job.ad>>
                        /\ s.text.ct = job.input
    BY DEF RadixSeesOnlySealed
  <2>1. /\ job.text \in stored /\ job.input = job.text.ct
        /\ Accepted(job.text, job.master, job.nonce, job.ad)
    BY DEF CascadeInv, OpeningUnderWay
  <2>2. PICK s \in sealings : /\ s.text = job.text /\ s.master = job.master
                              /\ s.nonce = job.nonce /\ s.ad = job.ad
    BY <2>1, AcceptedBySealing
  <2> QED
    BY <2>1, <2>2
<1> QED
  BY <1>1, CascadeInvariant, PTL

(* "The cascade is as strong as that layer": with a standard layer that    *)
(* holds, only what was sealed opens, whatever Radix-P is.                 *)
THEOREM AsStrongAsStandard == Spec => []StandardHolds
<1>1. CascadeInv => StandardHolds
  BY DEF CascadeInv
<1> QED
  BY <1>1, CascadeInvariant, PTL

-----------------------------------------------------------------------------
(* Radix as the only layer that holds *)

IsState(s) == s = [i \in Rows |-> s[i]]

\* What is added to the capacity between two permutations.
Offsets ==
  SUBSET (Separator \union UNION {RadixKey(master)[2] : master \in Masters})

\* No two states give rows that are equal or differ by what a duplex adds on
\* purpose only, and none gives the initial vector.
IdealFor(P(_)) ==
  /\ \A s : IsState(s) => IsState(P(s))
  /\ \A s, t : IsState(s) /\ IsState(t) =>
       \A x \in Offsets : P(s)[4] = Xor(P(t)[4], x) => s = t /\ x = {}
  /\ \A s : IsState(s) => \A x \in Offsets : P(s)[4] # Xor(IV, x)

IdealPermutation == IdealFor(Permute)

\* What a block adds to the rate.
Added(block, isRest) ==
  [i \in 1 .. Rate |-> IF i <= Len(block) THEN block[i]
                       ELSE IF isRest /\ i = Len(block) + 1 THEN Padding ELSE {}]

\* Places in the course of a sealing before the rest of the message.
Places(s) == 1 .. Len(s.ad) + 1 + Len(s.msg)

\* A duplex that has absorbed n blocks, d, meets a sealing only where that has
\* absorbed the same.
AdFollows(s, r, d, n) ==
  \A i \in Places(s) : s.trail[i][4] = d[4] =>
    /\ i = n + 1 /\ n <= Len(s.ad) /\ s.trail[i] = d
    /\ s.master = r.master /\ s.nonce = r.nonce
    /\ \A k \in 1 .. n :
         Added(s.ad[k], k = Len(s.ad)) = Added(r.ad[k], k = Len(r.ad))

\* One that has taken n blocks meets a sealing of the same so far.
DataFollows(s, r, out, d, n) ==
  \A i \in Places(s) : s.trail[i][4] = d[4] =>
    /\ i = Len(s.ad) + 2 + n /\ s.trail[i] = d
    /\ Same(s, r)
    /\ \A k \in 1 .. n : out[k] = s.msg[k]

\* The last row comes from the permutation and, perhaps, a key.
Signed(d) ==
  /\ IsState(d)
  /\ \E X, a : /\ IsState(X) /\ a \in Offsets /\ a \intersect Separator = {}
               /\ d[4] = Xor(Permute(X)[4], a)

Searching ==
  job.op = "open" =>
    /\ job.master \in Masters /\ job.ad \in Ads /\ Chunked(job.input)
    /\ \/ /\ job.phase = "ad" /\ job.n \in 0 .. Len(job.ad)
          /\ Signed(job.d)
          /\ \A s \in sealings : AdFollows(s, job, job.d, job.n)
       \/ /\ job.phase = "data" /\ job.n \in 0 .. Len(job.input) - 1
          /\ Len(job.out) = job.n
          /\ IsState(job.d)
          /\ \A s \in sealings : DataFollows(s, job, job.out, job.d, job.n)
       \/ /\ job.phase = "data" /\ job.n = Len(job.input)
          /\ Len(job.out) = job.n
          /\ \E prev :
               /\ IsState(prev)
               /\ job.d = Decrypted(prev, job.input[job.n], TRUE)
               /\ job.out[job.n] = Out(prev, job.input[job.n])
               /\ \A s \in sealings : DataFollows(s, job, job.out, prev, job.n - 1)

\* With Radix holding, what was opened is what was sealed.
RadixHolds ==
  "radix" \notin broken =>
    \A o \in openings : o.ok =>
      \E s \in sealings : Same(s, o) /\ s.msg = o.msg

RadixInv ==
  /\ broken \subseteq Layers
  /\ job.op = "seal" => job.master \in Masters
  /\ \A s \in sealings : s.master \in Masters
  /\ \A t \in stored : Chunked(t.ct) /\ \E s \in sealings : t.tag = s.text.tag
  /\ Searching
  /\ RadixHolds

-----------------------------------------------------------------------------
(* States and blocks *)

\* A permutation that gives every state rows of its own.
OwnRows(s) == [i \in Rows |-> {<<"row", s, i>>}]

(* It is ideal, so there are ideal permutations.                           *)
LEMMA IdealExists == IdealFor(OwnRows)
<1>1. \A x \in Offsets : \A s, i : <<"row", s, i>> \notin x
  BY DEF Offsets, Separator, RadixKey
<1>2. \A s : IsState(OwnRows(s)) /\ OwnRows(s)[4] = {<<"row", s, 4>>}
  BY DEF OwnRows, IsState, Rows
<1>3. ASSUME NEW s, NEW t, NEW x \in Offsets, OwnRows(s)[4] = Xor(OwnRows(t)[4], x)
      PROVE  s = t /\ x = {}
  <2>1. {<<"row", s, 4>>} = Xor({<<"row", t, 4>>}, x)
    BY <1>2, <1>3
  <2>2. <<"row", s, 4>> \notin x /\ <<"row", t, 4>> \notin x
    BY <1>1
  <2>3. <<"row", s, 4>> = <<"row", t, 4>>
    BY <2>1, <2>2 DEF Xor
  <2>4. s = t
    BY <2>3
  <2>5. x \subseteq {<<"row", s, 4>>}
    BY <2>1, <2>2 DEF Xor
  <2> QED
    BY <2>2, <2>4, <2>5
<1>4. ASSUME NEW s, NEW x \in Offsets PROVE OwnRows(s)[4] # Xor(IV, x)
  <2>1. <<"row", s, 4>> \notin Xor(IV, x)
    BY <1>1 DEF Xor, IV
  <2> QED
    BY <1>2, <2>1
<1> QED
  BY <1>2, <1>3, <1>4 DEF IdealFor

(* What two sums that are equal say of their parts.                        *)
LEMMA XorLaws ==
  \A p, q, a, b :
    /\ Xor(p, a) = Xor(q, a) => p = q
    /\ Xor(p, a) = Xor(p, b) => a = b
    /\ Xor(p, a) = Xor(q, b) => p = Xor(q, Xor(a, b))
    /\ Xor(a, b) = {} => a = b
    /\ Xor(Xor(p, a), b) = Xor(p, Xor(a, b))
    /\ Xor(p, {}) = p
BY DEF Xor

(* Two rows that are equal, up to what a duplex adds, come from one state. *)
LEMMA Collide ==
  ASSUME IdealPermutation, NEW X, IsState(X), NEW Y, IsState(Y),
         NEW a \in Offsets, NEW b \in Offsets,
         Xor(Permute(X)[4], a) = Xor(Permute(Y)[4], b)
  PROVE  X = Y /\ a = b
<1>1. Xor(a, b) \in Offsets
  BY DEF Offsets, Xor
<1>2. Permute(X)[4] = Xor(Permute(Y)[4], Xor(a, b))
  BY XorLaws
<1>3. X = Y /\ Xor(a, b) = {}
  BY <1>1, <1>2 DEF IdealPermutation, IdealFor
<1> QED
  BY <1>3, XorLaws

\* The length of a block, or of a rest.
Fits(block, isRest) ==
  IF isRest THEN Len(block) \in 0 .. Rate - 1 ELSE Len(block) = Rate

\* The state a block of associated data is absorbed into, before permuting.
Absorbed(d, block, isRest) ==
  IF isRest THEN Pad(AddBlock(d, block), Len(block)) ELSE AddBlock(d, block)

(* Blocks change the rate and leave the last row alone.                    *)
LEMMA BlockFacts ==
  ASSUME NEW d, NEW block, NEW isRest \in BOOLEAN, Fits(block, isRest)
  PROVE  /\ IsState(AddBlock(d, block)) /\ AddBlock(d, block)[4] = d[4]
         /\ IsState(PutBlock(d, block)) /\ PutBlock(d, block)[4] = d[4]
         /\ IsState(Absorbed(d, block, isRest))
         /\ Absorbed(d, block, isRest)[4] = d[4]
         /\ Absorb(d, block, isRest) = Permute(Absorbed(d, block, isRest))
<1>1. Len(block) \in 0 .. 2 /\ (isRest => Len(block) \in 0 .. 1)
  BY DEF Fits, Rate
<1>2. /\ IsState(AddBlock(d, block)) /\ AddBlock(d, block)[4] = d[4]
      /\ IsState(PutBlock(d, block)) /\ PutBlock(d, block)[4] = d[4]
  BY <1>1 DEF AddBlock, PutBlock, IsState, Rows
<1>3. /\ IsState(Absorbed(d, block, isRest))
      /\ Absorbed(d, block, isRest)[4] = d[4]
  BY <1>1 DEF Absorbed, Pad, AddBlock, IsState, Rows
<1>4. Absorb(d, block, isRest) = Permute(Absorbed(d, block, isRest))
  BY DEF Absorb, Absorbed
<1> QED
  BY <1>2, <1>3, <1>4

(* What chunks_exact makes fits.                                           *)
LEMMA ChunksFit ==
  ASSUME NEW blocks, Chunked(blocks), NEW i \in 1 .. Len(blocks)
  PROVE  Fits(blocks[i], i = Len(blocks))
BY DEF Chunked, Fits, Rate

(* So do messages and associated data.                                     *)
LEMMA DataFits ==
  /\ \A ad \in Ads : \A k \in 1 .. Len(ad) :
       Fits(ad[k], k = Len(ad)) /\ ad[k] \in Seq(Pieces)
  /\ \A msg \in Msgs : /\ Chunked(msg)
                       /\ \A k \in 1 .. Len(msg) : Fits(msg[k], k = Len(msg))
<1>1. \A ad \in Ads : ad = <<>> \/ Chunked(ad)
  BY CascadeAssumption
<1>2. \A msg \in Msgs : Chunked(msg)
  BY CascadeAssumption
<1>3. \A ad \in Ads : \A k \in 1 .. Len(ad) : Fits(ad[k], k = Len(ad))
  BY <1>1, ChunksFit
<1>4. \A msg \in Msgs : \A k \in 1 .. Len(msg) : Fits(msg[k], k = Len(msg))
  BY <1>2, ChunksFit
<1>5. \A S : \A q \in Seq(S) : \A k \in 1 .. Len(q) : q[k] \in S
  OBVIOUS
<1>6. \A ad \in Ads : \A k \in 1 .. Len(ad) : ad[k] \in Seq(Pieces)
  BY <1>5, CascadeAssumption
<1> QED
  BY <1>2, <1>3, <1>4, <1>6

(* Adding blocks to one state and getting one state means adding the same. *)
LEMMA SameAdded ==
  ASSUME NEW d, NEW b, NEW c, NEW p \in BOOLEAN, NEW q \in BOOLEAN,
         Fits(b, p), Fits(c, q), Absorbed(d, b, p) = Absorbed(d, c, q)
  PROVE  Added(b, p) = Added(c, q)
<1>1. /\ Len(b) \in 0 .. 2 /\ (p => Len(b) \in 0 .. 1) /\ (~p => Len(b) = 2)
      /\ Len(c) \in 0 .. 2 /\ (q => Len(c) \in 0 .. 1) /\ (~q => Len(c) = 2)
  BY DEF Fits, Rate
<1>2. \A i \in 1 .. 2 : Absorbed(d, b, p)[i] = Xor(d[i], Added(b, p)[i])
  BY <1>1, XorLaws DEF Absorbed, Pad, AddBlock, Rows, Added, Rate
<1>3. \A i \in 1 .. 2 : Absorbed(d, c, q)[i] = Xor(d[i], Added(c, q)[i])
  BY <1>1, XorLaws DEF Absorbed, Pad, AddBlock, Rows, Added, Rate
<1>4. ASSUME NEW i \in 1 .. 2 PROVE Added(b, p)[i] = Added(c, q)[i]
  <2>1. Xor(d[i], Added(b, p)[i]) = Xor(d[i], Added(c, q)[i])
    BY <1>2, <1>3
  <2> QED
    BY <2>1, XorLaws
<1> QED
  BY <1>4 DEF Added, Rate

(* Two blocks, or two rests, that add the same are the same.               *)
LEMMA AddedTells ==
  ASSUME NEW b \in Seq(Pieces), NEW c \in Seq(Pieces), NEW p \in BOOLEAN,
         Fits(b, p), Fits(c, p), Added(b, p) = Added(c, p)
  PROVE  b = c
<1>1. /\ Len(b) \in 0 .. 2 /\ (p => Len(b) \in 0 .. 1) /\ (~p => Len(b) = 2)
      /\ Len(c) \in 0 .. 2 /\ (p => Len(c) \in 0 .. 1) /\ (~p => Len(c) = 2)
  BY DEF Fits, Rate
<1>2. \A i \in 1 .. 2 : Added(b, p)[i] = Added(c, p)[i]
  OBVIOUS
<1>3. Len(b) = Len(c)
  <2>1. Padding # {}
    BY DEF Padding
  <2>2. p => Added(b, p)[2] = (IF Len(b) = 1 THEN Padding ELSE {})
    BY <1>1 DEF Added, Rate
  <2>3. p => Added(c, p)[2] = (IF Len(c) = 1 THEN Padding ELSE {})
    BY <1>1 DEF Added, Rate
  <2> QED
    BY <1>1, <1>2, <2>1, <2>2, <2>3
<1>4. \A i \in 1 .. Len(b) : b[i] = c[i]
  BY <1>1, <1>2, <1>3 DEF Added, Rate
<1> QED
  BY <1>3, <1>4

-----------------------------------------------------------------------------
(* Where the course of a sealing can be met *)

\* What a duplex starts from.
Start(master, nonce) ==
  <<RadixKey(master)[1], RadixKey(master)[2], RadixNonce(nonce), IV>>

(* The parts of a key are different, and tell the master key.              *)
LEMMA KeyFacts ==
  /\ \A m : RadixKey(m)[1] = {<<"key", <<m>>, 1>>} /\ RadixKey(m)[2] = {<<"key", <<m>>, 2>>}
  /\ \A m \in Masters : RadixKey(m)[2] \in Offsets /\ RadixKey(m)[2] # {}
                        /\ RadixKey(m)[2] \intersect Separator = {}
  /\ {} \in Offsets /\ Separator \in Offsets
  /\ \A a, b \in Offsets : Xor(a, b) \in Offsets
<1>1. \A m : RadixKey(m)[1] = {<<"key", <<m>>, 1>>} /\ RadixKey(m)[2] = {<<"key", <<m>>, 2>>}
  BY DEF RadixKey
<1>2. \A m \in Masters : RadixKey(m)[2] \in Offsets
  BY DEF Offsets
<1>3. \A m : RadixKey(m)[2] \intersect Separator = {}
  BY <1>1 DEF Separator
<1> QED
  BY <1>1, <1>2, <1>3 DEF Offsets, Xor

(* A new duplex comes from its start, with the key added.                  *)
LEMMA StartFacts ==
  ASSUME IdealPermutation, NEW m, NEW n
  PROVE  /\ IsState(Start(m, n)) /\ Start(m, n)[4] = IV
         /\ IsState(NewDuplex(RadixKey(m), RadixNonce(n)))
         /\ NewDuplex(RadixKey(m), RadixNonce(n))[4] =
              Xor(Permute(Start(m, n))[4], RadixKey(m)[2])
<1> DEFINE X == Start(m, n)
<1> DEFINE P == Permute(X)
<1>1. IsState(X) /\ X[4] = IV
  BY DEF Start, IsState, Rows
<1>2. NewDuplex(RadixKey(m), RadixNonce(n)) = KeyIntoCapacity(P, RadixKey(m))
  BY DEF NewDuplex, Start
<1>3. IsState(P)
  BY <1>1 DEF IdealPermutation, IdealFor
<1> HIDE DEF P, X
<1>4. /\ IsState(KeyIntoCapacity(P, RadixKey(m)))
      /\ KeyIntoCapacity(P, RadixKey(m))[4] = Xor(P[4], RadixKey(m)[2])
  BY <1>3 DEF KeyIntoCapacity, IsState, Rows
<1> QED
  BY <1>1, <1>2, <1>4 DEF P, X

(* Starts tell the master key and the nonce.                               *)
LEMMA StartTells ==
  ASSUME NEW m, NEW n, NEW k, NEW o, Start(m, n) = Start(k, o)
  PROVE  m = k /\ n = o
<1>1. RadixKey(m)[1] = RadixKey(k)[1] /\ RadixNonce(n) = RadixNonce(o)
  BY DEF Start
<1>2. {<<"key", <<m>>, 1>>} = {<<"key", <<k>>, 1>>}
  BY <1>1, KeyFacts
<1>3. {<<"nonce", <<n>>, 0>>} = {<<"nonce", <<o>>, 0>>}
  BY <1>1 DEF RadixNonce
<1>4. <<"key", <<m>>, 1>> = <<"key", <<k>>, 1>> /\ <<"nonce", <<n>>, 0>> = <<"nonce", <<o>>, 0>>
  BY <1>2, <1>3
<1>5. <<m>> = <<k>> /\ <<n>> = <<o>>
  BY <1>4
<1> QED
  BY <1>5

\* Row 4 at place i comes from the state Y and what was added since.
SignedAt(s, i, Y, a) ==
  /\ IsState(Y) /\ a \in Offsets
  /\ s.trail[i][4] = Xor(Permute(Y)[4], a)
  /\ \/ i = 1 /\ Y = Start(s.master, s.nonce) /\ a = RadixKey(s.master)[2]
     \/ \E k \in 1 .. Len(s.ad) :
          /\ i = k + 1 /\ a = {}
          /\ Y = Absorbed(s.trail[k], s.ad[k], k = Len(s.ad))
     \/ /\ i = Len(s.ad) + 2 /\ a \intersect Separator = Separator
        /\ s.trail[i][4] = Xor(s.trail[Len(s.ad) + 1][4], Separator)
     \/ \E j \in 1 .. Len(s.msg) - 1 :
          /\ i = Len(s.ad) + 2 + j /\ a = {}
          /\ Y = AddBlock(s.trail[Len(s.ad) + 1 + j], s.msg[j])

(* Up to the end of the associated data.                                   *)
LEMMA AdSigned ==
  ASSUME IdealPermutation, NEW s, Traced(s), s.master \in Masters,
         NEW i \in 1 .. Len(s.ad) + 1
  PROVE  /\ IsState(s.trail[i])
         /\ \E Y, a : /\ SignedAt(s, i, Y, a) /\ a \intersect Separator = {}
<1> DEFINE t == s.trail
<1>1. Len(s.ad) \in Nat /\ AdTrace(t, s, Len(s.ad)) /\ s.ad \in Ads
  BY DataFacts DEF Traced
<1>2. CASE i = 1
  <2>1. t[1] = NewDuplex(RadixKey(s.master), RadixNonce(s.nonce))
    BY <1>1 DEF AdTrace
  <2>2. SignedAt(s, i, Start(s.master, s.nonce), RadixKey(s.master)[2])
    BY <1>2, <2>1, StartFacts, KeyFacts DEF SignedAt
  <2> QED
    BY <1>2, <2>1, <2>2, StartFacts, KeyFacts
<1>3. CASE i # 1
  <2>1. PICK k \in 1 .. Len(s.ad) : i = k + 1
    <3>1. i - 1 \in 1 .. Len(s.ad) /\ i = (i - 1) + 1
      BY <1>1, <1>3
    <3> QED
      BY <3>1
  <2> DEFINE r == k = Len(s.ad)
  <2> DEFINE Y == Absorbed(t[k], s.ad[k], r)
  <2>2. t[i] = Absorb(t[k], s.ad[k], r)
    BY <1>1, <2>1 DEF AdTrace
  <2>3. IsState(Y) /\ t[i] = Permute(Y)
    <3>1. Fits(s.ad[k], r) /\ r \in BOOLEAN
      BY <1>1, DataFits
    <3> QED
      BY <2>2, <3>1, BlockFacts
  <2>4. IsState(t[i])
    BY <2>3 DEF IdealPermutation, IdealFor
  <2>5. t[i][4] = Xor(Permute(Y)[4], {})
    BY <2>3, XorLaws
  <2>6. SignedAt(s, i, Y, {})
    BY <2>1, <2>3, <2>5, KeyFacts DEF SignedAt
  <2> QED
    BY <2>4, <2>6
<1> QED
  BY <1>2, <1>3

(* Numbers that are places.                                                *)
LEMMA PlaceNumbers ==
  ASSUME NEW s, Len(s.ad) \in Nat, Len(s.msg) \in Nat
  PROVE  /\ \A k \in 1 .. Len(s.ad) : k \in Places(s)
         /\ Len(s.ad) + 1 \in Places(s)
         /\ \A j \in 1 .. Len(s.msg) : Len(s.ad) + 1 + j \in Places(s)
<1>1. \A A, M \in Nat : /\ \A k \in 1 .. A : k \in 1 .. A + 1 + M
                        /\ A + 1 \in 1 .. A + 1 + M
                        /\ \A j \in 1 .. M : A + 1 + j \in 1 .. A + 1 + M
  OBVIOUS
<1> QED
  BY <1>1 DEF Places

(* Places behind the separator belong to blocks.                           *)
LEMMA BehindSeparator ==
  ASSUME NEW A \in Nat, NEW M \in Nat, NEW i \in 1 .. A + 1 + M,
         ~(i <= A + 1), i # A + 2
  PROVE  \E j \in 1 .. M - 1 : i = A + 2 + j
<1> DEFINE j == i - (A + 2)
<1>1. j \in 1 .. M - 1 /\ i = A + 2 + j
  OBVIOUS
<1> QED
  BY <1>1

(* Behind the separator, and on to the rest of the message.                *)
LEMMA MsgSigned ==
  ASSUME IdealPermutation, NEW s, Traced(s), s.master \in Masters,
         NEW i \in Places(s), ~(i <= Len(s.ad) + 1)
  PROVE  /\ IsState(s.trail[i])
         /\ \E Y, a : SignedAt(s, i, Y, a)
<1> DEFINE t == s.trail
<1> DEFINE A == Len(s.ad)
<1>1. /\ A \in Nat /\ Len(s.msg) \in Nat /\ s.msg \in Msgs
      /\ MsgTrace(t, s.ad, s.msg, s.text.ct, Len(s.msg))
  BY DataFacts DEF Traced
<1>2. CASE i = A + 2
  <2>1. t[A + 2] = Separate(t[A + 1])
    BY <1>1 DEF MsgTrace
  <2>2. PICK Y, b : SignedAt(s, A + 1, Y, b) /\ b \intersect Separator = {}
    BY <1>1, AdSigned
  <2>3. IsState(t[A + 1])
    BY <1>1, AdSigned
  <2>4. IsState(t[i]) /\ t[i][4] = Xor(t[A + 1][4], Separator)
    BY <1>2, <2>1, <2>3 DEF Separate, IsState, Rows
  <2>5. t[i][4] = Xor(Permute(Y)[4], Xor(b, Separator))
    BY <2>2, <2>4, XorLaws DEF SignedAt
  <2>6. Xor(b, Separator) \in Offsets /\ Xor(b, Separator) \intersect Separator = Separator
    BY <2>2, KeyFacts DEF SignedAt, Xor
  <2>7. SignedAt(s, i, Y, Xor(b, Separator))
    BY <1>2, <2>2, <2>4, <2>5, <2>6 DEF SignedAt
  <2> QED
    BY <2>4, <2>7
<1>3. CASE i # A + 2
  <2>1. PICK j \in 1 .. Len(s.msg) - 1 : i = A + 2 + j
    <3>1. i \in 1 .. Len(s.ad) + 1 + Len(s.msg)
      BY DEF Places
    <3>2. Len(s.ad) \in Nat /\ Len(s.msg) \in Nat /\ i # Len(s.ad) + 2
      BY <1>1, <1>3
    <3> QED
      BY <3>1, <3>2, BehindSeparator
  <2> DEFINE Y == AddBlock(t[A + 1 + j], s.msg[j])
  <2>2. t[i] = Encrypted(t[A + 1 + j], s.msg[j], FALSE)
    <3>1. j \in 1 .. Len(s.msg) /\ (j = Len(s.msg)) = FALSE
      BY <1>1, <2>1
    <3>2. t[A + 2 + j] = Encrypted(t[A + 1 + j], s.msg[j], j = Len(s.msg))
      BY <1>1, <3>1 DEF MsgTrace
    <3> QED
      BY <2>1, <3>1, <3>2
  <2>3. t[i] = Permute(Y)
    BY <2>2 DEF Encrypted, AfterBlock
  <2>4. IsState(Y)
    BY DEF AddBlock, IsState
  <2>5. IsState(t[i])
    BY <2>3, <2>4 DEF IdealPermutation, IdealFor
  <2>6. t[i][4] = Xor(Permute(Y)[4], {})
    BY <2>3, XorLaws
  <2>7. SignedAt(s, i, Y, {})
    BY <2>1, <2>4, <2>6, KeyFacts DEF SignedAt
  <2> QED
    BY <2>5, <2>7
<1> QED
  BY <1>2, <1>3

(* Row 4 of every place but the last is signed.                            *)
LEMMA PlaceSigned ==
  ASSUME IdealPermutation, NEW s, Traced(s), s.master \in Masters,
         NEW i \in Places(s)
  PROVE  /\ IsState(s.trail[i])
         /\ \E Y, a : SignedAt(s, i, Y, a)
<1>1. Len(s.ad) \in Nat /\ Len(s.msg) \in Nat
  BY DataFacts DEF Traced
<1>2. CASE i <= Len(s.ad) + 1
  BY <1>1, <1>2, AdSigned DEF Places
<1>3. CASE ~(i <= Len(s.ad) + 1)
  BY <1>3, MsgSigned
<1> QED
  BY <1>2, <1>3

(* A new duplex meets a sealing at its start, and under the same key and   *)
(* nonce.                                                                  *)
LEMMA MeetsAtStart ==
  ASSUME IdealPermutation, NEW s, Traced(s), s.master \in Masters,
         NEW m \in Masters, NEW n, NEW i \in Places(s),
         s.trail[i][4] = NewDuplex(RadixKey(m), RadixNonce(n))[4]
  PROVE  i = 1 /\ s.master = m /\ s.nonce = n
<1>1. PICK Y, a : SignedAt(s, i, Y, a)
  BY PlaceSigned
<1>2. Y = Start(m, n) /\ a = RadixKey(m)[2]
  <2>1. IsState(Y) /\ a \in Offsets /\ Xor(Permute(Y)[4], a) = s.trail[i][4]
    BY <1>1 DEF SignedAt
  <2>2. IsState(Start(m, n)) /\ RadixKey(m)[2] \in Offsets
    BY StartFacts, KeyFacts
  <2>3. Xor(Permute(Y)[4], a) = Xor(Permute(Start(m, n))[4], RadixKey(m)[2])
    BY <2>1, StartFacts
  <2> QED
    BY <2>1, <2>2, <2>3, Collide
<1>3. a # {} /\ a \intersect Separator = {} /\ Separator # {}
  BY <1>2, KeyFacts DEF Separator
<1>4. i = 1 /\ Y = Start(s.master, s.nonce)
  BY <1>1, <1>3 DEF SignedAt
<1>5. Start(s.master, s.nonce) = Start(m, n)
  BY <1>2, <1>4
<1>6. s.master = m /\ s.nonce = n
  BY <1>5, StartTells
<1> QED
  BY <1>4, <1>6

(* What has just been permuted meets a sealing where the same was permuted.*)
LEMMA MeetsPermuted ==
  ASSUME IdealPermutation, NEW s, Traced(s), s.master \in Masters,
         NEW X, IsState(X), NEW i \in Places(s), s.trail[i][4] = Permute(X)[4]
  PROVE  \/ \E k \in 1 .. Len(s.ad) :
              i = k + 1 /\ X = Absorbed(s.trail[k], s.ad[k], k = Len(s.ad))
         \/ \E j \in 1 .. Len(s.msg) - 1 :
              /\ i = Len(s.ad) + 2 + j
              /\ X = AddBlock(s.trail[Len(s.ad) + 1 + j], s.msg[j])
<1>1. PICK Y, a : SignedAt(s, i, Y, a)
  BY PlaceSigned
<1>2. Y = X /\ a = {}
  <2>1. IsState(Y) /\ a \in Offsets /\ Xor(Permute(Y)[4], a) = s.trail[i][4]
    BY <1>1 DEF SignedAt
  <2>2. Xor(Permute(Y)[4], a) = Xor(Permute(X)[4], {})
    BY <2>1, XorLaws
  <2> QED
    BY <2>1, <2>2, Collide, KeyFacts
<1>3. Separator # {} /\ RadixKey(s.master)[2] # {}
  BY KeyFacts DEF Separator
<1> QED
  BY <1>1, <1>2, <1>3 DEF SignedAt

(* What has just been separated meets a sealing where that was separated.  *)
LEMMA MeetsSeparated ==
  ASSUME IdealPermutation, NEW s, Traced(s), s.master \in Masters,
         NEW d, Signed(d), NEW i \in Places(s), s.trail[i][4] = Xor(d[4], Separator)
  PROVE  i = Len(s.ad) + 2 /\ s.trail[Len(s.ad) + 1][4] = d[4]
<1>1. Len(s.ad) \in Nat /\ Len(s.msg) \in Nat
  BY DataFacts DEF Traced
<1>2. PICK X, b : /\ IsState(X) /\ b \in Offsets /\ b \intersect Separator = {}
                  /\ d[4] = Xor(Permute(X)[4], b)
  BY DEF Signed
<1>3. s.trail[i][4] = Xor(Permute(X)[4], Xor(b, Separator))
  BY <1>2, XorLaws
<1>4. Xor(b, Separator) \in Offsets /\ Xor(b, Separator) \intersect Separator = Separator
  BY <1>2, KeyFacts DEF Xor
<1>5. ASSUME NEW Y, NEW a, SignedAt(s, i, Y, a)
      PROVE  a \intersect Separator = Separator
  <2>1. IsState(Y) /\ a \in Offsets /\ Xor(Permute(Y)[4], a) = s.trail[i][4]
    BY <1>5 DEF SignedAt
  <2>2. Xor(Permute(Y)[4], a) = Xor(Permute(X)[4], Xor(b, Separator))
    BY <1>3, <2>1
  <2>3. a = Xor(b, Separator)
    BY <1>2, <1>4, <2>1, <2>2, Collide
  <2> QED
    BY <1>4, <2>3
<1>6. Separator # {}
  BY DEF Separator
<1>7. ~(i <= Len(s.ad) + 1)
  <2> SUFFICES ASSUME i <= Len(s.ad) + 1 PROVE FALSE
    OBVIOUS
  <2>1. i \in 1 .. Len(s.ad) + 1
    BY <1>1 DEF Places
  <2>2. PICK Y, a : SignedAt(s, i, Y, a) /\ a \intersect Separator = {}
    BY <2>1, AdSigned
  <2> QED
    BY <1>5, <1>6, <2>2
<1>8. PICK Y, a : SignedAt(s, i, Y, a)
  BY PlaceSigned
<1>9. a # {} /\ i # 1 /\ \A k \in 1 .. Len(s.ad) : i # k + 1
  BY <1>1, <1>5, <1>6, <1>7, <1>8
<1>10. i = Len(s.ad) + 2 /\ s.trail[i][4] = Xor(s.trail[Len(s.ad) + 1][4], Separator)
  BY <1>8, <1>9 DEF SignedAt
<1> QED
  BY <1>10, XorLaws

-----------------------------------------------------------------------------
(* An opening goes on as a sealing did, or never meets it again *)

(* At the start of both.                                                   *)
LEMMA AdFollowsStart ==
  ASSUME IdealPermutation, NEW s, Traced(s), s.master \in Masters,
         NEW r, r.master \in Masters
  PROVE  AdFollows(s, r, NewDuplex(RadixKey(r.master), RadixNonce(r.nonce)), 0)
<1> DEFINE d == NewDuplex(RadixKey(r.master), RadixNonce(r.nonce))
<1>1. Len(s.ad) \in Nat /\ s.trail[1] = NewDuplex(RadixKey(s.master), RadixNonce(s.nonce))
  BY DataFacts DEF Traced, AdTrace
<1>2. ASSUME NEW i \in Places(s), s.trail[i][4] = d[4]
      PROVE  /\ i = 0 + 1 /\ 0 <= Len(s.ad) /\ s.trail[i] = d
             /\ s.master = r.master /\ s.nonce = r.nonce
  <2>1. i = 1 /\ s.master = r.master /\ s.nonce = r.nonce
    BY <1>2, MeetsAtStart
  <2> QED
    BY <1>1, <2>1
<1> HIDE DEF d
<1>3. AdFollows(s, r, d, 0)
  BY <1>2 DEF AdFollows
<1> QED
  BY <1>3 DEF d

(* The course of a sealing at the places permuted into.                    *)
LEMMA PlaceReached ==
  ASSUME NEW s, Traced(s)
  PROVE  /\ \A k \in 1 .. Len(s.ad) :
              /\ Fits(s.ad[k], k = Len(s.ad))
              /\ s.trail[k + 1] = Permute(Absorbed(s.trail[k], s.ad[k], k = Len(s.ad)))
              /\ Absorbed(s.trail[k], s.ad[k], k = Len(s.ad))[4] = s.trail[k][4]
         /\ \A j \in 1 .. Len(s.msg) - 1 :
              /\ Len(s.msg[j]) = Rate
              /\ s.trail[Len(s.ad) + 2 + j] =
                   Permute(AddBlock(s.trail[Len(s.ad) + 1 + j], s.msg[j]))
              /\ AddBlock(s.trail[Len(s.ad) + 1 + j], s.msg[j])[4] =
                   s.trail[Len(s.ad) + 1 + j][4]
<1>1. /\ s.ad \in Ads /\ s.msg \in Msgs
      /\ Len(s.ad) \in Nat /\ Len(s.msg) \in Nat
      /\ AdTrace(s.trail, s, Len(s.ad))
      /\ MsgTrace(s.trail, s.ad, s.msg, s.text.ct, Len(s.msg))
  BY DataFacts DEF Traced
<1>2. ASSUME NEW k \in 1 .. Len(s.ad)
      PROVE  /\ Fits(s.ad[k], k = Len(s.ad))
             /\ s.trail[k + 1] = Permute(Absorbed(s.trail[k], s.ad[k], k = Len(s.ad)))
             /\ Absorbed(s.trail[k], s.ad[k], k = Len(s.ad))[4] = s.trail[k][4]
  <2>1. Fits(s.ad[k], k = Len(s.ad)) /\ (k = Len(s.ad)) \in BOOLEAN
    BY <1>1, DataFits
  <2>2. s.trail[k + 1] = Absorb(s.trail[k], s.ad[k], k = Len(s.ad))
    BY <1>1 DEF AdTrace
  <2> QED
    BY <2>1, <2>2, BlockFacts
<1>3. ASSUME NEW j \in 1 .. Len(s.msg) - 1
      PROVE  /\ Len(s.msg[j]) = Rate
             /\ s.trail[Len(s.ad) + 2 + j] =
                  Permute(AddBlock(s.trail[Len(s.ad) + 1 + j], s.msg[j]))
             /\ AddBlock(s.trail[Len(s.ad) + 1 + j], s.msg[j])[4] =
                  s.trail[Len(s.ad) + 1 + j][4]
  <2>1. j \in 1 .. Len(s.msg) /\ (j = Len(s.msg)) = FALSE
    BY <1>1
  <2>2. Len(s.msg[j]) = Rate
    BY <1>1, CascadeAssumption DEF Chunked
  <2>3. s.trail[Len(s.ad) + 2 + j] =
          Encrypted(s.trail[Len(s.ad) + 1 + j], s.msg[j], FALSE)
    <3>1. s.trail[Len(s.ad) + 2 + j] =
            Encrypted(s.trail[Len(s.ad) + 1 + j], s.msg[j], j = Len(s.msg))
      BY <1>1, <2>1 DEF MsgTrace
    <3> QED
      BY <2>1, <3>1
  <2>4. Fits(s.msg[j], FALSE)
    BY <2>2 DEF Fits
  <2> QED
    BY <2>2, <2>3, <2>4, BlockFacts DEF Encrypted, AfterBlock
<1> QED
  BY <1>2, <1>3

(* One more block of associated data.                                      *)
LEMMA AdFollowsOn ==
  ASSUME IdealPermutation, NEW s, Traced(s), s.master \in Masters,
         NEW r, r.ad \in Ads, NEW n \in 0 .. Len(r.ad) - 1,
         NEW d, AdFollows(s, r, d, n)
  PROVE  AdFollows(s, r, Absorb(d, r.ad[n + 1], n + 1 = Len(r.ad)), n + 1)
<1> DEFINE q == n + 1 = Len(r.ad)
<1> DEFINE X == Absorbed(d, r.ad[n + 1], q)
<1> DEFINE A == Len(s.ad)
<1>1. /\ A \in Nat /\ Len(s.msg) \in Nat /\ Len(r.ad) \in Nat /\ s.ad \in Ads
  BY DataFacts DEF Traced
<1>2. /\ Fits(r.ad[n + 1], q) /\ q \in BOOLEAN
      /\ IsState(X) /\ X[4] = d[4]
      /\ Absorb(d, r.ad[n + 1], q) = Permute(X)
  <2>1. n + 1 \in 1 .. Len(r.ad)
    BY <1>1
  <2>2. Fits(r.ad[n + 1], q) /\ q \in BOOLEAN
    BY <2>1, DataFits
  <2> HIDE DEF q
  <2> QED
    BY <2>2, BlockFacts
<1>3. ASSUME NEW i \in Places(s), s.trail[i][4] = Permute(X)[4]
      PROVE  /\ i = n + 1 + 1 /\ n + 1 <= A /\ s.trail[i] = Permute(X)
             /\ s.master = r.master /\ s.nonce = r.nonce
             /\ \A k \in 1 .. n + 1 :
                  Added(s.ad[k], k = A) = Added(r.ad[k], k = Len(r.ad))
  <2>1. \/ \E k \in 1 .. A : i = k + 1 /\ X = Absorbed(s.trail[k], s.ad[k], k = A)
        \/ \E j \in 1 .. Len(s.msg) - 1 :
             i = A + 2 + j /\ X = AddBlock(s.trail[A + 1 + j], s.msg[j])
    BY <1>2, <1>3, MeetsPermuted
  <2>2. ASSUME NEW j \in 1 .. Len(s.msg) - 1, X = AddBlock(s.trail[A + 1 + j], s.msg[j])
        PROVE  FALSE
    <3>1. s.trail[A + 1 + j][4] = d[4]
      BY <1>2, <2>2, PlaceReached
    <3>2. A + 1 + j \in Places(s)
      <4>1. j \in 1 .. Len(s.msg)
        BY <1>1
      <4> QED
        BY <1>1, <4>1, PlaceNumbers
    <3>3. A + 1 + j = n + 1 /\ n <= A
      BY <3>1, <3>2 DEF AdFollows
    <3> QED
      BY <1>1, <3>3
  <2>3. PICK k \in 1 .. A : i = k + 1 /\ X = Absorbed(s.trail[k], s.ad[k], k = A)
    BY <2>1, <2>2
  <2>4. /\ k = n + 1 /\ s.trail[k] = d
        /\ s.master = r.master /\ s.nonce = r.nonce
        /\ \A h \in 1 .. n : Added(s.ad[h], h = A) = Added(r.ad[h], h = Len(r.ad))
    <3>1. s.trail[k][4] = d[4]
      BY <1>2, <2>3, PlaceReached
    <3>2. k \in Places(s)
      BY <1>1, PlaceNumbers
    <3> QED
      BY <3>1, <3>2 DEF AdFollows
  <2>5. s.trail[i] = Permute(X)
    BY <2>3, PlaceReached
  <2>6. Added(s.ad[k], k = A) = Added(r.ad[n + 1], q)
    <3> DEFINE p == k = A
    <3>1. Absorbed(d, s.ad[k], p) = Absorbed(d, r.ad[n + 1], q)
      BY <2>3, <2>4
    <3>2. Fits(s.ad[k], p) /\ p \in BOOLEAN
      BY PlaceReached
    <3> HIDE DEF p, q
    <3>3. Added(s.ad[k], p) = Added(r.ad[n + 1], q)
      BY <1>2, <3>1, <3>2, SameAdded
    <3> QED
      BY <3>3 DEF p
  <2>7. ASSUME NEW h \in 1 .. n + 1
        PROVE  Added(s.ad[h], h = A) = Added(r.ad[h], h = Len(r.ad))
    <3>1. CASE h \in 1 .. n
      BY <2>4, <3>1
    <3>2. CASE h = n + 1
      BY <2>4, <2>6, <3>2
    <3> QED
      BY <1>1, <3>1, <3>2
  <2> QED
    BY <1>1, <2>3, <2>4, <2>5, <2>7
<1> HIDE DEF X
<1>4. AdFollows(s, r, Permute(X), n + 1)
  BY <1>3 DEF AdFollows
<1> QED
  BY <1>2, <1>4

(* The same associated data tells from the sums block by block, once it is *)
(* known where it ends.                                                    *)
LEMMA SameAd ==
  ASSUME NEW a \in Ads, NEW b \in Ads, Len(a) = Len(b),
         \A k \in 1 .. Len(a) : Added(a[k], k = Len(a)) = Added(b[k], k = Len(b))
  PROVE  a = b
<1>1. a \in Seq(Seq(Pieces)) /\ b \in Seq(Seq(Pieces)) /\ Len(a) \in Nat
  BY CascadeAssumption
<1>2. ASSUME NEW k \in 1 .. Len(a) PROVE a[k] = b[k]
  <2> DEFINE p == k = Len(a)
  <2>1. /\ Fits(a[k], p) /\ a[k] \in Seq(Pieces) /\ p \in BOOLEAN
        /\ Fits(b[k], p) /\ b[k] \in Seq(Pieces)
    BY DataFits
  <2>2. Added(a[k], p) = Added(b[k], p)
    OBVIOUS
  <2> HIDE DEF p
  <2> QED
    BY <2>1, <2>2, AddedTells
<1>3. IsSeq(a)
  BY <1>1, TypedSequence
<1>4. \A k \in 1 .. Len(b) : a[k] = b[k]
  BY <1>2
<1> QED
  BY <1>1, <1>3, <1>4, SameSequences

(* The step from the associated data to the message.                       *)
LEMMA DataFollowsFirst ==
  ASSUME IdealPermutation, NEW s, Traced(s), s.master \in Masters,
         NEW r, r.ad \in Ads, NEW d, Signed(d), AdFollows(s, r, d, Len(r.ad)), NEW out
  PROVE  DataFollows(s, r, out, Separate(d), 0)
<1> DEFINE A == Len(s.ad)
<1>1. /\ A \in Nat /\ Len(s.msg) \in Nat /\ Len(r.ad) \in Nat /\ s.ad \in Ads
      /\ s.trail[A + 2] = Separate(s.trail[A + 1])
  BY DataFacts DEF Traced, MsgTrace
<1>2. Separate(d)[4] = Xor(d[4], Separator)
  BY DEF Signed, IsState, Rows, Separate
<1>3. ASSUME NEW i \in Places(s), s.trail[i][4] = Separate(d)[4]
      PROVE  i = A + 2 + 0 /\ s.trail[i] = Separate(d) /\ Same(s, r)
  <2>1. i = A + 2 /\ s.trail[A + 1][4] = d[4]
    BY <1>2, <1>3, MeetsSeparated
  <2>2. A + 1 \in Places(s)
    BY <1>1, PlaceNumbers
  <2>3. /\ A + 1 = Len(r.ad) + 1 /\ s.trail[A + 1] = d
        /\ s.master = r.master /\ s.nonce = r.nonce
        /\ \A k \in 1 .. Len(r.ad) :
             Added(s.ad[k], k = A) = Added(r.ad[k], k = Len(r.ad))
    BY <2>1, <2>2 DEF AdFollows
  <2>4. A = Len(r.ad)
    BY <1>1, <2>3
  <2>5. s.ad = r.ad
    BY <1>1, <2>3, <2>4, SameAd
  <2> QED
    BY <1>1, <2>1, <2>3, <2>5 DEF Same
<1> QED
  BY <1>3 DEF DataFollows

(* Where writing a block over and adding one give the same, decrypting     *)
(* that block gives the other one.                                         *)
LEMMA BlockFound ==
  ASSUME NEW d, NEW c, NEW m \in Seq(Pieces), Len(c) = Len(m), Len(m) <= Rate,
         \A i \in 1 .. Len(m) : PutBlock(d, c)[i] = AddBlock(d, m)[i]
  PROVE  Out(d, c) = m
<1>1. Len(m) \in Nat /\ Len(m) <= 2
  BY DEF Rate
<1>2. ASSUME NEW i \in 1 .. Len(m) PROVE c[i] = Xor(d[i], m[i])
  <2>1. i \in Rows /\ i <= Len(m)
    BY <1>1 DEF Rows
  <2>2. PutBlock(d, c)[i] = c[i]
    BY <2>1 DEF PutBlock
  <2>3. AddBlock(d, m)[i] = Xor(d[i], m[i])
    BY <2>1 DEF AddBlock
  <2> QED
    BY <2>2, <2>3
<1>3. \A i \in 1 .. Len(m) : Xor(d[i], c[i]) = m[i]
  BY <1>2, XorTwice
<1>4. m = [i \in 1 .. Len(m) |-> m[i]]
  OBVIOUS
<1>5. Out(d, c) = [i \in 1 .. Len(m) |-> Xor(d[i], c[i])]
  BY DEF Out
<1> QED
  BY <1>3, <1>4, <1>5

(* One more block of the message.                                          *)
LEMMA DataFollowsOn ==
  ASSUME IdealPermutation, NEW s, Traced(s), s.master \in Masters,
         NEW r, NEW out, NEW n \in Nat, NEW d, DataFollows(s, r, out, d, n),
         NEW c, Len(c) = Rate, NEW more,
         \A k \in 1 .. n : more[k] = out[k], more[n + 1] = Out(d, c)
  PROVE  DataFollows(s, r, more, Permute(PutBlock(d, c)), n + 1)
<1> DEFINE X == PutBlock(d, c)
<1> DEFINE A == Len(s.ad)
<1>1. /\ A \in Nat /\ Len(s.msg) \in Nat
      /\ \A j \in 1 .. Len(s.msg) : s.msg[j] \in Seq(Pieces)
  BY DataFacts DEF Traced
<1>2. IsState(X) /\ X[4] = d[4]
  <2>1. Fits(c, FALSE)
    BY DEF Fits
  <2> QED
    BY <2>1, BlockFacts
<1>3. ASSUME NEW i \in Places(s), s.trail[i][4] = Permute(X)[4]
      PROVE  /\ i = A + 2 + (n + 1) /\ s.trail[i] = Permute(X) /\ Same(s, r)
             /\ \A k \in 1 .. n + 1 : more[k] = s.msg[k]
  <2>1. \/ \E k \in 1 .. A : i = k + 1 /\ X = Absorbed(s.trail[k], s.ad[k], k = A)
        \/ \E j \in 1 .. Len(s.msg) - 1 :
             i = A + 2 + j /\ X = AddBlock(s.trail[A + 1 + j], s.msg[j])
    BY <1>2, <1>3, MeetsPermuted
  <2>2. ASSUME NEW k \in 1 .. A, X = Absorbed(s.trail[k], s.ad[k], k = A)
        PROVE  FALSE
    <3>1. s.trail[k][4] = d[4]
      BY <1>2, <2>2, PlaceReached
    <3>2. k \in Places(s)
      BY <1>1, PlaceNumbers
    <3>3. k = A + 2 + n
      BY <3>1, <3>2 DEF DataFollows
    <3> QED
      BY <1>1, <3>3
  <2>3. PICK j \in 1 .. Len(s.msg) - 1 :
          i = A + 2 + j /\ X = AddBlock(s.trail[A + 1 + j], s.msg[j])
    BY <2>1, <2>2
  <2>4. /\ A + 1 + j = A + 2 + n /\ s.trail[A + 1 + j] = d /\ Same(s, r)
        /\ \A k \in 1 .. n : out[k] = s.msg[k]
    <3>1. s.trail[A + 1 + j][4] = d[4]
      BY <1>2, <2>3, PlaceReached
    <3>2. A + 1 + j \in Places(s)
      <4>1. j \in 1 .. Len(s.msg)
        BY <1>1
      <4> QED
        BY <1>1, <4>1, PlaceNumbers
    <3> QED
      BY <3>1, <3>2 DEF DataFollows
  <2>5. j = n + 1
    BY <1>1, <2>4
  <2>6. s.trail[i] = Permute(X)
    <3>1. s.trail[A + 2 + j] = Permute(AddBlock(s.trail[A + 1 + j], s.msg[j]))
      BY PlaceReached
    <3> QED
      BY <2>3, <3>1
  <2>7. Out(d, c) = s.msg[j]
    <3>1. s.msg[j] \in Seq(Pieces) /\ Len(s.msg[j]) = Rate /\ Rate <= Rate
      BY <1>1, PlaceReached DEF Rate
    <3>2. PutBlock(d, c) = AddBlock(d, s.msg[j])
      BY <2>3, <2>4
    <3> QED
      BY <3>1, <3>2, BlockFound
  <2>8. ASSUME NEW k \in 1 .. n + 1 PROVE more[k] = s.msg[k]
    <3>1. CASE k \in 1 .. n
      BY <2>4, <3>1
    <3>2. CASE k = n + 1
      BY <2>5, <2>7, <3>2
    <3> QED
      BY <3>1, <3>2
  <2> QED
    BY <2>3, <2>4, <2>5, <2>6, <2>8
<1> HIDE DEF X
<1>4. DataFollows(s, r, more, Permute(X), n + 1)
  BY <1>3 DEF DataFollows
<1> QED
  BY <1>4 DEF X

(* Adding the key tells the state and leaves it one.                       *)
LEMMA KeyedFacts ==
  ASSUME NEW d, IsState(d), NEW e, IsState(e), NEW key
  PROVE  /\ IsState(KeyIntoCapacity(d, key))
         /\ KeyIntoCapacity(d, key) = KeyIntoCapacity(e, key) => d = e
<1>1. ASSUME NEW f, IsState(f)
      PROVE  /\ IsState(KeyIntoCapacity(f, key))
             /\ KeyIntoCapacity(f, key)[1] = f[1]
             /\ KeyIntoCapacity(f, key)[2] = f[2]
             /\ KeyIntoCapacity(f, key)[3] = Xor(f[3], key[1])
             /\ KeyIntoCapacity(f, key)[4] = Xor(f[4], key[2])
  <2> DEFINE g == [f EXCEPT ![3] = Xor(@, key[1])]
  <2> DEFINE h == [g EXCEPT ![4] = Xor(@, key[2])]
  <2>1. KeyIntoCapacity(f, key) = h
    BY DEF KeyIntoCapacity
  <2>2. f = [i \in Rows |-> f[i]]
    BY <1>1 DEF IsState
  <2>3. /\ g = [i \in Rows |-> g[i]] /\ g[1] = f[1] /\ g[2] = f[2] /\ g[4] = f[4]
        /\ g[3] = Xor(f[3], key[1])
    BY <2>2 DEF Rows
  <2> HIDE DEF g
  <2>4. /\ h = [i \in Rows |-> h[i]] /\ h[1] = g[1] /\ h[2] = g[2] /\ h[3] = g[3]
        /\ h[4] = Xor(g[4], key[2])
    BY <2>3 DEF Rows
  <2> HIDE DEF h
  <2> QED
    BY <2>1, <2>3, <2>4 DEF IsState
<1>2. ASSUME KeyIntoCapacity(d, key) = KeyIntoCapacity(e, key)
      PROVE  d = e
  <2>1. /\ d[1] = e[1] /\ d[2] = e[2]
        /\ Xor(d[3], key[1]) = Xor(e[3], key[1])
        /\ Xor(d[4], key[2]) = Xor(e[4], key[2])
    <3> HIDE DEF IsState
    <3>1. /\ KeyIntoCapacity(d, key)[1] = d[1] /\ KeyIntoCapacity(e, key)[1] = e[1]
          /\ KeyIntoCapacity(d, key)[2] = d[2] /\ KeyIntoCapacity(e, key)[2] = e[2]
      BY <1>1
    <3>2. /\ KeyIntoCapacity(d, key)[3] = Xor(d[3], key[1])
          /\ KeyIntoCapacity(e, key)[3] = Xor(e[3], key[1])
          /\ KeyIntoCapacity(d, key)[4] = Xor(d[4], key[2])
          /\ KeyIntoCapacity(e, key)[4] = Xor(e[4], key[2])
      BY <1>1
    <3> QED
      BY <1>2, <3>1, <3>2
  <2>2. d[3] = e[3] /\ d[4] = e[4]
    BY <2>1, XorLaws
  <2>3. \A i \in Rows : d[i] = e[i]
    BY <2>1, <2>2 DEF Rows
  <2> QED
    BY <2>3 DEF IsState
<1> QED
  BY <1>1, <1>2

(* The tag tells the key and the state at the end.                         *)
LEMMA TagTells ==
  ASSUME IdealPermutation, NEW d, IsState(d), NEW e, IsState(e),
         NEW m \in Masters, NEW k \in Masters,
         Tag(d, RadixKey(m)) = Tag(e, RadixKey(k))
  PROVE  m = k /\ d = e
<1>1. /\ RadixKey(m)[2] \in Offsets /\ RadixKey(k)[2] \in Offsets
      /\ RadixKey(m)[2] = {<<"key", <<m>>, 2>>} /\ RadixKey(k)[2] = {<<"key", <<k>>, 2>>}
  BY KeyFacts
<1>2. IsState(KeyIntoCapacity(d, RadixKey(m))) /\ IsState(KeyIntoCapacity(e, RadixKey(k)))
  BY KeyedFacts
<1>3. /\ KeyIntoCapacity(d, RadixKey(m)) = KeyIntoCapacity(e, RadixKey(k))
      /\ RadixKey(m)[2] = RadixKey(k)[2]
  BY <1>1, <1>2, Collide DEF Tag
<1>4. m = k
  <2>1. <<"key", <<m>>, 2>> = <<"key", <<k>>, 2>>
    BY <1>1, <1>3
  <2>2. <<m>> = <<k>>
    BY <2>1
  <2> QED
    BY <2>2
<1> QED
  BY <1>3, <1>4, KeyedFacts

(* Two rests behind one state that end in one state are the same.          *)
LEMMA RestFound ==
  ASSUME NEW d, IsState(d), NEW c, Fits(c, TRUE), NEW m \in Seq(Pieces), Fits(m, TRUE),
         Pad(PutBlock(d, c), Len(c)) = Pad(AddBlock(d, m), Len(m))
  PROVE  Out(d, c) = m
<1>1. Len(c) \in 0 .. 1 /\ Len(m) \in 0 .. 1
  BY DEF Fits, Rate
<1>2. Padding # {}
  BY DEF Padding
<1>3. /\ Pad(PutBlock(d, c), Len(c))[2] = (IF Len(c) = 1 THEN Xor(d[2], Padding) ELSE d[2])
      /\ Pad(AddBlock(d, m), Len(m))[2] = (IF Len(m) = 1 THEN Xor(d[2], Padding) ELSE d[2])
  BY <1>1 DEF Pad, PutBlock, AddBlock, Rows
<1>4. Xor(d[2], Padding) # d[2]
  <2>1. d[2] = Xor(d[2], {})
    BY XorLaws
  <2> QED
    BY <1>2, <2>1, XorLaws
<1>5. Len(c) = Len(m)
  BY <1>1, <1>3, <1>4
<1>6. Len(m) = 1 => PutBlock(d, c)[1] = AddBlock(d, m)[1]
  <2>1. Len(m) = 1 => /\ Pad(PutBlock(d, c), Len(c))[1] = PutBlock(d, c)[1]
                      /\ Pad(AddBlock(d, m), Len(m))[1] = AddBlock(d, m)[1]
    BY <1>5 DEF Pad, PutBlock, AddBlock, Rows
  <2> QED
    BY <2>1
<1>7. ASSUME NEW i \in 1 .. Len(m) PROVE PutBlock(d, c)[i] = AddBlock(d, m)[i]
  <2>1. \A l \in 0 .. 1 : \A h \in 1 .. l : l = 1 /\ h = 1
    OBVIOUS
  <2>2. Len(m) = 1 /\ i = 1
    BY <1>1, <2>1
  <2> QED
    BY <1>6, <2>2
<1> QED
  BY <1>1, <1>5, <1>7, BlockFound DEF Rate

(* A tag that was given to a sealing ends an opening of the same message.  *)
LEMMA TagFound ==
  ASSUME IdealPermutation, NEW s, Traced(s), s.master \in Masters,
         NEW r, r.master \in Masters, NEW out, IsSeq(out), NEW n \in Nat \ {0}, Len(out) = n,
         NEW prev, IsState(prev), NEW c, Fits(c, TRUE), out[n] = Out(prev, c),
         DataFollows(s, r, out, prev, n - 1),
         Tag(Decrypted(prev, c, TRUE), RadixKey(r.master)) = s.text.tag
  PROVE  Same(s, r) /\ s.msg = out
<1> DEFINE A == Len(s.ad)
<1> DEFINE M == Len(s.msg)
<1> DEFINE q == s.trail[A + 1 + M]
<1> DEFINE m == s.msg[M]
<1> DEFINE d == Pad(PutBlock(prev, c), Len(c))
<1> DEFINE e == Pad(AddBlock(q, m), Len(m))
<1>1. /\ A \in Nat /\ M \in Nat /\ M > 0 /\ s.msg \in Msgs
      /\ s.msg \in Seq(Seq(Pieces)) /\ m \in Seq(Pieces) /\ Fits(m, TRUE)
  <2>1. s.msg \in Msgs /\ A \in Nat
    BY DataFacts DEF Traced
  <2>2. M \in Nat \ {0}
    BY <2>1, DataFits DEF Chunked
  <2>3. s.msg \in Seq(Seq(Pieces)) /\ m \in Seq(Pieces)
    BY <2>1, <2>2, DataFacts
  <2>4. Fits(m, TRUE)
    BY <2>1, DataFits DEF Chunked, Fits
  <2>5. M \in Nat /\ M > 0
    <3>1. \A l \in Nat \ {0} : l \in Nat /\ l > 0
      OBVIOUS
    <3> QED
      BY <2>2, <3>1
  <2> HIDE DEF A, M, m
  <2> QED
    BY <2>1, <2>3, <2>4, <2>5
<1>2. s.text.tag = Tag(s.trail[A + 2 + M], RadixKey(s.master))
  BY TracedTextFacts
<1>3. s.trail[A + 2 + M] = e
  <2>1. MsgTrace(s.trail, s.ad, s.msg, s.text.ct, M) /\ M \in 1 .. M
    BY <1>1 DEF Traced
  <2>2. PICK isRest : isRest = (M = Len(s.msg))
    OBVIOUS
  <2>3. isRest = TRUE
    BY <2>2
  <2>4. s.trail[A + 2 + M] = Encrypted(q, m, isRest)
    BY <2>1, <2>2 DEF MsgTrace
  <2> QED
    BY <2>3, <2>4 DEF Encrypted, AfterBlock
<1>4. Decrypted(prev, c, TRUE) = d
  BY DEF Decrypted, AfterBlock
<1>5. IsState(d) /\ d[4] = prev[4] /\ IsState(e) /\ e[4] = q[4]
  <2>1. Len(c) \in 0 .. 1 /\ Len(m) \in 0 .. 1
    BY <1>1 DEF Fits, Rate
  <2>2. /\ IsState(PutBlock(prev, c)) /\ PutBlock(prev, c)[4] = prev[4]
        /\ IsState(AddBlock(q, m)) /\ AddBlock(q, m)[4] = q[4]
    BY <1>1, BlockFacts
  <2>3. \A f, l : IsState(f) /\ l \in 0 .. 1 => IsState(Pad(f, l)) /\ Pad(f, l)[4] = f[4]
    BY DEF Pad, IsState, Rows
  <2> HIDE DEF q, m
  <2> QED
    BY <2>1, <2>2, <2>3
<1> HIDE DEF q, m, d, e
<1>6. r.master = s.master /\ d = e
  <2>1. Tag(d, RadixKey(r.master)) = Tag(e, RadixKey(s.master))
    BY <1>2, <1>3, <1>4
  <2> QED
    BY <1>5, <2>1, TagTells
<1>7. A + 1 + M \in Places(s) /\ s.trail[A + 1 + M][4] = prev[4]
  <2>1. A + 1 + M \in Places(s)
    <3>1. M \in 1 .. M
      BY <1>1
    <3> QED
      BY <1>1, <3>1, PlaceNumbers
  <2>2. q[4] = prev[4]
    BY <1>5, <1>6
  <2> QED
    BY <2>1, <2>2 DEF q
<1>8. /\ A + 1 + M = A + 2 + (n - 1) /\ q = prev /\ Same(s, r)
      /\ \A k \in 1 .. n - 1 : out[k] = s.msg[k]
  BY <1>7 DEF DataFollows, q
<1>9. M = n
  <2>1. A + 1 + M = A + 2 + (n - 1) /\ A \in Nat /\ M \in Nat /\ n \in Nat
    BY <1>1, <1>8
  <2> HIDE DEF A, M
  <2> QED
    BY <2>1
<1>10. out[n] = m
  BY <1>1, <1>6, <1>8, RestFound DEF d, e
<1>11. \A k \in 1 .. Len(s.msg) : out[k] = s.msg[k]
  BY <1>8, <1>9, <1>10 DEF m
<1>12. Len(out) = Len(s.msg)
  BY <1>9
<1> QED
  BY <1>1, <1>8, <1>11, <1>12, SameSequences

-----------------------------------------------------------------------------
(* The steps of an opening *)

(* What a duplex has met depends on the key, the nonce and the associated  *)
(* data, and on what has been put out.                                     *)
LEMMA SameFollows ==
  ASSUME NEW s, NEW r, NEW q, q.master = r.master, q.nonce = r.nonce, q.ad = r.ad
  PROVE  /\ \A d, n : AdFollows(s, r, d, n) => AdFollows(s, q, d, n)
         /\ \A out, d, n : DataFollows(s, r, out, d, n) => DataFollows(s, q, out, d, n)
BY DEF AdFollows, DataFollows, Same

(* What the permutation gives is signed.                                   *)
LEMMA PermutedSigned ==
  ASSUME IdealPermutation, NEW X, IsState(X)
  PROVE  Signed(Permute(X))
<1>1. IsState(Permute(X))
  BY DEF IdealPermutation, IdealFor
<1>2. {} \in Offsets /\ {} \intersect Separator = {} /\ Permute(X)[4] = Xor(Permute(X)[4], {})
  BY KeyFacts, XorLaws
<1> QED
  BY <1>1, <1>2 DEF Signed

(* A ciphertext that was sealed has the blocks of its message.             *)
LEMMA SealedChunked ==
  ASSUME NEW s, Traced(s)
  PROVE  Chunked(s.text.ct)
<1>1. /\ s.msg \in Msgs /\ Len(s.text.ct) = Len(s.msg) /\ Chunked(s.msg)
      /\ \A j \in 1 .. Len(s.msg) : s.msg[j] \in Seq(Pieces)
      /\ MsgTrace(s.trail, s.ad, s.msg, s.text.ct, Len(s.msg))
  BY DataFacts, DataFits DEF Traced
<1>2. ASSUME NEW j \in 1 .. Len(s.msg) PROVE Len(s.text.ct[j]) = Len(s.msg[j])
  <2>1. s.text.ct[j] = Out(s.trail[Len(s.ad) + 1 + j], s.msg[j])
    BY <1>1 DEF MsgTrace
  <2>2. s.msg[j] \in Seq(Pieces)
    BY <1>1
  <2> QED
    BY <2>1, <2>2, OutFacts
<1>3. \A L \in Nat \ {0} : L \in 1 .. L /\ \A i \in 1 .. L - 1 : i \in 1 .. L
  OBVIOUS
<1> QED
  BY <1>1, <1>2, <1>3 DEF Chunked

(* A new call starts where a sealing does.                                 *)
LEMMA SearchBegins ==
  ASSUME IdealPermutation, CascadeInv, RadixInv,
         NEW master \in Masters, NEW nonce, NEW ad \in Ads, NEW text \in stored,
         job' = NewJob("open", master, nonce, ad, text.ct, text),
         UNCHANGED <<stored, sealings>>
  PROVE  Searching'
<1>1. /\ job'.phase = "ad" /\ job'.n = 0 /\ job'.op = "open"
      /\ job'.d = NewDuplex(RadixKey(job'.master), RadixNonce(job'.nonce))
      /\ job'.master = master /\ job'.nonce = nonce /\ job'.ad = ad
      /\ job'.input = text.ct
  BY NewJobFacts
<1>2. Chunked(job'.input)
  BY <1>1 DEF RadixInv
<1>3. ASSUME NEW s \in sealings PROVE AdFollows(s, job', job'.d, 0)
  <2>1. Traced(s) /\ s.master \in Masters
    BY DEF CascadeInv, RadixInv
  <2>2. AdFollows(s, job', NewDuplex(RadixKey(job'.master), RadixNonce(job'.nonce)), 0)
    BY <1>1, <2>1, AdFollowsStart
  <2> QED
    BY <1>1, <2>2
<1>4. Signed(job'.d)
  <2>1. RadixKey(master)[2] \in Offsets /\ RadixKey(master)[2] \intersect Separator = {}
    BY KeyFacts
  <2>2. /\ IsState(Start(master, nonce)) /\ IsState(job'.d)
        /\ job'.d[4] = Xor(Permute(Start(master, nonce))[4], RadixKey(master)[2])
    BY <1>1, StartFacts
  <2> QED
    BY <2>1, <2>2 DEF Signed
<1>5. job'.n \in 0 .. Len(job'.ad)
  BY <1>1, DataFacts
<1>6. \A s \in sealings' : AdFollows(s, job', job'.d, job'.n)
  BY <1>1, <1>3
<1> QED
  BY <1>1, <1>2, <1>4, <1>5, <1>6 DEF Searching

(* It takes the next block of associated data.                             *)
LEMMA SearchAbsorbs ==
  ASSUME IdealPermutation, CascadeInv, RadixInv, job.op = "open", AbsorbAd
  PROVE  Searching'
<1> DEFINE q == job.n + 1 = Len(job.ad)
<1> DEFINE X == Absorbed(job.d, job.ad[job.n + 1], q)
<1> DEFINE d == Absorb(job.d, job.ad[job.n + 1], q)
<1>1. /\ JobShape /\ Busy /\ job.phase = "ad" /\ job.n < Len(job.ad)
      /\ Goes("ad", job.n + 1, d, <<>>) /\ sealings' = sealings
  BY DEF CascadeInv, AbsorbAd
<1>2. /\ job.master \in Masters /\ job.ad \in Ads /\ Chunked(job.input)
      /\ Len(job.ad) \in Nat /\ job.n \in 0 .. Len(job.ad)
      /\ \A s \in sealings : AdFollows(s, job, job.d, job.n)
  BY <1>1, DataFacts DEF RadixInv, Searching
<1>3. /\ job'.phase = "ad" /\ job'.n = job.n + 1 /\ job'.d = d
      /\ job'.op = job.op /\ job'.master = job.master /\ job'.nonce = job.nonce
      /\ job'.ad = job.ad /\ job'.input = job.input
  <2> HIDE DEF d
  <2> QED
    BY <1>1, GoesFacts
<1>4. job.n \in 0 .. Len(job.ad) - 1
  BY <1>1, <1>2
<1>5. Signed(d)
  <2>1. job.n + 1 \in 1 .. Len(job.ad)
    BY <1>2, <1>4
  <2>2. Fits(job.ad[job.n + 1], q) /\ q \in BOOLEAN
    BY <1>2, <2>1, DataFits
  <2> HIDE DEF q
  <2>3. IsState(X) /\ d = Permute(X)
    BY <2>2, BlockFacts
  <2> HIDE DEF X, d
  <2> QED
    BY <2>3, PermutedSigned
<1>6. ASSUME NEW s \in sealings PROVE AdFollows(s, job', d, job.n + 1)
  <2>1. Traced(s) /\ s.master \in Masters /\ AdFollows(s, job, job.d, job.n)
    BY <1>2 DEF CascadeInv, RadixInv
  <2>2. AdFollows(s, job, d, job.n + 1)
    BY <1>2, <1>4, <2>1, AdFollowsOn
  <2> HIDE DEF d
  <2> QED
    BY <1>3, <2>2, SameFollows
<1> HIDE DEF d
<1>7. \A s \in sealings' : AdFollows(s, job', job'.d, job'.n)
  BY <1>1, <1>3, <1>6
<1>8. job'.n \in 0 .. Len(job'.ad)
  BY <1>2, <1>3, <1>4
<1> QED
  BY <1>2, <1>3, <1>5, <1>7, <1>8 DEF Searching

(* It comes to the end of the associated data.                             *)
LEMMA SearchSeparates ==
  ASSUME IdealPermutation, CascadeInv, RadixInv, job.op = "open", EndAd
  PROVE  Searching'
<1> DEFINE d == Separate(job.d)
<1>1. /\ JobShape /\ Busy /\ job.phase = "ad" /\ job.n = Len(job.ad)
      /\ Goes("data", 0, d, <<>>) /\ sealings' = sealings
  BY DEF CascadeInv, EndAd
<1>2. /\ job.master \in Masters /\ job.ad \in Ads /\ Chunked(job.input)
      /\ Signed(job.d)
      /\ \A s \in sealings : AdFollows(s, job, job.d, Len(job.ad))
  BY <1>1 DEF RadixInv, Searching
<1>3. /\ job'.phase = "data" /\ job'.n = 0 /\ job'.d = d /\ job'.out = <<>>
      /\ job'.op = job.op /\ job'.master = job.master /\ job'.nonce = job.nonce
      /\ job'.ad = job.ad /\ job'.input = job.input
  <2> HIDE DEF d
  <2> QED
    BY <1>1, GoesFacts
<1>4. IsState(d)
  BY <1>2 DEF Signed, IsState, Separate
<1>5. ASSUME NEW s \in sealings PROVE DataFollows(s, job', <<>>, d, 0)
  <2>1. Traced(s) /\ s.master \in Masters /\ AdFollows(s, job, job.d, Len(job.ad))
    BY <1>2 DEF CascadeInv, RadixInv
  <2>2. DataFollows(s, job, <<>>, d, 0)
    BY <1>2, <2>1, DataFollowsFirst
  <2> HIDE DEF d
  <2> QED
    BY <1>3, <2>2, SameFollows
<1> HIDE DEF d
<1>6. \A s \in sealings' : DataFollows(s, job', job'.out, job'.d, job'.n)
  BY <1>1, <1>3, <1>5
<1>7. job'.n \in 0 .. Len(job'.input) - 1
  <2>1. Len(job.input) \in Nat \ {0}
    BY <1>2 DEF Chunked
  <2>2. \A L \in Nat \ {0} : 0 \in 0 .. L - 1
    OBVIOUS
  <2> QED
    BY <1>3, <2>1, <2>2
<1>8. Len(job'.out) = job'.n
  BY <1>3, EmptySequence
<1> QED
  BY <1>2, <1>3, <1>4, <1>6, <1>7, <1>8 DEF Searching

(* It takes the next block of the ciphertext, or the rest.                 *)
LEMMA SearchTakes ==
  ASSUME IdealPermutation, CascadeInv, RadixInv, job.op = "open", TakeBlock
  PROVE  Searching'
<1> DEFINE c == job.input[job.n + 1]
<1> DEFINE isRest == job.n + 1 = Len(job.input)
<1> DEFINE d == Decrypted(job.d, c, isRest)
<1> DEFINE out == Append(job.out, Out(job.d, c))
<1>1. /\ JobShape /\ Busy /\ job.phase = "data" /\ job.n < Len(job.input)
      /\ Goes("data", job.n + 1, d, out) /\ sealings' = sealings
      /\ IsSeq(job.out)
  BY DEF CascadeInv, OpeningUnderWay, TakeBlock
<1>2. /\ job.master \in Masters /\ job.ad \in Ads /\ Chunked(job.input)
      /\ Len(job.input) \in Nat /\ job.n \in 0 .. Len(job.input) - 1
      /\ Len(job.out) = job.n /\ IsState(job.d)
      /\ \A s \in sealings : DataFollows(s, job, job.out, job.d, job.n)
  <2>1. Chunked(job.input)
    BY <1>1 DEF RadixInv, Searching
  <2>2. Len(job.input) \in Nat
    BY <2>1 DEF Chunked
  <2>3. job.n # Len(job.input)
    BY <1>1, <2>2
  <2> QED
    BY <1>1, <2>1, <2>2, <2>3 DEF RadixInv, Searching
<1>3. /\ job'.phase = "data" /\ job'.n = job.n + 1 /\ job'.d = d /\ job'.out = out
      /\ job'.op = job.op /\ job'.master = job.master /\ job'.nonce = job.nonce
      /\ job'.ad = job.ad /\ job'.input = job.input
  <2> HIDE DEF d, out
  <2> QED
    BY <1>1, GoesFacts
<1>4. /\ Len(out) = job.n + 1 /\ out[job.n + 1] = Out(job.d, c)
      /\ \A k \in 1 .. job.n : out[k] = job.out[k]
  BY <1>1, <1>2, AppendFacts
<1>5. ASSUME NEW s \in sealings, NEW n, NEW e, DataFollows(s, job, out, e, n)
      PROVE  DataFollows(s, job', out, e, n)
  <2> HIDE DEF out
  <2> QED
    BY <1>3, <1>5, SameFollows
<1>6. CASE isRest
  <2> HIDE DEF out, c
  <2>1. job'.n = Len(job'.input) /\ job'.d = Decrypted(job.d, c, TRUE)
        /\ job'.out[job'.n] = Out(job.d, c) /\ job'.input[job'.n] = c
        /\ Len(job'.out) = job'.n /\ job'.n - 1 = job.n
    <3>1. isRest = TRUE
      BY <1>6
    <3>2. d = Decrypted(job.d, c, TRUE)
      BY <3>1
    <3>3. job'.input[job'.n] = c
      BY <1>3 DEF c
    <3> HIDE DEF d
    <3>4. job'.n = Len(job'.input)
      BY <1>3, <1>6
    <3>5. job'.d = Decrypted(job.d, c, TRUE)
      BY <1>3, <3>2
    <3>6. job'.out[job'.n] = Out(job.d, c) /\ Len(job'.out) = job'.n
      BY <1>3, <1>4
    <3>7. job'.n - 1 = job.n
      <4>1. job'.n = job.n + 1 /\ job.n \in Nat
        BY <1>2, <1>3
      <4>2. \A a \in Nat : \A b : b = a + 1 => b - 1 = a
        OBVIOUS
      <4> QED
        BY <4>1, <4>2, Zenon
    <3> QED
      BY <3>3, <3>4, <3>5, <3>6, <3>7
  <2>2. ASSUME NEW s \in sealings PROVE DataFollows(s, job', job'.out, job.d, job'.n - 1)
    <3>1. DataFollows(s, job, job.out, job.d, job.n)
      BY <1>2
    <3>2. DataFollows(s, job, out, job.d, job.n)
      BY <1>4, <3>1 DEF DataFollows
    <3>3. DataFollows(s, job', out, job.d, job.n)
      BY <1>5, <3>2
    <3> QED
      BY <1>3, <2>1, <3>3
  <2>3. PICK prev : prev = job.d
    OBVIOUS
  <2>4. /\ IsState(prev)
        /\ job'.d = Decrypted(prev, job'.input[job'.n], TRUE)
        /\ job'.out[job'.n] = Out(prev, job'.input[job'.n])
        /\ \A s \in sealings' : DataFollows(s, job', job'.out, prev, job'.n - 1)
    BY <1>1, <1>2, <2>1, <2>2, <2>3
  <2> QED
    BY <1>2, <1>3, <2>1, <2>4 DEF Searching
<1>7. CASE ~isRest
  <2>1. Len(c) = Rate /\ job.n + 1 \in 0 .. Len(job.input) - 1
    <3>1. job.n + 1 \in 1 .. Len(job.input) - 1
      BY <1>2, <1>7
    <3> QED
      BY <1>2, <3>1 DEF Chunked
  <2>2. d = Permute(PutBlock(job.d, c))
    BY <1>7 DEF Decrypted, AfterBlock
  <2>3. IsState(d)
    <3>1. IsState(PutBlock(job.d, c))
      BY DEF PutBlock, IsState
    <3> QED
      BY <2>2, <3>1 DEF IdealPermutation, IdealFor
  <2> HIDE DEF c, out, d
  <2>4. ASSUME NEW s \in sealings PROVE DataFollows(s, job', out, d, job.n + 1)
    <3>1. Traced(s) /\ s.master \in Masters /\ DataFollows(s, job, job.out, job.d, job.n)
      BY <1>2 DEF CascadeInv, RadixInv
    <3>2. job.n \in Nat
      BY <1>2
    <3>3. DataFollows(s, job, out, Permute(PutBlock(job.d, c)), job.n + 1)
      BY <1>4, <2>1, <3>1, <3>2, DataFollowsOn
    <3> QED
      BY <1>5, <2>2, <3>3
  <2>5. \A s \in sealings' : DataFollows(s, job', job'.out, job'.d, job'.n)
    BY <1>1, <1>3, <2>4
  <2>6. job'.n \in 0 .. Len(job'.input) - 1 /\ Len(job'.out) = job'.n /\ IsState(job'.d)
    BY <1>3, <1>4, <2>1, <2>3
  <2> QED
    BY <1>2, <1>3, <2>5, <2>6 DEF Searching
<1> QED
  BY <1>6, <1>7

(* The message that comes out with a tag that fits is one that was sealed. *)
LEMMA SearchEnds ==
  ASSUME IdealPermutation, CascadeInv, RadixInv, EndOpen,
         job.text.tag = RadixTag
  PROVE  \E s \in sealings : Same(s, job) /\ s.msg = job.out
<1> DEFINE n == Len(job.input)
<1> DEFINE c == job.input[n]
<1>1. /\ job.op = "open" /\ job.phase = "data" /\ job.n = n
      /\ IsSeq(job.out) /\ job.text \in stored
  BY DEF CascadeInv, OpeningUnderWay, EndOpen, AllTaken
<1>2. job.master \in Masters /\ Chunked(job.input)
  BY <1>1 DEF RadixInv, Searching
<1>3. n \in Nat \ {0} /\ Fits(c, TRUE)
  BY <1>2 DEF Chunked, Fits
<1>4. PICK prev :
        /\ IsState(prev) /\ Len(job.out) = n
        /\ job.d = Decrypted(prev, c, TRUE) /\ job.out[n] = Out(prev, c)
        /\ \A s \in sealings : DataFollows(s, job, job.out, prev, n - 1)
  <2>1. n \notin 0 .. n - 1
    BY <1>3
  <2> QED
    BY <1>1, <2>1 DEF RadixInv, Searching
<1>5. PICK s \in sealings : job.text.tag = s.text.tag
  BY <1>1 DEF RadixInv
<1>6. Traced(s) /\ s.master \in Masters
  BY DEF CascadeInv, RadixInv
<1> HIDE DEF c, n
<1>7. Tag(Decrypted(prev, c, TRUE), RadixKey(job.master)) = s.text.tag
  BY <1>4, <1>5 DEF RadixTag
<1>8. Same(s, job) /\ s.msg = job.out
  <2>1. DataFollows(s, job, job.out, prev, n - 1)
    BY <1>4
  <2>2. IsSeq(job.out) /\ Len(job.out) = n /\ IsState(prev) /\ job.out[n] = Out(prev, c)
    BY <1>1, <1>4
  <2> QED
    BY <1>2, <1>3, <1>6, <1>7, <2>1, <2>2, TagFound
<1> QED
  BY <1>8

(* What is known of the past stays while a job goes on.                    *)
LEMMA RadixRecordsStay ==
  ASSUME RadixInv, UNCHANGED <<broken, stored, sealings, openings>>
  PROVE  /\ (\A s \in sealings : s.master \in Masters)'
         /\ (\A t \in stored : Chunked(t.ct) /\ \E s \in sealings : t.tag = s.text.tag)'
         /\ RadixHolds'
BY DEF RadixInv, RadixHolds, Same

(* An altered text still has blocks, and the tag of some sealing.          *)
LEMMA AlterSearch ==
  ASSUME CascadeInv, RadixInv, NEW text \in stored, Alter(text)
  PROVE  RadixInv'
<1>1. PICK new \in Altered(text) : stored' = stored \union {new}
  BY DEF Alter
<1>2. ~Busy /\ UNCHANGED <<broken, job, sealings, openings>>
  BY DEF Alter
<1>3. TextShape(text)
  BY DEF CascadeInv
<1>4. \A t \in stored : Chunked(t.ct) /\ \E s \in sealings : t.tag = s.text.tag
  BY DEF RadixInv
<1>5. Chunked(new.ct) /\ \E s \in sealings : new.tag = s.text.tag
  <2>1. CASE new = CutShort(text)
    <3>1. new.ct = text.ct /\ new.tag = text.tag
      BY <1>3, <2>1 DEF CutShort, TextShape, TextFields
    <3> QED
      BY <1>4, <3>1
  <2>2. CASE \E c : new = Recommitted(text, c)
    <3>1. new.ct = text.ct /\ new.tag = text.tag
      BY <1>3, <2>2 DEF Recommitted, TextShape, TextFields
    <3> QED
      BY <1>4, <3>1
  <2>3. CASE \E ct, tag : /\ new = Forged(text, ct, tag) /\ Chunked(ct)
                          /\ \E other \in stored : tag = other.tag
    <3>1. PICK ct, tag : /\ new = Forged(text, ct, tag) /\ Chunked(ct)
                         /\ \E other \in stored : tag = other.tag
      BY <2>3
    <3>2. new.ct = ct /\ new.tag = tag
      BY <1>3, <3>1 DEF Forged, TextShape, TextFields
    <3> QED
      BY <1>4, <3>1, <3>2
  <2> QED
    BY <2>1, <2>2, <2>3 DEF Altered
<1>6. (\A t \in stored : Chunked(t.ct) /\ \E s \in sealings : t.tag = s.text.tag)'
  BY <1>1, <1>2, <1>4, <1>5
<1>7. job' = job /\ job.op = "none"
  BY <1>2 DEF CascadeInv, Busy
<1> QED
  BY <1>2, <1>6, <1>7 DEF RadixInv, RadixHolds, Searching, Same

(* A sealing that ends adds a text with its own tag.                       *)
LEMMA EndSealSearch ==
  ASSUME CascadeInv, RadixInv, EndSeal
  PROVE  RadixInv'
<1>1. PICK text :
        text = SealedText(job.master, job.nonce, job.ad, job.out, RadixTag)
  OBVIOUS
<1>2. PICK q :
        q = [master |-> job.master, nonce |-> job.nonce, ad |-> job.ad,
             msg |-> job.input, text |-> text, trail |-> job.trail]
  OBVIOUS
<1>3. q.master = job.master /\ q.text = text
  BY <1>2
<1>4. /\ stored' = stored \union {text} /\ sealings' = sealings \union {q}
      /\ UNCHANGED <<broken, openings>> /\ job' = Idle /\ job.op = "seal"
  BY <1>1, <1>2 DEF EndSeal
<1>5. Traced(q)
  <2>1. Traced(q)'
    BY <1>4, EndSealKeeps DEF CascadeInv
  <2> QED
    BY <2>1 DEF Traced, AdTrace, MsgTrace
<1>6. Chunked(text.ct)
  BY <1>3, <1>5, SealedChunked
<1>7. (\A t \in stored : Chunked(t.ct) /\ \E s \in sealings : t.tag = s.text.tag)'
  BY <1>3, <1>4, <1>6 DEF RadixInv
<1>8. (\A s \in sealings : s.master \in Masters)'
  BY <1>3, <1>4 DEF RadixInv
<1>9. RadixHolds'
  BY <1>4 DEF RadixInv, RadixHolds, Same
<1>10. (job.op = "seal" => job.master \in Masters)' /\ Searching'
  BY <1>4 DEF Idle, Searching
<1>11. (broken \subseteq Layers)'
  BY <1>4 DEF RadixInv
<1> QED
  BY <1>7, <1>8, <1>9, <1>10, <1>11 DEF RadixInv

(* An opening that ends has found the message of a sealing, or fails.      *)
LEMMA EndOpenSearch ==
  ASSUME IdealPermutation, CascadeInv, RadixInv, EndOpen
  PROVE  RadixInv'
<1> DEFINE ok == "radix" \in broken \/ job.text.tag = RadixTag
<1> DEFINE o == Opening(job.text, job.master, job.nonce, job.ad,
                        IF ok THEN job.out ELSE <<>>, ok)
<1>1. /\ openings' = openings \union {o}
      /\ UNCHANGED <<broken, stored, sealings>> /\ job' = Idle
  BY DEF EndOpen
<1>2. /\ o.master = job.master /\ o.nonce = job.nonce /\ o.ad = job.ad
      /\ o.msg = (IF ok THEN job.out ELSE <<>>) /\ o.ok = ok
  BY OpeningFacts
<1> HIDE DEF o
<1>3. ASSUME "radix" \notin broken, o.ok
      PROVE  \E s \in sealings : Same(s, o) /\ s.msg = o.msg
  <2>1. job.text.tag = RadixTag /\ o.msg = job.out
    BY <1>2, <1>3
  <2>2. PICK s \in sealings : Same(s, job) /\ s.msg = job.out
    BY <2>1, SearchEnds
  <2>3. Same(s, o)
    BY <1>2, <2>2 DEF Same
  <2> QED
    BY <2>1, <2>2, <2>3
<1> HIDE DEF ok
<1>4. RadixHolds'
  <2>1. "radix" \notin broken =>
          \A p \in openings : p.ok => \E s \in sealings : Same(s, p) /\ s.msg = p.msg
    BY DEF RadixInv, RadixHolds
  <2>2. \A s, p : Same(s, p)' <=> Same(s, p)
    BY DEF Same
  <2> QED
    BY <1>1, <1>3, <2>1, <2>2 DEF RadixHolds
<1>5. (job.op = "seal" => job.master \in Masters)' /\ Searching'
  BY <1>1 DEF Idle, Searching
<1>6. (\A t \in stored : Chunked(t.ct) /\ \E s \in sealings : t.tag = s.text.tag)'
  BY <1>1 DEF RadixInv
<1>7. (\A s \in sealings : s.master \in Masters)'
  BY <1>1 DEF RadixInv
<1>8. (broken \subseteq Layers)'
  BY <1>1 DEF RadixInv
<1> QED
  BY <1>4, <1>5, <1>6, <1>7, <1>8 DEF RadixInv

(* Every step keeps the invariant.                                         *)
LEMMA RadixStep ==
  ASSUME IdealPermutation, CascadeInv, RadixInv, [Next]_vars
  PROVE  RadixInv'
<1>1. ASSUME NEW master \in Masters, NEW nonce \in Nonces, NEW ad \in Ads,
             NEW msg \in Msgs, BeginSeal(master, nonce, ad, msg)
      PROVE  RadixInv'
  <2>1. /\ UNCHANGED <<broken, stored, sealings, openings>>
        /\ job' = NewJob("seal", master, nonce, ad, msg, <<>>)
    BY <1>1 DEF BeginSeal
  <2>2. job'.op = "seal" /\ job'.master = master
    BY <2>1, NewJobFacts
  <2> QED
    BY <2>1, <2>2, RadixRecordsStay DEF RadixInv, Searching
<1>2. ASSUME NEW master \in Masters, NEW nonce \in Nonces, NEW ad \in Ads,
             NEW text \in stored, BeginOpen(text, master, nonce, ad)
      PROVE  RadixInv'
  <2>1. UNCHANGED <<broken, stored, sealings>>
    BY <1>2 DEF BeginOpen
  <2>2. CASE /\ job' = NewJob("open", master, nonce, ad, text.ct, text)
             /\ UNCHANGED openings
    <3>1. Searching'
      BY <2>1, <2>2, SearchBegins
    <3>2. job'.op = "open"
      BY <2>2, NewJobFacts
    <3> QED
      BY <2>1, <2>2, <3>1, <3>2, RadixRecordsStay DEF RadixInv
  <2>3. CASE /\ openings' = openings \union
                  {Opening(text, master, nonce, ad, <<>>, FALSE)}
             /\ UNCHANGED job /\ ~Busy
    <3>1. PICK o : o = Opening(text, master, nonce, ad, <<>>, FALSE)
      OBVIOUS
    <3>2. o.ok = FALSE
      BY <3>1 DEF Opening
    <3>3. openings' = openings \union {o} /\ job' = job /\ job.op = "none"
      BY <2>3, <3>1 DEF Busy
    <3>4. RadixHolds'
      BY <2>1, <3>2, <3>3 DEF RadixInv, RadixHolds, Same
    <3>5. (job.op = "seal" => job.master \in Masters)' /\ Searching'
      BY <3>3 DEF Searching
    <3>6. (\A t \in stored : Chunked(t.ct) /\ \E s \in sealings : t.tag = s.text.tag)'
      BY <2>1 DEF RadixInv
    <3>7. (\A s \in sealings : s.master \in Masters)'
      BY <2>1 DEF RadixInv
    <3> QED
      BY <2>1, <3>4, <3>5, <3>6, <3>7 DEF RadixInv
  <2> QED
    BY <1>2, <2>2, <2>3 DEF BeginOpen
<1>3. CASE AbsorbAd \/ EndAd \/ TakeBlock
  <2>1. /\ UNCHANGED <<broken, stored, sealings, openings>>
        /\ job'.op = job.op /\ job'.master = job.master
    <3>1. JobShape /\ Busy
      BY <1>3 DEF CascadeInv, AbsorbAd, EndAd, TakeBlock
    <3>2. PICK phase, n, d, out : Goes(phase, n, d, out)
      BY <1>3 DEF AbsorbAd, EndAd, TakeBlock
    <3>3. job'.op = job.op /\ job'.master = job.master
      BY <3>1, <3>2, GoesFacts
    <3> QED
      BY <1>3, <3>3 DEF AbsorbAd, EndAd, TakeBlock
  <2>2. CASE job.op = "open"
    <3>1. Searching'
      BY <1>3, <2>2, SearchAbsorbs, SearchSeparates, SearchTakes
    <3> QED
      BY <2>1, <2>2, <3>1, RadixRecordsStay DEF RadixInv
  <2>3. CASE job.op # "open"
    BY <2>1, <2>3, RadixRecordsStay DEF RadixInv, Searching
  <2> QED
    BY <2>2, <2>3
<1>4. CASE EndSeal
  BY <1>4, EndSealSearch
<1>5. CASE EndOpen
  BY <1>5, EndOpenSearch
<1>6. ASSUME NEW text \in stored, Alter(text) PROVE RadixInv'
  BY <1>6, AlterSearch
<1>7. CASE UNCHANGED vars
  <2>1. UNCHANGED <<broken, stored, sealings, openings>> /\ job' = job
    BY <1>7 DEF vars
  <2>2. Searching'
    <3>1. Searching
      BY DEF RadixInv
    <3> QED
      BY <2>1, <3>1 DEF Searching
  <2> QED
    BY <2>1, <2>2, RadixRecordsStay DEF RadixInv
<1> QED
  BY <1>1, <1>2, <1>3, <1>4, <1>5, <1>6, <1>7 DEF Next

(* cascade.rs:11-15, aead.rs:97-160: as long as any one of the three       *)
(* layers holds, Radix over an ideal permutation among them, what opens    *)
(* was sealed under the same key, nonce and associated data, and is the    *)
(* same message.                                                           *)
THEOREM OnlySealedOpened == IdealPermutation => (Spec => []OnlySealedOpens)
<1> SUFFICES ASSUME IdealPermutation PROVE Spec => []OnlySealedOpens
  OBVIOUS
<1>1. Init => RadixInv
  BY DEF Init, RadixInv, Idle, Searching, RadixHolds
<1>2. CascadeInv /\ RadixInv /\ [Next]_vars => RadixInv'
  BY RadixStep
<1>3. CascadeInv /\ RadixInv => OnlySealedOpens
  <2> SUFFICES ASSUME CascadeInv, RadixInv, broken # Layers, NEW o \in openings, o.ok
               PROVE  \E s \in sealings :
                        /\ <<s.master, s.nonce, s.ad>> = <<o.master, o.nonce, o.ad>>
                        /\ s.msg = o.msg
    BY DEF OnlySealedOpens
  <2>1. broken \subseteq Layers
    BY DEF RadixInv
  <2>2. ~(Standard \subseteq broken) \/ "radix" \notin broken
    BY <2>1 DEF Layers
  <2>3. PICK s \in sealings : Same(s, o) /\ s.msg = o.msg
    BY <2>2 DEF CascadeInv, StandardHolds, RadixInv, RadixHolds
  <2> QED
    BY <2>3 DEF Same
<1> QED
  BY <1>1, <1>2, <1>3, CascadeInvariant, PTL DEF Spec

=============================================================================
