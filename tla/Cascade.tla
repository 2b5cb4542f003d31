------------------------------ MODULE Cascade -------------------------------
(***************************************************************************)
(* Radix-Cascade: Radix-AEAD inside ChaCha20-Poly1305 inside AES-256-GCM,  *)
(* each under its own key derived from one master key, and a commitment to *)
(* that key in front.  Texts are sealed, altered and opened, and any of    *)
(* the layers may turn out to be broken.                                   *)
(*                                                                         *)
(* Abstractions.  What HKDF derives from a master key is named by it.  A   *)
(* layer that holds opens a text that it sealed itself, under the same     *)
(* master key, nonce and associated data; a broken one passes everything.  *)
(* Neither changes what lies inside, which is what somebody who can get    *)
(* around it has put there.  Radix-AEAD is computed block by block.        *)
(***************************************************************************)
EXTENDS Duplex

CONSTANTS
  Masters,
  Nonces,
  Pieces,          \* what data may be made of
  Ads,             \* associated data, in blocks, or nothing
  Msgs,            \* messages, in blocks
  Garbled,         \* a commitment to nothing
  MaxMessage,      \* the most blocks that are sealed
  Alterations(_),  \* what may become of a ciphertext
  MaxJobs,         \* bound: texts sealed or opened
  MaxAlterations   \* bound: texts altered

Standard == {"aes", "chacha"}
Layers == Standard \union {"radix"}

ASSUME CascadeAssumption ==
  /\ Garbled \notin Masters
  /\ Ads \subseteq Seq(Seq(Pieces)) /\ Msgs \subseteq Seq(Seq(Pieces))
  /\ \A ad \in Ads : ad = <<>> \/ Chunked(ad)
  /\ \A msg \in Msgs : Chunked(msg)
  /\ MaxJobs \in Nat /\ MaxAlterations \in Nat /\ MaxMessage \in Nat

VARIABLES
  broken,       \* the layers that are broken
  stored,       \* the texts at hand
  job,          \* the sealing or opening under way
  sealings,     \* history: what was sealed, with every state of the duplex
  openings,     \* history: what was opened, or refused
  jobs,
  alterations

vars == <<broken, stored, job, sealings, openings, jobs, alterations>>

RadixKey(master) ==
  <<{<<"key", <<master>>, 1>>}, {<<"key", <<master>>, 2>>}>>

\* radix_nonce lengthens the nonce, and keeps different ones different.
RadixNonce(nonce) == {<<"nonce", <<nonce>>, 0>>}

Idle == [op |-> "none"]
Busy == job.op # "none"

\* Duplex::new, with the associated data still to be absorbed.
NewJob(op, master, nonce, ad, input, text) ==
  LET d == NewDuplex(RadixKey(master), RadixNonce(nonce))
  IN [op |-> op, master |-> master, nonce |-> nonce, ad |-> ad,
      input |-> input, text |-> text, phase |-> "ad", n |-> 0,
      d |-> d, out |-> <<>>, trail |-> <<d>>]

Init ==
  /\ broken \in SUBSET Layers
  /\ stored = {}
  /\ job = Idle
  /\ sealings = {} /\ openings = {}
  /\ jobs = 0 /\ alterations = 0

-----------------------------------------------------------------------------
(* Radix-AEAD, one block *)

\* The duplex goes on as d with n blocks of its phase behind it.
Goes(phase, n, d, out) ==
  job' = [job EXCEPT !.phase = phase, !.n = n, !.d = d, !.out = out,
                     !.trail = Append(@, d)]

\* absorb_ad takes the next block, if there is any associated data.
AbsorbAd ==
  /\ Busy /\ job.phase = "ad"
  /\ job.n < Len(job.ad)
  /\ Goes("ad", job.n + 1,
          Absorb(job.d, job.ad[job.n + 1], job.n + 1 = Len(job.ad)), <<>>)
  /\ UNCHANGED <<broken, stored, sealings, openings, jobs, alterations>>

EndAd ==
  /\ Busy /\ job.phase = "ad"
  /\ job.n = Len(job.ad)
  /\ Goes("data", 0, Separate(job.d), <<>>)
  /\ UNCHANGED <<broken, stored, sealings, openings, jobs, alterations>>

\* encrypt or decrypt takes the next block.
TakeBlock ==
  /\ Busy /\ job.phase = "data"
  /\ job.n < Len(job.input)
  /\ LET block  == job.input[job.n + 1]
         isRest == job.n + 1 = Len(job.input)
     IN Goes("data", job.n + 1,
             IF job.op = "seal" THEN Encrypted(job.d, block, isRest)
                                ELSE Decrypted(job.d, block, isRest),
             Append(job.out, Out(job.d, block)))
  /\ UNCHANGED <<broken, stored, sealings, openings, jobs, alterations>>

AllTaken == Busy /\ job.phase = "data" /\ job.n = Len(job.input)

RadixTag == Tag(job.d, RadixKey(job.master))

-----------------------------------------------------------------------------
(* seal *)

Unused(master, nonce) ==
  \A s \in sealings : s.master # master \/ s.nonce # nonce

\* No nonce is used twice with a master key.
BeginSeal(master, nonce, ad, msg) ==
  /\ ~Busy /\ jobs < MaxJobs
  /\ Unused(master, nonce)
  /\ Len(msg) <= MaxMessage
  /\ job' = NewJob("seal", master, nonce, ad, msg, <<>>)
  /\ jobs' = jobs + 1
  /\ UNCHANGED <<broken, stored, sealings, openings, alterations>>

\* The other layers go around what Radix has sealed, and the commitment in
\* front.
SealedText(master, nonce, ad, ct, tag) ==
  [commit |-> master, whole |-> TRUE, forged |-> FALSE,
   master |-> master, nonce |-> nonce, ad |-> ad, ct |-> ct, tag |-> tag]

EndSeal ==
  /\ AllTaken /\ job.op = "seal"
  /\ LET text == SealedText(job.master, job.nonce, job.ad, job.out, RadixTag)
     IN /\ stored' = stored \union {text}
        /\ sealings' = sealings \union
             {[master |-> job.master, nonce |-> job.nonce, ad |-> job.ad,
               msg |-> job.input, text |-> text, trail |-> job.trail]}
  /\ job' = Idle
  /\ UNCHANGED <<broken, openings, jobs, alterations>>

-----------------------------------------------------------------------------
(* open *)

\* Mutant: the commitment is not looked at.
CommittedToAny(text, master) == TRUE

Committed(text, master) == text.commit = master

\* Mutant: Radix runs before the tag of ChaCha20-Poly1305 is checked.
PassesOuter(layer, text, master, nonce, ad) ==
  \/ layer \in broken \union {"chacha"}
  \/ /\ ~text.forged
     /\ <<text.master, text.nonce, text.ad>> = <<master, nonce, ad>>

\* A standard layer's tag.
Passes(layer, text, master, nonce, ad) ==
  \/ layer \in broken
  \/ /\ ~text.forged
     /\ <<text.master, text.nonce, text.ad>> = <<master, nonce, ad>>

Accepted(text, master, nonce, ad) ==
  /\ text.whole
  /\ Committed(text, master)
  /\ \A layer \in Standard : Passes(layer, text, master, nonce, ad)

Opening(text, master, nonce, ad, msg, ok) ==
  [text |-> text, master |-> master, nonce |-> nonce, ad |-> ad,
   msg |-> msg, ok |-> ok]

\* The length, the commitment, and two tags.
BeginOpen(text, master, nonce, ad) ==
  /\ ~Busy /\ jobs < MaxJobs
  /\ text \in stored
  /\ \/ /\ Accepted(text, master, nonce, ad)
        /\ job' = NewJob("open", master, nonce, ad, text.ct, text)
        /\ UNCHANGED openings
     \/ /\ ~Accepted(text, master, nonce, ad)
        /\ openings' = openings \union
             {Opening(text, master, nonce, ad, <<>>, FALSE)}
        /\ UNCHANGED job
  /\ jobs' = jobs + 1
  /\ UNCHANGED <<broken, stored, sealings, alterations>>

\* The third tag.
EndOpen ==
  /\ AllTaken /\ job.op = "open"
  /\ LET ok == "radix" \in broken \/ job.text.tag = RadixTag
     IN openings' = openings \union
          {Opening(job.text, job.master, job.nonce, job.ad,
                   IF ok THEN job.out ELSE <<>>, ok)}
  /\ job' = Idle
  /\ UNCHANGED <<broken, stored, sealings, jobs, alterations>>

-----------------------------------------------------------------------------

\* A text cut short, with another commitment, or with other contents, which
\* are cut into blocks as any.
CutShort(text) == [text EXCEPT !.whole = FALSE]
Recommitted(text, c) == [text EXCEPT !.commit = c]
Forged(text, ct, tag) == [text EXCEPT !.forged = TRUE, !.ct = ct, !.tag = tag]

Altered(text) ==
  {CutShort(text)}
  \union {Recommitted(text, c) : c \in Masters \union {Garbled}}
  \union {Forged(text, ct, other.tag) :
            ct \in {c \in Alterations(text.ct) : Chunked(c)}, other \in stored}

Alter(text) ==
  /\ ~Busy
  /\ alterations < MaxAlterations
  /\ text \in stored
  /\ \E new \in Altered(text) \ {text} : stored' = stored \union {new}
  /\ alterations' = alterations + 1
  /\ UNCHANGED <<broken, job, sealings, openings, jobs>>

Next ==
  \/ \E master \in Masters, nonce \in Nonces, ad \in Ads :
       \/ \E msg \in Msgs : BeginSeal(master, nonce, ad, msg)
       \/ \E text \in stored : BeginOpen(text, master, nonce, ad)
  \/ AbsorbAd \/ EndAd \/ TakeBlock \/ EndSeal \/ EndOpen
  \/ \E text \in stored : Alter(text)

Spec == Init /\ [][Next]_vars

-----------------------------------------------------------------------------
(* Properties *)

(* "While either standard layer holds, the cascade is as strong as that    *)
(* layer": and as long as any of the three does, what opens was sealed     *)
(* under the same master key, nonce and associated data, and is the same   *)
(* message, wherever its blocks end.                                       *)
OnlySealedOpens ==
  broken # Layers =>
    \A o \in openings : o.ok =>
      \E s \in sealings :
        /\ <<s.master, s.nonce, s.ad>> = <<o.master, o.nonce, o.ad>>
        /\ s.msg = o.msg

(* What was sealed opens again to the same message, whichever layers are   *)
(* broken: both directions of the duplex go through the same states.       *)
SealedOpens ==
  \A o \in openings, s \in sealings :
    /\ o.text = s.text
    /\ <<s.master, s.nonce, s.ad>> = <<o.master, o.nonce, o.ad>>
    => o.ok /\ o.msg = s.msg

(* "The commitment binds every ciphertext to exactly one master key, which *)
(* neither AES-GCM nor ChaCha20-Poly1305 does on its own": no text opens   *)
(* under two, not even when no layer holds.                                *)
OneMasterKey ==
  \A o, p \in openings : o.ok /\ p.ok /\ o.text = p.text => o.master = p.master

(* "Radix sits innermost: it only ever decrypts data that already passed   *)
(* both standard tags": while either of them holds, that is what was       *)
(* sealed, block by block.                                                 *)
RadixSeesOnlySealed ==
  job.op = "open" /\ ~(Standard \subseteq broken) =>
    \E s \in sealings :
      /\ <<s.master, s.nonce, s.ad>> = <<job.master, job.nonce, job.ad>>
      /\ s.text.ct = job.input

=============================================================================
