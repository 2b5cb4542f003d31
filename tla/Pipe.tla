-------------------------------- MODULE Pipe --------------------------------
(***************************************************************************)
(* What the body of a container promises, without chunks, nonces or tags:  *)
(* a writer hands in bytes and closes; the stored bytes may be damaged;    *)
(* a reader then receives a prefix of what was written and reaches one of  *)
(* two ends.  It completes only with everything, and it breaks only when   *)
(* something was damaged.                                                  *)
(* A plaintext byte is named by its position, so the bytes written so far  *)
(* are 0 .. sent - 1.                                                      *)
(***************************************************************************)
EXTENDS Integers, Sequences

CONSTANT Sizes    \* how many bytes one call may hand in or ask for

VARIABLES
  sent,      \* how many bytes the writer has handed in
  closed,    \* the writer has finished
  intact,    \* nothing has touched the stored bytes
  got,       \* the bytes the reader has received, in order
  outcome    \* "open", then "complete" or "broken"

vars == <<sent, closed, intact, got, outcome>>

-----------------------------------------------------------------------------

Init ==
  /\ sent = 0
  /\ closed = FALSE
  /\ intact = TRUE
  /\ got = <<>>
  /\ outcome = "open"

\* n more bytes are written.
Send(n) ==
  /\ ~closed
  /\ sent' = sent + n
  /\ UNCHANGED <<closed, intact, got, outcome>>

Close ==
  /\ ~closed
  /\ closed' = TRUE
  /\ UNCHANGED <<sent, intact, got, outcome>>

Corrupt ==
  /\ closed
  /\ intact' = FALSE
  /\ UNCHANGED <<sent, closed, got, outcome>>

\* The next n bytes arrive, and no others.
Receive(n) ==
  /\ closed
  /\ outcome = "open"
  /\ Len(got) + n <= sent
  /\ got' = got \o [i \in 1..n |-> Len(got) + i - 1]
  /\ UNCHANGED <<sent, closed, intact, outcome>>

Complete ==
  /\ closed
  /\ outcome = "open"
  /\ Len(got) = sent
  /\ outcome' = "complete"
  /\ UNCHANGED <<sent, closed, intact, got>>

Break ==
  /\ closed
  /\ outcome = "open"
  /\ ~intact
  /\ outcome' = "broken"
  /\ UNCHANGED <<sent, closed, intact, got>>

Next ==
  \/ \E n \in Sizes : Send(n)
  \/ Close
  \/ Corrupt
  \/ \E n \in Sizes : Receive(n)
  \/ Complete
  \/ Break

Spec == Init /\ [][Next]_vars

=============================================================================
