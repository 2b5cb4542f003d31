---------------------------- MODULE Replacement ----------------------------
(***************************************************************************)
(* What encrypting and decrypting promise about the user's data, without   *)
(* scratch files, containers or steps: the newest data can be had from     *)
(* some places, a crash may change which these are, and no place is given  *)
(* up when a crash could then leave the data nowhere.                      *)
(***************************************************************************)
CONSTANT Place

VARIABLES
  held,    \* the places the newest data can be had from now
  after,   \* the sets of places a crash may leave it at
  waived   \* something was done that no promise is made after

vars == <<held, after, waived>>

Init ==
  /\ held \in (SUBSET Place) \ {{}}
  /\ after = {held}
  /\ waived = FALSE

\* The data is copied to p; a crash may undo it.
Copy(p) ==
  /\ held' = held \union {p}
  /\ after' \subseteq after \union {S \union {p} : S \in after}

\* Something that was uncertain is decided on the disk.
Settle ==
  /\ after' \subseteq after
  /\ UNCHANGED held

\* p is given up, because a crash cannot leave the data nowhere.
Drop(p) ==
  /\ held' = held \ {p}
  /\ after' \subseteq after \union {S \ {p} : S \in after}
  /\ {} \notin after'

\* The user changes the data at p: what lies elsewhere is no longer newest.
Edit(p) ==
  /\ p \in held
  /\ held' = {p}
  /\ after' = {{p}}

Crash ==
  /\ held' \in after
  /\ after' = {held'}

Keep ==
  /\ \/ \E p \in Place : Copy(p) \/ Drop(p) \/ Edit(p)
     \/ Settle
     \/ Crash
  /\ held' \in after'
  /\ UNCHANGED waived

\* From here on anything may become of the data.
Waive ==
  /\ waived'
  /\ held' \in SUBSET Place
  /\ after' \in SUBSET SUBSET Place

Next == Keep \/ Waive

Spec == Init /\ [][Next]_vars

=============================================================================
