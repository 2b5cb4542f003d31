---------------------------- MODULE MCContainer -----------------------------
(* Two containers, one key pair of each algorithm and another X25519 pair. *)
EXTENDS Container

MCKeys == {"r", "x", "y", "m", "h"}

MCAlgo ==
  [r |-> "rsa", x |-> "x25519", y |-> "x25519", m |-> "mlkem", h |-> "radix"]

=============================================================================
