----------------------------- MODULE MCKeyWrap ------------------------------
(* A pair of every kind, two of Radix's, and one with a passphrase. *)
EXTENDS KeyWrap

MCPairs == {"rsa1", "x1", "ml1", "radix1", "radix2"}

MCAlgo == [p \in MCPairs |->
  CASE p = "rsa1" -> "rsa" [] p = "x1" -> "x25519" [] p = "ml1" -> "mlkem"
    [] OTHER -> "radix"]

MCPassOf == [p \in MCPairs |-> IF p = "radix2" THEN "secret" ELSE "none"]

=============================================================================
