----------------------------- MODULE MCKeyStore -----------------------------
(***************************************************************************)
(* Three keygens for two names: two of them want the same one, or all      *)
(* three do.  Which keygen is which makes no difference, so every other    *)
(* choice of names is one of these two under another numbering.            *)
(***************************************************************************)
EXTENDS KeyStore

MCGens == 1 .. 3
NoGens == {}

MCNameOf == {<<"alice", "alice", "bob">>, <<"alice", "alice", "alice">>}

MCInit == Init /\ nameOf \in MCNameOf

MCSpec == MCInit /\ [][Next]_vars /\ Fairness

=============================================================================
