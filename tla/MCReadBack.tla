----------------------------- MODULE MCReadBack -----------------------------
(* A directory with room for two entries and a subdirectory with one; in   *)
(* the beginning one of the two is there and the subdirectory may be.      *)
EXTENDS ReadBack

MCPaths == {"t", "t/a", "t/b", "t/s", "t/s/x"}
MCParent == [p \in MCPaths |-> IF p = "t/s/x" THEN "t/s" ELSE "t"]
MCBelow ==
  [p \in MCPaths |-> CASE p = "t"   -> MCPaths \ {"t"}
                       [] p = "t/s" -> {"t/s/x"}
                       [] OTHER     -> {}]

File == [type |-> "file", what |-> "1"]
Link == [type |-> "link", what |-> "l"]

MCStartTrees ==
  {d \in [MCPaths -> {Dir, Absent, File, Link, Fifo}] :
     /\ d["t"] = Dir
     /\ d["t/a"] \in {File, Link, Fifo}
     /\ d["t/b"] = Absent
     /\ d["t/s"] \in {Absent, Dir}
     /\ d["t/s/x"] \in {Absent, File, Link}
     /\ d["t/s/x"] # Absent => d["t/s"] = Dir}

=============================================================================
