------------------------------- MODULE MCOps --------------------------------
(* Small instances of module Ops: the commands of each are records built   *)
(* here, over one or two directories.                                      *)
EXTENDS Ops

MCScratch == [r \in 1 .. LastRun |-> <<".1", ".2", ".3">>[r]]
MCNames == {"a", "a.csec", "a.csec.csec"} \union {MCScratch[r] : r \in 1 .. LastRun}
MCInodes == 0 .. LastRun + 1
MCContainerName ==
  [n \in MCNames |-> IF n = "a" THEN "a.csec" ELSE "a.csec.csec"]

A == <<"d", "a">>
ACsec == <<"d", "a.csec">>
Elsewhere == <<"e", "a.csec">>
NoStray == {}
StrayElsewhere == {Elsewhere}

Cmd(op, in) ==
  [op |-> op, in |-> in, output |-> NoPath, keep |-> FALSE, verify |-> TRUE,
   shred |-> FALSE, force |-> FALSE, blind |-> FALSE]

Bool == {TRUE, FALSE}

\* Any options but -f and -o.
Unforced(op, in) ==
  {[Cmd(op, in) EXCEPT !.keep = k, !.verify = v, !.shred = s] :
     k \in Bool, v \in Bool, s \in (IF op = "encrypt" THEN Bool ELSE {FALSE})}

Into(cmds, o) == {[c EXCEPT !.output = o] : c \in cmds}

Forced(cmds) == {[c EXCEPT !.force = TRUE] : c \in cmds}

\* The sync before the removal has no effect.
Blind(cmds) == {[c EXCEPT !.blind = TRUE] : c \in cmds}

PlainCommands ==
  Unforced("encrypt", A) \union Unforced("decrypt", ACsec)
    \union {Cmd("decrypt", Elsewhere), Cmd("encrypt", ACsec),
            Cmd("decrypt", <<"d", "a.csec.csec">>)}

\* With -f as well, over what lies elsewhere or over the original.
FileCommands ==
  PlainCommands
    \union Into(Forced({Cmd("encrypt", A), [Cmd("encrypt", A) EXCEPT !.keep = TRUE],
                        Cmd("decrypt", ACsec)}), Elsewhere)
    \union Into(Blind(Forced({Cmd("encrypt", A), Cmd("decrypt", ACsec)})), Elsewhere)
    \union Forced({Cmd("decrypt", ACsec)})

\* Two runs that know nothing of each other.
OverlappingCommands ==
  Unforced("encrypt", A) \union Unforced("decrypt", ACsec)
    \union Into({Cmd("encrypt", A)} \union Blind({Cmd("encrypt", A)}), Elsewhere)

SameOutput(op, in) ==
  {[c EXCEPT !.output = in, !.force = TRUE] : c \in Unforced(op, in)}

\* For a tree: what is unpacked of one is not synced, so the container stays.
DirCommands ==
  {c \in PlainCommands : c.op = "encrypt" \/ c.keep}
    \union Into({Cmd("encrypt", A)}, Elsewhere)
    \union Forced({Cmd("encrypt", A)})

EncryptOntoItself == SameOutput("encrypt", A)

\* `-e a -o a -f --no-verify` leaves a container called a, which carries the
\* name a; decrypting it writes to a again.
DecryptOntoItself ==
  {[Cmd("encrypt", A) EXCEPT !.output = A, !.force = TRUE, !.verify = FALSE],
   [Cmd("decrypt", A) EXCEPT !.force = TRUE]}

PlainEncrypt == {Cmd("encrypt", A)}
PlainPair == {Cmd("encrypt", A), Cmd("decrypt", ACsec)}

=============================================================================
