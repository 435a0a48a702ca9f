----------------------------- MODULE MCSacaConf -----------------------------
(***************************************************************************)
(* SacaConf with files of up to three lines: ports on both sides of every  *)
(* bound of check_if_port_change, and one line of each other kind.         *)
(***************************************************************************)
EXTENDS SacaConf

CONSTANTS public, absent, cwd, name, other

PortLines == {[port |-> n] : n \in {0, 70, 7070, 65535, 65536, 655351}}
OtherLines == {[mode |-> "p"], [home |-> public], [home |-> absent],
               [host |-> other], [other |-> TRUE]}
AllLines == PortLines \cup OtherLines
ShortFiles == UNION {[1..n -> AllLines] : n \in 0..2}
PortFiles == [1..3 -> {[port |-> 70], [port |-> 7070], [port |-> 65536]}]
MixedFiles == ShortFiles \cup PortFiles

SomeOptions == {0, 70, 70000}
JustPublic == {public}
=============================================================================
