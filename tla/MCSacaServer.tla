---------------------------- MODULE MCSacaServer ----------------------------
(***************************************************************************)
(* SacaServer on small instances: two ports, and perhaps a third one that  *)
(* another program has; files that name one port, two, none, or "port 0".  *)
(***************************************************************************)
EXTENDS SacaServer

Line(n) == [port |-> n]

TwoPorts == {70, 7070}
ThreePorts == {70, 7070, 8080}
OnePortFiles == {<<Line(70)>>, <<Line(7070)>>}
FlipFlop == <<Line(70), Line(7070)>>
AllFiles == OnePortFiles \cup {FlipFlop, <<>>, <<Line(0)>>, <<Line(70000)>>}
BusyFiles == AllFiles \cup {<<Line(8080)>>}
Nowhere == {}
Busy == {8080}
=============================================================================
