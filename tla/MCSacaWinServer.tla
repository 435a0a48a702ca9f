-------------------------- MODULE MCSacaWinServer --------------------------
(***************************************************************************)
(* SacaWinServer on a small instance: two ports, and files that name one   *)
(* of them, both, none, or "port 0".                                       *)
(***************************************************************************)
EXTENDS SacaWinServer

Line(n) == [port |-> n]

TwoPorts == {70, 7070}
SomeFiles == {<<Line(70)>>, <<Line(7070)>>, <<>>, <<Line(70), Line(7070)>>,
              <<Line(0)>>, <<Line(70000)>>}
=============================================================================
