---------------------------- MODULE MCSacaWinLog ----------------------------
(***************************************************************************)
(* SacaWinLog with as many senders as instances, or more: one long record, *)
(* the others shorter.                                                     *)
(***************************************************************************)
EXTENDS SacaWinLog

CONSTANTS s1, s2, s3
Three == {s1, s2, s3}
Sizes == [s \in Three |-> IF s = s1 THEN 3 ELSE IF s = s2 THEN 2 ELSE 1]
BothModes == {"t", "p"}
=============================================================================
