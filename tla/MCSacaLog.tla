----------------------------- MODULE MCSacaLog -----------------------------
(***************************************************************************)
(* SacaLog on small instances: three senders; a pipe that two of them can  *)
(* fill, or with room for all their records.                               *)
(***************************************************************************)
EXTENDS SacaLog, FiniteSets

TwoRecords == 4
RoomForAll == 2 * Cardinality(Senders)
=============================================================================
