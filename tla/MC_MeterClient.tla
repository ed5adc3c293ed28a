--------------------------- MODULE MC_MeterClient ---------------------------
(* Instances of the metering client for TLC. *)
EXTENDS WingMeterClient, TLC

MCSymmetry == Permutations(Sockets) \cup Permutations(Ids)
=============================================================================
