---------------------------- MODULE MC_OscClient ----------------------------
(* Instances of the OSC client for TLC. *)
EXTENDS WingOscClientInv, TLC

CONSTANTS w1, w2, r1, p

(* Every call is about one path: contention on one address is the hard case. *)
MCPath == [r \in Requests |-> p]
MCKind == [r \in Requests |-> IF r = r1 THEN "get" ELSE "bulkSet"]
=============================================================================
