------------------------------ MODULE MC_WsHub ------------------------------
(* Instances of the WebSocket hub for TLC. *)
EXTENDS WsHub, TLC

Symmetry == Permutations(Keys)
=============================================================================
