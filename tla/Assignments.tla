---------------------------- MODULE Assignments -----------------------------
(* What the console holds is a function from its leaves to values; a write  *)
(* assigns values to some of them.  These are the operators of the same     *)
(* names in module TLC, which the proof system does not expand.             *)

(* One leaf and its value. *)
l :> v == [x \in {l} |-> v]

(* A write over what was there. *)
f @@ g == [x \in DOMAIN f \cup DOMAIN g |-> IF x \in DOMAIN f THEN f[x] ELSE g[x]]
=============================================================================
