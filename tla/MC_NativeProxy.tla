--------------------------- MODULE MC_NativeProxy ---------------------------
(* Instances of the native proxy for TLC. *)
EXTENDS WingNativeProxy

\* Tablets only: the order in which a walk asks for strips is fixed.
Symmetry == Permutations(Tablets)
=============================================================================
