----------------------------- MODULE MC_Plugin -----------------------------
(* Instances of the plugin for TLC. *)
EXTENDS WingPlugin
=============================================================================
