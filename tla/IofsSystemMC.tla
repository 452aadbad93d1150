---------------------------- MODULE IofsSystemMC ----------------------------
(* The plugins of the composition, in the order of the command line. *)
EXTENDS IofsSystem

TwoPlugins == <<"stats", "sample">>
=============================================================================
