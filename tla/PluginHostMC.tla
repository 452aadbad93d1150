---------------------------- MODULE PluginHostMC ----------------------------
(***************************************************************************)
(* PluginHost for TLC: the command line -p stats -p lastn -p stats.        *)
(***************************************************************************)
EXTENDS PluginHost

CONSTANTS stats, lastn

ThreePaths == <<stats, lastn, stats>>
=============================================================================
