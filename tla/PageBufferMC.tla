---------------------------- MODULE PageBufferMC ----------------------------
(* The order of the plugins for TLC: each after one that left its bytes. *)
EXTENDS PageBuffer

ThreeKinds == <<"stats", "lastn", "sample">>
=============================================================================
