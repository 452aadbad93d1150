----------------------------- MODULE FuseOpsMC -----------------------------
(***************************************************************************)
(* FuseOps for TLC: workers are alike, and so are handles.                 *)
(***************************************************************************)
EXTENDS FuseOps, TLC

Symmetry == Permutations(Workers) \cup Permutations(Handles)
=============================================================================
