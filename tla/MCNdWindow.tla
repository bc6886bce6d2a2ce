----------------------------- MODULE MCNdWindow -----------------------------
(***************************************************************************)
(* The instance of NdWindow that TLC checks.  Peers differ in nothing but  *)
(* their names, and the properties are invariants.                         *)
(***************************************************************************)
EXTENDS NdWindow, TLC

MCSymmetry == Permutations(Peers)
=============================================================================
