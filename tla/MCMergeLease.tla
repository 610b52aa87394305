---------------------------- MODULE MCMergeLease ----------------------------
(***************************************************************************)
(* Instances of MergeLease for TLC; the .cfg files give the bounds.        *)
(***************************************************************************)
EXTENDS MergeLease, TLC

\* No action tells one handler from another.
Symmetry == Permutations(Handlers)
=============================================================================
