--------------------------- MODULE MCRunLifecycle ---------------------------
(***************************************************************************)
(* Instances of RunLifecycle for TLC; the .cfg files give the bounds.      *)
(***************************************************************************)
EXTENDS RunLifecycle
=============================================================================
