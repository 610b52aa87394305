--------------------------- MODULE MCDeployAttempt ---------------------------
(* Two processes of a host with two services, for TLC. *)
EXTENDS DeployAttempt
CONSTANTS p1, p2, api, runner
=============================================================================
