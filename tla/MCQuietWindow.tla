--------------------------- MODULE MCQuietWindow ---------------------------
(* The control plane and one runner host; an agent place on each of them   *)
(* and a mechanical place on the control plane.                            *)
EXTENDS QuietWindow

CONSTANTS cp, rh, a1, a2, m1

MCHostOf == [r \in AgentRuns \cup MergeRuns |-> IF r = a2 THEN rh ELSE cp]
MCHostOfOne == [r \in AgentRuns \cup MergeRuns |-> cp]
=============================================================================
