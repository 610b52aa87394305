--------------------------- MODULE MCChainControl ---------------------------
(***************************************************************************)
(* Two Chains: A has a step, a parallel layer and a Human gate; the Agent  *)
(* gate b1 of Chain B is bound to the end of A.                            *)
(***************************************************************************)
EXTENDS ChainControl, TLC

CONSTANTS a1, a2, a3, a4, b1, A, B

MCTasks == {a1, a2, a3, a4, b1}
MCChainOf == [t \in MCTasks |-> IF t = b1 THEN B ELSE A]
MCLayer == (a1 :> 1) @@ (a2 :> 2) @@ (a3 :> 2) @@ (a4 :> 3) @@ (b1 :> 1)
MCAgents == {a1, a2, a3, b1}
MCGated == {a4}
MCBinding == [t \in MCTasks |-> IF t = b1 THEN a4 ELSE Nobody]
MCId == (a1 :> 1) @@ (a2 :> 2) @@ (a3 :> 3) @@ (a4 :> 4) @@ (b1 :> 5)
MCMaxRuns == [t \in MCTasks |-> IF t \in {a1, a3} THEN 2 ELSE 1]
=============================================================================
