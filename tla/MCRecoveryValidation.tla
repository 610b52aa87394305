------------------------- MODULE MCRecoveryValidation -------------------------
EXTENDS RecoveryValidation

\* A Run keeps a recovery waiting longer than GitHub may fail.
MCCeiling == [c \in Class |-> IF c = "waiting" THEN 3 ELSE 2]
===============================================================================
