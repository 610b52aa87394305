----------------------------- MODULE RunInterface -----------------------------
(***************************************************************************)
(* One row of table Run as a runner depends on it: what the claims of the  *)
(* Run may do to it, and what may befall it while a runner is not looking. *)
(*                                                                         *)
(* Every row of RunLifecycle behaves like this, and RunnerLease meets      *)
(* everything that this allows; so what it shows of a runner holds on the  *)
(* control plane as it is.                                                 *)
(***************************************************************************)
EXTENDS Naturals

VARIABLES
    status,     \* where the Run is; COMPLETED carries a result, ENDED does not
    gen,        \* claims so far: the latest is the owner
    cancelled,  \* somebody asked to cancel it
    lapsed      \* the lease of the claim ran out, and the Run is not settled yet

rowVars == <<status, gen, cancelled, lapsed>>

RowInit == status = "QUEUED" /\ gen = 0 /\ cancelled = FALSE /\ lapsed = FALSE

\* Who may write: a claim whose lease stands and that nobody asked to cancel.
Writable == status = "CLAIMED" /\ ~cancelled /\ ~lapsed

Moves(from, to) ==
    /\ status \in from
    /\ status' = to
    /\ UNCHANGED <<gen, cancelled>>
    /\ lapsed' = FALSE

-----------------------------------------------------------------------------
(* What the claims of the Run do. *)

\* A claim is a new one: nothing of an earlier lease is left.
Claimed ==
    /\ status = "QUEUED" /\ status' = "CLAIMED"
    /\ gen' = gen + 1
    /\ lapsed' = FALSE
    /\ UNCHANGED cancelled

Suspended == Writable /\ Moves({"CLAIMED"}, "WAITING_INBOX")
Completed == Writable /\ Moves({"CLAIMED"}, "COMPLETED")

\* The owner says that the cancelled process is gone.
Acknowledged == cancelled /\ Moves({"CLAIMED", "WAITING_INBOX"}, "ENDED")

RunnerMoves == Claimed \/ Suspended \/ Completed \/ Acknowledged

-----------------------------------------------------------------------------
(* What befalls the Run. *)

\* The question is answered, or its window closes.
Answered == Moves({"WAITING_INBOX"}, "QUEUED")
Unanswered == Moves({"WAITING_INBOX"}, "ENDED")

CancelRequested ==
    /\ status \in {"CLAIMED", "WAITING_INBOX"} /\ ~cancelled
    /\ cancelled' = TRUE
    /\ UNCHANGED <<status, gen, lapsed>>

\* A lease that ran out does not come back.
LeaseLapsed ==
    /\ status = "CLAIMED" /\ ~lapsed
    /\ lapsed' = TRUE
    /\ UNCHANGED <<status, gen, cancelled>>

\* The sweep settles what lapsed; a claim that cloned too early is invalidated.
Revoked == Moves({"CLAIMED"}, "ENDED")

\* A queued Run ends without a claim: it is cancelled, or it cannot be claimed.
Dismissed ==
    /\ status = "QUEUED" /\ status' = "ENDED"
    /\ cancelled' \in {cancelled, TRUE}
    /\ UNCHANGED <<gen, lapsed>>

OthersMove ==
    Answered \/ Unanswered \/ CancelRequested \/ LeaseLapsed \/ Revoked \/ Dismissed

RowNext == RunnerMoves \/ OthersMove

RowSpec == RowInit /\ [][RowNext]_rowVars

=============================================================================
