----------------------------- MODULE RunAuthority -----------------------------
(***************************************************************************)
(* What the Run kernel promises about the right to write for a Task.       *)
(*                                                                         *)
(* Authority is a ticket <<n, g>>: claim number g of Run number n.  At     *)
(* most one ticket holds it; each grant is of a ticket later than all      *)
(* issued before, so authority once lost never comes back; and only the    *)
(* holder records a result, after which its Run is never granted again.    *)
(***************************************************************************)
EXTENDS Integers

CONSTANT Tickets        \* pairs of naturals

VARIABLES
    holders,            \* the tickets that may write now
    issued,             \* every ticket ever granted
    recorded            \* the tickets that recorded a result

authorityVars == <<holders, issued, recorded>>

AuthorityInit ==
    /\ holders = {}
    /\ issued = {}
    /\ recorded = {}

Later(t, u) == t[1] > u[1] \/ (t[1] = u[1] /\ t[2] > u[2])

\* A claim: nobody holds authority, and nobody ever held this ticket.  It may
\* be stillborn: the Run was cancelled before it was claimed again.
Grant(t) ==
    /\ holders = {}
    /\ \A u \in issued : Later(t, u)
    /\ \A u \in recorded : u[1] # t[1]
    /\ holders' \in {{t}, {}}
    /\ issued' = issued \union {t}
    /\ UNCHANGED recorded

\* Authority ends: suspension, cancellation, a lost or expired lease.
Revoke ==
    /\ holders # {}
    /\ holders' = {}
    /\ UNCHANGED <<issued, recorded>>

\* The holder records its result and gives authority back in one step.
Record(t) ==
    /\ t \in holders
    /\ holders' = {}
    /\ recorded' = recorded \union {t}
    /\ UNCHANGED issued

AuthorityNext == Revoke \/ \E t \in Tickets : Grant(t) \/ Record(t)

AuthoritySpec == AuthorityInit /\ [][AuthorityNext]_authorityVars

=============================================================================
