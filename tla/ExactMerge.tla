------------------------------ MODULE ExactMerge ------------------------------
(***************************************************************************)
(* What a merge Step promises of an exact-head authorization.              *)
(*                                                                         *)
(* Approvals are granted one after the other.  A Run of the Step announces *)
(* one of them before it acts on it, and lands at most one commit: on      *)
(* exactly the base and with exactly the head it announced.  The Step      *)
(* settles once; what it settles on is so, and after "merged" or           *)
(* "base-drift" nothing of the Step lands any more, whoever sent it.       *)
(***************************************************************************)
EXTENDS Naturals, Sequences

CONSTANTS
    Runs,       \* the Runs of the Step, numbered in the order of their start
    Heads       \* the heads of the pull request

VARIABLES
    trunk,      \* the target branch: for each commit the Run and its parents
    grants,     \* the authorizations, oldest first
    announced,  \* which Run acts on which authorization
    result      \* what the Step settled on

mergeVars == <<trunk, grants, announced, result>>

\* A commit of somebody else, and no result yet.
Alien == [run |-> 0, base |-> 0, head |-> 0]
Unsettled == [run |-> 0, kind |-> "none", commit |-> 0]

MergeInit ==
    /\ trunk = <<>>
    /\ \E h \in Heads : grants = <<[base |-> 0, head |-> h]>>
    /\ announced = {}
    /\ result = Unsettled

\* Work of others lands; the pull request may be among it.
OthersLand ==
    /\ trunk' = Append(trunk, Alien)
    /\ UNCHANGED <<grants, announced, result>>

\* An authorization names the tip of the branch as its base.
Grant ==
    /\ \E h \in Heads : grants' = Append(grants, [base |-> Len(trunk), head |-> h])
    /\ UNCHANGED <<trunk, announced, result>>

\* A Run announces once, before the Step settles, not after a later Run did and
\* never under an older authorization than a Run before it.
Announce(r) ==
    /\ result = Unsettled
    /\ \E a \in 1..Len(grants) :
        /\ \A n \in announced : n.run < r /\ n.auth <= a
        /\ announced' = announced \union {[run |-> r, auth |-> a]}
    /\ UNCHANGED <<trunk, grants, result>>

IsFinal == result.kind \in {"merged", "base-drift"}

\* The commit of a Run lands as announced, maybe long after that Run is gone.
Land(n) ==
    /\ n \in announced
    /\ grants[n.auth].base = Len(trunk)
    /\ \A i \in 1..Len(trunk) : trunk[i].run # n.run
    /\ ~IsFinal
    /\ trunk' = Append(trunk, [run |-> n.run, base |-> Len(trunk), head |-> grants[n.auth].head])
    /\ UNCHANGED <<grants, announced, result>>

\* The newest Run settles the Step: a merge is there with the parents of an
\* authorization, a drifted base has moved.
Settle(r, kind, i) ==
    /\ result = Unsettled
    /\ \A n \in announced : n.run <= r
    /\ kind = "merged" =>
        /\ i \in 1..Len(trunk) /\ trunk[i].run \in Runs
        /\ \E a \in 1..Len(grants) : grants[a] = [base |-> i - 1, head |-> trunk[i].head]
    /\ kind = "base-drift" => \E a \in 1..Len(grants) : grants[a].base < Len(trunk)
    /\ result' = [run |-> r, kind |-> kind, commit |-> i]
    /\ UNCHANGED <<trunk, grants, announced>>

MergeNext ==
    \/ OthersLand \/ Grant
    \/ \E r \in Runs : Announce(r)
    \/ \E n \in announced : Land(n)
    \/ \E r \in Runs : result'.run = r /\ Settle(r, result'.kind, result'.commit)

MergeSpec == MergeInit /\ [][MergeNext]_mergeVars

=============================================================================
