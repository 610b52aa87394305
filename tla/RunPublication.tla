---------------------------- MODULE RunPublication ----------------------------
(***************************************************************************)
(* Which branch a Run publishes and which it clones, for one standalone    *)
(* agent Task with a Repo, and how late salvage repairs the next Run.      *)
(*                                                                         *)
(* Ref k is the head Run k owns (agentos/<task>/run-k); ref 0 is the       *)
(* Task's configured base.  A ref's content is the set of Runs whose       *)
(* commits it carries, {} when the remote has no such ref.  Leases and     *)
(* budgets are RunLifecycle's: here a Run may be lost, cancelled, retried  *)
(* or replaced whenever its status allows.                                 *)
(***************************************************************************)
EXTENDS Integers, FiniteSets

CONSTANT MaxRuns        \* bound: Run rows of the Task

ASSUME RunsAssumption == MaxRuns \in Nat \ {0}

VARIABLES
    run,        \* run[n]: status and branch columns of Run n
    births,     \* Run rows created so far
    ref,        \* the remote: content of each ref
    clone,      \* clone[n]: what the checkout of Run n was provisioned with
    sent        \* sent[n]: the ref Run n's runner pushed last, 0 if none

vars == <<run, births, ref, clone, sent>>

Runs == 1..MaxRuns
Refs == 0..MaxRuns

Claimed == {"CLAIMED", "PROVISIONED", "RUNNING"}
Status == {"NONE", "QUEUED", "ENDED"} \union Claimed

\* head is Run.branch, base Run.targetBranch, pushed Run.pushedBranch (0: null).
\* PROVISIONED is CLAIMED with a checkout on disk.
RunRow == [status: Status, started: BOOLEAN, head: Refs, base: Refs, pushed: Refs]

Init ==
    /\ run = [n \in Runs |-> [status |-> "NONE", started |-> FALSE,
                              head |-> 0, base |-> 0, pushed |-> 0]]
    /\ births = 0
    /\ ref = [k \in Refs |-> {}]
    /\ clone = [n \in Runs |-> {}]
    /\ sent = [n \in Runs |-> 0]

-----------------------------------------------------------------------------
(***************************************************************************)
(* Branch resolution over the rows r, where p is the prior Run.            *)
(***************************************************************************)
Published(r) == {m \in Runs : r[m].pushed # 0}

\* Publication evidence: the prior Run's own head if any Run published it,
\* else what the newest publishing Run of the Task pushed; 0 for none.
InheritedPublication(r, p) ==
    IF \E m \in Runs : r[m].pushed = r[p].head
    THEN r[p].head
    ELSE IF Published(r) = {} THEN 0
         ELSE r[CHOOSE m \in Published(r) : \A k \in Published(r) : k <= m].pushed

\* Mutant: without evidence the prior Run's head is believed to be there.
RequeueBase_TrustsHead(r, p) ==
    IF InheritedPublication(r, p) # 0 THEN InheritedPublication(r, p) ELSE r[p].head

\* A requeue keeps the lost or failed Run's own base when there is no evidence,
\* unless that base is the unpublished head itself.
RequeueBase(r, p) ==
    IF InheritedPublication(r, p) # 0 THEN InheritedPublication(r, p)
    ELSE IF r[p].base = r[p].head THEN 0
    ELSE r[p].base

\* Run n by birth intent.  An ordinary birth and a lost-lease replacement
\* continue the head of the prior Run; a completion retry leaves a head that
\* the prior Run owned and receives its own.
NewRun(r, n, intent) ==
    [status |-> "QUEUED", started |-> FALSE, pushed |-> 0,
     head |-> IF n = 1 THEN n
              ELSE IF intent = "retry-after-completion" /\ r[n - 1].head = n - 1 THEN n
              ELSE r[n - 1].head,
     base |-> IF n = 1 THEN 0
              ELSE IF intent = "enqueue" THEN InheritedPublication(r, n - 1)
              ELSE RequeueBase(r, n - 1)]

\* The rows r with another Run opened, or not (budget, caps, an archived agent).
Reopened(r, intent) ==
    \/ run' = r /\ UNCHANGED births
    \/ /\ births < MaxRuns
       /\ run' = [r EXCEPT ![births + 1] = NewRun(r, births + 1, intent)]
       /\ births' = births + 1

-----------------------------------------------------------------------------
(***************************************************************************)
(* Run births and ends.                                                    *)
(***************************************************************************)

\* Start or Retry by the operator.
OpenRun ==
    /\ births < MaxRuns
    /\ births > 0 => run[births].status = "ENDED"
    /\ run' = [run EXCEPT ![births + 1] = NewRun(run, births + 1, "enqueue")]
    /\ births' = births + 1
    /\ UNCHANGED <<ref, clone, sent>>

ClaimRun(n) ==
    /\ run[n].status = "QUEUED"
    /\ run' = [run EXCEPT ![n].status = "CLAIMED"]
    /\ UNCHANGED <<births, ref, clone, sent>>

\* The base was selected from publication evidence of the Task.
TargetBranchPublished(n) == \E m \in Runs : run[m].pushed = run[n].base /\ run[n].base # 0

\* Mutant: the declared head is cloned in place of the base whenever it exists.
Provisioned_PrefersHead(n) ==
    IF run[n].head # run[n].base /\ ref[run[n].head] # {} THEN ref[run[n].head]
    ELSE ref[run[n].base]

\* The clone: the base; when the declared head exists on the remote, that head
\* instead, or merged into a base chosen from publication evidence.
Provisioned(n) ==
    IF run[n].head # run[n].base /\ ref[run[n].head] # {}
    THEN ref[run[n].head] \union (IF TargetBranchPublished(n) THEN ref[run[n].base] ELSE {})
    ELSE ref[run[n].base]

ProvisionWorkspace(n) ==
    /\ run[n].status = "CLAIMED"
    /\ run[n].base = 0 \/ ref[run[n].base] # {}
    /\ run' = [run EXCEPT ![n].status = "PROVISIONED"]
    /\ clone' = [clone EXCEPT ![n] = Provisioned(n)]
    /\ UNCHANGED <<births, ref, sent>>

StartRun(n) ==
    /\ run[n].status = "PROVISIONED"
    /\ run' = [run EXCEPT ![n].status = "RUNNING", ![n].started = TRUE]
    /\ UNCHANGED <<births, ref, clone, sent>>

\* Completion reports the last push, then a failure may be retried.
CompleteRun(n) ==
    /\ run[n].status = "RUNNING"
    /\ Reopened([run EXCEPT ![n].status = "ENDED",
                            ![n].pushed = IF sent[n] # 0 THEN sent[n] ELSE @],
                "retry-after-completion")
    /\ UNCHANGED <<ref, clone, sent>>

\* The sweep declares a claimed Run lost.
LoseRun(n) ==
    /\ run[n].status \in Claimed
    /\ Reopened([run EXCEPT ![n].status = "ENDED"], "retry-after-lease-loss")
    /\ UNCHANGED <<ref, clone, sent>>

CancelRun(n) ==
    /\ run[n].status \in Claimed \union {"QUEUED"}
    /\ run' = [run EXCEPT ![n].status = "ENDED"]
    /\ UNCHANGED <<births, ref, clone, sent>>

-----------------------------------------------------------------------------
(***************************************************************************)
(* Publication.  A push is never forced; a runner that lost its Run goes   *)
(* on until it notices, and salvages to the ref the Run owns.              *)
(***************************************************************************)
\* To its head (delivery, possibly still under way when the Run ends), or to the
\* ref it owns: the salvage of a failed Run or of one nothing was published for.
Push(n, k) ==
    /\ run[n].started
    /\ k \in {n, run[n].head}
    /\ \/ sent[n] = 0
       \/ run[n].status = "ENDED" /\ run[n].pushed = 0 /\ k = n /\ sent[n] # n
    /\ ref[k] \subseteq clone[n]
    /\ ref' = [ref EXCEPT ![k] = clone[n] \union {n}]
    /\ sent' = [sent EXCEPT ![n] = k]
    /\ UNCHANGED <<run, births, clone>>

\* The immediate ACK of a push by the live owner.
PublishRun(n) ==
    /\ run[n].status = "RUNNING"
    /\ sent[n] # 0
    /\ run' = [run EXCEPT ![n].pushed = sent[n]]
    /\ UNCHANGED <<births, ref, clone, sent>>

\* Mutant: the queued replacement keeps the base it was born with.
Salvage_NoRepair(n) ==
    /\ run[n].status = "ENDED"
    /\ sent[n] = n
    /\ run[n].pushed \in {0, n}
    /\ run' = [run EXCEPT ![n].pushed = n]
    /\ UNCHANGED <<births, ref, clone, sent>>

\* The late ACK of a salvage push.  Of the next Run, if it is queued the base
\* is resolved again; if claimed and not started the claim is invalidated and
\* replaced; if started it stays on its prior base.
Salvage(n) ==
    /\ run[n].status = "ENDED"
    /\ sent[n] = n
    /\ run[n].pushed \in {0, n}
    /\ LET r == [run EXCEPT ![n].pushed = n]
       IN  \/ /\ n < births /\ run[n + 1].status = "QUEUED"
              /\ run' = [r EXCEPT ![n + 1].base = InheritedPublication(r, n)]
              /\ UNCHANGED births
           \/ /\ n < births /\ run[n + 1].status \in {"CLAIMED", "PROVISIONED"}
              /\ Reopened([r EXCEPT ![n + 1].status = "ENDED"], "enqueue")
           \/ /\ n < births => run[n + 1].status \in {"RUNNING", "ENDED"}
              /\ run' = r
              /\ UNCHANGED births
    /\ UNCHANGED <<ref, clone, sent>>

Next ==
    \/ OpenRun
    \/ \E n \in Runs : \/ ClaimRun(n)
                       \/ ProvisionWorkspace(n)
                       \/ StartRun(n)
                       \/ CompleteRun(n)
                       \/ LoseRun(n)
                       \/ CancelRun(n)
                       \/ PublishRun(n)
                       \/ Salvage(n)
                       \/ \E k \in Runs : Push(n, k)

Spec == Init /\ [][Next]_vars

-----------------------------------------------------------------------------
(***************************************************************************)
(* Properties.                                                             *)
(***************************************************************************)

\* Every variable keeps its type.
TypeOK ==
    /\ run \in [Runs -> RunRow]
    /\ births \in 0..MaxRuns
    /\ ref \in [Refs -> SUBSET Runs]
    /\ clone \in [Runs -> SUBSET Runs]
    /\ sent \in [Runs -> Refs]

\* A Run about to be provisioned names a base the remote has: publication
\* evidence is only recorded for accepted pushes, and a snapshot is never the
\* unpublished head of the Run it was copied from.
BaseExists ==
    \A n \in Runs : run[n].status \in {"QUEUED", "CLAIMED"} /\ run[n].base # 0
                        => ref[run[n].base] # {}

\* Salvage that became durable before the next Run started is in that Run's
\* checkout, provided the salvaged Run published under the head it owns.
SalvageReachesNextRun ==
    [][\A n \in Runs : /\ n > 1
                       /\ run[n].status = "PROVISIONED" /\ run'[n].status = "RUNNING"
                       /\ run[n - 1].pushed = n - 1 /\ run[n - 1].head = n - 1
                       => ref[n - 1] \subseteq clone[n]]_vars

\* A retry builds on what its predecessor published, "including the WIP salvage
\* the completing run may have written moments ago" (run-open.ts).  Violated:
\* the exact match on the head the predecessor continued finds an older
\* publication first.
RetryBuildsOnSalvage ==
    \A n \in Runs : n > 1 /\ run[n].status = "QUEUED" /\ run[n - 1].pushed # 0
                        => n - 1 \in ref[run[n].base]

=============================================================================
