----------------------------- MODULE RunLifecycle -----------------------------
(***************************************************************************)
(* The Run kernel for one standalone agent Task: the rows of table "Run"   *)
(* and their Session mirror, the Task status, and every transaction that   *)
(* moves them.                                                             *)
(*                                                                         *)
(* A runner proves its authority with a fencing token that embeds the Run  *)
(* id and the lease generation, so a ticket is a pair (n, g): Run number   *)
(* and generation.  The column holds g, or 0 for NULL.  Any ticket ever    *)
(* issued may call at any time: a delayed call, a repeated call, a crashed *)
(* runner and a lost response are all covered by the choice of caller.     *)
(* A refused call changes nothing and is a stuttering step.                *)
(***************************************************************************)
EXTENDS Integers, FiniteSets

CONSTANTS
    MaxRuns,        \* bound: Run rows of the Task
    MaxGen,         \* bound: claims of one Run row
    RefundCap,      \* LEASE_LOSS_REFUND_CAP
    ExternalCap,    \* EXTERNAL_FAILURE_REFUND_CAP
    MaxUncapped,    \* bound: uncapped external-failure refunds
    MinBudget,      \* bounds: values an operator gives maxSessionsPerTask
    MaxBudget

ASSUME RunsAssumption == MaxRuns \in Nat \ {0} /\ MaxGen \in Nat \ {0}
ASSUME CapsAssumption == RefundCap \in Nat /\ ExternalCap \in Nat /\ MaxUncapped \in Nat
ASSUME BudgetAssumption == /\ MinBudget \in Nat \ {0}
                           /\ MaxBudget \in Nat
                           /\ MinBudget <= MaxBudget

VARIABLES
    run,        \* run[n]: the Run row number n, with its Session
    births,     \* Run rows created so far; the latest Run is run[births]
    task,       \* Task.status
    taskMax,    \* Task.maxSessionsPerTask
    peak,       \* history: the largest taskMax so far
    capped,     \* capped external-failure refunds recorded on the Task
    uncapped,   \* history: uncapped external-failure refunds granted
    orphans,    \* lease sweep: Runs its candidate query returned
    expired     \* lease sweep: (Run, question) pairs its Inbox query returned

vars == <<run, births, task, taskMax, peak, capped, uncapped, orphans, expired>>
sweep == <<orphans, expired>>
budget == <<taskMax, peak>>
external == <<capped, uncapped>>

Runs == 1..MaxRuns
Gens == 1..MaxGen

Claimed  == {"CLAIMED", "RUNNING"}
Active   == Claimed \union {"WAITING_INBOX"}
Open     == Active \union {"QUEUED"}
Terminal == {"SUCCEEDED", "FAILED", "TIMED_OUT", "CANCELLED", "LOST"}
RunStatus  == {"NONE"} \union Open \union Terminal
TaskStatus == {"BACKLOG", "TODO", "DOING", "REVIEW"}
SessionStatus == {"NONE", "REQUESTED", "PROVISIONING", "RUNNING", "WAITING_INBOX"} \union Terminal

RunRow == [status: RunStatus, gen: 0..MaxGen, token: 0..MaxGen, lease: BOOLEAN,
           beat: BOOLEAN, started: BOOLEAN, cancel: {"none", "requested", "acknowledged"},
           max: Nat, grants: Nat, refunds: 0..RefundCap, session: SessionStatus,
           asking: 0..MaxGen, questions: SUBSET Gens, lapsed: BOOLEAN,
           author: 0..MaxGen]

NoRun == [status |-> "NONE", gen |-> 0, token |-> 0, lease |-> FALSE,
          beat |-> FALSE, started |-> FALSE, cancel |-> "none",
          max |-> 0, grants |-> 0, refunds |-> 0, session |-> "NONE",
          asking |-> 0, questions |-> {}, lapsed |-> FALSE,
          author |-> 0]

\* A Run born QUEUED with the budget columns its birth intent derives.
QueuedRun(max, grants, refunds) ==
    [NoRun EXCEPT !.status = "QUEUED", !.max = max, !.grants = grants, !.refunds = refunds]

Init ==
    /\ run = [n \in Runs |-> NoRun]
    /\ births = 0
    /\ task \in {"BACKLOG", "TODO"}
    /\ taskMax \in MinBudget..MaxBudget
    /\ peak = taskMax
    /\ capped = 0 /\ uncapped = 0
    /\ orphans = {} /\ expired = {}

-----------------------------------------------------------------------------
(***************************************************************************)
(* Guards shared by the handlers.                                          *)
(***************************************************************************)

\* Mutant: a cancelled Run passes.
Fenced_IgnoresCancel(n, g, statuses) ==
    /\ run[n].token = g
    /\ run[n].lease
    /\ run[n].status \in statuses

\* The lease fence: the ticket (n, g) is the row's owner, nobody asked to
\* cancel, the lease is in the future, and the status is one the caller names.
Fenced(n, g, statuses) ==
    /\ run[n].token = g
    /\ run[n].cancel = "none"
    /\ run[n].lease
    /\ run[n].status \in statuses

\* Mutant: a queued Run does not count as active.
HasActiveRun_NotQueued == \E n \in Runs : run[n].status \in Active

HasActiveRun == \E n \in Runs : run[n].status \in Open

\* The columns a birth reads from the latest Run, when there is one.
PriorGrants  == IF births = 0 THEN 0 ELSE run[births].grants
PriorRefunds == IF births = 0 THEN 0 ELSE run[births].refunds

\* Start's budget check counts every Run against the best grant of any row.
BudgetRemaining ==
    \/ births < taskMax
    \/ \E n \in 1..births : births < taskMax + run[n].grants

\* A platform-loss refund is bound to the latest Run and capped.
RefundGranted(n) == n = births /\ run[n].refunds < RefundCap

\* The lost row carries its own refund.
Refund(row, granted) ==
    IF granted THEN [row EXCEPT !.max = @ + 1, !.grants = @ + 1] ELSE row

\* The row a cancellation leaves; an open question of the Session is closed.
CancelledRow(row, confirmed) ==
    [row EXCEPT !.status = "CANCELLED", !.lease = FALSE,
                !.cancel = IF confirmed THEN "acknowledged" ELSE "requested",
                !.session = IF @ = "NONE" THEN @ ELSE "CANCELLED",
                !.questions = @ \ {row.asking}, !.beat = FALSE, !.lapsed = FALSE]

\* A cancellation surfaces the Task for review unless it was parked.
CancelledTask == IF task = "BACKLOG" THEN task ELSE "REVIEW"

-----------------------------------------------------------------------------
(***************************************************************************)
(* Runner handlers: the runner posts its ticket (n, g).                    *)
(***************************************************************************)

\* The claim candidate: queued, its Task workable, and no other Run of the
\* Task claimed (the partial unique index Run_one_active_per_task).
\* cancelRequestedAt is not among the conditions.
Claimable(n) ==
    /\ run[n].status = "QUEUED"
    /\ task \in {"TODO", "DOING"}
    /\ \A m \in Runs : run[m].status \notin Active

\* Mutant: a resumed Run is claimed under its old fencing token.
ClaimRun_ReusesToken(n) ==
    /\ Claimable(n)
    /\ run' = [run EXCEPT ![n].status = "CLAIMED", ![n].gen = 1, ![n].token = 1,
                          ![n].lease = TRUE, ![n].beat = TRUE,
                          ![n].session = "PROVISIONING"]
    /\ task' = "DOING"
    /\ UNCHANGED <<births, budget, external, sweep>>

ClaimRun(n) ==
    /\ Claimable(n)
    /\ run[n].gen < MaxGen
    /\ run' = [run EXCEPT ![n].status = "CLAIMED",
                          ![n].gen = @ + 1,
                          ![n].token = run[n].gen + 1,
                          ![n].lease = TRUE,
                          ![n].beat = TRUE,
                          ![n].session = "PROVISIONING"]
    /\ task' = "DOING"
    /\ UNCHANGED <<births, budget, external, sweep>>

\* The candidate cannot run (repo grant missing, drifted specification, ...):
\* it fails without a claim and its Task is parked.  The Session is not written.
SettleQueuedCandidate(n) ==
    /\ Claimable(n)
    /\ run' = [run EXCEPT ![n].status = "FAILED"]
    /\ task' = "BACKLOG"
    /\ UNCHANGED <<births, budget, external, sweep>>

StartRun(n, g) ==
    /\ Fenced(n, g, {"CLAIMED"})
    /\ run[n].session = "PROVISIONING"
    /\ run' = [run EXCEPT ![n].status = "RUNNING", ![n].started = TRUE,
                          ![n].session = "RUNNING"]
    /\ UNCHANGED <<births, task, budget, external, sweep>>

\* Renews the lease (a no-op on a live one) and refreshes heartbeatAt.
HeartbeatRun(n, g) ==
    /\ Fenced(n, g, Active)
    /\ run' = [run EXCEPT ![n].beat = TRUE]
    /\ UNCHANGED <<births, task, budget, external, sweep>>

\* The agent asks a human; the Run gives its lease back in the same commit.
SuspendForInbox(n, g) ==
    /\ Fenced(n, g, Claimed)
    /\ run' = [run EXCEPT ![n].status = "WAITING_INBOX", ![n].lease = FALSE,
                          ![n].session = "WAITING_INBOX", ![n].asking = g,
                          ![n].questions = @ \union {g}, ![n].beat = FALSE]
    /\ UNCHANGED <<births, task, budget, external, sweep>>

\* What the platform decides about a finished attempt (runOutcomeVerdict):
\* success; a failure, retryable or not, refunded or not; a budget gate.
Verdicts ==
    {[status |-> "SUCCEEDED", retryable |-> FALSE, refund |-> "none"],
     [status |-> "TIMED_OUT", retryable |-> FALSE, refund |-> "none"]}
    \union [status: {"FAILED"}, retryable: BOOLEAN, refund: {"none", "capped", "uncapped"}]

\* The completion of (n, g) that earns `grant` budget refunds (0 or 1).
CompletedRow(n, g, v, grant) ==
    [run[n] EXCEPT !.status = v.status, !.lease = FALSE, !.session = v.status,
                   !.beat = FALSE, !.max = @ + grant, !.grants = @ + grant, !.author = g]

\* One transaction: terminal row, external-failure refund, automatic retry,
\* Task status.  A retry may also be refused (spend cap, archived assignee).
CompleteRun(n, g) ==
    /\ Fenced(n, g, Active)
    /\ \E v \in Verdicts, grant \in {0, 1} :
        /\ grant = 1 <=> \/ v.refund = "uncapped"
                         \/ v.refund = "capped" /\ capped < ExternalCap
        /\ v.refund = "uncapped" => uncapped < MaxUncapped
        /\ capped' = IF v.refund = "capped" THEN capped + grant ELSE capped
        /\ uncapped' = IF v.refund = "uncapped" THEN uncapped + grant ELSE uncapped
        /\ \/ /\ v.retryable
              /\ n < run[n].max + grant
              /\ n = births
              /\ births < MaxRuns
              /\ run' = [run EXCEPT ![n] = CompletedRow(n, g, v, grant),
                                    ![n + 1] = QueuedRun(run[n].max + grant,
                                                         run[n].grants + grant,
                                                         run[n].refunds)]
              /\ births' = births + 1
              /\ task' = "DOING"
           \/ /\ run' = [run EXCEPT ![n] = CompletedRow(n, g, v, grant)]
              /\ task' = "REVIEW"
              /\ UNCHANGED births
    /\ UNCHANGED <<budget, sweep>>

\* The owner reports that the cancelled process is gone.  A Run reconciliation
\* already cancelled only gets its acknowledgement backfilled.
AcknowledgeCancellation(n, g) ==
    /\ run[n].token = g
    /\ run[n].cancel # "none"
    /\ \/ /\ run[n].status = "CANCELLED"
          /\ run' = [run EXCEPT ![n].cancel = "acknowledged"]
          /\ UNCHANGED task
       \/ /\ run[n].status \in Open
          /\ run' = [run EXCEPT ![n] = CancelledRow(@, TRUE)]
          /\ task' = CancelledTask
    /\ UNCHANGED <<births, budget, external, sweep>>

(***************************************************************************)
(* Salvage: the owner of Run n publishes its branch after losing the Run,  *)
(* by /publish or by a reclaim report.  A replacement n + 1 that is        *)
(* claimed but not started has cloned too early: its claim is invalidated  *)
(* and the attempt refunded like a lost lease.  (RunPublication says what  *)
(* the other replacements clone.)  A checkout whose agent never started    *)
(* has no commits past its base, so its runner has nothing to publish.     *)
(***************************************************************************)
InvalidatesClaim(n) ==
    /\ n < births /\ run[n].started
    /\ run[n + 1].status = "CLAIMED" /\ ~run[n + 1].started

RevokedRow(m) ==
    [Refund(run[m], RefundGranted(m)) EXCEPT
         !.status = "CANCELLED", !.lease = FALSE, !.beat = FALSE, !.session = "CANCELLED"]

\* Requeued, or parked when the refund or the birth is refused.  (The code's
\* third outcome, a refund that leaves no room, is excluded by SalvageHasRoom.)
Salvage(n, g) ==
    LET m == n + 1 IN
    /\ run[n].token = g
    /\ InvalidatesClaim(n)
    /\ \/ /\ RefundGranted(m)
          /\ births < MaxRuns
          /\ run' = [run EXCEPT ![m] = RevokedRow(m),
                                ![m + 1] = QueuedRun(taskMax + RevokedRow(m).grants,
                                                     RevokedRow(m).grants,
                                                     run[m].refunds + 1)]
          /\ births' = births + 1
          /\ UNCHANGED task
       \/ /\ run' = [run EXCEPT ![m] = RevokedRow(m)]
          /\ task' = "REVIEW"
          /\ UNCHANGED births
    /\ UNCHANGED <<budget, external, sweep>>

-----------------------------------------------------------------------------
(***************************************************************************)
(* Operator handlers.                                                      *)
(***************************************************************************)

\* A human answers question q; the Run goes back to the queue without owner.
\* Whether a cancellation was requested is not asked.
AnswerInbox(n, q) ==
    /\ q \in run[n].questions
    /\ run[n].status = "WAITING_INBOX"
    /\ run' = [run EXCEPT ![n].status = "QUEUED", ![n].token = 0, ![n].lease = FALSE,
                          ![n].session = "REQUESTED", ![n].asking = 0,
                          ![n].questions = @ \ {q}, ![n].lapsed = FALSE]
    /\ UNCHANGED <<births, task, budget, external, sweep>>

\* Mutant: a cancellation closes the question before the Run is settled.
CancelRun_ClosesQuestion(n, park) ==
    /\ run[n].cancel = "none"
    /\ run[n].status \in Active
    /\ run' = [run EXCEPT ![n].cancel = "requested", ![n].questions = {}]
    /\ task' = IF park THEN "BACKLOG" ELSE task
    /\ UNCHANGED <<births, budget, external, sweep>>

\* Cancel a QUEUED Run (settled at once) or record the intent on a claimed one.
CancelRun(n, park) ==
    /\ run[n].cancel = "none"
    /\ run[n].status \in Open
    /\ IF run[n].status = "QUEUED"
       THEN /\ run' = [run EXCEPT ![n] = CancelledRow(@, TRUE)]
            /\ task' = IF park THEN "BACKLOG" ELSE CancelledTask
       ELSE /\ run' = [run EXCEPT ![n].cancel = "requested"]
            /\ task' = IF park THEN "BACKLOG" ELSE task
    /\ UNCHANGED <<births, budget, external, sweep>>

\* The same request delivered again: idempotent on the Run, parks the Task again.
ReplayCancelAndPark(n) ==
    /\ run[n].cancel # "none"
    /\ task' = "BACKLOG"
    /\ UNCHANGED <<run, births, budget, external, sweep>>

\* Start: the first Run of the Task, or another after it was parked.
StartTask ==
    /\ task \in {"TODO", "BACKLOG"}
    /\ ~HasActiveRun
    /\ BudgetRemaining
    /\ births < MaxRuns
    /\ run' = [run EXCEPT ![births + 1] = QueuedRun(taskMax + PriorGrants, PriorGrants, PriorRefunds)]
    /\ births' = births + 1
    /\ task' = "TODO"
    /\ UNCHANGED <<budget, external, sweep>>

\* Mutant: the ceiling of the new Run is the configured budget alone.
RetryTask_ForgetsGrants ==
    /\ births > 0
    /\ ~HasActiveRun
    /\ births < taskMax + PriorGrants
    /\ births < MaxRuns
    /\ run' = [run EXCEPT ![births + 1] = QueuedRun(taskMax, PriorGrants, PriorRefunds)]
    /\ births' = births + 1
    /\ task' = "TODO"
    /\ UNCHANGED <<budget, external, sweep>>

\* Retry: another Run after a terminal one, whatever the Task status.
RetryTask ==
    /\ births > 0
    /\ ~HasActiveRun
    /\ births < taskMax + PriorGrants
    /\ births < MaxRuns
    /\ run' = [run EXCEPT ![births + 1] = QueuedRun(taskMax + PriorGrants, PriorGrants, PriorRefunds)]
    /\ births' = births + 1
    /\ task' = "TODO"
    /\ UNCHANGED <<budget, external, sweep>>

\* Start or Retry refused by the spend cap: the Task is parked in REVIEW.
ParkOnSpendCap ==
    /\ births > 0
    /\ ~HasActiveRun
    /\ births < taskMax + PriorGrants
    /\ task' = "REVIEW"
    /\ UNCHANGED <<run, births, budget, external, sweep>>

\* The only status moves an operator owns on a standalone agent Task.
MoveTask ==
    /\ \/ task = "BACKLOG" /\ task' = "TODO"
       \/ task = "TODO" /\ ~HasActiveRun /\ task' = "BACKLOG"
    /\ UNCHANGED <<run, births, budget, external, sweep>>

SetBudget(max) ==
    /\ max # taskMax
    /\ taskMax' = max
    /\ peak' = IF max > peak THEN max ELSE peak
    /\ UNCHANGED <<run, births, task, external, sweep>>

-----------------------------------------------------------------------------
(***************************************************************************)
(* The lease sweep: candidates are read outside the settling transaction,  *)
(* so each is only a hint when its turn comes.  A new read abandons what   *)
(* an aborted sweep left.                                                  *)
(***************************************************************************)
SweepRead ==
    /\ orphans' = {n \in Runs : /\ run[n].status \in Claimed
                                /\ ~run[n].lease
                                /\ run[n].cancel # "none" \/ ~run[n].beat}
    /\ expired' = {e \in Runs \X Gens : /\ run[e[1]].status = "WAITING_INBOX"
                                         /\ run[e[1]].lapsed
                                         /\ run[e[1]].asking = e[2]}
    /\ UNCHANGED <<run, births, task, budget, external>>

\* Mutant: a cancelled Run is left to its runner.
LeaseGone_SkipsCancelled(n) ==
    run[n].status \in Claimed /\ ~run[n].lease /\ run[n].cancel = "none"

\* Re-read under the Run mutex; cancelled wins over lost.
LeaseGone(n) == run[n].status \in Claimed /\ ~run[n].lease

LostRow(n) ==
    [Refund(run[n], RefundGranted(n)) EXCEPT
         !.status = "LOST", !.lease = FALSE, !.beat = FALSE, !.session = "LOST"]

\* Mutant: the refund counts on the terminal row and again in the birth intent.
LoseAndReopen_CountsTwice(n) ==
    /\ RefundGranted(n)
    /\ n < LostRow(n).max
    /\ births < MaxRuns
    /\ run' = [run EXCEPT ![n] = LostRow(n),
                          ![n + 1] = QueuedRun(run[n].max + 2, run[n].grants + 2,
                                               run[n].refunds + 1)]
    /\ births' = births + 1
    /\ task' = "DOING"

LoseAndReopen(n) ==
    /\ RefundGranted(n)
    /\ n < LostRow(n).max
    /\ births < MaxRuns
    /\ run' = [run EXCEPT ![n] = LostRow(n),
                          ![n + 1] = QueuedRun(run[n].max + 1, run[n].grants + 1,
                                               run[n].refunds + 1)]
    /\ births' = births + 1
    /\ task' = "DOING"

\* No replacement: refund exhausted, ceiling reached, or the birth was refused.
LoseAndPark(n) ==
    /\ run' = [run EXCEPT ![n] = LostRow(n)]
    /\ task' = "REVIEW"
    /\ UNCHANGED births

SweepOrphan(n) ==
    /\ n \in orphans
    /\ orphans' = orphans \ {n}
    /\ \/ /\ ~LeaseGone(n)
          /\ UNCHANGED <<run, births, task>>
       \/ /\ LeaseGone(n)
          /\ run[n].cancel # "none"
          /\ run' = [run EXCEPT ![n] = CancelledRow(@, FALSE)]
          /\ task' = CancelledTask
          /\ UNCHANGED births
       \/ /\ LeaseGone(n)
          /\ run[n].cancel = "none"
          /\ LoseAndReopen(n) \/ LoseAndPark(n)
    /\ UNCHANGED <<expired, budget, external>>

\* The Inbox window of question q lapsed.  The status is compared again, the
\* question is the one the candidate query saw.
SweepExpired(n, q) ==
    /\ <<n, q>> \in expired
    /\ expired' = expired \ {<<n, q>>}
    /\ IF run[n].status = "WAITING_INBOX"
       THEN /\ run' = [run EXCEPT ![n].status = "TIMED_OUT",
                                  ![n].session = IF @ = "WAITING_INBOX" THEN "TIMED_OUT" ELSE @,
                                  ![n].questions = @ \ {q}, ![n].lapsed = FALSE]
            /\ task' = "REVIEW"
       ELSE UNCHANGED <<run, task>>
    /\ UNCHANGED <<births, orphans, budget, external>>

-----------------------------------------------------------------------------
(***************************************************************************)
(* Time.  A lease runs out unless renewed; a heartbeat grows older than    *)
(* the stall timeout; the answer window of a question closes.              *)
(***************************************************************************)
LeaseExpires(n) ==
    /\ run[n].lease
    /\ run' = [run EXCEPT ![n].lease = FALSE]
    /\ UNCHANGED <<births, task, budget, external, sweep>>

HeartbeatStarves(n) ==
    /\ run[n].status \in Claimed
    /\ run[n].beat
    /\ run' = [run EXCEPT ![n].beat = FALSE]
    /\ UNCHANGED <<births, task, budget, external, sweep>>

WindowLapses(n) ==
    /\ run[n].status = "WAITING_INBOX"
    /\ ~run[n].lapsed
    /\ run' = [run EXCEPT ![n].lapsed = TRUE]
    /\ UNCHANGED <<births, task, budget, external, sweep>>

RunnerNext == \E n \in Runs :
    \/ ClaimRun(n)
    \/ SettleQueuedCandidate(n)
    \/ \E g \in Gens : \/ StartRun(n, g)
                       \/ HeartbeatRun(n, g)
                       \/ SuspendForInbox(n, g)
                       \/ CompleteRun(n, g)
                       \/ AcknowledgeCancellation(n, g)
                       \/ Salvage(n, g)

OperatorNext ==
    \/ \E n \in Runs : \/ \E q \in Gens : AnswerInbox(n, q)
                       \/ \E park \in BOOLEAN : CancelRun(n, park)
                       \/ ReplayCancelAndPark(n)
    \/ StartTask
    \/ RetryTask
    \/ ParkOnSpendCap
    \/ MoveTask
    \/ \E max \in MinBudget..MaxBudget : SetBudget(max)

SweepNext ==
    \/ SweepRead
    \/ \E n \in Runs : \/ SweepOrphan(n)
                       \/ \E q \in Gens : SweepExpired(n, q)

TimeNext == \E n \in Runs : LeaseExpires(n) \/ HeartbeatStarves(n) \/ WindowLapses(n)

Next == RunnerNext \/ OperatorNext \/ SweepNext \/ TimeNext

Spec == Init /\ [][Next]_vars

-----------------------------------------------------------------------------
(***************************************************************************)
(* Properties.                                                             *)
(***************************************************************************)

\* Every variable keeps its type (columns of Run, Session and Task).
TypeOK ==
    /\ run \in [Runs -> RunRow]
    /\ births \in 0..MaxRuns
    /\ task \in TaskStatus
    /\ taskMax \in MinBudget..MaxBudget
    /\ peak \in MinBudget..MaxBudget
    /\ capped \in 0..ExternalCap
    /\ uncapped \in 0..MaxUncapped
    /\ orphans \subseteq Runs
    /\ expired \subseteq Runs \X Gens

\* At most one Run of the Task is open, and it is the latest one: none of the
\* birth paths (Start, Retry, automatic retry, lease-loss replacement, salvage
\* replacement) opens a Run beside a live one, although openRun never looks.
OneOpenRun == \A n \in Runs : run[n].status \in Open => n = births

\* A live lease is always that of the last claim of a claimed Run: suspending,
\* answering, cancelling, losing or completing a Run leaves no lease behind
\* that an earlier ticket could pass the fence with.
LeaseIsCurrentClaim ==
    \A n \in Runs : run[n].lease => /\ run[n].status \in Claimed
                                    /\ run[n].token = run[n].gen

\* The result a Run carries was written by its last claim, never by a ticket
\* an Inbox suspension or a re-claim superseded.
ResultIsFromLastClaim ==
    \A n \in Runs : run[n].author # 0 => run[n].author = run[n].gen

\* Attempts that may have been refunded as a platform loss: the Run was lost,
\* or cancelled (a salvage that invalidates a claim cancels it).
TakenBack == {n \in Runs : run[n].status \in {"LOST", "CANCELLED"}}

\* The Task never gets more Runs than its largest configured budget, except
\* that each attempt taken back and each recorded external-failure refund pays
\* for one: no refund is counted twice on its way through the terminal row, the
\* birth intent and the successor's row.
EveryExtraRunIsPaidFor == births <= peak + Cardinality(TakenBack) + capped + uncapped

\* A Run nobody may complete stays uncompleted: once a cancellation was
\* requested the Run never ends SUCCEEDED or LOST.
CancelledNeverCompletes ==
    \A n \in Runs : run[n].cancel # "none" => run[n].status \notin {"SUCCEEDED", "LOST"}

\* A suspended Run can be answered: the question it waits for is open.
SuspendedIsAnswerable ==
    \A n \in Runs : run[n].status = "WAITING_INBOX" => run[n].asking \in run[n].questions

\* While the Task is DOING some Run of it is open, so that somebody will move
\* it: no outcome (lost, failed, refused, timed out) strands the card in DOING.
DoingHasOpenRun == task = "DOING" => \E n \in Runs : run[n].status \in Open

\* The Task and its Runs agree: one Run is open at most, the latest, and a Task
\* in DOING has it, whichever of the five birth paths or end handlers ran.
TaskHasItsRun == OneOpenRun /\ DoingHasOpenRun

\* Start measures the budget against the best grant of any row, Retry against
\* the latest row's: they agree, because a refund is only ever recorded on the
\* latest Run and every birth carries its predecessor's grants on.
StartAndRetryAgree == births > 0 => (BudgetRemaining <=> births < taskMax + PriorGrants)

\* A refund that invalidates a claim always leaves room for the replacement,
\* so a late salvage never ends the Task's last Run without queueing another or
\* parking the Task ("exhausted", which repairReplacementAfterSalvage does not
\* narrate, is unreachable), whatever budget an operator sets in between.
SalvageHasRoom ==
    \A n \in Runs : InvalidatesClaim(n) /\ RefundGranted(n + 1) => n + 1 < run[n + 1].max + 1

\* The two checks agree and every replacement has room: whoever asks, the budget
\* gives one answer, and no refund is worth less than the Run it pays for.
BudgetChecksAgree == StartAndRetryAgree /\ SalvageHasRoom

\* A terminal status is final: no late completion, answer, acknowledgement,
\* salvage or sweep rewrites how a Run ended.
TerminalIsFinal ==
    [][\A n \in Runs : run[n].status \in Terminal => run'[n].status = run[n].status]_vars

-----------------------------------------------------------------------------
(***************************************************************************)
(* Refinement: the claims, leases and results of the Task's Runs implement *)
(* RunAuthority.  The right to write is a live lease nobody cancelled.     *)
(***************************************************************************)
Holders  == {<<n, run[n].token>> : n \in {m \in Runs : run[m].lease /\ run[m].cancel = "none"}}
Issued   == {t \in Runs \X Gens : t[2] <= run[t[1]].gen}
Recorded == {<<n, run[n].author>> : n \in {m \in Runs : run[m].author # 0}}

Authority == INSTANCE RunAuthority WITH
    Tickets <- Runs \X Gens, holders <- Holders, issued <- Issued, recorded <- Recorded

\* Whatever calls are delayed, repeated or lost, at most one ticket of the Task
\* holds authority, never one that had it before, and only it records results.
AuthorityRefined == Authority!AuthoritySpec

-----------------------------------------------------------------------------
(***************************************************************************)
(* Refinement: each row implements RunInterface, what RunnerLease relies   *)
(* on.  A row not born yet is one nobody claimed.  A lease is lapsed while *)
(* its Run waits to be settled for it.                                     *)
(***************************************************************************)
StatusSeen(row) ==
    CASE row.status \in {"NONE", "QUEUED"} -> "QUEUED"
      [] row.status \in Claimed -> "CLAIMED"
      [] row.status = "WAITING_INBOX" -> "WAITING_INBOX"
      [] OTHER -> IF row.author # 0 THEN "COMPLETED" ELSE "ENDED"

Lapsed(row) == row.status \in Claimed /\ ~row.lease

Seen(n) == INSTANCE RunInterface WITH
    status <- StatusSeen(run[n]), gen <- run[n].gen,
    cancelled <- run[n].cancel # "none", lapsed <- Lapsed(run[n])

\* Whoever calls, however late or often, a Run does to its runner only what
\* RunInterface says: a lease that ran out does not come back to its claim, only
\* a claim with its lease suspends or completes, and nothing ends a Run twice.
InterfaceKept ==
    /\ \A n \in Runs : Seen(n)!RowInit
    /\ [][\A n \in Runs : [Seen(n)!RowNext]_(Seen(n)!rowVars)]_run

-----------------------------------------------------------------------------
(***************************************************************************)
(* Liveness.  reconcileDatabaseRuns runs on a timer and visits each        *)
(* candidate it read; a lease that a cancellation keeps from being renewed *)
(* runs out.  Nothing is assumed of runners or of the operator.            *)
(***************************************************************************)
Fairness ==
    /\ WF_vars(SweepRead)
    /\ \A n \in Runs :
        /\ WF_vars(SweepOrphan(n))
        /\ \A q \in Gens : WF_vars(SweepExpired(n, q))
        /\ WF_vars(run[n].cancel # "none" /\ LeaseExpires(n))

LiveSpec == Spec /\ Fairness

\* A claimed Run whose runner fell silent (lease out, heartbeats stale) is
\* settled by the sweep, however the operator acts meanwhile.
SilentRunSettles ==
    \A n \in Runs :
        (run[n].status \in Claimed /\ ~run[n].lease /\ ~run[n].beat) ~> run[n].status \in Terminal

\* A cancellation requested of a claimed Run ends it even if its runner never
\* acknowledges and its process still sends heartbeats.
CancelSettles ==
    \A n \in Runs :
        (run[n].status \in Claimed /\ run[n].cancel = "requested") ~> run[n].status \in Terminal

\* A question whose answer window closed does not hold its Run for ever: the
\* Run times out or an answer still gets in.
ExpiredQuestionSettles ==
    \A n \in Runs : \A q \in Gens :
        (run[n].status = "WAITING_INBOX" /\ run[n].lapsed /\ run[n].asking = q)
            ~> ~(run[n].status = "WAITING_INBOX" /\ run[n].asking = q)

\* Whatever becomes of its runner, its operator or its human, a Run is settled:
\* the sweep alone sees to it.
EveryRunSettles == SilentRunSettles /\ CancelSettles /\ ExpiredQuestionSettles

-----------------------------------------------------------------------------
(***************************************************************************)
(* What comments and tests of the repository say and the code does not do. *)
(* Each of these is violated; README.md tells the traces.                  *)
(***************************************************************************)

\* The newest Run's leaseLossRefunds is the running total of refunded attempts
\* and the cap bounds it (schema.prisma), so platform losses pay for at most
\* RefundCap Runs beyond the budget.
LossRefundsAreCapped == births <= peak + RefundCap + capped + uncapped

\* A cancellation the runner never acknowledges is settled without a retry:
\* while a cancelled Run is open, no new Run is born (active-run-cancellation
\* test).
CancellationNeverRetries ==
    [][\A n \in Runs : run[n].cancel # "none" /\ run[n].status \in Open
                           => births' = births]_vars

\* Runners that keep polling: a claimable Run is eventually claimed.
PollingSpec == LiveSpec /\ \A n \in Runs : WF_vars(ClaimRun(n))

\* Terminalization of a cancelled Run is owed by its runner or by
\* reconciliation (run-cancel.ts): sooner or later the Run is terminal.  (Runs
\* that used up the bound MaxGen are left out.)
CancellationIsSettled ==
    \A n \in Runs : (run[n].cancel = "requested" /\ run[n].gen < MaxGen)
                        ~> run[n].status \in Terminal

\* Terminalizing a Run closes the question its Session waits for: no ended Run
\* leaves an open question (run-terminal.ts).
NoOpenQuestionAfterEnd ==
    \A n \in Runs : run[n].status \in Terminal => run[n].questions = {}

=============================================================================
